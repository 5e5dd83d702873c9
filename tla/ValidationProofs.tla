--------------------------- MODULE ValidationProofs ---------------------------
(***************************************************************************)
(* The two validators agree on names in one direction, and what the        *)
(* webhook's checks guarantee, for every set of names, organizations,      *)
(* templates and flags.                                                    *)
(***************************************************************************)
EXTENDS BindingValidation, TLAPS

\* A name the webhook takes for good passes the controller's checks of names:
\* its pattern allows less and its list of privileged names holds more.
LEMMA WebhookNamesPass ==
    ASSUME NEW n \in Names, WebhookName(n)
    PROVE  ControllerName(n)
<1>1. n \in Seq(STRING) /\ n # <<>>
  BY ValidationAssumption DEF ValidationAssumption
<1>2. /\ \A i \in 1..Len(n) : n[i] \in Letters \cup {""}
      /\ n[1] # ""
      /\ \A p \in WebhookPrivileged : ~StartsWith(n, p)
  BY DEF WebhookName, WebhookPattern
<1>3. n # <<"">>
  <2>1. <<"">>[1] = ""
    OBVIOUS
  <2> QED
    BY <1>2, <2>1
<1>4. PrivilegedNamespaces \subseteq WebhookPrivileged
  BY DEF WebhookPrivileged
<1> QED
  BY <1>2, <1>3, <1>4 DEF ControllerName, ControllerPattern

-----------------------------------------------------------------------------
(***************************************************************************)
(* The inductive invariant: names pass the webhook from the first request  *)
(* on, edits stay with the tenant, and objects keep the names they were    *)
(* made under.                                                             *)
(***************************************************************************)
AdmittedName == rb.present => WebhookName(rb.spec.pipelineName)

MadeNames == \A o \in made : WebhookName(o.name)

Inv == TypeOK /\ AdmittedName /\ MadeNames /\ NoOrphanedTenant

\* Gone is a RepoBinding that is not present.
LEMMA GoneTyped == Gone \in RepoBinding /\ ~Gone.present
<1>1. PICK a \in AphexOrgs, r \in RepoOrgs, n \in Names, t \in Templates : TRUE
  BY ValidationAssumption DEF ValidationAssumption
<1>2. [aphexOrg |-> a, repoOrg |-> r, pipelineName |-> n, templateRef |-> t] \in Specs
  BY DEF Specs
<1>3. (CHOOSE s \in Specs : TRUE) \in Specs
  BY <1>2
<1>4. Created(CHOOSE s \in Specs : TRUE) \in RepoBinding
  BY <1>3 DEF Created, RepoBinding, Phases
<1> QED
  BY <1>4 DEF Gone, RepoBinding

\* An object of a stored spec is one the type invariant allows, and what part it
\* is of says which object of the spec it is.
LEMMA ObjectTyped ==
    ASSUME NEW s \in Specs, NEW part \in Parts
    PROVE  /\ Object(part, s) \in [part: Parts, org: AphexOrgs \cup {""}, name: Names]
           /\ Object(part, s).part = part
           /\ Object(part, s).name = s.pipelineName
BY DEF Object, Specs

LEMMA InvInit ==
    ASSUME Init
    PROVE  Inv
<1>1. PICK flag \in Flags : approved = ParseApprovedOrgs(flag)
  BY DEF Init
<1>2. approved \subseteq RepoOrgs
  BY <1>1, ValidationAssumption DEF ValidationAssumption, Part, ParseApprovedOrgs
<1>3. rb \in RepoBinding /\ ~rb.present
  BY GoneTyped DEF Init
<1> QED
  BY <1>2, <1>3 DEF Init, Inv, TypeOK, AdmittedName, MadeNames, NoOrphanedTenant

\* A step that leaves the objects alone and the binding with its tenant.
LEMMA SameTenantKeeps ==
    ASSUME Inv, made' = made, terminating' = terminating, foreign' \in BOOLEAN,
           approved' \subseteq RepoOrgs, rb' \in RepoBinding,
           rb'.present = rb.present, rb.finalizer => rb'.finalizer,
           SameTenant(rb.spec, rb'.spec)
    PROVE  Inv'
<1>1. TypeOK' /\ MadeNames' /\ AdmittedName'
  BY DEF Inv, TypeOK, MadeNames, AdmittedName, SameTenant
<1>2. \A part \in Parts : Object(part, rb'.spec) = Object(part, rb.spec)
  BY DEF Object, SameTenant
<1>3. NoOrphanedTenant'
  BY <1>2 DEF Inv, TypeOK, NoOrphanedTenant
<1> QED
  BY <1>1, <1>3 DEF Inv

\* A binding without finalizer, or none at all, leaves nothing to be orphaned
\* when it comes or goes.
LEMMA UsersKeep ==
    ASSUME Inv, NEW s \in Specs, UserCreate(s) \/ UserUpdate(s) \/ UserDelete
    PROVE  Inv'
<1>0. TypeOK /\ AdmittedName /\ MadeNames /\ NoOrphanedTenant
  BY DEF Inv
<1>1. CASE UserCreate(s)
  <2>1. rb' \in RepoBinding /\ rb'.spec = s
    <3>1. rb' = Created(s) /\ 0 \in 0..3
      BY <1>1 DEF UserCreate
    <3> QED
      BY <3>1 DEF Created, RepoBinding, Phases
  <2>2. TypeOK' /\ AdmittedName' /\ MadeNames'
    BY <1>0, <1>1, <2>1
       DEF UserCreate, WebhookAccepts, tenantVars, TypeOK, AdmittedName, MadeNames
  <2>3. NoOrphanedTenant'
    BY <1>0, <1>1 DEF UserCreate, tenantVars, NoOrphanedTenant
  <2> QED
    BY <2>2, <2>3 DEF Inv
<1>2. CASE UserUpdate(s)
  <2>1. /\ rb' \in RepoBinding /\ rb'.spec = s
        /\ rb'.present = rb.present /\ rb'.finalizer = rb.finalizer
    BY <1>0, <1>2 DEF UserUpdate, TypeOK, RepoBinding
  <2> QED
    BY <1>0, <1>2, <2>1, SameTenantKeeps DEF UserUpdate, tenantVars, TypeOK
<1>3. CASE UserDelete
  <2>1. CASE rb.finalizer
    <3>1. /\ rb' \in RepoBinding /\ rb'.spec = rb.spec
          /\ rb'.present = rb.present /\ rb'.finalizer = rb.finalizer
      BY <1>0, <1>3, <2>1 DEF UserDelete, TypeOK, RepoBinding
    <3> QED
      BY <1>0, <1>3, <2>1, <3>1, SameTenantKeeps
         DEF UserDelete, tenantVars, TypeOK, SameTenant
  <2>2. CASE ~rb.finalizer
    <3>1. /\ rb' = Gone /\ made' = made /\ terminating' = terminating
          /\ approved' = approved /\ foreign' = FALSE
      BY <1>3, <2>2 DEF UserDelete, tenantVars
    <3>2. TypeOK' /\ AdmittedName' /\ MadeNames'
      BY <1>0, <3>1, GoneTyped DEF TypeOK, AdmittedName, MadeNames
    <3>3. NoOrphanedTenant'
      BY <1>0, <2>2, <3>1 DEF NoOrphanedTenant
    <3> QED
      BY <3>2, <3>3 DEF Inv
  <2> QED
    BY <2>1, <2>2
<1> QED
  BY <1>1, <1>2, <1>3

\* What provisioning makes is of the stored spec, under the finalizer.
LEMMA ProvisionKeeps ==
    ASSUME Inv, ProvisionGroup
    PROVE  Inv'
<1>0. TypeOK /\ AdmittedName /\ MadeNames /\ NoOrphanedTenant
  BY DEF Inv
<1>1. /\ rb.present /\ rb.finalizer /\ rb.recorded \in 0..2 /\ rb.spec \in Specs
      /\ approved' = approved /\ terminating' = terminating /\ foreign' = foreign
  <2>1. rb.recorded \in 0..3 /\ rb.recorded < 3 /\ rb.spec \in Specs
    BY <1>0 DEF ProvisionGroup, TypeOK, RepoBinding
  <2> QED
    BY <2>1 DEF ProvisionGroup, Provisions
<1>2. PICK parts \in SUBSET Group[rb.recorded + 1] :
        /\ made' = made \cup {Object(part, rb.spec) : part \in parts}
        /\ \/ \E phase \in {rb.phase, "Failed"} : rb' = [rb EXCEPT !.phase = phase]
           \/ rb' = [rb EXCEPT !.recorded = @ + 1]
  BY DEF ProvisionGroup
<1>3. parts \subseteq Parts
  <2>1. Group[rb.recorded + 1] \in {Group[1], Group[2], Group[3]}
    BY <1>1
  <2> QED
    BY <2>1 DEF Group, Parts
<1>4. /\ rb' \in RepoBinding /\ rb'.spec = rb.spec
      /\ rb'.present /\ rb'.finalizer
  <2>1. CASE rb' = [rb EXCEPT !.recorded = @ + 1]
    <3>1. rb.recorded + 1 \in 0..3
      BY <1>1
    <3>2. rb \in RepoBinding
      BY <1>0 DEF TypeOK
    <3> QED
      BY <1>1, <2>1, <3>1, <3>2 DEF RepoBinding
  <2>2. CASE \E phase \in {rb.phase, "Failed"} : rb' = [rb EXCEPT !.phase = phase]
    BY <1>0, <1>1, <2>2 DEF TypeOK, RepoBinding, Phases
  <2> QED
    BY <1>2, <2>1, <2>2
<1>5. ASSUME NEW o \in made'
      PROVE  o \in made \/ \E part \in Parts : o = Object(part, rb.spec)
  BY <1>2, <1>3
<1>6. ASSUME NEW part \in Parts
      PROVE  /\ Object(part, rb.spec) \in
                    [part: Parts, org: AphexOrgs \cup {""}, name: Names]
             /\ Object(part, rb.spec).part = part
             /\ Object(part, rb.spec).name = rb.spec.pipelineName
  BY <1>1, ObjectTyped
<1>7. TypeOK'
  <2>1. made' \subseteq [part: Parts, org: AphexOrgs \cup {""}, name: Names]
    <3> SUFFICES ASSUME NEW o \in made'
                 PROVE  o \in [part: Parts, org: AphexOrgs \cup {""}, name: Names]
      OBVIOUS
    <3>1. CASE o \in made
      BY <1>0, <3>1 DEF TypeOK
    <3>2. CASE \E part \in Parts : o = Object(part, rb.spec)
      BY <1>6, <3>2
    <3> QED
      BY <1>5, <3>1, <3>2
  <2> QED
    BY <1>0, <1>1, <1>4, <2>1 DEF TypeOK
<1>8. WebhookName(rb.spec.pipelineName)
  BY <1>0, <1>1 DEF AdmittedName
<1>9. MadeNames'
  <2> SUFFICES ASSUME NEW o \in made'
               PROVE  WebhookName(o.name)
    BY DEF MadeNames
  <2>1. CASE o \in made
    BY <1>0, <2>1 DEF MadeNames
  <2>2. CASE \E part \in Parts : o = Object(part, rb.spec)
    BY <1>6, <1>8, <2>2
  <2> QED
    BY <1>5, <2>1, <2>2
<1>10. NoOrphanedTenant'
  <2> SUFFICES ASSUME NEW o \in made', o.part # "Access"
               PROVE  \/ o = Object(o.part, rb.spec)
                      \/ o.part = "Namespace" /\ o.name \in terminating
    BY <1>1, <1>4 DEF NoOrphanedTenant
  <2>1. CASE o \in made
    BY <1>0, <2>1 DEF NoOrphanedTenant
  <2>2. CASE \E part \in Parts : o = Object(part, rb.spec)
    BY <1>6, <2>2
  <2> QED
    BY <1>5, <2>1, <2>2
<1> QED
  BY <1>4, <1>7, <1>8, <1>9, <1>10 DEF Inv, AdmittedName

\* However far a cleanup comes, it only takes objects away, and a namespace it
\* takes away is marked.
LEMMA CleanupTakes ==
    ASSUME Inv, NEW n \in 0..3, CleanedUp(n)
    PROVE  /\ made' \subseteq made
           /\ terminating \subseteq terminating'
           /\ terminating' \subseteq Names
           /\ n = 3 => \A o \in made' : \A part \in Parts \ {"Access"} :
                o = Object(part, rb.spec) =>
                    o.part = "Namespace" /\ o.name \in terminating'
<1> DEFINE taken == {Object(CleanupParts[i], rb.spec) : i \in 1..n}
<1>1. /\ made' = {o \in made : o \in taken => o.part = "Namespace"}
      /\ terminating' = terminating \cup
            {o.name : o \in {t \in taken \cap made : t.part = "Namespace"}}
  BY DEF CleanedUp
<1>2. terminating' \subseteq Names
  <2> HIDE DEF taken
  <2> QED
    BY <1>1 DEF Inv, TypeOK
<1>3. ASSUME n = 3, NEW o \in made', NEW part \in Parts \ {"Access"},
             o = Object(part, rb.spec)
      PROVE  o.part = "Namespace" /\ o.name \in terminating'
  <2>1. \E i \in 1..3 : CleanupParts[i] = part
    <3>1. /\ CleanupParts[1] = "Trigger" /\ CleanupParts[2] = "AppProject"
          /\ CleanupParts[3] = "Namespace"
      BY DEF CleanupParts
    <3> QED
      BY <3>1 DEF Parts
  <2>2. o \in taken /\ o \in made
    BY <1>1, <1>3, <2>1
  <2> HIDE DEF taken
  <2> QED
    BY <1>1, <2>2
<1> QED
  <2> HIDE DEF taken
  <2> QED
    BY <1>1, <1>2, <1>3

\* A cleanup that fails leaves the binding to try again; one that succeeds
\* leaves at most a namespace that is going, and Access.
LEMMA CleanupKeeps ==
    ASSUME Inv, CleanupFails \/ Release
    PROVE  Inv'
<1>0. TypeOK /\ AdmittedName /\ MadeNames /\ NoOrphanedTenant
  BY DEF Inv
<1>1. CASE CleanupFails
  <2>1. PICK n \in 0..3 : CleanedUp(n)
    BY <1>1 DEF CleanupFails
  <2>2. made' \subseteq made /\ terminating \subseteq terminating' /\ terminating' \subseteq Names
    BY <2>1, CleanupTakes
  <2>3. approved' = approved /\ rb' = rb /\ foreign' = foreign
    BY <1>1 DEF CleanupFails
  <2>4. TypeOK' /\ AdmittedName' /\ MadeNames'
    BY <1>0, <2>2, <2>3 DEF TypeOK, AdmittedName, MadeNames
  <2>5. NoOrphanedTenant'
    BY <1>0, <2>2, <2>3 DEF NoOrphanedTenant
  <2> QED
    BY <2>4, <2>5 DEF Inv
<1>2. CASE Release
  <2>1. /\ CleanedUp(3) /\ rb' = Gone
        /\ approved' = approved /\ foreign' = foreign
    BY <1>2 DEF Release
  <2>2. 3 \in 0..3
    OBVIOUS
  <2>3. /\ made' \subseteq made /\ terminating \subseteq terminating'
        /\ terminating' \subseteq Names
        /\ \A o \in made' : \A part \in Parts \ {"Access"} :
             o = Object(part, rb.spec) => o.part = "Namespace" /\ o.name \in terminating'
    BY <2>1, <2>2, CleanupTakes
  <2>4. TypeOK' /\ AdmittedName' /\ MadeNames'
    BY <1>0, <2>1, <2>3, GoneTyped DEF TypeOK, AdmittedName, MadeNames
  <2>5. NoOrphanedTenant'
    <3> SUFFICES ASSUME NEW o \in made', o.part # "Access"
                 PROVE  o.part = "Namespace" /\ o.name \in terminating'
      BY DEF NoOrphanedTenant
    <3>1. o.part \in Parts \ {"Access"}
      BY <1>0, <2>3 DEF TypeOK
    <3> QED
      BY <1>0, <2>3, <3>1 DEF NoOrphanedTenant
  <2> QED
    BY <2>4, <2>5 DEF Inv
<1> QED
  BY <1>1, <1>2

LEMMA ReconcileKeeps ==
    ASSUME Inv, Reconcile
    PROVE  Inv'
<1>0. TypeOK
  BY DEF Inv
<1>1. CASE Admit \/ Reject \/ Initialize \/ Accept \/ Finalize
  <2>1. /\ rb' \in RepoBinding /\ rb'.spec = rb.spec /\ rb'.present = rb.present
        /\ rb.finalizer => rb'.finalizer
    BY <1>0, <1>1
       DEF Admit, Reject, Initialize, Accept, Finalize, TypeOK, RepoBinding, Phases
  <2>2. /\ approved' = approved /\ foreign' = foreign
        /\ made' = made /\ terminating' = terminating
    BY <1>1 DEF Admit, Reject, Initialize, Accept, Finalize, tenantVars
  <2> QED
    BY <1>0, <2>1, <2>2, SameTenantKeeps DEF TypeOK, SameTenant
<1> QED
  BY <1>1, ProvisionKeeps, CleanupKeeps DEF Reconcile

LEMMA InvInductive ==
    ASSUME Inv, [Next]_vars
    PROVE  Inv'
<1>0. TypeOK /\ AdmittedName /\ MadeNames /\ NoOrphanedTenant
  BY DEF Inv
<1>1. CASE UNCHANGED vars
  BY <1>0, <1>1, SameTenantKeeps DEF vars, TypeOK, SameTenant
<1>2. CASE Reconcile
  BY <1>2, ReconcileKeeps
<1>3. CASE \E s \in Specs : UserCreate(s) \/ UserUpdate(s)
  BY <1>3, UsersKeep
<1>4. CASE UserDelete
  <2>1. rb.spec \in Specs
    BY <1>0 DEF TypeOK, RepoBinding
  <2> QED
    BY <1>4, <2>1, UsersKeep
<1>5. CASE ForeignChanges
  BY <1>0, <1>5, SameTenantKeeps DEF ForeignChanges, tenantVars, TypeOK, SameTenant
<1>6. CASE \E flag \in Flags : Reconfigure(flag)
  <2>1. PICK flag \in Flags : Reconfigure(flag)
    BY <1>6
  <2>2. approved' \subseteq RepoOrgs
    BY <2>1, ValidationAssumption
       DEF Reconfigure, ValidationAssumption, Part, ParseApprovedOrgs
  <2> QED
    BY <1>0, <2>1, <2>2, SameTenantKeeps DEF Reconfigure, tenantVars, TypeOK, SameTenant
<1>7. CASE \E n \in Names : Drain(n)
  <2>1. PICK n \in Names : Drain(n)
    BY <1>7
  <2>2. /\ made' = {o \in made : ~(o.part = "Namespace" /\ o.name = n)}
        /\ terminating' = terminating \ {n}
        /\ approved' = approved /\ rb' = rb /\ foreign' \in BOOLEAN
    BY <2>1 DEF Drain
  <2>3. TypeOK' /\ AdmittedName' /\ MadeNames'
    BY <1>0, <2>2 DEF TypeOK, AdmittedName, MadeNames
  <2>4. NoOrphanedTenant'
    BY <1>0, <2>2 DEF NoOrphanedTenant
  <2> QED
    BY <2>3, <2>4 DEF Inv
<1> QED
  BY <1>1, <1>2, <1>3, <1>4, <1>5, <1>6, <1>7 DEF Next

-----------------------------------------------------------------------------
\* Whatever is edited, dropped from the flag or cleaned up half-way, and however
\* often a binding of the name is created anew: every Trigger, TriggerTemplate and
\* AppProject belongs to the tenant the stored spec names, under its finalizer,
\* and so does every namespace that is not being deleted. validateImmutableFields
\* and the order of executeCleanupSteps and the release are what it rests on. It
\* does not speak of the RoleBinding in the argocd namespace and the listener's
\* entry, which every deletion leaves behind.
THEOREM TenantsAreOwned == Spec => []NoOrphanedTenant
<1>1. Inv => NoOrphanedTenant
  BY DEF Inv
<1> QED
  BY InvInit, InvInductive, <1>1, PTL DEF Spec

\* No namespace of the platform becomes a tenant's: the webhook's check of the
\* name holds for as long as the binding exists, under every later flag, and what
\* a cleanup leaves behind has a name it has let pass.
THEOREM PlatformIsSpared == Spec => []NoPrivilegedTenant
<1>1. Inv => NoPrivilegedTenant
  BY DEF Inv, MadeNames, NoPrivilegedTenant, WebhookName,
         WebhookPrivileged, PlatformNamespaces
<1> QED
  BY InvInit, InvInductive, <1>1, PTL DEF Spec

\* The controller rejects nothing the webhook has let in but for an
\* organization that is not compiled in or a template it does not have.
THEOREM RejectionExplained == Spec => RejectionIsExplained
<1>1. ASSUME Inv, Reject
      PROVE  rb.spec.repoOrg \notin CompiledOrgs \/ rb.spec.templateRef \notin Catalog
  <2>1. rb.spec.pipelineName \in Names /\ WebhookName(rb.spec.pipelineName)
    BY <1>1 DEF Inv, TypeOK, AdmittedName, Reject, RepoBinding, Specs
  <2>2. ControllerName(rb.spec.pipelineName)
    BY <2>1, WebhookNamesPass
  <2> QED
    BY <1>1, <2>2 DEF Reject, ControllerAccepts
<1> QED
  BY InvInit, InvInductive, <1>1, PTL DEF Spec, RejectionIsExplained
=============================================================================
