--------------------------- MODULE RepoBindingProofs ---------------------------
(***************************************************************************)
(* Theorems about RepoBindingReconciler, for every set of bindings, specs  *)
(* and lagging kinds, every bound, and both values of the switches.        *)
(***************************************************************************)
EXTENDS RepoBindingReconciler, TLAPS

-----------------------------------------------------------------------------
(***************************************************************************)
(* The lists the reconcile walks.                                          *)
(***************************************************************************)
AllSteps == Steps \cup {Finalization}

\* Every step has between one and six objects, all of known kinds.
LEMMA StepKindsTyped ==
    \A s \in AllSteps :
        /\ Len(StepKinds[s]) \in 1..6
        /\ 1 <= Len(StepKinds[s])
        /\ \A i \in 1..Len(StepKinds[s]) : StepKinds[s][i] \in Kinds
<1>1. /\ StepKinds["namespace"] = NamespaceStep
      /\ StepKinds["pipeline"] = PipelineStep
      /\ StepKinds["serviceAccount"] = ServiceAccountStep
      /\ StepKinds["rbac"] = RBACStep
      /\ StepKinds["listener"] = ListenerStep
      /\ StepKinds["triggerTemplate"] = TriggerTemplateStep
      /\ StepKinds["trigger"] = TriggerStep
      /\ StepKinds["webhookInfo"] = WebhookInfoStep
  BY DEF StepKinds
<1> DEFINE Lists == {NamespaceStep, PipelineStep, ServiceAccountStep, RBACStep,
                     ListenerStep, TriggerTemplateStep, TriggerStep, WebhookInfoStep}
<1> USE DEF NamespaceStep, PipelineStep, ServiceAccountStep, RBACStep,
            ListenerStep, TriggerTemplateStep, TriggerStep, WebhookInfoStep
<1>2. \A l \in Lists : \A i \in 1..Len(l) : l[i] \in Kinds
  BY DEF Kinds, Namespaced
<1>3. \A l \in Lists : Len(l) \in 1..6
  OBVIOUS
<1>4. \A l \in Lists : 1 <= Len(l)
  OBVIOUS
<1> HIDE DEF NamespaceStep, PipelineStep, ServiceAccountStep, RBACStep,
             ListenerStep, TriggerTemplateStep, TriggerStep, WebhookInfoStep
<1> QED
  BY <1>1, <1>2, <1>3, <1>4 DEF AllSteps, Steps, Finalization

\* What comes before each step, spelled out.
LEMMA BeforeSteps ==
    /\ Before("namespace") = {}
    /\ Before("pipeline") = {"namespace"}
    /\ Before("serviceAccount") = {"namespace", "pipeline"}
    /\ Before("rbac") = {"namespace", "pipeline", "serviceAccount"}
    /\ Before("listener") = {"namespace", "pipeline", "serviceAccount", "rbac"}
    /\ Before("triggerTemplate") =
          {"namespace", "pipeline", "serviceAccount", "rbac", "listener"}
    /\ Before("trigger") =
          {"namespace", "pipeline", "serviceAccount", "rbac", "listener",
           "triggerTemplate"}
BY DEF Before, StepOrder

\* NextStep is the first unset step, and the finalization only when none is.
LEMMA NextStepFirst ==
    ASSUME NEW flags \in SUBSET Steps
    PROVE  /\ NextStep(flags) \in AllSteps
           /\ NextStep(flags) = Finalization => flags = Steps
           /\ NextStep(flags) # Finalization =>
                 NextStep(flags) \in Steps /\ Before(NextStep(flags)) \subseteq flags
<1>1. CASE flags = Steps
  BY <1>1 DEF NextStep, AllSteps
<1>2. CASE flags # Steps
  <2>1. \E s \in Steps \ flags : Before(s) \subseteq flags
    <3> PICK t \in Steps : t \notin flags
      BY <1>2
    <3>1. CASE "namespace" \notin flags
      BY <3>1, BeforeSteps DEF Steps
    <3>2. CASE "pipeline" \notin flags /\ {"namespace"} \subseteq flags
      BY <3>2, BeforeSteps DEF Steps
    <3>3. CASE "serviceAccount" \notin flags /\ {"namespace", "pipeline"} \subseteq flags
      BY <3>3, BeforeSteps DEF Steps
    <3>4. CASE "rbac" \notin flags /\ {"namespace", "pipeline", "serviceAccount"} \subseteq flags
      BY <3>4, BeforeSteps DEF Steps
    <3>5. CASE "listener" \notin flags /\ {"namespace", "pipeline", "serviceAccount", "rbac"} \subseteq flags
      BY <3>5, BeforeSteps DEF Steps
    <3>6. CASE "triggerTemplate" \notin flags /\ {"namespace", "pipeline", "serviceAccount", "rbac", "listener"} \subseteq flags
      BY <3>6, BeforeSteps DEF Steps
    <3>7. CASE "trigger" \notin flags /\ {"namespace", "pipeline", "serviceAccount", "rbac", "listener", "triggerTemplate"} \subseteq flags
      BY <3>7, BeforeSteps DEF Steps
    <3> QED
      BY <3>1, <3>2, <3>3, <3>4, <3>5, <3>6, <3>7 DEF Steps
  <2>2. NextStep(flags) \in Steps \ flags /\ Before(NextStep(flags)) \subseteq flags
    BY <1>2, <2>1 DEF NextStep
  <2> QED
    BY <2>2 DEF AllSteps, Steps, Finalization
<1> QED
  BY <1>1, <1>2

\* The stages Dispatch can choose, and what each says of the copy.
LEMMA DispatchStages ==
    ASSUME NEW o \in RepoBinding
    PROVE  /\ Dispatch(o) \in {"idle", "admit", "initialize", "validate",
                               "provision", "cleanup"}
           /\ Dispatch(o) = "cleanup" => o.deleting /\ o.finalizer
           /\ Dispatch(o) \in Provisioning => ~o.deleting /\ o.finalizer
BY DEF Dispatch, AfterInitialize, Provisioning, RepoBinding

-----------------------------------------------------------------------------
(***************************************************************************)
(* Type correctness.  TypeOK is inductive together with PositionOK, which  *)
(* keeps the position inside the list it points into.                      *)
(***************************************************************************)
TypeInv == TypeOK /\ PositionOK

\* The records the actions build are RepoBindings.
LEMMA RecordsTyped ==
    /\ Absent \in RepoBinding
    /\ \A s \in Specs : Created(s) \in RepoBinding
<1>1. AnySpec \in Specs
  BY TenantAssumption DEF AnySpec
<1>2. \A s \in Specs : Created(s) \in RepoBinding
  BY DEF Created, RepoBinding, Phases
<1>3. Absent \in RepoBinding
  BY <1>1 DEF Absent, Created, RepoBinding, Phases
<1> QED
  BY <1>2, <1>3

\* So are the results of the writes to the fields of a stored object.
LEMMA UpdatesTyped ==
    ASSUME NEW o \in RepoBinding
    PROVE  /\ \A ph \in Phases : [o EXCEPT !.phase = ph] \in RepoBinding
           /\ \A s \in Specs : [o EXCEPT !.spec = s] \in RepoBinding
           /\ \A s \in Steps : [o EXCEPT !.flags = @ \cup {s}] \in RepoBinding
           /\ [o EXCEPT !.finalizer = TRUE] \in RepoBinding
           /\ [o EXCEPT !.deleting = TRUE] \in RepoBinding
<1>1. \A ph \in Phases : [o EXCEPT !.phase = ph] \in RepoBinding
  BY DEF RepoBinding
<1>2. \A s \in Specs : [o EXCEPT !.spec = s] \in RepoBinding
  BY DEF RepoBinding
<1>3. \A s \in Steps : [o EXCEPT !.flags = @ \cup {s}] \in RepoBinding
  BY DEF RepoBinding
<1>4. /\ [o EXCEPT !.finalizer = TRUE] \in RepoBinding
      /\ [o EXCEPT !.deleting = TRUE] \in RepoBinding
  BY DEF RepoBinding
<1> QED
  BY <1>1, <1>2, <1>3, <1>4

\* Everything of TypeOK but the variables that Return sets.
OthersTyped ==
    /\ TenantTypeOK
    /\ rb \in [Bindings -> RepoBinding]
    /\ cache \in [Bindings -> RepoBinding]
    /\ behind \in [Bindings -> SUBSET {"cache", "local"}]
    /\ lives \in [Bindings -> 0..MaxLives]
    /\ edits \in 0..MaxEdits
    /\ faults \in 0..MaxFaults

\* A reconcile that returns leaves well-typed control state behind.
LEMMA ReturnTyped ==
    ASSUME TypeInv, OthersTyped', NEW b \in Bindings, NEW again, Return(b, again)
    PROVE  TypeInv'
<1> USE DEF TypeInv, TypeOK, PositionOK
<1>1. /\ pc' \in [Bindings -> Stages]
      /\ at' \in [Bindings -> 1..7]
      /\ queue' \subseteq Bindings
  BY DEF Return, Stages
<1>2. local' \in [Bindings -> RepoBinding]
  BY RecordsTyped DEF Return
<1>3. PositionOK'
  <2> SUFFICES ASSUME NEW c \in Bindings
               PROVE  /\ pc'[c] = "provision" => at'[c] <= Len(StepKinds[CurrentStep(c)'])
                      /\ pc'[c] \notin {"provision", "cleanup"} => at'[c] = 1
    OBVIOUS
  <2>1. CASE c = b
    BY <2>1 DEF Return
  <2>2. CASE c # b
    <3>1. pc'[c] = pc[c] /\ at'[c] = at[c] /\ local'[c] = local[c]
      BY <2>2 DEF Return
    <3> QED
      BY <3>1 DEF CurrentStep
  <2> QED
    BY <2>1, <2>2
<1> QED
  BY <1>1, <1>2, <1>3 DEF OthersTyped

\* Storing a RepoBinding and returning.
LEMMA WriteAndReturnTyped ==
    ASSUME TypeInv, NEW b \in Bindings, NEW o \in RepoBinding, NEW again,
           WriteAndReturn(b, o, again)
    PROVE  TypeInv'
<1>1. OthersTyped'
  BY DEF WriteAndReturn, OthersTyped, TypeInv, TypeOK, TenantTypeOK, tenantVars
<1> QED
  BY <1>1, ReturnTyped DEF WriteAndReturn

\* Returning with nothing stored, whatever becomes of the fault budget.
LEMMA DropAndReturnTyped ==
    ASSUME TypeInv, NEW b \in Bindings, NEW again, Return(b, again),
           behind' = [behind EXCEPT ![b] = @ \ {"local"}],
           faults' \in 0..MaxFaults,
           UNCHANGED <<tenantVars, rb, cache, lives, edits>>
    PROVE  TypeInv'
<1>1. OthersTyped'
  BY DEF OthersTyped, TypeInv, TypeOK, TenantTypeOK, tenantVars
<1> QED
  BY <1>1, ReturnTyped

\* At position 1 every list of objects can be entered.
LEMMA ListsNotEmpty ==
    ASSUME NEW o \in RepoBinding
    PROVE  /\ Len(StepKinds[NextStep(o.flags)]) \in 1..6
           /\ 1 <= Len(StepKinds[NextStep(o.flags)])
           /\ \A i \in 1..Len(StepKinds[NextStep(o.flags)]) :
                 StepKinds[NextStep(o.flags)][i] \in Kinds
<1>1. o.flags \in SUBSET Steps
  BY DEF RepoBinding
<1>2. NextStep(o.flags) \in AllSteps
  BY <1>1, NextStepFirst
<1> QED
  BY <1>2, StepKindsTyped

\* A patch the reconcile continues after.
LEMMA WriteAndContinueTyped ==
    ASSUME TypeInv, NEW b \in Bindings, NEW o \in RepoBinding,
           NEW stage \in {"idle", "validate", "provision"},
           pc[b] \in {"initialize", "validate"}, WriteAndContinue(b, o, stage)
    PROVE  TypeInv'
<1> USE DEF TypeInv, TypeOK, WriteAndContinue
<1>1. local' \in [Bindings -> RepoBinding]
  OBVIOUS
<1>2. PositionOK'
  <2> SUFFICES ASSUME NEW c \in Bindings
               PROVE  /\ pc'[c] = "provision" => at'[c] <= Len(StepKinds[CurrentStep(c)'])
                      /\ pc'[c] \notin {"provision", "cleanup"} => at'[c] = 1
    BY DEF PositionOK
  <2>1. CASE c = b
    <3>1. at'[c] = 1
      BY <2>1 DEF PositionOK
    <3>2. 1 <= Len(StepKinds[NextStep(local'[c].flags)])
      BY <1>1, ListsNotEmpty
    <3> QED
      BY <3>1, <3>2 DEF CurrentStep
  <2>2. CASE c # b
    <3>1. pc'[c] = pc[c] /\ at'[c] = at[c] /\ local'[c] = local[c]
      BY <2>2
    <3> QED
      BY <3>1 DEF CurrentStep, PositionOK
  <2> QED
    BY <2>1, <2>2
<1>3. pc' \in [Bindings -> Stages]
  BY DEF Stages
<1>4. behind' \in [Bindings -> SUBSET {"cache", "local"}]
  OBVIOUS
<1> QED
  BY <1>1, <1>2, <1>3, <1>4 DEF tenantVars, TenantTypeOK

\* Short of the last position there is a next one.
LEMMA NextPosition ==
    ASSUME NEW i \in 1..7, NEW n \in 1..6, i <= n, i # n
    PROVE  i + 1 \in 1..7 /\ i + 1 <= n
OBVIOUS

\* The position and the stage after a step inside provision or cleanup.
LEMMA StageStepTyped ==
    ASSUME TypeInv, NEW b \in Bindings,
           NEW stage \in {"provision", "record", "markFailed", "cleanup", "release"},
           NEW n \in 1..7,
           pc' = [pc EXCEPT ![b] = stage], at' = [at EXCEPT ![b] = n],
           local' \in [Bindings -> RepoBinding],
           \A c \in Bindings : local'[c].flags = local[c].flags,
           stage = "provision" => n <= Len(StepKinds[CurrentStep(b)]),
           stage \notin {"provision", "cleanup"} => n = 1,
           TenantTypeOK', faults' \in 0..MaxFaults,
           UNCHANGED <<rb, cache, behind, queue, lives, edits>>
    PROVE  TypeInv'
<1> USE DEF TypeInv, TypeOK
<1>1. pc' \in [Bindings -> Stages] /\ at' \in [Bindings -> 1..7]
  BY DEF Stages
<1>2. PositionOK'
  <2> SUFFICES ASSUME NEW c \in Bindings
               PROVE  /\ pc'[c] = "provision" => at'[c] <= Len(StepKinds[CurrentStep(c)'])
                      /\ pc'[c] \notin {"provision", "cleanup"} => at'[c] = 1
    BY DEF PositionOK
  <2>1. CurrentStep(c)' = CurrentStep(c)
    BY DEF CurrentStep
  <2>2. CASE c = b
    BY <2>1, <2>2
  <2>3. CASE c # b
    BY <2>1, <2>3 DEF PositionOK
  <2> QED
    BY <2>2, <2>3
<1> QED
  BY <1>1, <1>2

\* Writing and removing objects keeps TenantObjects well typed.
LEMMA TenantTyped ==
    ASSUME TenantTypeOK, NEW p \in Pipelines
    PROVE  /\ \A k \in Kinds, s \in Specs : Ensure(p, k, s) => TenantTypeOK'
           /\ \A k : Remove(p, k) => TenantTypeOK'
           /\ Drain(p) => TenantTypeOK'
           /\ \A k \in Lagging : SyncView(p, k) => TenantTypeOK'
<1> USE DEF TenantTypeOK
<1>1. \A k \in Kinds, s \in Specs : Ensure(p, k, s) => TenantTypeOK'
  BY DEF Ensure
<1>2. \A k : Remove(p, k) => TenantTypeOK'
  BY DEF Remove
<1>3. Drain(p) => TenantTypeOK'
  BY DEF Drain
<1>4. \A k \in Lagging : SyncView(p, k) => TenantTypeOK'
  BY DEF SyncView
<1> QED
  BY <1>1, <1>2, <1>3, <1>4

\* The last step of a list, or a failed one, rewinds the position.
LEMMA StageLeftTyped ==
    ASSUME TypeInv, NEW b \in Bindings,
           NEW stage \in {"record", "markFailed", "release"},
           pc' = [pc EXCEPT ![b] = stage], at' = [at EXCEPT ![b] = 1],
           local' \in [Bindings -> RepoBinding],
           \A c \in Bindings : local'[c].flags = local[c].flags,
           TenantTypeOK', faults' \in 0..MaxFaults,
           UNCHANGED <<rb, cache, behind, queue, lives, edits>>
    PROVE  TypeInv'
<1> DEFINE n == 1
<1>1. n \in 1..7 /\ stage \notin {"provision", "cleanup"} /\ n = 1
  OBVIOUS
<1>2. at' = [at EXCEPT ![b] = n]
  OBVIOUS
<1> HIDE DEF n
<1> QED
  BY <1>1, <1>2, StageStepTyped

\* Moving on in the list of cleanup steps.
LEMMA CleanupAdvancesTyped ==
    ASSUME TypeInv, NEW b \in Bindings, pc[b] = "cleanup", CleanupAdvances(b),
           TenantTypeOK', faults' \in 0..MaxFaults
    PROVE  TypeInv'
<1>1. Len(CleanupOrder) = 7
  BY DEF CleanupOrder
<1>2. local' \in [Bindings -> RepoBinding]
  BY DEF CleanupAdvances, TypeInv, TypeOK
<1>3. \A c \in Bindings : local'[c].flags = local[c].flags
  BY DEF CleanupAdvances
<1>4. CASE at[b] = 7
  <2>1. pc' = [pc EXCEPT ![b] = "release"] /\ at' = [at EXCEPT ![b] = 1]
    BY <1>1, <1>4 DEF CleanupAdvances
  <2>2. UNCHANGED <<rb, cache, behind, queue, lives, edits>>
    BY DEF CleanupAdvances
  <2> QED
    BY <1>2, <1>3, <2>1, <2>2, StageLeftTyped
<1>5. CASE at[b] # 7
  <2>1. at[b] + 1 \in 1..7
    BY <1>5 DEF TypeInv, TypeOK
  <2>2. pc' = [pc EXCEPT ![b] = "cleanup"] /\ at' = [at EXCEPT ![b] = at[b] + 1]
    BY <1>1, <1>5 DEF CleanupAdvances, TypeInv, TypeOK
  <2>3. UNCHANGED <<rb, cache, behind, queue, lives, edits>>
    BY DEF CleanupAdvances
  <2> QED
    BY <1>2, <1>3, <2>1, <2>2, <2>3, StageStepTyped
<1> QED
  BY <1>4, <1>5

\* The steps of one reconcile.
LEMMA WorkTyped ==
    ASSUME TypeInv, NEW b \in Bindings, Work(b)
    PROVE  TypeInv'
<1>1. rb[b] \in RepoBinding /\ local[b] \in RepoBinding
  BY DEF TypeInv, TypeOK
<1>2. faults \in 0..MaxFaults
  BY DEF TypeInv, TypeOK
<1>3. NextStep(local[b].flags) # Finalization => NextStep(local[b].flags) \in Steps
  BY <1>1, NextStepFirst DEF RepoBinding
<1>4. CASE AdmitRejected(b)
  <2>1. [rb[b] EXCEPT !.phase = "Failed"] \in RepoBinding
    BY <1>1, UpdatesTyped DEF Phases
  <2>2. CASE WriteAndReturn(b, [rb[b] EXCEPT !.phase = "Failed"], FALSE)
    BY <2>1, <2>2, WriteAndReturnTyped
  <2>3. CASE RepeatAndReturn(b, [rb[b] EXCEPT !.phase = "Failed"], FALSE)
    BY <1>2, <2>3, DropAndReturnTyped DEF RepeatAndReturn
  <2> QED
    BY <1>4, <2>2, <2>3 DEF AdmitRejected
<1>5. CASE EnsureFinalizer(b)
  <2>1. [rb[b] EXCEPT !.finalizer = TRUE] \in RepoBinding
    BY <1>1, UpdatesTyped
  <2>2. WriteAndReturn(b, [rb[b] EXCEPT !.finalizer = TRUE], TRUE)
    BY <1>5 DEF EnsureFinalizer
  <2> QED
    BY <2>1, <2>2, WriteAndReturnTyped
<1>6. CASE FinalizerConflict(b) \/ ReleaseConflict(b) \/ PatchNotFound(b)
  BY <1>2, <1>6, DropAndReturnTyped DEF FinalizerConflict, ReleaseConflict, PatchNotFound
<1>7. CASE InitializeStatus(b)
  <2> DEFINE pending == [rb[b] EXCEPT !.phase = "Pending"]
             next == AfterInitialize(IF PatchRefreshes THEN pending ELSE local[b])
  <2>1. pending \in RepoBinding
    BY <1>1, UpdatesTyped DEF Phases
  <2>2. next \in {"idle", "validate", "provision"}
    BY DEF AfterInitialize
  <2>3. pc[b] \in {"initialize", "validate"} /\ WriteAndContinue(b, pending, next)
    BY <1>7 DEF InitializeStatus
  <2> HIDE DEF pending, next
  <2> QED
    BY <2>1, <2>2, <2>3, WriteAndContinueTyped
<1>8. CASE RejectPending(b) \/ MarkFailed(b)
  BY <1>1, <1>8, UpdatesTyped, WriteAndReturnTyped DEF RejectPending, MarkFailed, Phases
<1>9. CASE AcceptPending(b)
  <2>1. [rb[b] EXCEPT !.phase = "Provisioning"] \in RepoBinding
    BY <1>1, UpdatesTyped DEF Phases
  <2> QED
    BY <1>9, <2>1, WriteAndContinueTyped DEF AcceptPending
<1>10. CASE EnsureObject(b)
  <2> DEFINE kinds == StepKinds[NextStep(local[b].flags)]
  <2>1. at[b] \in 1..7 /\ at[b] <= Len(kinds) /\ Len(kinds) \in 1..6 /\ pc[b] = "provision"
    BY <1>1, <1>10, ListsNotEmpty DEF EnsureObject, PositionOK, CurrentStep, TypeInv, TypeOK
  <2>2. CurrentKind(b) \in Kinds
    BY <1>1, <2>1, ListsNotEmpty DEF CurrentKind, CurrentStep
  <2>3. PipelineName[b] \in Pipelines /\ local[b].spec \in Specs
    BY <1>1, ReconcilerAssumption DEF RepoBinding
  <2>4. TenantTypeOK'
    BY <1>10, <2>2, <2>3, TenantTyped DEF EnsureObject, TypeInv, TypeOK
  <2>5. local' \in [Bindings -> RepoBinding]
    BY <1>1, <1>10, UpdatesTyped DEF EnsureObject, TypeInv, TypeOK
  <2>6. \A c \in Bindings : local'[c].flags = local[c].flags
    BY <1>1, <1>10 DEF EnsureObject, TypeInv, TypeOK, RepoBinding
  <2>7. CASE LastKind(b)
    <3>1. pc' = [pc EXCEPT ![b] = "record"] /\ at' = [at EXCEPT ![b] = 1]
      BY <1>10, <2>7 DEF EnsureObject
    <3>2. UNCHANGED <<rb, cache, behind, queue, lives, edits>> /\ faults' \in 0..MaxFaults
      BY <1>2, <1>10 DEF EnsureObject
    <3> QED
      BY <2>4, <2>5, <2>6, <3>1, <3>2, StageLeftTyped
  <2>8. CASE ~LastKind(b)
    <3>1. at[b] + 1 \in 1..7 /\ at[b] + 1 <= Len(StepKinds[CurrentStep(b)])
      <4>1. at[b] # Len(kinds)
        BY <2>8 DEF LastKind, CurrentStep
      <4>2. at[b] + 1 \in 1..7 /\ at[b] + 1 <= Len(kinds)
        BY <2>1, <4>1, NextPosition
      <4> QED
        BY <4>2 DEF CurrentStep
    <3>2. pc' = [pc EXCEPT ![b] = "provision"] /\ at' = [at EXCEPT ![b] = at[b] + 1]
      BY <1>10, <2>1, <2>8 DEF EnsureObject, TypeInv, TypeOK
    <3>3. UNCHANGED <<rb, cache, behind, queue, lives, edits>> /\ faults' \in 0..MaxFaults
      BY <1>2, <1>10 DEF EnsureObject
    <3> QED
      BY <2>4, <2>5, <2>6, <3>1, <3>2, <3>3, StageStepTyped
  <2> QED
    BY <2>7, <2>8
<1>11. CASE ProvisionRefused(b)
  <2>1. TenantTypeOK' /\ local' \in [Bindings -> RepoBinding]
    BY <1>11 DEF ProvisionRefused, TypeInv, TypeOK, TenantTypeOK, tenantVars
  <2>2. \A c \in Bindings : local'[c].flags = local[c].flags
    BY <1>11 DEF ProvisionRefused
  <2>3. pc' = [pc EXCEPT ![b] = "markFailed"] /\ at' = [at EXCEPT ![b] = 1]
    BY <1>11 DEF ProvisionRefused
  <2>4. UNCHANGED <<rb, cache, behind, queue, lives, edits>> /\ faults' \in 0..MaxFaults
    BY <1>2, <1>11 DEF ProvisionRefused
  <2> QED
    BY <2>1, <2>2, <2>3, <2>4, StageLeftTyped
<1>12. CASE RecordStep(b)
  BY <1>1, <1>3, <1>12, UpdatesTyped, WriteAndReturnTyped DEF RecordStep, CurrentStep
<1>13. CASE RecordReady(b)
  BY <1>1, <1>13, UpdatesTyped, WriteAndReturnTyped DEF RecordReady, Phases
<1>14. CASE RemoveFinalizer(b)
  BY <1>14, RecordsTyped, WriteAndReturnTyped DEF RemoveFinalizer
<1>15. CASE CleanupObject(b)
  <2>1. TenantTypeOK'
    BY <1>15, TenantTyped, ReconcilerAssumption DEF CleanupObject, TypeInv, TypeOK
  <2> QED
    BY <1>2, <1>15, <2>1, CleanupAdvancesTyped DEF CleanupObject
<1> QED
  BY <1>4, <1>5, <1>6, <1>7, <1>8, <1>9, <1>10, <1>11, <1>12, <1>13, <1>14, <1>15 DEF Work

\* PositionOK reads only pc, at and local.
LEMMA PositionKept ==
    ASSUME PositionOK, UNCHANGED <<pc, at, local>>
    PROVE  PositionOK'
BY DEF PositionOK, CurrentStep

\* Taking a key off the queue.
LEMMA FetchTyped ==
    ASSUME TypeInv, NEW b \in Bindings, Fetch(b)
    PROVE  TypeInv'
<1> DEFINE stage == IF cache[b].present THEN Dispatch(cache[b]) ELSE "idle"
<1>1. cache[b] \in RepoBinding /\ pc[b] = "idle" /\ at[b] = 1
  BY DEF TypeInv, TypeOK, Fetch, PositionOK
<1>2. stage \in {"idle", "admit", "initialize", "validate", "provision", "cleanup"}
  BY <1>1, DispatchStages
<1>3. /\ pc' = [pc EXCEPT ![b] = stage] /\ at' = at /\ queue' = queue \ {b}
      /\ local' = IF stage = "idle" THEN local ELSE [local EXCEPT ![b] = cache[b]]
      /\ behind' = behind \/ behind' = [behind EXCEPT ![b] = {"cache", "local"}]
      /\ UNCHANGED <<tenantVars, rb, cache, lives, edits, faults>>
  BY DEF Fetch
<1> HIDE DEF stage
<1>4. pc' \in [Bindings -> Stages] /\ local' \in [Bindings -> RepoBinding]
  BY <1>1, <1>2, <1>3 DEF TypeInv, TypeOK, Stages
<1>5. PositionOK'
  <2> SUFFICES ASSUME NEW c \in Bindings
               PROVE  /\ pc'[c] = "provision" => at'[c] <= Len(StepKinds[CurrentStep(c)'])
                      /\ pc'[c] \notin {"provision", "cleanup"} => at'[c] = 1
    BY DEF PositionOK
  <2>1. CASE c = b
    <3>1. at'[c] = 1
      BY <1>1, <1>3, <2>1
    <3>2. 1 <= Len(StepKinds[NextStep(local'[c].flags)])
      BY <1>4, ListsNotEmpty
    <3> QED
      BY <3>1, <3>2 DEF CurrentStep
  <2>2. CASE c # b
    <3>1. pc'[c] = pc[c] /\ at'[c] = at[c] /\ local'[c] = local[c]
      BY <1>3, <2>2 DEF TypeInv, TypeOK
    <3> QED
      BY <3>1 DEF CurrentStep, TypeInv, PositionOK
  <2> QED
    BY <2>1, <2>2
<1>6. behind' \in [Bindings -> SUBSET {"cache", "local"}] /\ queue' \subseteq Bindings
  BY <1>3 DEF TypeInv, TypeOK
<1> QED
  BY <1>3, <1>4, <1>5, <1>6 DEF TypeInv, TypeOK, TenantTypeOK, tenantVars

\* A failed call costs one of the faults the bound allows.
LEMMA FailureTyped ==
    ASSUME TypeInv, NEW b \in Bindings, Failure(b)
    PROVE  TypeInv'
<1>1. faults' \in 0..MaxFaults
  <2>1. faults < MaxFaults /\ faults' = faults + 1
    BY DEF Failure, ProvisionFaulted, CleanupSwallowed, Abort
  <2> QED
    BY <2>1, ReconcilerAssumption DEF TypeInv, TypeOK
<1>2. CASE ProvisionFaulted(b)
  <2>1. TenantTypeOK' /\ local' \in [Bindings -> RepoBinding]
    BY <1>2 DEF ProvisionFaulted, TypeInv, TypeOK, TenantTypeOK, tenantVars
  <2>2. \A c \in Bindings : local'[c].flags = local[c].flags
    BY <1>2 DEF ProvisionFaulted
  <2>3. pc' = [pc EXCEPT ![b] = "markFailed"] /\ at' = [at EXCEPT ![b] = 1]
    BY <1>2 DEF ProvisionFaulted
  <2>4. UNCHANGED <<rb, cache, behind, queue, lives, edits>>
    BY <1>2 DEF ProvisionFaulted
  <2> QED
    BY <1>1, <2>1, <2>2, <2>3, <2>4, StageLeftTyped
<1>3. CASE CleanupSwallowed(b)
  <2>1. TenantTypeOK'
    BY <1>3 DEF CleanupSwallowed, TypeInv, TypeOK, TenantTypeOK, tenantVars
  <2> QED
    BY <1>1, <1>3, <2>1, CleanupAdvancesTyped DEF CleanupSwallowed
<1>4. CASE Abort(b)
  BY <1>1, <1>4, DropAndReturnTyped DEF Abort
<1> QED
  BY <1>2, <1>3, <1>4 DEF Failure

\* Users store well-typed objects and leave the controller's state alone.
LEMMA UserTyped ==
    ASSUME TypeInv, NEW b \in Bindings, User(b)
    PROVE  TypeInv'
<1>1. rb[b] \in RepoBinding
  BY DEF TypeInv, TypeOK
<1>2. ASSUME NEW o \in RepoBinding, StoredBy(b, o),
             lives' \in [Bindings -> 0..MaxLives], edits' \in 0..MaxEdits
      PROVE  TypeInv'
  <2>1. PositionOK'
    BY <1>2, PositionKept DEF StoredBy, TypeInv
  <2> QED
    BY <1>2, <2>1 DEF StoredBy, TypeInv, TypeOK, TenantTypeOK, tenantVars
<1>3. ASSUME NEW s \in Specs, UserCreate(b, s)
      PROVE  TypeInv'
  <2>1. lives' \in [Bindings -> 0..MaxLives] /\ edits' \in 0..MaxEdits
    BY <1>3, ReconcilerAssumption DEF UserCreate, TypeInv, TypeOK
  <2> QED
    BY <1>2, <1>3, <2>1, RecordsTyped DEF UserCreate
<1>4. ASSUME NEW s \in Specs, UserUpdate(b, s)
      PROVE  TypeInv'
  <2>1. lives' \in [Bindings -> 0..MaxLives] /\ edits' \in 0..MaxEdits
    BY <1>4, ReconcilerAssumption DEF UserUpdate, TypeInv, TypeOK
  <2> QED
    BY <1>1, <1>2, <1>4, <2>1, UpdatesTyped DEF UserUpdate
<1>5. CASE UserDelete(b)
  <2>1. lives' \in [Bindings -> 0..MaxLives] /\ edits' \in 0..MaxEdits
    BY <1>5 DEF UserDelete, TypeInv, TypeOK
  <2>2. (IF rb[b].finalizer THEN [rb[b] EXCEPT !.deleting = TRUE] ELSE Absent)
           \in RepoBinding
    BY <1>1, UpdatesTyped, RecordsTyped
  <2> QED
    BY <1>2, <1>5, <2>1, <2>2 DEF UserDelete
<1> QED
  BY <1>3, <1>4, <1>5 DEF User

\* The steps that belong to no reconcile.
LEMMA RestTyped ==
    ASSUME TypeInv,
           (\E b \in Bindings : SyncBinding(b)) \/ Restart \/ ClusterStep \/ UNCHANGED vars
    PROVE  TypeInv'
<1>1. ASSUME NEW b \in Bindings, SyncBinding(b)
      PROVE  TypeInv'
  <2>1. PositionOK'
    BY <1>1, PositionKept DEF SyncBinding, TypeInv
  <2>2. /\ cache' \in [Bindings -> RepoBinding]
        /\ behind' \in [Bindings -> SUBSET {"cache", "local"}]
        /\ queue' \subseteq Bindings
    BY <1>1 DEF SyncBinding, TypeInv, TypeOK
  <2> QED
    BY <1>1, <2>1, <2>2 DEF SyncBinding, TypeInv, TypeOK, TenantTypeOK, tenantVars
<1>2. CASE Restart
  <2>1. faults' \in 0..MaxFaults
    BY <1>2, ReconcilerAssumption DEF Restart, TypeInv, TypeOK
  <2>2. TenantTypeOK'
    BY <1>2 DEF Restart, TypeInv, TypeOK, TenantTypeOK
  <2>3. PositionOK'
    BY <1>2 DEF Restart, PositionOK
  <2>4. local' \in [Bindings -> RepoBinding] /\ pc' \in [Bindings -> Stages]
    BY <1>2, RecordsTyped DEF Restart, Stages
  <2> QED
    BY <1>2, <2>1, <2>2, <2>3, <2>4 DEF Restart, TypeInv, TypeOK
<1>3. CASE ClusterStep
  <2>1. TenantTypeOK'
    BY <1>3, TenantTyped DEF ClusterStep, TypeInv, TypeOK
  <2>2. PositionOK'
    BY <1>3, PositionKept DEF ClusterStep, TypeInv
  <2> QED
    BY <1>3, <2>1, <2>2 DEF ClusterStep, TypeInv, TypeOK
<1>4. CASE UNCHANGED vars
  <2>1. PositionOK'
    BY <1>4, PositionKept DEF vars, TypeInv
  <2> QED
    BY <1>4, <2>1 DEF vars, TypeInv, TypeOK, TenantTypeOK
<1> QED
  BY <1>1, <1>2, <1>3, <1>4

LEMMA TypeInit ==
    ASSUME Init
    PROVE  TypeInv
<1>1. TenantTypeOK
  BY TenantAssumption DEF Init, TenantInit, TenantTypeOK, AnySpec
<1>2. PositionOK
  BY DEF Init, PositionOK
<1> QED
  BY <1>1, <1>2, RecordsTyped, ReconcilerAssumption DEF Init, TypeInv, TypeOK, Stages

LEMMA TypeStep ==
    ASSUME TypeInv, [Next]_vars
    PROVE  TypeInv'
BY WorkTyped, FetchTyped, FailureTyped, UserTyped, RestTyped DEF Next

\* The type invariant: every variable keeps its type whatever users, caches,
\* failures and restarts do.
THEOREM TypeCorrect == Spec => []TypeOK
<1>1. Spec => []TypeInv
  BY TypeInit, TypeStep, PTL DEF Spec
<1> QED
  BY <1>1, PTL DEF TypeInv
=============================================================================
