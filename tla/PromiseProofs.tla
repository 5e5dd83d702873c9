----------------------------- MODULE PromiseProofs -----------------------------
(***************************************************************************)
(* RepoBindingReconciler implements BindingPromise: every step of the      *)
(* controller, its users and its surroundings is a step in the life of one *)
(* binding, a change of its route, or nothing at all.                      *)
(***************************************************************************)
EXTENDS TenantProofs

-----------------------------------------------------------------------------
(***************************************************************************)
(* The Trigger of a binding whose status records it.                       *)
(***************************************************************************)
\* No cleanup has taken it.  Unlike the rest of what a status records, the
\* Trigger needs no patient users: it is written whatever the caches show, and
\* it does not die with its namespace.
TriggerKept ==
    \A b \in Bindings : Intact(b) /\ "Trigger" \in Have(b) =>
        "Trigger" \in objs[PipelineName[b]]

PromiseInv == WorkInv /\ Owned /\ TriggerKept

\* No step takes it from an intact binding.
LEMMA TriggerKeptStep ==
    ASSUME OnePipelineEach, WorkInv, TriggerKept, [Next]_vars
    PROVE  TriggerKept'
<1>1. /\ TypeInv /\ objs \in [Pipelines -> SUBSET Kinds]
      /\ \A c \in Bindings : PipelineName[c] \in Pipelines
  BY ReconcilerAssumption DEF WorkInv, SafeInv, TypeInv, TypeOK, TenantTypeOK
<1> SUFFICES ASSUME NEW b \in Bindings, Intact(b)', "Trigger" \in Have(b)'
             PROVE  "Trigger" \in objs'[PipelineName[b]]
  BY DEF TriggerKept
<1>2. Intact(b)
  BY IntactBefore, HaveNothing
<1>3. CASE EnsureObject(b) /\ CurrentKind(b) = "Trigger"
  BY <1>1, <1>3 DEF EnsureObject, Ensure, Applied
<1>4. CASE "Trigger" \in Have(b)
  <2>1. "Trigger" \in objs[PipelineName[b]]
    BY <1>2, <1>4 DEF TriggerKept
  <2>2. ASSUME NEW c \in Bindings, EnsureObject(c)
        PROVE  "Trigger" \in objs'[PipelineName[b]]
    BY <1>1, <2>1, <2>2 DEF EnsureObject, Ensure
  <2>3. ASSUME NEW c \in Bindings, CleanupObject(c)
        PROVE  "Trigger" \in objs'[PipelineName[b]]
    <3>1. b # c
      BY <1>2, <2>3 DEF CleanupObject, Intact, Provisioning
    <3>2. PipelineName[b] # PipelineName[c]
      BY <3>1 DEF OnePipelineEach
    <3> QED
      BY <1>1, <2>1, <2>3, <3>2 DEF CleanupObject, Remove
  <2>4. ASSUME NEW q \in Pipelines, Drain(q)
        PROVE  "Trigger" \in objs'[PipelineName[b]]
    BY <1>1, <2>1, <2>4 DEF Drain, Namespaced
  <2> QED
    BY <2>1, <2>2, <2>3, <2>4, ObjectsTouched
<1> QED
  BY <1>2, <1>3, <1>4, HaveStep

-----------------------------------------------------------------------------
(***************************************************************************)
(* The refinement mapping.                                                 *)
(***************************************************************************)
LifeOf == [b \in Bindings |-> Life(rb[b])]

Routed == {b \in Bindings : "Trigger" \in objs[PipelineName[b]]}

\* Where each kind of stored object is in its life.
LEMMA LifeStages ==
    ASSUME NEW o \in RepoBinding
    PROVE  /\ ~o.present => Life(o) = "gone"
           /\ o.present /\ ~o.finalizer => Life(o) = "asked"
           /\ Doomed(o) => Life(o) = "leaving"
           /\ Kept(o) /\ o.phase = "Ready" => Life(o) = "ready"
           /\ Kept(o) /\ o.phase # "Ready" => Life(o) = "kept"
BY DEF Life, Doomed, Kept, RepoBinding

\* The steps of a life that ask nothing of the route.
FreeMoves ==
    {<<"gone", "asked">>, <<"asked", "gone">>, <<"asked", "kept">>,
     <<"ready", "kept">>, <<"kept", "leaving">>, <<"ready", "leaving">>}

\* A write to the stored object is a step of its life, if it changes that.
LEMMA LifeMove ==
    ASSUME TypeInv, NEW b \in Bindings, NEW o,
           rb' = [rb EXCEPT ![b] = o], UNCHANGED tenantVars,
           \/ Life(o) = Life(rb[b])
           \/ <<Life(rb[b]), Life(o)>> \in FreeMoves
           \/ /\ Life(rb[b]) = "kept" /\ Life(o) = "ready"
              /\ "Trigger" \in objs[PipelineName[b]]
           \/ /\ Life(rb[b]) = "leaving" /\ Life(o) = "gone"
              /\ "Trigger" \notin objs[PipelineName[b]]
    PROVE  [Promise!Next]_<<LifeOf, Routed>>
<1>1. LifeOf' = [LifeOf EXCEPT ![b] = Life(o)] /\ LifeOf[b] = Life(rb[b])
  BY DEF LifeOf, TypeInv, TypeOK
<1>2. Routed' = Routed /\ (b \in Routed <=> "Trigger" \in objs[PipelineName[b]])
  BY DEF Routed, tenantVars
<1>3. CASE Life(o) = Life(rb[b])
  BY <1>1, <1>2, <1>3 DEF LifeOf
<1>4. CASE <<Life(rb[b]), Life(o)>> \in FreeMoves
  <2>1. \/ Promise!Ask(b) \/ Promise!Withdraw(b) \/ Promise!Admit(b)
        \/ Promise!Relapse(b) \/ Promise!Leave(b)
    BY <1>1, <1>2, <1>4 DEF FreeMoves, LifeOf, Routed, Promise!Ask, Promise!Withdraw,
          Promise!Admit, Promise!Relapse, Promise!Leave, Promise!Becomes
  <2> QED
    BY <2>1 DEF Promise!Next
<1>5. CASE /\ Life(rb[b]) = "kept" /\ Life(o) = "ready"
           /\ "Trigger" \in objs[PipelineName[b]]
  <2>1. Promise!Finish(b)
    BY <1>1, <1>2, <1>5 DEF LifeOf, Routed, Promise!Finish, Promise!Becomes
  <2> QED
    BY <2>1 DEF Promise!Next
<1>6. CASE /\ Life(rb[b]) = "leaving" /\ Life(o) = "gone"
           /\ "Trigger" \notin objs[PipelineName[b]]
  <2>1. Promise!Release(b)
    BY <1>1, <1>2, <1>6 DEF LifeOf, Routed, Promise!Release, Promise!Becomes
  <2> QED
    BY <2>1 DEF Promise!Next
<1> QED
  BY <1>3, <1>4, <1>5, <1>6

\* A phase other than Ready ends readiness at most; flags are not part of a life.
LEMMA PatchedLife ==
    ASSUME NEW o \in RepoBinding
    PROVE  /\ \A ph \in Phases \ {"Ready"} :
                 LET r == [o EXCEPT !.phase = ph] IN
                 Life(r) = Life(o) \/ <<Life(o), Life(r)>> \in FreeMoves
           /\ \A s \in Steps : Life([o EXCEPT !.flags = @ \cup {s}]) = Life(o)
           /\ \A s \in Specs : Life([o EXCEPT !.spec = s]) = Life(o)
<1>1. ASSUME NEW ph \in Phases \ {"Ready"}
      PROVE  LET r == [o EXCEPT !.phase = ph] IN
             Life(r) = Life(o) \/ <<Life(o), Life(r)>> \in FreeMoves
  <2> DEFINE r == [o EXCEPT !.phase = ph]
  <2>1. r \in RepoBinding
    BY UpdatesTyped
  <2>2. /\ r.present = o.present /\ r.finalizer = o.finalizer
        /\ r.deleting = o.deleting /\ r.phase # "Ready"
    BY DEF RepoBinding
  <2> HIDE DEF r
  <2> QED
    BY <2>1, <2>2, LifeStages DEF FreeMoves, Doomed, Kept, RepoBinding
<1>2. ASSUME NEW r \in RepoBinding, r.present = o.present, r.finalizer = o.finalizer,
             r.deleting = o.deleting, r.phase = o.phase
      PROVE  Life(r) = Life(o)
  BY <1>2, LifeStages DEF Doomed, Kept, RepoBinding
<1>3. ASSUME NEW s \in Steps
      PROVE  Life([o EXCEPT !.flags = @ \cup {s}]) = Life(o)
  <2> DEFINE r == [o EXCEPT !.flags = @ \cup {s}]
  <2>1. r \in RepoBinding
    BY UpdatesTyped
  <2>2. /\ r.present = o.present /\ r.finalizer = o.finalizer
        /\ r.deleting = o.deleting /\ r.phase = o.phase
    BY DEF RepoBinding
  <2> HIDE DEF r
  <2>3. Life(r) = Life(o)
    BY <1>2, <2>1, <2>2
  <2> QED
    BY <2>3 DEF r
<1>4. ASSUME NEW s \in Specs
      PROVE  Life([o EXCEPT !.spec = s]) = Life(o)
  <2> DEFINE r == [o EXCEPT !.spec = s]
  <2>1. r \in RepoBinding
    BY UpdatesTyped
  <2>2. /\ r.present = o.present /\ r.finalizer = o.finalizer
        /\ r.deleting = o.deleting /\ r.phase = o.phase
    BY DEF RepoBinding
  <2> HIDE DEF r
  <2>3. Life(r) = Life(o)
    BY <1>2, <2>1, <2>2
  <2> QED
    BY <2>3 DEF r
<1> QED
  BY <1>1, <1>3, <1>4

\* Ready is written of a binding whose Trigger is there.
LEMMA FinishesRouted ==
    ASSUME PromiseInv, NEW b \in Bindings, RecordReady(b), Kept(rb[b])
    PROVE  "Trigger" \in objs[PipelineName[b]]
<1>1. local[b].flags \in SUBSET Steps /\ local[b].flags \subseteq rb[b].flags
  BY DEF RecordReady, PromiseInv, WorkInv, SafeInv, Safe, LocalTrails, Provisioning,
         TypeInv, TypeOK, RepoBinding
<1>2. "trigger" \in rb[b].flags
  BY <1>1, NextStepFirst DEF RecordReady, CurrentStep, Steps
<1>3. "Trigger" \in ObjectsOf("trigger")
  BY DEF ObjectsOf, StepKinds, TriggerStep
<1>4. "Trigger" \in Have(b)
  BY <1>2, <1>3 DEF Have, PromisedBy
<1> QED
  BY <1>4, KeptIntact DEF PromiseInv, TriggerKept

\* The finalizer, and with it the binding, goes when its Trigger is gone.
LEMMA ReleasesUnrouted ==
    ASSUME OnePipelineEach, "Trigger" \notin Lagging, PromiseInv,
           NEW b \in Bindings, RemoveFinalizer(b)
    PROVE  Life(rb[b]) = "leaving" /\ "Trigger" \notin objs[PipelineName[b]]
<1>1. Doomed(rb[b]) /\ rb[b] \in RepoBinding
  BY DEF RemoveFinalizer, PromiseInv, WorkInv, SafeInv, Safe, LocalTrails, TypeInv, TypeOK
<1>2. Reliable("Trigger") /\ "Trigger" \in Cleaned
  BY DEF Reliable, Cleaned, CleanupOrder, Kinds
<1>3. PipelineName[b] \in Pipelines
  BY ReconcilerAssumption
<1>4. ASSUME "Trigger" \in objs[PipelineName[b]]
      PROVE  FALSE
  <2>1. PICK c \in Bindings : PipelineName[c] = PipelineName[b] /\ Answers(c, "Trigger")
    BY <1>2, <1>3, <1>4 DEF PromiseInv, Owned, Here
  <2> QED
    BY <2>1 DEF OnePipelineEach, Answers, RemoveFinalizer
<1> QED
  BY <1>1, <1>4, LifeStages

\* A step that writes b's object.
LEMMA WritesRefine ==
    ASSUME OnePipelineEach, "Trigger" \notin Lagging, PromiseInv, NEW b \in Bindings,
           \/ AdmitRejected(b) \/ EnsureFinalizer(b) \/ InitializeStatus(b)
           \/ RejectPending(b) \/ AcceptPending(b) \/ MarkFailed(b)
           \/ RecordStep(b) \/ RecordReady(b) \/ RemoveFinalizer(b) \/ User(b)
    PROVE  [Promise!Next]_<<LifeOf, Routed>>
<1>1. TypeInv /\ rb[b] \in RepoBinding /\ Sound(rb[b]) /\ LocalTrails(b)
  BY DEF PromiseInv, WorkInv, SafeInv, Safe, TypeInv, TypeOK, Steady
<1>2. Absent \in RepoBinding /\ ~Absent.present /\ Life(Absent) = "gone"
  <2>1. Absent \in RepoBinding /\ ~Absent.present
    BY RecordsTyped DEF Absent, Created
  <2> QED
    BY <2>1, LifeStages
<1>3. ASSUME NEW ph \in Phases \ {"Ready"},
             rb' = [rb EXCEPT ![b] = [rb[b] EXCEPT !.phase = ph]], UNCHANGED tenantVars
      PROVE  [Promise!Next]_<<LifeOf, Routed>>
  BY <1>1, <1>3, PatchedLife, LifeMove
<1>4. CASE AdmitRejected(b)
  <2>1. CASE WriteAndReturn(b, [rb[b] EXCEPT !.phase = "Failed"], FALSE)
    BY <1>3, <2>1 DEF WriteAndReturn, Phases
  <2>2. CASE RepeatAndReturn(b, [rb[b] EXCEPT !.phase = "Failed"], FALSE)
    BY <2>2 DEF RepeatAndReturn, tenantVars, LifeOf, Routed
  <2> QED
    BY <1>4, <2>1, <2>2 DEF AdmitRejected
<1>5. CASE RejectPending(b) \/ MarkFailed(b)
  BY <1>3, <1>5 DEF RejectPending, MarkFailed, WriteAndReturn, Phases
<1>6. CASE InitializeStatus(b) \/ AcceptPending(b)
  BY <1>3, <1>6 DEF InitializeStatus, AcceptPending, WriteAndContinue, Phases
<1>7. CASE EnsureFinalizer(b)
  <2> DEFINE o == [rb[b] EXCEPT !.finalizer = TRUE]
  <2>1. rb[b].present /\ ~rb[b].finalizer
    BY <1>1, <1>7 DEF EnsureFinalizer, LocalTrails, PromiseInv, WorkInv, Steady
  <2>2. o \in RepoBinding /\ Kept(o) /\ o.phase # "Ready"
    BY <1>1, <2>1, UpdatesTyped DEF Kept, Sound, RepoBinding
  <2>3. Life(rb[b]) = "asked"
    BY <1>1, <2>1, LifeStages
  <2>4. rb' = [rb EXCEPT ![b] = o] /\ UNCHANGED tenantVars
    BY <1>7 DEF EnsureFinalizer, WriteAndReturn
  <2> HIDE DEF o
  <2>5. Life(o) = "kept"
    BY <2>2, LifeStages
  <2>6. <<Life(rb[b]), Life(o)>> \in FreeMoves
    BY <2>3, <2>5 DEF FreeMoves
  <2> QED
    BY <1>1, <2>4, <2>6, LifeMove
<1>8. CASE RecordStep(b)
  <2>1. CurrentStep(b) \in Steps
    BY <1>8, NextStepFirst DEF RecordStep, CurrentStep, PromiseInv, WorkInv, SafeInv,
                               TypeInv, TypeOK, RepoBinding
  <2>2. Life([rb[b] EXCEPT !.flags = @ \cup {CurrentStep(b)}]) = Life(rb[b])
    BY <1>1, <2>1, PatchedLife
  <2> QED
    BY <1>1, <1>8, <2>2, LifeMove DEF RecordStep, WriteAndReturn
<1>9. CASE RecordReady(b)
  <2> DEFINE o == [rb[b] EXCEPT !.phase = "Ready"]
  <2>1. o \in RepoBinding /\ Managed(b)
    BY <1>1, <1>9, UpdatesTyped DEF RecordReady, LocalTrails, Provisioning, Phases
  <2>2. /\ o.present = rb[b].present /\ o.finalizer = rb[b].finalizer
        /\ o.deleting = rb[b].deleting /\ o.phase = "Ready"
    BY <1>1 DEF RepoBinding
  <2>3. rb' = [rb EXCEPT ![b] = o] /\ UNCHANGED tenantVars
    BY <1>9 DEF RecordReady, WriteAndReturn
  <2> HIDE DEF o
  <2>4. CASE rb[b].deleting
    <3>1. Life(o) = "leaving" /\ Life(rb[b]) = "leaving"
      BY <1>1, <2>1, <2>2, <2>4, LifeStages DEF Doomed, Managed
    <3> QED
      BY <1>1, <2>3, <3>1, LifeMove
  <2>5. CASE ~rb[b].deleting
    <3>1. Kept(rb[b]) /\ Life(o) = "ready" /\ Life(rb[b]) \in {"kept", "ready"}
      BY <1>1, <2>1, <2>2, <2>5, LifeStages DEF Kept, Managed
    <3>2. "Trigger" \in objs[PipelineName[b]]
      BY <1>9, <3>1, FinishesRouted
    <3> QED
      BY <1>1, <2>3, <3>1, <3>2, LifeMove
  <2> QED
    BY <2>4, <2>5
<1>10. CASE RemoveFinalizer(b)
  BY <1>1, <1>2, <1>10, ReleasesUnrouted, LifeMove DEF RemoveFinalizer, WriteAndReturn
<1>11. ASSUME NEW s \in Specs, UserCreate(b, s)
       PROVE  [Promise!Next]_<<LifeOf, Routed>>
  <2>1. Life(rb[b]) = "gone"
    BY <1>1, <1>11, LifeStages DEF UserCreate
  <2>2. Life(Created(s)) = "asked"
    <3>1. Created(s) \in RepoBinding /\ Created(s).present /\ ~Created(s).finalizer
      BY RecordsTyped DEF Created
    <3> QED
      BY <3>1, LifeStages
  <2>3. <<Life(rb[b]), Life(Created(s))>> \in FreeMoves
    BY <2>1, <2>2 DEF FreeMoves
  <2> QED
    BY <1>1, <1>11, <2>3, LifeMove DEF UserCreate, StoredBy
<1>12. ASSUME NEW s \in Specs, UserUpdate(b, s)
       PROVE  [Promise!Next]_<<LifeOf, Routed>>
  <2>1. Life([rb[b] EXCEPT !.spec = s]) = Life(rb[b])
    BY <1>1, PatchedLife
  <2> QED
    BY <1>1, <1>12, <2>1, LifeMove DEF UserUpdate, StoredBy
<1>13. CASE UserDelete(b) /\ rb[b].finalizer
  <2> DEFINE o == [rb[b] EXCEPT !.deleting = TRUE]
  <2>1. o \in RepoBinding /\ Doomed(o) /\ Kept(rb[b])
    BY <1>1, <1>13, UpdatesTyped DEF UserDelete, Doomed, Kept, RepoBinding
  <2>2. rb' = [rb EXCEPT ![b] = o] /\ UNCHANGED tenantVars
    BY <1>13 DEF UserDelete, StoredBy
  <2> HIDE DEF o
  <2>3. Life(o) = "leaving" /\ Life(rb[b]) \in {"kept", "ready"}
    BY <1>1, <2>1, LifeStages
  <2>4. <<Life(rb[b]), Life(o)>> \in FreeMoves
    BY <2>3 DEF FreeMoves
  <2> QED
    BY <1>1, <2>2, <2>4, LifeMove
<1>14. CASE UserDelete(b) /\ ~rb[b].finalizer
  <2>1. Life(rb[b]) = "asked"
    BY <1>1, <1>14, LifeStages DEF UserDelete
  <2>2. <<Life(rb[b]), Life(Absent)>> \in FreeMoves
    BY <1>2, <2>1 DEF FreeMoves
  <2> QED
    BY <1>1, <1>14, <2>2, LifeMove DEF UserDelete, StoredBy
<1> QED
  BY <1>4, <1>5, <1>6, <1>7, <1>8, <1>9, <1>10, <1>11, <1>12, <1>13, <1>14 DEF User

\* A step that writes or removes one of b's objects.
LEMMA ObjectsRefine ==
    ASSUME OnePipelineEach, "Trigger" \notin Lagging, PromiseInv, NEW b \in Bindings,
           EnsureObject(b) \/ CleanupObject(b)
    PROVE  [Promise!Next]_<<LifeOf, Routed>>
<1> DEFINE p == PipelineName[b]
<1>1. /\ rb[b] \in RepoBinding /\ p \in Pipelines /\ LocalTrails(b)
      /\ objs \in [Pipelines -> SUBSET Kinds]
      /\ \A c \in Bindings : PipelineName[c] \in Pipelines
  BY ReconcilerAssumption DEF PromiseInv, WorkInv, SafeInv, Safe, TypeInv, TypeOK, TenantTypeOK
<1>2. LifeOf' = LifeOf /\ LifeOf[b] = Life(rb[b])
  BY DEF EnsureObject, CleanupObject, CleanupAdvances, LifeOf
<1>3. CASE EnsureObject(b) /\ CurrentKind(b) # "Trigger"
  <2>1. Routed' = Routed
    BY <1>1, <1>3 DEF EnsureObject, Ensure, Routed
  <2> QED
    BY <1>2, <2>1
<1>4. CASE EnsureObject(b) /\ CurrentKind(b) = "Trigger"
  <2>1. Life(rb[b]) \in {"kept", "ready", "leaving"}
    BY <1>1, <1>4, LifeStages DEF EnsureObject, LocalTrails, Provisioning, Managed,
                                  Kept, Doomed
  <2>2. objs' = [objs EXCEPT ![p] = @ \cup {"Trigger"}]
    BY <1>4 DEF EnsureObject, Ensure, Applied
  <2>3. Routed' = Routed \cup {b}
    BY <1>1, <2>2 DEF Routed, OnePipelineEach
  <2>4. Promise!Route(b)
    BY <1>2, <2>1, <2>3 DEF Promise!Route, LifeOf, Routed
  <2> QED
    BY <2>4 DEF Promise!Next
<1>5. CASE CleanupObject(b) /\ (CleanupOrder[at[b]] # "Trigger" \/ "Trigger" \notin objs[p])
  <2>1. Routed' = Routed
    BY <1>1, <1>5 DEF CleanupObject, Remove, Routed
  <2> QED
    BY <1>2, <2>1
<1>6. CASE CleanupObject(b) /\ CleanupOrder[at[b]] = "Trigger" /\ "Trigger" \in objs[p]
  <2>1. Reliable("Trigger") /\ "Trigger" \in Cleaned /\ Here(p, "Trigger")
    BY <1>6 DEF Reliable, Cleaned, CleanupOrder, Kinds, Here
  <2>2. Managed(b)
    BY <1>1, <2>1 DEF PromiseInv, Owned, OnePipelineEach, Answers
  <2>3. Life(rb[b]) = "leaving"
    BY <1>1, <1>6, <2>2, LifeStages DEF CleanupObject, LocalTrails, Managed, Kept, Doomed
  <2>4. objs' = [objs EXCEPT ![p] = @ \ {"Trigger"}]
    BY <1>6 DEF CleanupObject, Remove, CleanupFinds, CleanedLive, View, Kinds
  <2>5. Routed' = Routed \ {b}
    BY <1>1, <2>4 DEF Routed, OnePipelineEach
  <2>6. Promise!Unroute(b)
    BY <1>2, <2>3, <2>5 DEF Promise!Unroute, LifeOf, Routed
  <2> QED
    BY <2>6 DEF Promise!Next
<1> QED
  BY <1>3, <1>4, <1>5, <1>6

\* Nothing else shows in the promise.
LEMMA RestRefines ==
    ASSUME PromiseInv, NEW b \in Bindings,
           \/ FinalizerConflict(b) \/ ReleaseConflict(b) \/ PatchNotFound(b)
           \/ ProvisionRefused(b) \/ Fetch(b) \/ Failure(b) \/ SyncBinding(b)
           \/ Restart \/ ClusterStep \/ UNCHANGED vars
    PROVE  UNCHANGED <<LifeOf, Routed>>
<1> USE DEF LifeOf, Routed, tenantVars
<1>1. CASE \/ FinalizerConflict(b) \/ ReleaseConflict(b) \/ PatchNotFound(b)
           \/ ProvisionRefused(b) \/ Fetch(b) \/ SyncBinding(b)
  BY <1>1 DEF FinalizerConflict, ReleaseConflict, PatchNotFound, ProvisionRefused, Fetch,
              SyncBinding
<1>2. CASE Failure(b)
  BY <1>2 DEF Failure, ProvisionFaulted, CleanupSwallowed, CleanupAdvances, Abort
<1>3. CASE Restart \/ UNCHANGED vars
  BY <1>3 DEF Restart, vars
<1>4. CASE ClusterStep
  <2>1. objs \in [Pipelines -> SUBSET Kinds]
    BY DEF PromiseInv, WorkInv, SafeInv, TypeInv, TypeOK, TenantTypeOK
  <2>2. \A p \in Pipelines : "Trigger" \in objs'[p] <=> "Trigger" \in objs[p]
    BY <1>4, <2>1 DEF ClusterStep, Drain, SyncView, Namespaced
  <2> QED
    BY <1>4, <2>2, ReconcilerAssumption DEF ClusterStep
<1> QED
  BY <1>1, <1>2, <1>3, <1>4

\* Behind its copies, retries and restarts the controller keeps its promise: it
\* implements the abstract specification, if no two bindings name one pipeline
\* and the cache of Triggers does not lag.
THEOREM BindingKeepsPromise ==
    ASSUME OnePipelineEach, "Trigger" \notin Lagging
    PROVE  Spec => KeepsBindingPromise
<1>1. Init => Promise!Init
  <2>1. Life(Absent) = "gone"
    <3>1. Absent \in RepoBinding /\ ~Absent.present
      BY RecordsTyped DEF Absent, Created
    <3> QED
      BY <3>1, LifeStages
  <2> QED
    BY <2>1, ReconcilerAssumption DEF Init, TenantInit, Promise!Init
<1>2. Init => TriggerKept
  <2>1. ~Absent.present
    BY DEF Absent, Created
  <2> QED
    BY <2>1 DEF Init, TriggerKept, Intact, Managed
<1>3. WorkInv /\ TriggerKept /\ [Next]_vars => TriggerKept'
  BY TriggerKeptStep
<1>4. ASSUME PromiseInv, [Next]_vars
      PROVE  [Promise!Next]_<<LifeOf, Routed>>
  <2>1. CASE \E b \in Bindings : TRUE
    BY <1>4, <2>1, WritesRefine, ObjectsRefine, RestRefines DEF Next, Work
  <2>2. CASE Bindings = {}
    BY <2>2 DEF LifeOf, Routed
  <2> QED
    BY <2>1, <2>2
<1>5. PromiseInv /\ [Next]_vars
        => [Promise!Next]_<<[b \in Bindings |-> Life(rb[b])],
                            {b \in Bindings : "Trigger" \in objs[PipelineName[b]]}>>
  BY <1>4 DEF LifeOf, Routed
<1> QED
  BY <1>1, <1>2, <1>3, <1>5, WorkSafety, LeftoversOwned, PTL
     DEF Spec, PromiseInv, KeepsBindingPromise, Promise!Spec, Promise!vars
=============================================================================
