----------------------------- MODULE TenantProofs -----------------------------
(***************************************************************************)
(* What becomes of a tenant's objects.  Every object the cleanup is        *)
(* responsible for has an owner: a binding with the finalizer whose        *)
(* cleanup has not passed it.  So nothing is left over when the last       *)
(* finalizer goes.                                                         *)
(***************************************************************************)
EXTENDS WorkProofs

-----------------------------------------------------------------------------
(***************************************************************************)
(* Who touches what.                                                       *)
(***************************************************************************)
\* The state of one binding.
Untouched(b) ==
    /\ rb'[b] = rb[b]
    /\ cache'[b] = cache[b]
    /\ local'[b] = local[b]
    /\ pc'[b] = pc[b]
    /\ at'[b] = at[b]

Acts(b) == Fetch(b) \/ Work(b) \/ Failure(b) \/ User(b) \/ SyncBinding(b)

\* No action of one binding touches the state of another.
LEMMA ActsAlone ==
    ASSUME TypeInv, NEW b \in Bindings, NEW c \in Bindings, b # c, Acts(c)
    PROVE  Untouched(b)
<1> USE DEF Untouched, TypeInv, TypeOK
<1>1. CASE Fetch(c) \/ SyncBinding(c)
  BY <1>1 DEF Fetch, SyncBinding
<1>2. CASE AdmitRejected(c) \/ EnsureFinalizer(c) \/ FinalizerConflict(c)
  BY <1>2 DEF AdmitRejected, EnsureFinalizer, FinalizerConflict, WriteAndReturn,
              RepeatAndReturn, Return
<1>3. CASE InitializeStatus(c) \/ AcceptPending(c)
  BY <1>3 DEF InitializeStatus, AcceptPending, WriteAndContinue
<1>4. CASE RejectPending(c) \/ MarkFailed(c) \/ RecordStep(c) \/ RecordReady(c)
  BY <1>4 DEF RejectPending, MarkFailed, RecordStep, RecordReady, WriteAndReturn, Return
<1>5. CASE EnsureObject(c) \/ ProvisionRefused(c) \/ ProvisionFaulted(c)
  BY <1>5 DEF EnsureObject, ProvisionRefused, ProvisionFaulted
<1>6. CASE CleanupObject(c) \/ CleanupSwallowed(c)
  BY <1>6 DEF CleanupObject, CleanupSwallowed, CleanupAdvances
<1>7. CASE RemoveFinalizer(c) \/ ReleaseConflict(c) \/ PatchNotFound(c) \/ Abort(c)
  BY <1>7 DEF RemoveFinalizer, ReleaseConflict, PatchNotFound, Abort, WriteAndReturn, Return
<1>8. CASE User(c)
  BY <1>8 DEF User, UserCreate, UserUpdate, UserDelete, StoredBy
<1> QED
  BY <1>1, <1>2, <1>3, <1>4, <1>5, <1>6, <1>7, <1>8 DEF Acts, Work, Failure

\* So whatever a step does to a binding is done by its own action or a restart.
LEMMA Touches ==
    ASSUME TypeInv, [Next]_vars, NEW b \in Bindings
    PROVE  Acts(b) \/ Restart \/ Untouched(b)
<1>1. CASE ClusterStep \/ UNCHANGED vars
  BY <1>1 DEF ClusterStep, vars, Untouched
<1> QED
  BY <1>1, ActsAlone DEF Next, Acts

\* Objects are written by provisioning and by cleanup steps and drained with
\* their namespace; no other step changes what exists.
LEMMA ObjectsTouched ==
    ASSUME [Next]_vars
    PROVE  \/ \E b \in Bindings : EnsureObject(b) \/ CleanupObject(b)
           \/ \E p \in Pipelines : Drain(p)
           \/ UNCHANGED <<objs, terminating>>
<1>1. ASSUME NEW b \in Bindings, Acts(b), ~EnsureObject(b), ~CleanupObject(b)
      PROVE  UNCHANGED <<objs, terminating>>
  <2> USE DEF tenantVars
  <2>1. CASE Fetch(b) \/ SyncBinding(b)
    BY <2>1 DEF Fetch, SyncBinding
  <2>2. CASE AdmitRejected(b) \/ EnsureFinalizer(b) \/ FinalizerConflict(b)
    BY <2>2 DEF AdmitRejected, EnsureFinalizer, FinalizerConflict, WriteAndReturn,
                RepeatAndReturn
  <2>3. CASE InitializeStatus(b) \/ AcceptPending(b)
    BY <2>3 DEF InitializeStatus, AcceptPending, WriteAndContinue
  <2>4. CASE RejectPending(b) \/ MarkFailed(b) \/ RecordStep(b) \/ RecordReady(b)
    BY <2>4 DEF RejectPending, MarkFailed, RecordStep, RecordReady, WriteAndReturn
  <2>5. CASE ProvisionRefused(b) \/ ProvisionFaulted(b) \/ CleanupSwallowed(b)
    BY <2>5 DEF ProvisionRefused, ProvisionFaulted, CleanupSwallowed
  <2>6. CASE RemoveFinalizer(b) \/ ReleaseConflict(b) \/ PatchNotFound(b) \/ Abort(b)
    BY <2>6 DEF RemoveFinalizer, ReleaseConflict, PatchNotFound, Abort, WriteAndReturn
  <2>7. CASE User(b)
    BY <2>7 DEF User, UserCreate, UserUpdate, UserDelete, StoredBy
  <2> QED
    BY <1>1, <2>1, <2>2, <2>3, <2>4, <2>5, <2>6, <2>7 DEF Acts, Work, Failure
<1>2. CASE Restart \/ UNCHANGED vars
  BY <1>2 DEF Restart, vars
<1>3. CASE ClusterStep
  BY <1>3 DEF ClusterStep, SyncView
<1> QED
  BY <1>1, <1>2, <1>3 DEF Next, Acts

-----------------------------------------------------------------------------
(***************************************************************************)
(* Everything the cleanup can be relied on for has an owner.               *)
(***************************************************************************)
Cleaned == {CleanupOrder[i] : i \in 1..7} \cap Kinds

\* The cleanup step of kind k takes away whatever is there: it reads the API
\* server, or a cache that does not lag, and does not mistake a failed read for
\* an absent object.
Reliable(k) ==
    /\ k \in Cleaned
    /\ k \in CleanedLive \/ k \notin Lagging
    /\ SwallowedReads => k \notin {"ClusterRole", "ClusterRoleBinding"}

\* A terminating namespace is gone as far as the controller is concerned.
Here(p, k) == k \in objs[p] /\ (k = "Namespace" => p \notin terminating)

\* b's cleanup of kind k is still to come.
Answers(b, k) ==
    /\ Managed(b)
    /\ pc[b] # "release"
    /\ pc[b] = "cleanup" => \E i \in at[b]..7 : CleanupOrder[i] = k

Owned ==
    \A p \in Pipelines : \A k \in Cleaned : Reliable(k) /\ Here(p, k) =>
        \E b \in Bindings : PipelineName[b] = p /\ Answers(b, k)

\* The list has no kind twice: past its position a kind does not come again.
LEMMA CleanupPositions ==
    /\ Len(CleanupOrder) = 7
    /\ \A k \in Cleaned : \E i \in 1..7 : CleanupOrder[i] = k
    /\ \A i, j \in 1..7 : CleanupOrder[i] = CleanupOrder[j] => i = j
BY DEF CleanupOrder, Cleaned

\* A binding answers for a kind until its own cleanup has had its turn at it.
LEMMA AnswersOn ==
    ASSUME WorkInv, [Next]_vars, NEW b \in Bindings, NEW k \in Cleaned, Answers(b, k),
           ~(/\ CleanupObject(b) \/ CleanupSwallowed(b)
             /\ CleanupOrder[at[b]] = k)
    PROVE  Answers(b, k)'
<1> USE DEF Answers, Managed
<1>1. /\ TypeInv /\ rb[b] \in RepoBinding /\ at[b] \in 1..7 /\ Managed(b)
      /\ pc \in [Bindings -> Stages] /\ at \in [Bindings -> 1..7]
      /\ rb \in [Bindings -> RepoBinding]
  BY DEF WorkInv, SafeInv, TypeInv, TypeOK
<1>2. ASSUME NEW o, NEW again, WriteAndReturn(b, o, again),
             o.present = rb[b].present, o.finalizer
      PROVE  Answers(b, k)'
  BY <1>1, <1>2 DEF WriteAndReturn, Return
<1>3. ASSUME NEW o, NEW stage \in {"idle", "validate", "provision"},
             WriteAndContinue(b, o, stage), o.present = rb[b].present, o.finalizer
      PROVE  Answers(b, k)'
  BY <1>1, <1>3 DEF WriteAndContinue
<1>4. ASSUME NEW again, Return(b, again), rb' = rb
      PROVE  Answers(b, k)'
  BY <1>1, <1>4 DEF Return
<1>5. ASSUME NEW o, StoredBy(b, o), o.present = rb[b].present, o.finalizer
      PROVE  Answers(b, k)'
  BY <1>1, <1>5 DEF StoredBy
<1>6. \A ph : /\ [rb[b] EXCEPT !.phase = ph].present = rb[b].present
              /\ [rb[b] EXCEPT !.phase = ph].finalizer = rb[b].finalizer
  BY <1>1 DEF RepoBinding
<1>7. CASE AdmitRejected(b)
  <2>1. CASE WriteAndReturn(b, [rb[b] EXCEPT !.phase = "Failed"], FALSE)
    BY <1>1, <1>2, <1>6, <2>1
  <2>2. CASE RepeatAndReturn(b, [rb[b] EXCEPT !.phase = "Failed"], FALSE)
    BY <1>4, <2>2 DEF RepeatAndReturn
  <2> QED
    BY <1>7, <2>1, <2>2 DEF AdmitRejected
<1>8. CASE EnsureFinalizer(b)
  <2>1. /\ [rb[b] EXCEPT !.finalizer = TRUE].present = rb[b].present
        /\ [rb[b] EXCEPT !.finalizer = TRUE].finalizer
    BY <1>1 DEF RepoBinding
  <2> QED
    BY <1>2, <1>8, <2>1 DEF EnsureFinalizer
<1>9. CASE FinalizerConflict(b) \/ ReleaseConflict(b) \/ PatchNotFound(b) \/ Abort(b)
  BY <1>4, <1>9 DEF FinalizerConflict, ReleaseConflict, PatchNotFound, Abort
<1>10. CASE InitializeStatus(b)
  <2> DEFINE pending == [rb[b] EXCEPT !.phase = "Pending"]
             next == AfterInitialize(IF PatchRefreshes THEN pending ELSE local[b])
  <2>1. next \in {"idle", "validate", "provision"}
    BY DEF AfterInitialize
  <2>2. WriteAndContinue(b, pending, next)
    BY <1>10 DEF InitializeStatus
  <2>3. pending.present = rb[b].present /\ pending.finalizer
    BY <1>1, <1>6
  <2> HIDE DEF pending, next
  <2> QED
    BY <1>3, <2>1, <2>2, <2>3
<1>11. CASE AcceptPending(b)
  BY <1>1, <1>3, <1>6, <1>11 DEF AcceptPending
<1>12. CASE RejectPending(b) \/ MarkFailed(b) \/ RecordReady(b)
  BY <1>1, <1>2, <1>6, <1>12 DEF RejectPending, MarkFailed, RecordReady
<1>13. CASE RecordStep(b)
  <2> DEFINE o == [rb[b] EXCEPT !.flags = @ \cup {CurrentStep(b)}]
  <2>1. o.present = rb[b].present /\ o.finalizer = rb[b].finalizer
    BY <1>1 DEF RepoBinding
  <2>2. WriteAndReturn(b, o, TRUE)
    BY <1>13 DEF RecordStep
  <2> HIDE DEF o
  <2> QED
    BY <1>1, <1>2, <2>1, <2>2
<1>14. CASE EnsureObject(b) \/ ProvisionRefused(b) \/ ProvisionFaulted(b)
  BY <1>1, <1>14 DEF EnsureObject, ProvisionRefused, ProvisionFaulted
<1>15. CASE CleanupObject(b) \/ CleanupSwallowed(b)
  <2>1. pc[b] = "cleanup" /\ CleanupAdvances(b) /\ CleanupOrder[at[b]] # k
    BY <1>15 DEF CleanupObject, CleanupSwallowed
  <2>2. PICK i \in at[b]..7 : CleanupOrder[i] = k
    BY <2>1
  <2>3. at[b] # 7 /\ i \in (at[b] + 1)..7
    BY <1>1, <2>1, <2>2
  <2>4. pc'[b] = "cleanup" /\ at'[b] = at[b] + 1 /\ rb' = rb
    BY <1>1, <2>1, <2>3, CleanupPositions DEF CleanupAdvances
  <2> QED
    BY <2>2, <2>3, <2>4
<1>16. CASE RemoveFinalizer(b)
  BY <1>16 DEF RemoveFinalizer
<1>17. CASE Fetch(b)
  <2>1. pc[b] = "idle" /\ at' = at /\ rb' = rb
    BY <1>17 DEF Fetch
  <2>2. at[b] = 1
    BY <2>1 DEF WorkInv, SafeInv, TypeInv, PositionOK
  <2>3. cache[b] \in RepoBinding
    BY DEF WorkInv, SafeInv, TypeInv, TypeOK
  <2>4. pc'[b] # "release"
    BY <1>1, <1>17, <2>3, DispatchStages DEF Fetch
  <2> QED
    BY <2>1, <2>2, <2>4, CleanupPositions
<1>18. CASE User(b)
  <2>1. ASSUME NEW s \in Specs, UserUpdate(b, s)
        PROVE  Answers(b, k)'
    BY <1>1, <1>5, <2>1 DEF UserUpdate, RepoBinding
  <2>2. CASE UserDelete(b)
    BY <1>1, <1>5, <2>2 DEF UserDelete, RepoBinding
  <2> QED
    BY <1>1, <1>18, <2>1, <2>2 DEF User, UserCreate
<1>19. CASE SyncBinding(b)
  BY <1>19 DEF SyncBinding
<1>20. CASE Restart
  BY <1>20 DEF Restart
<1>21. CASE Untouched(b)
  BY <1>21 DEF Untouched
<1> QED
  BY <1>1, <1>7, <1>8, <1>9, <1>10, <1>11, <1>12, <1>13, <1>14, <1>15, <1>16, <1>17,
     <1>18, <1>19, <1>20, <1>21, Touches DEF Acts, Work, Failure

\* Only a provisioning step makes an object appear.
LEMMA Appears ==
    ASSUME TypeInv, [Next]_vars, NEW p \in Pipelines, NEW k, Here(p, k)', ~Here(p, k)
    PROVE  \E b \in Bindings :
              /\ EnsureObject(b)
              /\ PipelineName[b] = p
              /\ CurrentKind(b) = k
<1>1. objs \in [Pipelines -> SUBSET Kinds] /\ \A b \in Bindings : PipelineName[b] \in Pipelines
  BY ReconcilerAssumption DEF TypeInv, TypeOK, TenantTypeOK
<1>2. ASSUME NEW b \in Bindings, EnsureObject(b)
      PROVE  PipelineName[b] = p /\ CurrentKind(b) = k
  BY <1>1, <1>2 DEF EnsureObject, Ensure, Here
<1>3. ASSUME NEW b \in Bindings, CleanupObject(b)
      PROVE  FALSE
  BY <1>1, <1>3 DEF CleanupObject, Remove, Here
<1>4. ASSUME NEW q \in Pipelines, Drain(q)
      PROVE  FALSE
  BY <1>1, <1>4 DEF Drain, Here
<1>5. CASE UNCHANGED <<objs, terminating>>
  BY <1>5 DEF Here
<1> QED
  BY <1>2, <1>3, <1>4, <1>5, ObjectsTouched

\* Where the cleanup can be relied on, its step leaves nothing of its kind.
LEMMA CleansUp ==
    ASSUME TypeInv, NEW b \in Bindings, NEW k \in Cleaned, Reliable(k),
           CleanupOrder[at[b]] = k, CleanupObject(b)
    PROVE  ~Here(PipelineName[b], k)'
<1>1. objs \in [Pipelines -> SUBSET Kinds] /\ PipelineName[b] \in Pipelines
  BY ReconcilerAssumption DEF TypeInv, TypeOK, TenantTypeOK
<1>2. Remove(PipelineName[b], k) /\ k \in Kinds
  BY DEF CleanupObject, Cleaned
<1>3. CleanupFinds(PipelineName[b], k) <=> k \in objs[PipelineName[b]]
  BY <1>2 DEF CleanupFinds, View, Reliable
<1> QED
  BY <1>1, <1>2, <1>3 DEF Remove, Here

\* An owner answers for its object until the object is gone.
LEMMA OwnedStep ==
    ASSUME WorkInv, Owned, [Next]_vars
    PROVE  Owned'
<1> SUFFICES ASSUME NEW p \in Pipelines, NEW k \in Cleaned, Reliable(k), Here(p, k)'
             PROVE  \E b \in Bindings : PipelineName[b] = p /\ Answers(b, k)'
  BY DEF Owned, Reliable
<1>1. TypeInv
  BY DEF WorkInv, SafeInv
<1>2. CASE Here(p, k)
  <2>1. PICK b \in Bindings : PipelineName[b] = p /\ Answers(b, k)
    BY <1>2 DEF Owned
  <2>2. ~(CleanupObject(b) /\ CleanupOrder[at[b]] = k)
    BY <1>1, <2>1, CleansUp
  <2>3. ~(CleanupSwallowed(b) /\ CleanupOrder[at[b]] = k)
    BY DEF CleanupSwallowed, Reliable
  <2> QED
    BY <2>1, <2>2, <2>3, AnswersOn
<1>3. CASE ~Here(p, k)
  <2>1. PICK b \in Bindings : EnsureObject(b) /\ PipelineName[b] = p
    BY <1>1, <1>3, Appears
  <2>2. Managed(b) /\ rb' = rb /\ pc'[b] \in {"provision", "record"}
    BY <2>1 DEF EnsureObject, WorkInv, SafeInv, Safe, LocalTrails, Provisioning, TypeInv, TypeOK
  <2>3. Answers(b, k)'
    BY <2>2 DEF Answers, Managed
  <2> QED
    BY <2>1, <2>3
<1> QED
  BY <1>2, <1>3

\* The invariant of the orphan theorems, without any assumption: it is about
\* the kinds the cleanup can be relied on for, whichever these are.
THEOREM LeftoversOwned == Spec => []Owned
<1>1. Init => Owned
  BY DEF Init, TenantInit, Owned, Here
<1>2. WorkInv /\ Owned /\ [Next]_vars => Owned'
  BY OwnedStep
<1> QED
  BY <1>1, <1>2, WorkSafety, PTL DEF Spec

\* If the caches of Trigger, TriggerTemplate and Namespace do not lag, a
\* pipeline without a binding has no Trigger, no TriggerTemplate and no AppProject,
\* and its namespace is gone or going, whatever conflicts, failures and restarts
\* its cleanup went through. The RoleBinding in the argocd namespace and the
\* listener's entry, which no cleanup step is about, stay.
THEOREM NoOrphans ==
    ASSUME {"Trigger", "TriggerTemplate", "Namespace"} \cap Lagging = {}
    PROVE  Spec => []NoTenantOrphans
<1>1. \A k \in {"Trigger", "TriggerTemplate", "Namespace", "AppProject"} :
         k \in Cleaned /\ Reliable(k)
  BY DEF Reliable, Cleaned, CleanupOrder, CleanedLive, Kinds
<1>2. Owned => NoTenantOrphans
  BY <1>1 DEF Owned, NoTenantOrphans, Released, Here, Answers
<1> QED
  BY <1>2, LeftoversOwned, PTL

\* Nor do its cluster-wide permissions outlive it, unless a failed read is
\* taken for an absent object.
THEOREM NoRBACOrphans ==
    ASSUME SwallowedReads = FALSE
    PROVE  Spec => []NoClusterRBACOrphans
<1>1. \A k \in {"ClusterRole", "ClusterRoleBinding"} : k \in Cleaned /\ Reliable(k)
  BY DEF Reliable, Cleaned, CleanupOrder, CleanedLive, Kinds
<1>2. Owned => NoClusterRBACOrphans
  BY <1>1 DEF Owned, NoClusterRBACOrphans, Released, Here, Answers
<1> QED
  BY <1>2, LeftoversOwned, PTL

-----------------------------------------------------------------------------
(***************************************************************************)
(* The life of a stored object.                                            *)
(***************************************************************************)
\* Presence and finalizer change in three ways only: the controller takes the
\* object on, a user creates it, or it goes.
LEMMA Lives ==
    ASSUME WorkInv, [Next]_vars, NEW b \in Bindings
    PROVE  \/ rb'[b].present = rb[b].present /\ rb'[b].finalizer = rb[b].finalizer
           \/ EnsureFinalizer(b) /\ rb[b].present /\ ~rb[b].finalizer
           \/ ~rb'[b].finalizer /\ \E s \in Specs : UserCreate(b, s)
           \/ ~rb'[b].present /\ ~rb'[b].finalizer
<1> DEFINE Goal ==
        \/ rb'[b].present = rb[b].present /\ rb'[b].finalizer = rb[b].finalizer
        \/ EnsureFinalizer(b) /\ rb[b].present /\ ~rb[b].finalizer
        \/ ~rb'[b].finalizer /\ \E s \in Specs : UserCreate(b, s)
        \/ ~rb'[b].present /\ ~rb'[b].finalizer
<1>1. rb \in [Bindings -> RepoBinding] /\ rb[b] \in RepoBinding /\ TypeInv
  BY DEF WorkInv, SafeInv, TypeInv, TypeOK
<1>2. ~Absent.present /\ ~Absent.finalizer
  BY DEF Absent, Created
<1>3. CASE AdmitRejected(b) \/ RejectPending(b) \/ MarkFailed(b)
  BY <1>1, <1>3 DEF AdmitRejected, RejectPending, MarkFailed, WriteAndReturn,
                    RepeatAndReturn, RepoBinding
<1>4. CASE EnsureFinalizer(b)
  BY <1>4 DEF EnsureFinalizer, WorkInv, SafeInv, Safe, LocalTrails, Steady
<1>5. CASE InitializeStatus(b) \/ AcceptPending(b)
  BY <1>1, <1>5 DEF InitializeStatus, AcceptPending, WriteAndContinue, RepoBinding
<1>6. CASE RecordStep(b) \/ RecordReady(b)
  BY <1>1, <1>6 DEF RecordStep, RecordReady, WriteAndReturn, RepoBinding
<1>7. CASE RemoveFinalizer(b)
  BY <1>1, <1>2, <1>7 DEF RemoveFinalizer, WriteAndReturn
<1>8. CASE User(b)
  <2>1. ASSUME NEW s \in Specs, UserCreate(b, s)
        PROVE  Goal
    BY <1>1, <2>1 DEF UserCreate, StoredBy, Created
  <2>2. ASSUME NEW s \in Specs, UserUpdate(b, s)
        PROVE  Goal
    BY <1>1, <2>2 DEF UserUpdate, StoredBy, RepoBinding
  <2>3. CASE UserDelete(b)
    BY <1>1, <1>2, <2>3 DEF UserDelete, StoredBy, RepoBinding
  <2> QED
    BY <1>8, <2>1, <2>2, <2>3 DEF User
<1>9. CASE \/ FinalizerConflict(b) \/ ReleaseConflict(b) \/ PatchNotFound(b)
           \/ EnsureObject(b) \/ ProvisionRefused(b) \/ CleanupObject(b)
           \/ Fetch(b) \/ Failure(b) \/ SyncBinding(b) \/ Restart
  BY <1>9 DEF FinalizerConflict, ReleaseConflict, PatchNotFound, EnsureObject,
              ProvisionRefused, CleanupObject, CleanupAdvances, Fetch, Failure,
              ProvisionFaulted, CleanupSwallowed, Abort, SyncBinding, Restart
<1>10. CASE Untouched(b)
  BY <1>10 DEF Untouched
<1> QED
  BY <1>1, <1>3, <1>4, <1>5, <1>6, <1>7, <1>8, <1>9, <1>10, Touches DEF Acts, Work

\* No cleanup of b has begun in the present life of its object: none runs, and
\* none can begin before the cache shows the deletion and the reconcile under
\* way, which does not know of it, is over.
Intact(b) ==
    /\ Managed(b)
    /\ \/ pc[b] \in Provisioning
       \/ pc[b] \notin {"cleanup", "release"} /\ ~Doomed(cache[b])

\* Once it may have begun, no reconcile of b provisions again.
LEMMA DoomSticks ==
    ASSUME WorkInv, [Next]_vars, NEW b \in Bindings, Managed(b),
           Doomed(cache[b]), pc[b] \notin Provisioning
    PROVE  Doomed(cache[b])' /\ pc'[b] \notin Provisioning
<1>1. /\ TypeInv /\ rb[b] \in RepoBinding /\ cache[b] \in RepoBinding
      /\ cache \in [Bindings -> RepoBinding] /\ pc \in [Bindings -> Stages]
  BY DEF WorkInv, SafeInv, TypeInv, TypeOK
<1>2. Doomed(rb[b])
  BY <1>1 DEF WorkInv, SafeInv, Safe, CacheTrails, Managed, Kept, Doomed, RepoBinding
<1>3. CASE Fetch(b)
  <2>1. Dispatch(cache[b]) = "cleanup" /\ cache[b].present
    BY DEF Dispatch, Doomed
  <2> QED
    BY <1>1, <1>3, <2>1 DEF Fetch, Provisioning
<1>4. CASE AdmitRejected(b) \/ EnsureFinalizer(b) \/ FinalizerConflict(b)
  BY <1>1, <1>4 DEF AdmitRejected, EnsureFinalizer, FinalizerConflict, WriteAndReturn,
                    RepeatAndReturn, Return, Provisioning
<1>5. CASE RemoveFinalizer(b) \/ ReleaseConflict(b) \/ PatchNotFound(b) \/ Abort(b)
  BY <1>1, <1>5 DEF RemoveFinalizer, ReleaseConflict, PatchNotFound, Abort,
                    WriteAndReturn, Return, Provisioning
<1>6. CASE CleanupObject(b) \/ CleanupSwallowed(b)
  BY <1>1, <1>6 DEF CleanupObject, CleanupSwallowed, CleanupAdvances, Provisioning
<1>7. CASE User(b)
  BY <1>7 DEF User, UserCreate, UserUpdate, UserDelete, StoredBy
<1>8. CASE SyncBinding(b)
  BY <1>1, <1>2, <1>8 DEF SyncBinding, Doomed
<1>9. CASE Restart
  BY <1>2, <1>9 DEF Restart, Doomed, Provisioning
<1>10. CASE Untouched(b)
  BY <1>10 DEF Untouched
<1>11. /\ ~InitializeStatus(b) /\ ~AcceptPending(b) /\ ~RejectPending(b) /\ ~MarkFailed(b)
       /\ ~EnsureObject(b) /\ ~ProvisionRefused(b) /\ ~ProvisionFaulted(b)
       /\ ~RecordStep(b) /\ ~RecordReady(b)
  BY DEF InitializeStatus, AcceptPending, RejectPending, MarkFailed, EnsureObject,
         ProvisionRefused, ProvisionFaulted, RecordStep, RecordReady, Provisioning
<1> QED
  BY <1>1, <1>3, <1>4, <1>5, <1>6, <1>7, <1>8, <1>9, <1>10, <1>11, Touches
     DEF Acts, Work, Failure

\* A binding is intact from the moment it is taken on, and never again once it
\* is not.
LEMMA IntactBefore ==
    ASSUME WorkInv, [Next]_vars, NEW b \in Bindings, Intact(b)'
    PROVE  Intact(b) \/ (EnsureFinalizer(b) /\ rb[b].present /\ ~rb[b].finalizer)
<1>1. CASE Managed(b)
  <2>1. ~Intact(b) => Doomed(cache[b]) /\ pc[b] \notin Provisioning
    BY <1>1 DEF Intact, WorkInv, Steady
  <2> QED
    BY <1>1, <2>1, DoomSticks DEF Intact
<1>2. CASE ~Managed(b)
  BY <1>2, Lives DEF Intact, Managed
<1> QED
  BY <1>1, <1>2

\* A binding the user wants to keep is intact.
LEMMA KeptIntact ==
    ASSUME WorkInv, NEW b \in Bindings, Kept(rb[b])
    PROVE  Intact(b)
BY DEF WorkInv, SafeInv, Safe, CacheTrails, LocalTrails, Intact, Managed, Kept, Doomed

-----------------------------------------------------------------------------
(***************************************************************************)
(* What has been made for a binding: what its status says, and what the    *)
(* reconcile under way has made of the step it is at.                      *)
(***************************************************************************)
ObjectsOf(s) == {StepKinds[s][i] : i \in 1..Len(StepKinds[s])}

PromisedBy(o) ==
    UNION {ObjectsOf(s) :
              s \in o.flags \cup IF o.phase = "Ready" THEN {Finalization} ELSE {}}

Made(b) ==
    {StepKinds[CurrentStep(b)][i] : i \in
        {j \in 1..Len(StepKinds[CurrentStep(b)]) :
            pc[b] = "record" \/ (pc[b] = "provision" /\ j < at[b])}}

Have(b) == PromisedBy(rb[b]) \cup Made(b)

\* A status that says no more promises no more.
LEMMA PromisedLess ==
    ASSUME NEW o, NEW r, o.flags \subseteq r.flags, o.phase = "Ready" => r.phase = "Ready"
    PROVE  PromisedBy(o) \subseteq PromisedBy(r)
BY DEF PromisedBy

\* Recording a step promises its objects.
LEMMA PromisedMore ==
    ASSUME NEW o, NEW r, NEW s,
           \/ o.flags = r.flags \cup {s} /\ o.phase = r.phase
           \/ o.flags = r.flags /\ s = Finalization
    PROVE  PromisedBy(o) \subseteq PromisedBy(r) \cup ObjectsOf(s)
BY DEF PromisedBy

\* A reconcile at the first object of a step has made none of it.
LEMMA NothingMade ==
    ASSUME TypeInv', NEW b \in Bindings,
           pc'[b] # "record", pc'[b] = "provision" => at'[b] = 1
    PROVE  Made(b)' = {}
<1>1. \A j \in 1..Len(StepKinds[CurrentStep(b)'])  : ~(j < 1)
  OBVIOUS
<1> QED
  BY <1>1 DEF Made

\* A step adds to what b has nothing but the object it writes.
LEMMA HaveStep ==
    ASSUME WorkInv, [Next]_vars, NEW b \in Bindings, Intact(b), Intact(b)'
    PROVE  Have(b)' \subseteq Have(b) \cup
               {k \in {CurrentKind(b)} : EnsureObject(b)}
<1>1. /\ TypeInv /\ TypeInv' /\ rb[b] \in RepoBinding /\ rb'[b] \in RepoBinding
      /\ rb \in [Bindings -> RepoBinding] /\ at[b] \in 1..7
      /\ pc \in [Bindings -> Stages] /\ at \in [Bindings -> 1..7]
  BY TypeStep DEF WorkInv, SafeInv, TypeInv, TypeOK
<1>2. pc[b] \notin {"provision", "cleanup"} => at[b] = 1
  BY DEF WorkInv, SafeInv, TypeInv, PositionOK
<1>3. ASSUME rb'[b].flags \subseteq rb[b].flags, rb'[b].phase = "Ready" => rb[b].phase = "Ready",
             pc'[b] # "record", pc'[b] = "provision" => at'[b] = 1
      PROVE  Have(b)' \subseteq Have(b)
  BY <1>1, <1>3, NothingMade, PromisedLess DEF Have
<1>4. \A ph : /\ [rb[b] EXCEPT !.phase = ph].flags = rb[b].flags
              /\ [rb[b] EXCEPT !.phase = ph].phase = ph
  BY <1>1 DEF RepoBinding
<1>5. CASE AdmitRejected(b) \/ RejectPending(b) \/ MarkFailed(b)
  <2> DEFINE failed == [rb[b] EXCEPT !.phase = "Failed"]
  <2>1. \E again \in BOOLEAN :
           WriteAndReturn(b, failed, again) \/ RepeatAndReturn(b, failed, again)
    BY <1>5 DEF AdmitRejected, RejectPending, MarkFailed
  <2>2. failed.flags = rb[b].flags /\ failed.phase = "Failed"
    BY <1>4
  <2> HIDE DEF failed
  <2>3. rb'[b] = failed /\ pc'[b] = "idle"
    BY <1>1, <2>1 DEF WriteAndReturn, RepeatAndReturn, Return
  <2> QED
    BY <1>3, <2>2, <2>3
<1>6. CASE \/ FinalizerConflict(b) \/ ReleaseConflict(b) \/ PatchNotFound(b)
           \/ Abort(b)
  <2>1. rb' = rb /\ pc'[b] = "idle"
    BY <1>1, <1>6 DEF FinalizerConflict, ReleaseConflict, PatchNotFound, Abort, Return
  <2> QED
    BY <1>3, <2>1
<1>7. CASE EnsureFinalizer(b)
  <2>1. /\ rb'[b].flags = rb[b].flags /\ rb'[b].phase = rb[b].phase
        /\ pc'[b] = "idle"
    BY <1>1, <1>7 DEF EnsureFinalizer, WriteAndReturn, Return, RepoBinding
  <2> QED
    BY <1>3, <2>1
<1>8. CASE InitializeStatus(b)
  <2> DEFINE next == AfterInitialize(IF PatchRefreshes
                         THEN [rb[b] EXCEPT !.phase = "Pending"] ELSE local[b])
  <2>1. next \in {"idle", "validate", "provision"}
    BY DEF AfterInitialize
  <2>2. WriteAndContinue(b, [rb[b] EXCEPT !.phase = "Pending"], next) /\ pc[b] = "initialize"
    BY <1>8 DEF InitializeStatus
  <2> HIDE DEF next
  <2>3. /\ rb'[b] = [rb[b] EXCEPT !.phase = "Pending"] /\ pc'[b] = next /\ at' = at
    BY <1>1, <2>2 DEF WriteAndContinue
  <2> QED
    BY <1>2, <1>3, <1>4, <2>1, <2>2, <2>3
<1>9. CASE AcceptPending(b)
  <2>1. /\ rb'[b] = [rb[b] EXCEPT !.phase = "Provisioning"]
        /\ pc'[b] = "provision" /\ at' = at /\ pc[b] = "validate"
    BY <1>1, <1>9 DEF AcceptPending, WriteAndContinue
  <2> QED
    BY <1>2, <1>3, <1>4, <2>1
<1>10. CASE EnsureObject(b)
  <2> DEFINE kinds == StepKinds[CurrentStep(b)]
  <2>1. /\ rb' = rb /\ local' = local /\ pc[b] = "provision"
        /\ pc'[b] = (IF LastKind(b) THEN "record" ELSE "provision")
        /\ at'[b] = (IF LastKind(b) THEN 1 ELSE at[b] + 1)
    BY <1>1, <1>10 DEF EnsureObject
  <2>2. at[b] <= Len(kinds) /\ Len(kinds) \in 1..6
    <3>1. local[b] \in RepoBinding /\ at[b] <= Len(kinds)
      BY <2>1 DEF WorkInv, SafeInv, TypeInv, TypeOK, PositionOK
    <3> QED
      BY <3>1, ListsNotEmpty DEF CurrentStep
  <2>3. CurrentStep(b)' = CurrentStep(b)
    BY <2>1 DEF CurrentStep
  <2>4. Made(b)' \subseteq Made(b) \cup {kinds[at[b]]}
    <3> SUFFICES ASSUME NEW j \in 1..Len(kinds),
                        pc'[b] = "record" \/ (pc'[b] = "provision" /\ j < at'[b])
                 PROVE  j < at[b] \/ j = at[b]
      BY <2>1, <2>3 DEF Made
    <3>1. CASE LastKind(b)
      BY <1>1, <2>2, <3>1 DEF LastKind
    <3>2. CASE ~LastKind(b)
      BY <1>1, <2>1, <2>2, <3>2
    <3> QED
      BY <3>1, <3>2
  <2> QED
    BY <1>10, <2>1, <2>4 DEF Have, CurrentKind
<1>11. CASE ProvisionRefused(b) \/ ProvisionFaulted(b)
  <2>1. rb' = rb /\ pc'[b] = "markFailed"
    BY <1>1, <1>11 DEF ProvisionRefused, ProvisionFaulted
  <2> QED
    BY <1>3, <2>1
<1>12. CASE RecordStep(b) \/ RecordReady(b)
  <2>1. pc[b] = "record" /\ pc'[b] = "idle"
    BY <1>1, <1>12 DEF RecordStep, RecordReady, WriteAndReturn, Return
  <2>2. Made(b) = ObjectsOf(CurrentStep(b)) /\ Made(b)' = {}
    BY <1>1, <2>1, NothingMade DEF Made, ObjectsOf
  <2>3. PromisedBy(rb'[b]) \subseteq PromisedBy(rb[b]) \cup ObjectsOf(CurrentStep(b))
    <3>1. CASE RecordStep(b)
      <4>1. rb'[b].flags = rb[b].flags \cup {CurrentStep(b)} /\ rb'[b].phase = rb[b].phase
        BY <1>1, <3>1 DEF RecordStep, WriteAndReturn, RepoBinding
      <4> QED
        BY <4>1, PromisedMore
    <3>2. CASE RecordReady(b)
      <4>1. rb'[b].flags = rb[b].flags /\ CurrentStep(b) = Finalization
        BY <1>1, <1>4, <3>2 DEF RecordReady, WriteAndReturn
      <4> QED
        BY <4>1, PromisedMore
    <3> QED
      BY <1>12, <3>1, <3>2
  <2> QED
    BY <2>2, <2>3 DEF Have
<1>13. CASE User(b)
  <2>1. Managed(b) /\ Managed(b)'
    BY DEF Intact
  <2>2. rb'[b].flags = rb[b].flags /\ rb'[b].phase = rb[b].phase
    BY <1>1, <1>13, <2>1 DEF User, UserCreate, UserUpdate, UserDelete, StoredBy,
                             Managed, RepoBinding, Absent, Created
  <2>3. UNCHANGED <<local, pc, at>>
    BY <1>13 DEF User, UserCreate, UserUpdate, UserDelete, StoredBy
  <2>4. Made(b)' = Made(b)
    BY <2>3 DEF Made, CurrentStep
  <2> QED
    BY <2>2, <2>4, PromisedLess DEF Have
<1>14. CASE Fetch(b)
  <2>1. rb' = rb /\ pc[b] = "idle" /\ at' = at
    BY <1>14 DEF Fetch
  <2>2. pc'[b] # "record"
    <3>1. cache[b] \in RepoBinding
      BY DEF WorkInv, SafeInv, TypeInv, TypeOK
    <3> QED
      BY <1>1, <1>14, <3>1, DispatchStages DEF Fetch
  <2> QED
    BY <1>2, <1>3, <2>1, <2>2
<1>15. CASE SyncBinding(b) \/ Untouched(b)
  <2>1. rb'[b] = rb[b] /\ local'[b] = local[b] /\ pc'[b] = pc[b] /\ at'[b] = at[b]
    BY <1>15 DEF SyncBinding, Untouched
  <2> QED
    BY <2>1 DEF Have, Made, CurrentStep
<1>16. CASE Restart
  <2>1. rb' = rb /\ pc'[b] = "idle"
    BY <1>16 DEF Restart
  <2> QED
    BY <1>3, <2>1
<1>17. ~CleanupObject(b) /\ ~CleanupSwallowed(b) /\ ~RemoveFinalizer(b)
  BY DEF CleanupObject, CleanupSwallowed, RemoveFinalizer, Intact, Provisioning
<1> QED
  BY <1>1, <1>5, <1>6, <1>7, <1>8, <1>9, <1>10, <1>11, <1>12, <1>13, <1>14, <1>15,
     <1>16, <1>17, Touches DEF Acts, Work, Failure

\* A binding the controller has just taken on has nothing yet.
LEMMA HaveNothing ==
    ASSUME WorkInv, [Next]_vars, NEW b \in Bindings, EnsureFinalizer(b), ~rb[b].finalizer
    PROVE  Have(b)' = {}
<1>1. TypeInv' /\ rb[b] \in RepoBinding /\ rb \in [Bindings -> RepoBinding]
      /\ pc \in [Bindings -> Stages]
  BY TypeStep DEF WorkInv, SafeInv, TypeInv, TypeOK
<1>2. rb'[b].flags = {} /\ rb'[b].phase # "Ready" /\ pc'[b] = "idle"
  BY <1>1 DEF EnsureFinalizer, WriteAndReturn, Return, RepoBinding, WorkInv, Steady, Sound
<1> QED
  BY <1>1, <1>2, NothingMade DEF Have, PromisedBy

-----------------------------------------------------------------------------
(***************************************************************************)
(* What the status says is there, is there.  Two things must be granted.   *)
(* Two bindings never name one pipeline (otherwise the one's cleanup takes *)
(* what the other has), and nobody creates a binding again while the       *)
(* namespace of its last life drains, caches still show its objects, or    *)
(* a failed read has left its cluster RBAC for a late cleanup to find.     *)
(***************************************************************************)
OnePipelineEach ==
    \A b, c \in Bindings : PipelineName[b] = PipelineName[c] => b = c

\* What provisioning would take for existing, exists.
Shown(p) == seen[p] \ Applied \subseteq objs[p]

\* What a cleanup could still delete behind the back of a cache.
Stray(p) ==
    {k \in {"ClusterRole", "ClusterRoleBinding"} \cap Lagging : SwallowedReads /\ k \in objs[p]}

Cleared(p) == "Namespace" \notin objs[p] /\ Shown(p) /\ Stray(p) = {}

Patience(b) == ~rb[b].present /\ rb'[b].present => Cleared(PipelineName[b])

PatientUsers == [][\A b \in Bindings : Patience(b)]_vars

\* An object not taken on yet waits in a place its last life has left.
Vacant(b) == rb[b].present /\ ~rb[b].finalizer => Cleared(PipelineName[b])

\* What has been made for an intact binding is there and stays.
Real(b) ==
    Intact(b) =>
        /\ Have(b) \subseteq objs[PipelineName[b]]
        /\ PipelineName[b] \notin terminating
        /\ Shown(PipelineName[b])

TermInv == \A p \in terminating : "Namespace" \in objs[p]

RealInv == TermInv /\ \A b \in Bindings : Vacant(b) /\ Real(b)

\* A namespace that is going away is there until it is gone.
LEMMA TerminatingStep ==
    ASSUME TypeInv, TermInv, [Next]_vars
    PROVE  TermInv'
<1>1. /\ objs \in [Pipelines -> SUBSET Kinds] /\ terminating \subseteq Pipelines
      /\ \A b \in Bindings : PipelineName[b] \in Pipelines
  BY ReconcilerAssumption DEF TypeInv, TypeOK, TenantTypeOK
<1>2. ASSUME NEW b \in Bindings, EnsureObject(b)
      PROVE  TermInv'
  BY <1>1, <1>2 DEF EnsureObject, Ensure, TermInv
<1>3. ASSUME NEW b \in Bindings, CleanupObject(b)
      PROVE  TermInv'
  BY <1>1, <1>3 DEF CleanupObject, Remove, TermInv
<1>4. ASSUME NEW q \in Pipelines, Drain(q)
      PROVE  TermInv'
  BY <1>1, <1>4 DEF Drain, TermInv, Namespaced
<1>5. CASE UNCHANGED <<objs, terminating>>
  BY <1>5 DEF TermInv
<1> QED
  BY <1>2, <1>3, <1>4, <1>5, ObjectsTouched

\* An informer never shows more than it did and than there is.
LEMMA SeenTouched ==
    ASSUME TypeInv, [Next]_vars
    PROVE  \/ seen' = seen
           \/ objs' = objs /\ \A p \in Pipelines : seen'[p] \subseteq seen[p] \cup objs[p]
<1> DEFINE Goal ==
        \/ seen' = seen
        \/ objs' = objs /\ \A p \in Pipelines : seen'[p] \subseteq seen[p] \cup objs[p]
<1>1. ASSUME NEW b \in Bindings, Acts(b)
      PROVE  seen' = seen
  <2> USE DEF tenantVars
  <2>1. CASE Fetch(b) \/ SyncBinding(b)
    BY <2>1 DEF Fetch, SyncBinding
  <2>2. CASE AdmitRejected(b) \/ EnsureFinalizer(b) \/ FinalizerConflict(b)
    BY <2>2 DEF AdmitRejected, EnsureFinalizer, FinalizerConflict, WriteAndReturn,
                RepeatAndReturn
  <2>3. CASE InitializeStatus(b) \/ AcceptPending(b)
    BY <2>3 DEF InitializeStatus, AcceptPending, WriteAndContinue
  <2>4. CASE RejectPending(b) \/ MarkFailed(b) \/ RecordStep(b) \/ RecordReady(b)
    BY <2>4 DEF RejectPending, MarkFailed, RecordStep, RecordReady, WriteAndReturn
  <2>5. CASE ProvisionRefused(b) \/ ProvisionFaulted(b) \/ CleanupSwallowed(b)
    BY <2>5 DEF ProvisionRefused, ProvisionFaulted, CleanupSwallowed
  <2>6. CASE RemoveFinalizer(b) \/ ReleaseConflict(b) \/ PatchNotFound(b) \/ Abort(b)
    BY <2>6 DEF RemoveFinalizer, ReleaseConflict, PatchNotFound, Abort, WriteAndReturn
  <2>7. CASE EnsureObject(b) \/ CleanupObject(b)
    BY <2>7 DEF EnsureObject, Ensure, CleanupObject, Remove
  <2>8. CASE User(b)
    BY <2>8 DEF User, UserCreate, UserUpdate, UserDelete, StoredBy
  <2> QED
    BY <1>1, <2>1, <2>2, <2>3, <2>4, <2>5, <2>6, <2>7, <2>8 DEF Acts, Work, Failure
<1>2. CASE Restart
  BY <1>2 DEF Restart
<1>3. CASE UNCHANGED vars
  BY <1>3 DEF vars
<1>4. CASE ClusterStep
  BY <1>4 DEF ClusterStep, SyncView, Drain, TypeInv, TypeOK, TenantTypeOK
<1> QED
  BY <1>1, <1>2, <1>3, <1>4 DEF Next, Acts

\* Nothing of an intact binding is taken away but by its draining namespace.
LEMMA NothingTaken ==
    ASSUME OnePipelineEach, TypeInv, [Next]_vars, NEW b \in Bindings, Intact(b),
           PipelineName[b] \notin terminating
    PROVE  /\ objs[PipelineName[b]] \subseteq objs'[PipelineName[b]]
           /\ PipelineName[b] \notin terminating'
<1>1. /\ objs \in [Pipelines -> SUBSET Kinds]
      /\ \A c \in Bindings : PipelineName[c] \in Pipelines
  BY ReconcilerAssumption DEF TypeInv, TypeOK, TenantTypeOK
<1>2. ASSUME NEW c \in Bindings, EnsureObject(c)
      PROVE  /\ objs[PipelineName[b]] \subseteq objs'[PipelineName[b]]
             /\ PipelineName[b] \notin terminating'
  BY <1>1, <1>2 DEF EnsureObject, Ensure
<1>3. ASSUME NEW c \in Bindings, CleanupObject(c)
      PROVE  /\ objs[PipelineName[b]] \subseteq objs'[PipelineName[b]]
             /\ PipelineName[b] \notin terminating'
  <2>1. b # c
    BY <1>3 DEF CleanupObject, Intact, Provisioning
  <2>2. PipelineName[b] # PipelineName[c]
    BY <2>1 DEF OnePipelineEach
  <2> QED
    BY <1>1, <1>3, <2>2 DEF CleanupObject, Remove
<1>4. ASSUME NEW q \in Pipelines, Drain(q)
      PROVE  /\ objs[PipelineName[b]] \subseteq objs'[PipelineName[b]]
             /\ PipelineName[b] \notin terminating'
  BY <1>1, <1>4 DEF Drain
<1>5. CASE UNCHANGED <<objs, terminating>>
  BY <1>5
<1> QED
  BY <1>2, <1>3, <1>4, <1>5, ObjectsTouched

\* A provisioning write leaves its object there, or the cache had shown one
\* that is.
LEMMA EnsuredIsThere ==
    ASSUME TypeInv, NEW b \in Bindings, EnsureObject(b), Shown(PipelineName[b])
    PROVE  CurrentKind(b) \in objs'[PipelineName[b]]
<1>1. objs \in [Pipelines -> SUBSET Kinds] /\ PipelineName[b] \in Pipelines
  BY ReconcilerAssumption DEF TypeInv, TypeOK, TenantTypeOK
<1> QED
  BY <1>1 DEF EnsureObject, Ensure, View, Shown

\* If objects stay and informers learn nothing else, what is shown exists.
LEMMA ShownStep ==
    ASSUME TypeInv, [Next]_vars, NEW p \in Pipelines, Shown(p),
           objs[p] \subseteq objs'[p]
    PROVE  Shown(p)'
BY SeenTouched DEF Shown

\* A late cleanup by a reconcile of the last life finds nothing to take from
\* where a new object waits.
LEMMA VacantStep ==
    ASSUME OnePipelineEach, WorkInv, Owned, RealInv, [Next]_vars,
           [\A b \in Bindings : Patience(b)]_vars, NEW b \in Bindings
    PROVE  Vacant(b)'
<1> DEFINE p == PipelineName[b]
<1>1. /\ TypeInv /\ p \in Pipelines
      /\ objs \in [Pipelines -> SUBSET Kinds] /\ seen \in [Pipelines -> SUBSET Lagging]
      /\ \A c \in Bindings : PipelineName[c] \in Pipelines
  BY ReconcilerAssumption DEF WorkInv, SafeInv, TypeInv, TypeOK, TenantTypeOK
<1> HIDE DEF p
<1> SUFFICES ASSUME rb'[b].present, ~rb'[b].finalizer
             PROVE  Cleared(p)'
  BY DEF Vacant, p
<1>2. CASE \E s \in Specs : UserCreate(b, s)
  <2>1. UNCHANGED tenantVars /\ ~rb[b].present
    BY <1>2 DEF UserCreate, StoredBy
  <2>2. Patience(b)
    BY <2>1 DEF vars
  <2> QED
    BY <2>1, <2>2 DEF Patience, Cleared, tenantVars, Shown, Stray, p
<1>3. CASE rb'[b].present = rb[b].present /\ rb'[b].finalizer = rb[b].finalizer
  <2>1. /\ "Namespace" \notin objs[p] /\ Shown(p) /\ Stray(p) = {}
        /\ p \notin terminating /\ ~Managed(b)
    BY <1>3 DEF RealInv, Vacant, Cleared, TermInv, Managed, p
  <2>2. ASSUME NEW c \in Bindings, EnsureObject(c)
        PROVE  objs'[p] = objs[p]
    <3>1. b # c
      BY <2>1, <2>2 DEF EnsureObject, WorkInv, SafeInv, Safe, LocalTrails, Provisioning
    <3>2. p # PipelineName[c]
      BY <3>1 DEF OnePipelineEach, p
    <3> QED
      BY <1>1, <2>2, <3>2 DEF EnsureObject, Ensure
  <2>3. ASSUME NEW c \in Bindings, CleanupObject(c), PipelineName[c] # p
        PROVE  objs'[p] = objs[p]
    BY <1>1, <2>3 DEF CleanupObject, Remove
  <2>4. ASSUME NEW q \in Pipelines, Drain(q)
        PROVE  objs'[p] = objs[p]
    BY <1>1, <2>1, <2>4 DEF Drain
  <2>5. CASE objs'[p] = objs[p]
    BY <1>1, <2>1, <2>5, ShownStep DEF Cleared, Stray
  <2>6. ASSUME NEW c \in Bindings, CleanupObject(c), PipelineName[c] = p
        PROVE  Cleared(p)'
    <3> DEFINE k == CleanupOrder[at[c]]
    <3>1. at[c] \in 1..7
      BY DEF WorkInv, SafeInv, TypeInv, TypeOK
    <3>2. k \in {"Trigger", "TriggerTemplate", "Applications", "AppProject",
                 "ClusterRoleBinding", "ClusterRole", "Namespace"}
      BY <3>1 DEF CleanupOrder
    <3>3. seen' = seen /\ objs'[p] \in {objs[p], objs[p] \ {k}}
      BY <1>1, <2>6 DEF CleanupObject, Remove
    <3>4. k \in objs[p] \cap seen[p] => k \in Applied
      <4> SUFFICES ASSUME k \in objs[p], k \in seen[p], k \notin Applied
                   PROVE  FALSE
        OBVIOUS
      <4>1. k \in Lagging /\ k \in Kinds
        BY <1>1
      <4>2. k \in {"ClusterRoleBinding", "ClusterRole"}
        BY <2>1, <3>2, <4>1, TenantAssumption DEF Applied, ReadLive, Kinds, Namespaced
      <4>3. Reliable(k) /\ Here(p, k)
        BY <2>1, <3>1, <4>1, <4>2 DEF Stray, Reliable, Cleaned, CleanedLive, Here
      <4>4. PICK d \in Bindings : PipelineName[d] = p /\ Answers(d, k)
        BY <1>1, <4>3 DEF Owned, Reliable
      <4> QED
        BY <2>1, <4>4 DEF OnePipelineEach, Answers, p
    <3> HIDE DEF k
    <3> QED
      BY <2>1, <3>3, <3>4 DEF Cleared, Shown, Stray
  <2> QED
    BY <1>1, <2>1, <2>2, <2>3, <2>4, <2>5, <2>6, ObjectsTouched
<1>4. ~EnsureFinalizer(b)
  <2>1. rb \in [Bindings -> RepoBinding] /\ rb[b] \in RepoBinding
    BY <1>1 DEF TypeInv, TypeOK
  <2>2. [rb[b] EXCEPT !.finalizer = TRUE].finalizer
    BY <2>1 DEF RepoBinding
  <2> QED
    BY <2>1, <2>2 DEF EnsureFinalizer, WriteAndReturn
<1> QED
  BY <1>2, <1>3, <1>4, Lives DEF WorkInv

\* Each object of an intact binding is there from its write on.
LEMMA RealStep ==
    ASSUME OnePipelineEach, WorkInv, RealInv, [Next]_vars, NEW b \in Bindings
    PROVE  Real(b)'
<1> DEFINE p == PipelineName[b]
<1>1. TypeInv /\ p \in Pipelines
  BY ReconcilerAssumption DEF WorkInv, SafeInv
<1> SUFFICES ASSUME Intact(b)'
             PROVE  Have(b)' \subseteq objs'[p] /\ p \notin terminating' /\ Shown(p)'
  BY DEF Real
<1>2. CASE Intact(b)
  <2>1. Have(b) \subseteq objs[p] /\ p \notin terminating /\ Shown(p)
    BY <1>2 DEF RealInv, Real
  <2>2. objs[p] \subseteq objs'[p] /\ p \notin terminating'
    BY <1>1, <1>2, <2>1, NothingTaken
  <2>3. Shown(p)'
    BY <1>1, <2>1, <2>2, ShownStep
  <2>4. EnsureObject(b) => CurrentKind(b) \in objs'[p]
    BY <1>1, <2>1, EnsuredIsThere
  <2>5. Have(b)' \subseteq Have(b) \cup {k \in {CurrentKind(b)} : EnsureObject(b)}
    BY <1>2, HaveStep
  <2> QED
    BY <2>1, <2>2, <2>3, <2>4, <2>5
<1>3. CASE EnsureFinalizer(b) /\ rb[b].present /\ ~rb[b].finalizer
  <2>1. "Namespace" \notin objs[p] /\ Shown(p) /\ p \notin terminating
    BY <1>3 DEF RealInv, Vacant, Cleared, TermInv
  <2>2. UNCHANGED tenantVars
    BY <1>3 DEF EnsureFinalizer, WriteAndReturn
  <2>3. Have(b)' = {}
    BY <1>3, HaveNothing
  <2> QED
    BY <2>1, <2>2, <2>3 DEF tenantVars, Shown
<1> QED
  BY <1>2, <1>3, IntactBefore

\* The invariant of the theorems about patient users.
LEMMA RealAlways ==
    ASSUME OnePipelineEach
    PROVE  Spec /\ PatientUsers => []RealInv
<1>1. Init => RealInv
  <2>1. ~Absent.present
    BY DEF Absent, Created
  <2> QED
    BY <2>1 DEF Init, TenantInit, RealInv, TermInv, Vacant, Real, Intact, Managed
<1>2. ASSUME WorkInv, Owned, RealInv, [Next]_vars, [\A b \in Bindings : Patience(b)]_vars
      PROVE  RealInv'
  <2>1. TermInv'
    BY <1>2, TerminatingStep DEF RealInv, WorkInv, SafeInv
  <2>2. \A b \in Bindings : Vacant(b)'
    BY <1>2, VacantStep
  <2>3. \A b \in Bindings : Real(b)'
    BY <1>2, RealStep
  <2> QED
    BY <2>1, <2>2, <2>3 DEF RealInv
<1> QED
  BY <1>1, <1>2, WorkSafety, LeftoversOwned, PTL DEF Spec, PatientUsers

\* A status tells the truth: whatever it records of a binding its user keeps is
\* there, in a namespace that stays.
THEOREM RecordedAreReal ==
    ASSUME OnePipelineEach
    PROVE  Spec /\ PatientUsers => []RecordedStepsAreReal
<1>1. ASSUME WorkInv, RealInv, NEW b \in Bindings, Kept(rb[b])
      PROVE  Promised(b) \subseteq objs[PipelineName[b]] /\ PipelineName[b] \notin terminating
  <2>1. Have(b) \subseteq objs[PipelineName[b]] /\ PipelineName[b] \notin terminating
    BY <1>1, KeptIntact DEF RealInv, Real
  <2>2. Promised(b) = PromisedBy(rb[b])
    BY DEF Promised, PromisedBy, ObjectsOf
  <2> QED
    BY <2>1, <2>2 DEF Have
<1>2. WorkInv /\ RealInv => RecordedStepsAreReal
  BY <1>1 DEF RecordedStepsAreReal
<1> QED
  BY <1>2, WorkSafety, RealAlways, PTL

\* In particular Ready means what its message says.  The runs that refute this
\* for impatient users and for two bindings of one pipeline show that both
\* assumptions are needed.
THEOREM ReadyStaysReal ==
    ASSUME OnePipelineEach
    PROVE  Spec /\ PatientUsers => []ReadyIsReal
<1>1. RecordedStepsAreReal => ReadyIsReal
  <2> SUFFICES ASSUME RecordedStepsAreReal, NEW b \in Bindings,
                      Kept(rb[b]), rb[b].phase = "Ready"
               PROVE  /\ Promised(b) \subseteq objs[PipelineName[b]]
                      /\ PipelineName[b] \notin terminating
    BY DEF ReadyIsReal
  <2>1. "Secret" \in Promised(b)
    BY DEF Promised, StepKinds, Finalization, WebhookInfoStep
  <2> QED
    BY <2>1 DEF RecordedStepsAreReal
<1> QED
  BY <1>1, RecordedAreReal, PTL

-----------------------------------------------------------------------------
(***************************************************************************)
(* A Trigger routes to what is provisioned.                                *)
(***************************************************************************)
\* Only the step "trigger" makes Triggers.
LEMMA TriggerMaker ==
    ASSUME NEW s \in AllSteps, "Trigger" \in ObjectsOf(s)
    PROVE  s = "trigger"
<1> USE DEF NamespaceStep, PipelineStep, ServiceAccountStep, RBACStep,
            ListenerStep, TriggerTemplateStep, TriggerStep, WebhookInfoStep
<1>1. \A l \in {NamespaceStep, PipelineStep, ServiceAccountStep, RBACStep,
                ListenerStep, TriggerTemplateStep, WebhookInfoStep} :
         \A i \in 1..Len(l) : l[i] # "Trigger"
  OBVIOUS
<1> HIDE DEF NamespaceStep, PipelineStep, ServiceAccountStep, RBACStep,
             ListenerStep, TriggerTemplateStep, TriggerStep, WebhookInfoStep
<1> QED
  BY <1>1 DEF ObjectsOf, StepKinds, AllSteps, Steps, Finalization

\* The steps before it make everything a run needs.
LEMMA StepsBeforeTrigger ==
    ASSUME NEW o, Before("trigger") \subseteq o.flags
    PROVE  RunNeeds \subseteq PromisedBy(o)
<1>1. /\ ObjectsOf("namespace") = {"Namespace", "ConfigMap"}
      /\ ObjectsOf("pipeline") = {"Pipeline"}
      /\ ObjectsOf("serviceAccount") = {"ServiceAccount"}
  BY DEF ObjectsOf, StepKinds, NamespaceStep, PipelineStep, ServiceAccountStep
<1>2. ObjectsOf("rbac") = {"Role", "RoleBinding", "ClusterRole", "ClusterRoleBinding",
                           "ArgoRoleBinding", "AppProject"}
  BY DEF ObjectsOf, StepKinds, RBACStep
<1>3. /\ ObjectsOf("listener") = {"ListenerEntry"}
      /\ ObjectsOf("triggerTemplate") = {"TriggerTemplate"}
  BY DEF ObjectsOf, StepKinds, ListenerStep, TriggerTemplateStep
<1>4. \A s \in Before("trigger") : ObjectsOf(s) \subseteq PromisedBy(o)
  BY DEF PromisedBy
<1> QED
  BY <1>1, <1>2, <1>3, <1>4, BeforeSteps DEF RunNeeds

\* A reconcile at an object of the step "trigger" works for a binding whose
\* status records the six steps before.
LEMMA TriggerLast ==
    ASSUME WorkInv, NEW b \in Bindings, pc[b] = "provision", CurrentKind(b) = "Trigger"
    PROVE  Before("trigger") \subseteq rb[b].flags
<1>1. local[b] \in RepoBinding /\ local[b].flags \subseteq rb[b].flags
  BY DEF WorkInv, SafeInv, Safe, LocalTrails, Provisioning, TypeInv, TypeOK
<1>2. local[b].flags \in SUBSET Steps
  BY <1>1 DEF RepoBinding
<1>3. at[b] \in 1..Len(StepKinds[CurrentStep(b)])
  <2>1. at[b] \in 1..7 /\ at[b] <= Len(StepKinds[CurrentStep(b)])
    BY DEF WorkInv, SafeInv, TypeInv, TypeOK, PositionOK
  <2>2. Len(StepKinds[CurrentStep(b)]) \in 1..6
    BY <1>1, ListsNotEmpty DEF CurrentStep
  <2> QED
    BY <2>1, <2>2
<1>4. CurrentStep(b) \in AllSteps /\ "Trigger" \in ObjectsOf(CurrentStep(b))
  BY <1>2, <1>3, NextStepFirst DEF CurrentStep, CurrentKind, ObjectsOf
<1>5. CurrentStep(b) = "trigger"
  BY <1>4, TriggerMaker
<1>6. Before("trigger") \subseteq local[b].flags
  BY <1>2, <1>5, NextStepFirst DEF CurrentStep, Finalization
<1> QED
  BY <1>1, <1>6

\* Cleanup takes the Trigger first, and nothing else takes what it needs.
LEMMA RoutesStep ==
    ASSUME OnePipelineEach, "Trigger" \notin Lagging, WorkInv, Owned, RealInv,
           TriggerRoutesToProvisioned, [Next]_vars
    PROVE  TriggerRoutesToProvisioned'
<1>1. /\ TypeInv /\ objs \in [Pipelines -> SUBSET Kinds]
      /\ \A c \in Bindings : PipelineName[c] \in Pipelines
  BY ReconcilerAssumption DEF WorkInv, SafeInv, TypeInv, TypeOK, TenantTypeOK
<1> SUFFICES ASSUME NEW p \in Pipelines, "Trigger" \in objs'[p]
             PROVE  RunNeeds \subseteq objs'[p] /\ p \notin terminating'
  BY DEF TriggerRoutesToProvisioned
<1>2. CASE "Trigger" \in objs[p]
  <2>1. RunNeeds \subseteq objs[p] /\ p \notin terminating
    BY <1>2 DEF TriggerRoutesToProvisioned
  <2>2. ASSUME NEW c \in Bindings, EnsureObject(c)
        PROVE  objs[p] \subseteq objs'[p] /\ terminating' = terminating
    BY <1>1, <2>2 DEF EnsureObject, Ensure
  <2>3. ASSUME NEW c \in Bindings, CleanupObject(c), PipelineName[c] # p
        PROVE  objs'[p] = objs[p] /\ p \notin terminating'
    BY <1>1, <2>1, <2>3 DEF CleanupObject, Remove
  <2>4. ASSUME NEW c \in Bindings, CleanupObject(c), PipelineName[c] = p
        PROVE  FALSE
    <3>1. Reliable("Trigger") /\ Here(p, "Trigger") /\ "Trigger" \in Cleaned
      BY <1>2 DEF Reliable, Here, Cleaned, CleanupOrder, Kinds
    <3>2. Answers(c, "Trigger")
      BY <2>4, <3>1 DEF Owned, OnePipelineEach
    <3>3. pc[c] = "cleanup" /\ at[c] \in 1..7
      BY <2>4 DEF CleanupObject, WorkInv, SafeInv, TypeInv, TypeOK
    <3>4. CleanupOrder[at[c]] = "Trigger"
      <4>1. PICK i \in at[c]..7 : CleanupOrder[i] = "Trigger"
        BY <3>2, <3>3 DEF Answers
      <4>2. CleanupOrder[1] = "Trigger"
        BY DEF CleanupOrder
      <4>3. i \in 1..7 /\ i = 1
        BY <3>3, <4>1, <4>2, CleanupPositions
      <4> QED
        BY <3>3, <4>1, <4>3
    <3>5. Remove(p, "Trigger")
      BY <2>4, <3>4 DEF CleanupObject
    <3>6. CleanupFinds(p, "Trigger")
      BY <1>2 DEF CleanupFinds, CleanedLive, View, Kinds
    <3> QED
      BY <1>1, <3>5, <3>6 DEF Remove
  <2>5. ASSUME NEW q \in Pipelines, Drain(q)
        PROVE  objs'[p] = objs[p] /\ p \notin terminating'
    BY <1>1, <2>1, <2>5 DEF Drain
  <2> QED
    BY <2>1, <2>2, <2>3, <2>4, <2>5, ObjectsTouched
<1>3. CASE "Trigger" \notin objs[p]
  <2>1. PICK b \in Bindings : /\ EnsureObject(b) /\ PipelineName[b] = p
                             /\ CurrentKind(b) = "Trigger"
    <3>1. Here(p, "Trigger")' /\ ~Here(p, "Trigger")
      BY <1>3 DEF Here
    <3> QED
      BY <1>1, <3>1, Appears
  <2>2. RunNeeds \subseteq PromisedBy(rb[b])
    BY <2>1, TriggerLast, StepsBeforeTrigger DEF EnsureObject
  <2>3. Intact(b)
    BY <2>1 DEF EnsureObject, Intact, Provisioning, WorkInv, SafeInv, Safe, LocalTrails
  <2>4. RunNeeds \subseteq objs[p] /\ p \notin terminating
    BY <2>1, <2>2, <2>3 DEF RealInv, Real, Have
  <2> QED
    BY <1>1, <2>1, <2>4 DEF EnsureObject, Ensure
<1> QED
  BY <1>2, <1>3

\* A push never starts a run that lacks what it needs, during provisioning, and
\* while a late reconcile provisions what is being deleted, and during cleanup.
THEOREM TriggersRoute ==
    ASSUME OnePipelineEach, "Trigger" \notin Lagging
    PROVE  Spec /\ PatientUsers => []TriggerRoutesToProvisioned
<1>1. Init => TriggerRoutesToProvisioned
  BY DEF Init, TenantInit, TriggerRoutesToProvisioned
<1>2. /\ WorkInv /\ Owned /\ RealInv /\ TriggerRoutesToProvisioned /\ [Next]_vars
         => TriggerRoutesToProvisioned'
  BY RoutesStep
<1> QED
  BY <1>1, <1>2, WorkSafety, LeftoversOwned, RealAlways, PTL DEF Spec

-----------------------------------------------------------------------------
(***************************************************************************)
(* Users who create each binding once are patient.                         *)
(***************************************************************************)
Unborn ==
    \A b \in Bindings : lives[b] = 0 =>
        /\ ~rb[b].present
        /\ objs[PipelineName[b]] = {}
        /\ seen[PipelineName[b]] = {}

\* Creations are counted.
LEMMA LivesCounted ==
    ASSUME TypeInv, [Next]_vars, NEW b \in Bindings, lives'[b] = 0
    PROVE  lives[b] = 0 /\ ~\E s \in Specs : UserCreate(b, s)
<1>1. lives \in [Bindings -> 0..MaxLives] /\ MaxLives \in Nat
  BY ReconcilerAssumption DEF TypeInv, TypeOK
<1>2. ASSUME NEW c \in Bindings, NEW s \in Specs, UserCreate(c, s)
      PROVE  lives[b] = 0 /\ c # b
  BY <1>1, <1>2 DEF UserCreate
<1>3. ASSUME NEW c \in Bindings, Acts(c), ~\E s \in Specs : UserCreate(c, s)
      PROVE  lives' = lives
  <2>1. CASE Fetch(c) \/ SyncBinding(c)
    BY <2>1 DEF Fetch, SyncBinding
  <2>2. CASE AdmitRejected(c) \/ EnsureFinalizer(c) \/ FinalizerConflict(c)
    BY <2>2 DEF AdmitRejected, EnsureFinalizer, FinalizerConflict, WriteAndReturn,
                RepeatAndReturn
  <2>3. CASE InitializeStatus(c) \/ AcceptPending(c)
    BY <2>3 DEF InitializeStatus, AcceptPending, WriteAndContinue
  <2>4. CASE RejectPending(c) \/ MarkFailed(c) \/ RecordStep(c) \/ RecordReady(c)
    BY <2>4 DEF RejectPending, MarkFailed, RecordStep, RecordReady, WriteAndReturn
  <2>5. CASE EnsureObject(c) \/ ProvisionRefused(c) \/ ProvisionFaulted(c)
    BY <2>5 DEF EnsureObject, ProvisionRefused, ProvisionFaulted
  <2>6. CASE CleanupObject(c) \/ CleanupSwallowed(c)
    BY <2>6 DEF CleanupObject, CleanupSwallowed, CleanupAdvances
  <2>7. CASE RemoveFinalizer(c) \/ ReleaseConflict(c) \/ PatchNotFound(c) \/ Abort(c)
    BY <2>7 DEF RemoveFinalizer, ReleaseConflict, PatchNotFound, Abort, WriteAndReturn
  <2>8. CASE User(c)
    BY <1>3, <2>8 DEF User, UserUpdate, UserDelete
  <2> QED
    BY <1>3, <2>1, <2>2, <2>3, <2>4, <2>5, <2>6, <2>7, <2>8 DEF Acts, Work, Failure
<1>4. Restart \/ ClusterStep \/ UNCHANGED vars => lives' = lives
  BY DEF Restart, ClusterStep, vars
<1>5. ~\E s \in Specs : UserCreate(b, s)
  BY <1>1 DEF UserCreate
<1>6. ASSUME NEW c \in Bindings, Acts(c)
      PROVE  lives[b] = 0
  BY <1>2, <1>3, <1>6
<1> QED
  BY <1>4, <1>5, <1>6 DEF Next, Acts

\* A binding that was never created has no objects.
LEMMA UnbornStep ==
    ASSUME OnePipelineEach, WorkInv, Unborn, [Next]_vars
    PROVE  Unborn'
<1>1. /\ TypeInv /\ objs \in [Pipelines -> SUBSET Kinds]
      /\ \A c \in Bindings : PipelineName[c] \in Pipelines
  BY ReconcilerAssumption DEF WorkInv, SafeInv, TypeInv, TypeOK, TenantTypeOK
<1> SUFFICES ASSUME NEW b \in Bindings, lives'[b] = 0
             PROVE  /\ ~rb'[b].present
                    /\ objs'[PipelineName[b]] = {}
                    /\ seen'[PipelineName[b]] = {}
  BY DEF Unborn
<1>2. lives[b] = 0 /\ ~\E s \in Specs : UserCreate(b, s)
  BY <1>1, LivesCounted
<1>3. ~rb[b].present /\ objs[PipelineName[b]] = {} /\ seen[PipelineName[b]] = {}
  BY <1>2 DEF Unborn
<1>4. ~rb'[b].present
  BY <1>2, <1>3, Lives DEF RepoBinding
<1>5. ASSUME NEW c \in Bindings, EnsureObject(c)
      PROVE  objs'[PipelineName[b]] = {}
  <2>1. b # c
    BY <1>3, <1>5 DEF EnsureObject, WorkInv, SafeInv, Safe, LocalTrails, Provisioning, Managed
  <2>2. PipelineName[b] # PipelineName[c]
    BY <2>1 DEF OnePipelineEach
  <2> QED
    BY <1>1, <1>3, <1>5, <2>2 DEF EnsureObject, Ensure
<1>6. ASSUME NEW c \in Bindings, CleanupObject(c)
      PROVE  objs'[PipelineName[b]] = {}
  BY <1>1, <1>3, <1>6 DEF CleanupObject, Remove
<1>7. ASSUME NEW q \in Pipelines, Drain(q)
      PROVE  objs'[PipelineName[b]] = {}
  BY <1>1, <1>3, <1>7 DEF Drain
<1>8. objs'[PipelineName[b]] = {}
  BY <1>3, <1>5, <1>6, <1>7, ObjectsTouched
<1>9. seen'[PipelineName[b]] = {}
  BY <1>1, <1>3, SeenTouched
<1> QED
  BY <1>4, <1>8, <1>9

\* Patience is only asked of those who use a key twice.
THEOREM FirstLivesArePatient ==
    ASSUME OnePipelineEach, MaxLives <= 1
    PROVE  Spec => PatientUsers
<1>1. Init => Unborn
  <2>1. ~Absent.present
    BY DEF Absent, Created
  <2> QED
    BY <2>1, ReconcilerAssumption DEF Init, TenantInit, Unborn
<1>2. WorkInv /\ Unborn /\ [Next]_vars => Unborn'
  BY UnbornStep
<1>3. WorkInv /\ Unborn /\ [Next]_vars => [\A b \in Bindings : Patience(b)]_vars
  <2> SUFFICES ASSUME WorkInv, Unborn, [Next]_vars, NEW b \in Bindings,
                      ~rb[b].present, rb'[b].present
               PROVE  Cleared(PipelineName[b])
    BY DEF Patience
  <2>1. PICK s \in Specs : UserCreate(b, s)
    BY Lives DEF RepoBinding
  <2>2. lives[b] = 0
    BY <2>1, ReconcilerAssumption DEF UserCreate, WorkInv, SafeInv, TypeInv, TypeOK
  <2> QED
    BY <2>2 DEF Unborn, Cleared, Shown, Stray
<1> QED
  BY <1>1, <1>2, <1>3, WorkSafety, PTL DEF Spec, PatientUsers

\* So within the first life of each key both properties hold of every behaviour.
THEOREM FirstLivesAreReal ==
    ASSUME OnePipelineEach, "Trigger" \notin Lagging, MaxLives <= 1
    PROVE  Spec => [](RecordedStepsAreReal /\ TriggerRoutesToProvisioned)
BY FirstLivesArePatient, RecordedAreReal, TriggersRoute, PTL
=============================================================================
