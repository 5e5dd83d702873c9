---------------------------- MODULE ArgoCDProofs ----------------------------
(***************************************************************************)
(* No Application that a cleanup has had to wait for loses its AppProject, *)
(* for any number of tenants, workers and Applications and every timeout.  *)
(***************************************************************************)
EXTENDS ArgoCDCleanup, TLAPS

(***************************************************************************)
(* The inductive invariant.  What counts is not only whether the AppProject*)
(* is gone but whether the cleanup is past its wait, and with no           *)
(* Application kind there is nothing to wait for.                          *)
(***************************************************************************)
PastWait == {"project", "finish", "done"}

Unguarded(a) == Home[a] \notin project \/ pc[Home[a]] \in PastWait

NothingUnknown == ~installed => Existing = {}

LateIfUnguarded == \A a \in Existing : Unguarded(a) => a \in late

Inv == TypeOK /\ NothingUnknown /\ LateIfUnguarded

\* A step after which fewer Applications exist, no more of them are unguarded
\* and the history is the same keeps the relation.
LEMMA FewerKeep ==
    ASSUME NothingUnknown, LateIfUnguarded, installed' = installed, late' = late,
           Existing' \subseteq Existing,
           \A a \in Existing' : Unguarded(a)' => Unguarded(a)
    PROVE  NothingUnknown' /\ LateIfUnguarded'
  BY DEF NothingUnknown, LateIfUnguarded

\* A cleanup that goes to a stage before the end of its wait unguards nothing.
LEMMA GotoKeeps ==
    ASSUME TypeOK, CleanupAssumption, NEW t \in Tenants, NEW s \in Stages,
           Goto(t, s), project' = project,
           s \in PastWait => pc[t] \in PastWait
    PROVE  /\ pc' \in [Tenants -> Stages]
           /\ \A a \in Apps : Unguarded(a)' => Unguarded(a)
  BY DEF TypeOK, CleanupAssumption, Goto, Unguarded

LEMMA InitInv ==
    ASSUME Init
    PROVE  Inv
<1>1. TypeOK
  BY CleanupAssumption DEF Init, TypeOK, Stages, CleanupAssumption
<1>2. NothingUnknown
  BY DEF Init, NothingUnknown, Existing
<1>3. \A a \in Apps : ~Unguarded(a)
  BY CleanupAssumption DEF Init, Unguarded, PastWait, CleanupAssumption
<1> QED
  BY <1>1, <1>2, <1>3 DEF Inv, LateIfUnguarded, Existing

-----------------------------------------------------------------------------
\* Deleting an Application makes none exist that did not.
LEMMA DeletedTyped ==
    ASSUME TypeOK, NEW a \in Apps, Deleted(a)
    PROVE  apps' \in [Apps -> {"none", "live", "deleting"}] /\ Existing' \subseteq Existing
<1>1. CASE apps[a] = "live"
  BY <1>1 DEF TypeOK, Deleted, Existing
<1>2. CASE apps[a] # "live"
  BY <1>2 DEF TypeOK, Deleted, Existing
<1> QED
  BY <1>1, <1>2

\* The end of a reconcile with an error.
LEMMA RetryKeeps ==
    ASSUME TypeOK, NEW t \in Tenants, Retry(t), project' = project
    PROVE  /\ pc' \in [Tenants -> Stages]
           /\ todo' \in [Tenants -> SUBSET Apps]
           /\ clock' \in [Tenants -> 0..Timeout]
           /\ tick' \subseteq Tenants
           /\ \A a \in Apps : Unguarded(a)' => Unguarded(a)
<1>1. Goto(t, "queued") /\ "queued" \in Stages /\ "queued" \notin PastWait
  BY DEF Retry, Stages, PastWait
<1>2. /\ pc' \in [Tenants -> Stages]
      /\ \A a \in Apps : Unguarded(a)' => Unguarded(a)
  BY <1>1, GotoKeeps, CleanupAssumption
<1>3. todo' \in [Tenants -> SUBSET Apps] /\ tick' \subseteq Tenants
  BY DEF Retry, StopTimers, TypeOK
<1>4. 0 \in 0..Timeout
  BY CleanupAssumption DEF CleanupAssumption
<1>5. clock' \in [Tenants -> 0..Timeout]
  BY <1>4 DEF Retry, StopTimers, TypeOK
<1> QED
  BY <1>2, <1>3, <1>5

LEMMA WorkKeeps ==
    ASSUME Inv, NEW t \in Tenants, Start(t) \/ Work(t)
    PROVE  Inv'
<1> USE CleanupAssumption
<1>0. TypeOK /\ NothingUnknown /\ LateIfUnguarded /\ Existing \subseteq Apps
  BY DEF Inv, Existing
<1>1. CASE Start(t)
  <2>1. TypeOK' /\ \A a \in Apps : Unguarded(a)' => Unguarded(a)
    BY <1>0, <1>1, GotoKeeps DEF Start, cluster, TypeOK, Stages, PastWait
  <2>2. Existing' = Existing
    BY <1>1 DEF Start, Existing
  <2> QED
    BY <1>0, <1>1, <2>1, <2>2, FewerKeep DEF Start, cluster, Inv
<1>2. CASE ListLabelled(t)
  <2>1. Existing' = Existing /\ installed' = installed /\ late' = late /\ project' = project
    BY <1>2 DEF ListLabelled, cluster, Existing
  <2>2. TypeOK'
    <3>1. pc' \in [Tenants -> Stages] /\ todo' \in [Tenants -> SUBSET Apps]
      BY <1>0, <1>2 DEF ListLabelled, Goto, Stages, TypeOK, Here
    <3> QED
      BY <1>0, <1>2, <3>1 DEF ListLabelled, cluster, TypeOK
  <2>3. NothingUnknown' /\ LateIfUnguarded'
    <3>1. CASE installed
      <4>1. Goto(t, "delete") /\ "delete" \in Stages /\ "delete" \notin PastWait
        BY <1>2, <3>1 DEF ListLabelled, Stages, PastWait
      <4>2. \A a \in Apps : Unguarded(a)' => Unguarded(a)
        BY <1>0, <2>1, <4>1, GotoKeeps
      <4> QED
        BY <1>0, <2>1, <4>2, FewerKeep
    <3>2. CASE ~installed
      BY <1>0, <2>1, <3>2 DEF NothingUnknown, LateIfUnguarded
    <3> QED
      BY <3>1, <3>2
  <2> QED
    BY <2>2, <2>3 DEF Inv
<1>3. CASE DeleteNext(t)
  <2>1. PICK a \in todo[t] : Deleted(a) /\ todo' = [todo EXCEPT ![t] = @ \ {a}]
    BY <1>3 DEF DeleteNext
  <2>2. a \in Apps
    BY <1>0, <2>1 DEF TypeOK
  <2>3. apps' \in [Apps -> {"none", "live", "deleting"}] /\ Existing' \subseteq Existing
    BY <1>0, <2>1, <2>2, DeletedTyped
  <2>4. TypeOK'
    BY <1>0, <1>3, <2>1, <2>3 DEF DeleteNext, cluster, TypeOK
  <2>5. \A b \in Existing' : Unguarded(b)' => Unguarded(b)
    BY <1>3 DEF DeleteNext, cluster, Unguarded
  <2> QED
    BY <1>0, <1>3, <2>3, <2>4, <2>5, FewerKeep DEF DeleteNext, cluster, Inv
<1>4. CASE BeginWait(t) \/ SomeLeft(t)
  <2>1. Goto(t, "wait") /\ "wait" \in Stages /\ "wait" \notin PastWait
    BY <1>4 DEF BeginWait, SomeLeft, Stages, PastWait
  <2>2. UNCHANGED <<cluster, apps, todo, clock, tick, late>> /\ Existing' = Existing
    BY <1>4 DEF BeginWait, SomeLeft, Existing
  <2>3. TypeOK' /\ \A a \in Apps : Unguarded(a)' => Unguarded(a)
    BY <1>0, <2>1, <2>2, GotoKeeps DEF cluster, TypeOK
  <2> QED
    BY <1>0, <2>2, <2>3, FewerKeep DEF cluster, Inv
<1>5. CASE NoneLeft(t)
  <2>1. /\ Existing' = Existing /\ installed' = installed /\ project' = project
        /\ late' = late \ Here(t) /\ Existing \cap Here(t) = {}
    BY <1>5 DEF NoneLeft, Awaited, cluster, Existing
  <2>2. 0 \in 0..Timeout
    BY DEF CleanupAssumption
  <2>3. TypeOK'
    BY <1>0, <1>5, <2>2 DEF NoneLeft, Goto, StopTimers, cluster, TypeOK, Stages
  <2>4. ASSUME NEW a \in Existing, Unguarded(a)'
        PROVE  a \in late'
    <3>1. Home[a] # t
      BY <1>0, <2>1 DEF Here
    <3>2. Home[a] \in Tenants /\ a \in Apps
      BY <1>0 DEF CleanupAssumption
    <3>3. pc'[Home[a]] = pc[Home[a]]
      BY <1>0, <1>5, <3>1, <3>2 DEF NoneLeft, Goto, TypeOK
    <3>4. Unguarded(a)
      BY <2>1, <2>4, <3>3 DEF Unguarded
    <3> QED
      BY <1>0, <2>1, <3>1, <3>4 DEF LateIfUnguarded, Here
  <2>5. NothingUnknown' /\ LateIfUnguarded'
    BY <1>0, <2>1, <2>4 DEF NothingUnknown, LateIfUnguarded
  <2> QED
    BY <2>3, <2>5 DEF Inv
<1>6. CASE RemoveProject(t)
  <2>1. Existing' = Existing /\ installed' = installed /\ late' = late
    BY <1>6 DEF RemoveProject, Existing
  <2>2. TypeOK'
    BY <1>0, <1>6 DEF RemoveProject, Goto, TypeOK, Stages
  <2>3. \A a \in Apps : Unguarded(a)' => Unguarded(a)
    BY <1>0, <1>6 DEF RemoveProject, Goto, Unguarded, PastWait, TypeOK, CleanupAssumption
  <2> QED
    BY <1>0, <2>1, <2>2, <2>3, FewerKeep DEF Inv
<1>7. CASE Finish(t)
  <2>1. Goto(t, "done") /\ "done" \in Stages /\ pc[t] \in PastWait
    BY <1>7 DEF Finish, Stages, PastWait
  <2>2. UNCHANGED <<cluster, apps, todo, clock, tick, late>> /\ Existing' = Existing
    BY <1>7 DEF Finish, Existing
  <2>3. TypeOK' /\ \A a \in Apps : Unguarded(a)' => Unguarded(a)
    BY <1>0, <2>1, <2>2, GotoKeeps DEF cluster, TypeOK
  <2> QED
    BY <1>0, <2>2, <2>3, FewerKeep DEF cluster, Inv
<1>8. CASE KindUnknown(t)
  <2>1. /\ Retry(t) /\ installed' = installed /\ project' = project /\ late' = late
        /\ apps' = apps /\ creations' = creations /\ faults' = faults
        /\ Existing' = Existing
    BY <1>8 DEF KindUnknown, cluster, Existing
  <2>2. /\ pc' \in [Tenants -> Stages]
        /\ todo' \in [Tenants -> SUBSET Apps]
        /\ clock' \in [Tenants -> 0..Timeout]
        /\ tick' \subseteq Tenants
        /\ \A a \in Apps : Unguarded(a)' => Unguarded(a)
    BY <1>0, <2>1, RetryKeeps
  <2>3. TypeOK'
    BY <1>0, <2>1, <2>2 DEF TypeOK
  <2> QED
    BY <1>0, <2>1, <2>2, <2>3, FewerKeep DEF Inv
<1> QED
  BY <1>1, <1>2, <1>3, <1>4, <1>5, <1>6, <1>7, <1>8 DEF Work

-----------------------------------------------------------------------------
LEMMA WaitKeeps ==
    ASSUME Inv, NEW t \in Tenants, Pass(t) \/ TakeTick(t) \/ TimeOut(t) \/ Abort(t)
    PROVE  Inv'
<1> USE CleanupAssumption
<1>0. TypeOK /\ NothingUnknown /\ LateIfUnguarded /\ Existing \subseteq Apps
  BY DEF Inv, Existing
<1>1. installed' = installed /\ project' = project /\ late' = late /\ Existing' = Existing
  BY DEF Pass, TakeTick, TimeOut, Abort, cluster, Existing
<1>2. CASE Pass(t)
  <2>1. clock' \in [Tenants -> 0..Timeout]
    BY <1>0, <1>2 DEF Pass, TypeOK, CleanupAssumption
  <2>2. TypeOK'
    BY <1>0, <1>2, <2>1 DEF Pass, cluster, TypeOK
  <2>3. \A a \in Apps : Unguarded(a)' => Unguarded(a)
    BY <1>2 DEF Pass, cluster, Unguarded
  <2> QED
    BY <1>0, <1>1, <2>2, <2>3, FewerKeep DEF Inv
<1>3. CASE TakeTick(t)
  <2>1. Goto(t, "relist") /\ "relist" \in Stages /\ "relist" \notin PastWait
    BY <1>3 DEF TakeTick, Stages, PastWait
  <2>2. /\ pc' \in [Tenants -> Stages]
        /\ \A a \in Apps : Unguarded(a)' => Unguarded(a)
    BY <1>0, <1>1, <2>1, GotoKeeps
  <2>3. TypeOK'
    BY <1>0, <1>3, <2>2 DEF TakeTick, cluster, TypeOK
  <2> QED
    BY <1>0, <1>1, <2>2, <2>3, FewerKeep DEF Inv
<1>4. CASE TimeOut(t) \/ Abort(t)
  <2>1. Retry(t)
    BY <1>4 DEF TimeOut, Abort
  <2>2. /\ pc' \in [Tenants -> Stages]
        /\ todo' \in [Tenants -> SUBSET Apps]
        /\ clock' \in [Tenants -> 0..Timeout]
        /\ tick' \subseteq Tenants
        /\ \A a \in Apps : Unguarded(a)' => Unguarded(a)
    BY <1>0, <1>1, <2>1, RetryKeeps
  <2>3. apps' = apps /\ creations' = creations /\ faults' \in 0..MaxFaults
    BY <1>0, <1>4 DEF TimeOut, Abort, cluster, TypeOK, CleanupAssumption
  <2>4. TypeOK'
    BY <1>0, <1>1, <2>2, <2>3 DEF TypeOK
  <2> QED
    BY <1>0, <1>1, <2>2, <2>4, FewerKeep DEF Inv
<1> QED
  BY <1>2, <1>3, <1>4

LEMMA ClusterKeeps ==
    ASSUME Inv, NEW a \in Apps, Create(a) \/ UserDeletes(a) \/ Cascade(a)
    PROVE  Inv'
<1> USE CleanupAssumption
<1>0. TypeOK /\ NothingUnknown /\ LateIfUnguarded /\ Existing \subseteq Apps
  BY DEF Inv, Existing
<1>1. CASE Create(a)
  <2>1. /\ creations' \in 0..MaxCreations
        /\ apps' \in [Apps -> {"none", "live", "deleting"}]
        /\ late' \subseteq Apps
    BY <1>0, <1>1 DEF Create, TypeOK, CleanupAssumption
  <2>2. TypeOK'
    BY <1>0, <1>1, <2>1 DEF Create, TypeOK
  <2>3. Existing' \subseteq Existing \cup {a}
    BY <1>0, <1>1 DEF Create, TypeOK, Existing
  <2>4. \A b \in Apps : Unguarded(b)' <=> Unguarded(b)
    BY <1>1 DEF Create, Unguarded
  <2>5. NothingUnknown' /\ LateIfUnguarded'
    BY <1>0, <1>1, <2>3, <2>4 DEF Create, NothingUnknown, LateIfUnguarded
  <2> QED
    BY <2>2, <2>5 DEF Inv
<1>2. CASE UserDeletes(a) \/ Cascade(a)
  <2>1. UNCHANGED <<cluster, pc, todo, clock, tick, late>>
    BY <1>2 DEF UserDeletes, Cascade
  <2>2. apps' \in [Apps -> {"none", "live", "deleting"}] /\ Existing' \subseteq Existing
    <3>1. CASE UserDeletes(a)
      BY <1>0, <3>1, DeletedTyped DEF UserDeletes
    <3>2. CASE Cascade(a)
      BY <1>0, <3>2 DEF Cascade, TypeOK, Existing
    <3> QED
      BY <1>2, <3>1, <3>2
  <2>3. TypeOK'
    BY <1>0, <2>1, <2>2 DEF cluster, TypeOK
  <2>4. \A b \in Existing' : Unguarded(b)' => Unguarded(b)
    BY <2>1 DEF cluster, Unguarded
  <2> QED
    BY <1>0, <2>1, <2>2, <2>3, <2>4, FewerKeep DEF cluster, Inv
<1> QED
  BY <1>1, <1>2

-----------------------------------------------------------------------------
LEMMA InvInductive ==
    ASSUME Inv, [Next]_vars
    PROVE  Inv'
<1>1. CASE UNCHANGED vars
  BY <1>1 DEF Inv, vars, TypeOK, NothingUnknown, LateIfUnguarded, Unguarded, Existing
<1>2. CASE \E t \in Tenants : Start(t) \/ Work(t)
  BY <1>2, WorkKeeps
<1>3. CASE \E t \in Tenants : Pass(t) \/ TakeTick(t) \/ TimeOut(t) \/ Abort(t)
  BY <1>3, WaitKeeps
<1>4. CASE \E a \in Apps : Create(a) \/ UserDeletes(a) \/ Cascade(a)
  BY <1>4, ClusterKeeps
<1> QED
  BY <1>1, <1>2, <1>3, <1>4 DEF Next

\* An Application whose AppProject is gone was created after the wait of
\* waitForApplicationDeletion had seen the namespace empty: timeouts, failed
\* calls, restarts and retries never let the AppProject go before that.
THEOREM ProjectsOutlive == Spec => []ProjectOutlivesApplications
<1>1. Inv => ProjectOutlivesApplications
  BY DEF Inv, LateIfUnguarded, Unguarded, ProjectOutlivesApplications
<1> QED
  BY InitInv, InvInductive, <1>1, PTL DEF Spec
=============================================================================
