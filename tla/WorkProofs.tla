------------------------------ MODULE WorkProofs ------------------------------
(***************************************************************************)
(* No work is lost.  The retry of a reconcile is scattered over the code:  *)
(* an error or Requeue: true puts the key back, and every other return     *)
(* counts on a watch event that is still to come.  The inductive invariant *)
(* says of each binding which of the two it can count on.                  *)
(***************************************************************************)
EXTENDS RepoBindingSafetyProofs

\* A stored object, whoever wrote it last: only one with the finalizer is ever
\* marked for deletion, reaches a phase of provisioning or records a step.
Sound(o) ==
    /\ o.deleting => o.finalizer
    /\ ~(o.present /\ o.finalizer) => o.flags = {} /\ o.phase \in {"", "Failed"}

\* What the stage of b's reconcile says of the copies of b.
Steady(b) ==
    /\ Sound(rb[b])
    /\ pc[b] = "admit" => local[b].present
    /\ pc[b] = "initialize" => local[b].phase = ""
    /\ pc[b] \in {"cleanup", "release"} /\ Managed(b) => Doomed(cache[b])

\* An object the controller has nothing left to do for.
AtRest(o) ==
    o.present =>
        /\ ~o.deleting
        /\ o.finalizer => o.phase = "Ready"
        /\ ~o.finalizer => o.phase = "Failed" /\ o.spec \notin ValidSpecs

\* A reconcile that works on an overtaken copy will be followed by another one,
\* and so will every state that needs one.
Awake(b) ==
    /\ pc[b] = "idle" => ~Stale(b)
    /\ Stale(b) => "cache" \in behind[b] \/ b \in queue
    /\ pc[b] = "idle" /\ b \notin queue /\ "cache" \notin behind[b] => AtRest(rb[b])

WorkInv == SafeInv /\ \A b \in Bindings : Steady(b) /\ Awake(b)

-----------------------------------------------------------------------------
(***************************************************************************)
(* The ways a step can touch one binding.                                  *)
(***************************************************************************)
\* A binding a step does not touch.
LEMMA WorkFrame ==
    ASSUME NEW c \in Bindings, Steady(c), Awake(c), rb'[c] = rb[c],
           cache'[c] = cache[c], local'[c] = local[c], behind'[c] = behind[c],
           pc'[c] = pc[c], c \in queue' <=> c \in queue
    PROVE  Steady(c)' /\ Awake(c)'
BY DEF Steady, Awake, Stale, Managed

\* A reconcile that returns an error with nothing stored is queued again.
LEMMA DropAwake ==
    ASSUME WorkInv, NEW b \in Bindings, Return(b, TRUE),
           behind' = [behind EXCEPT ![b] = @ \ {"local"}], UNCHANGED <<rb, cache>>
    PROVE  \A c \in Bindings : Steady(c)' /\ Awake(c)'
<1> SUFFICES ASSUME NEW c \in Bindings PROVE Steady(c)' /\ Awake(c)'
  OBVIOUS
<1>1. CASE c = b
  <2>1. /\ pc'[b] = "idle" /\ b \in queue' /\ rb'[b] = rb[b]
        /\ "local" \notin behind'[b]
    BY DEF Return, WorkInv, SafeInv, TypeInv, TypeOK
  <2> QED
    BY <1>1, <2>1 DEF WorkInv, Steady, Awake, Stale
<1>2. CASE c # b
  BY <1>2, WorkFrame DEF Return, WorkInv, SafeInv, TypeInv, TypeOK
<1> QED
  BY <1>1, <1>2

\* A write is followed by its own watch event, whether the key is queued again
\* or not.
LEMMA WriteAwake ==
    ASSUME WorkInv, NEW b \in Bindings, NEW o, NEW again, Sound(o),
           WriteAndReturn(b, o, again)
    PROVE  \A c \in Bindings : Steady(c)' /\ Awake(c)'
<1> SUFFICES ASSUME NEW c \in Bindings PROVE Steady(c)' /\ Awake(c)'
  OBVIOUS
<1>1. CASE c = b
  <2>1. pc'[b] = "idle" /\ rb'[b] = o /\ behind'[b] = {"cache"}
    BY DEF WriteAndReturn, Return, WorkInv, SafeInv, TypeInv, TypeOK
  <2> QED
    BY <1>1, <2>1 DEF Steady, Awake, Stale
<1>2. CASE c # b
  BY <1>2, WorkFrame DEF WriteAndReturn, Return, WorkInv, SafeInv, TypeInv, TypeOK
<1> QED
  BY <1>1, <1>2

\* Nor does a reconcile that goes on after its write count on anything else.
LEMMA ContinueAwake ==
    ASSUME WorkInv, NEW b \in Bindings, NEW o, Sound(o),
           NEW stage \in {"validate", "provision"}, WriteAndContinue(b, o, stage)
    PROVE  \A c \in Bindings : Steady(c)' /\ Awake(c)'
<1> SUFFICES ASSUME NEW c \in Bindings PROVE Steady(c)' /\ Awake(c)'
  OBVIOUS
<1>1. CASE c = b
  <2>1. pc'[b] = stage /\ rb'[b] = o /\ "cache" \in behind'[b]
    BY DEF WriteAndContinue, WorkInv, SafeInv, TypeInv, TypeOK
  <2> QED
    BY <1>1, <2>1 DEF Steady, Awake, Stale
<1>2. CASE c # b
  BY <1>2, WorkFrame DEF WriteAndContinue, WorkInv, SafeInv, TypeInv, TypeOK
<1> QED
  BY <1>1, <1>2

\* A reconcile that goes on with nothing stored.
LEMMA StageAwake ==
    ASSUME WorkInv, NEW b \in Bindings, NEW stage,
           \/ /\ pc[b] = "provision" /\ stage \in {"provision", "record", "markFailed"}
           \/ /\ pc[b] \in {"cleanup", "release"} /\ stage \in {"cleanup", "release"},
           pc' = [pc EXCEPT ![b] = stage],
           \A c \in Bindings \ {b} : local'[c] = local[c],
           UNCHANGED <<rb, cache, behind, queue>>
    PROVE  \A c \in Bindings : Steady(c)' /\ Awake(c)'
<1> SUFFICES ASSUME NEW c \in Bindings PROVE Steady(c)' /\ Awake(c)'
  OBVIOUS
<1>1. CASE c = b
  <2>1. pc'[b] = stage
    BY DEF WorkInv, SafeInv, TypeInv, TypeOK
  <2>2. Steady(b) /\ Awake(b)
    BY DEF WorkInv
  <2>3. Awake(b)'
    BY <2>1, <2>2 DEF Awake, Stale
  <2>4. Steady(b)'
    BY <2>1, <2>2 DEF Steady, Managed
  <2> QED
    BY <1>1, <2>3, <2>4
<1>2. CASE c # b
  BY <1>2, WorkFrame DEF WorkInv, SafeInv, TypeInv, TypeOK
<1> QED
  BY <1>1, <1>2

\* A new phase keeps a stored object sound: any phase once it has the
\* finalizer, Failed at any time.
LEMMA SoundPhase ==
    ASSUME WorkInv, NEW b \in Bindings, NEW ph \in Phases, Managed(b) \/ ph = "Failed"
    PROVE  Sound([rb[b] EXCEPT !.phase = ph])
<1>1. rb[b] \in RepoBinding /\ Sound(rb[b])
  BY DEF WorkInv, SafeInv, TypeInv, TypeOK, Steady
<1> QED
  BY <1>1 DEF Sound, RepoBinding, Managed

-----------------------------------------------------------------------------
(***************************************************************************)
(* The actions.                                                            *)
(***************************************************************************)
\* The one return that neither writes nor queues: an object rejected again
\* within the second.  Its copy is current, or a later event is under way.
LEMMA RepeatAwake ==
    ASSUME WorkInv, NEW b \in Bindings, pc[b] = "admit",
           ~PassesValidation(local[b].spec), rb[b].present,
           RepeatAndReturn(b, [rb[b] EXCEPT !.phase = "Failed"], FALSE)
    PROVE  \A c \in Bindings : Steady(c)' /\ Awake(c)'
<1> SUFFICES ASSUME NEW c \in Bindings PROVE Steady(c)' /\ Awake(c)'
  OBVIOUS
<1>1. CASE c = b
  <2>1. /\ pc'[b] = "idle" /\ queue' = queue /\ rb'[b] = rb[b]
        /\ behind'[b] = behind[b] \ {"local"}
    BY DEF RepeatAndReturn, Return, WorkInv, SafeInv, TypeInv, TypeOK
  <2>2. Steady(b) /\ Awake(b) /\ LocalTrails(b) /\ rb[b] \in RepoBinding
    BY DEF WorkInv, SafeInv, Safe, TypeInv, TypeOK
  <2>3. ~Stale(b) => AtRest(rb[b])
    <3> SUFFICES ASSUME ~Stale(b) PROVE AtRest(rb[b])
      OBVIOUS
    <3>1. local[b] = rb[b] /\ ~rb[b].finalizer /\ ~rb[b].deleting
      BY <2>2 DEF LocalTrails, Steady, Sound
    <3>2. rb[b].phase = "Failed"
      BY <2>2 DEF RepeatAndReturn, RepoBinding
    <3> QED
      BY <3>1, <3>2 DEF AtRest, PassesValidation
  <2>4. Awake(b)'
    BY <2>1, <2>2, <2>3 DEF Awake, Stale
  <2>5. Steady(b)'
    BY <2>1, <2>2 DEF Steady
  <2> QED
    BY <1>1, <2>4, <2>5
<1>2. CASE c # b
  BY <1>2, WorkFrame DEF RepeatAndReturn, Return, WorkInv, SafeInv, TypeInv, TypeOK
<1> QED
  BY <1>1, <1>2

\* The steps of one reconcile.
LEMMA WorkAwake ==
    ASSUME WorkInv, NEW b \in Bindings, Work(b)
    PROVE  \A c \in Bindings : Steady(c)' /\ Awake(c)'
<1>1. rb[b] \in RepoBinding /\ Sound(rb[b]) /\ LocalTrails(b) /\ Steady(b)
  BY DEF WorkInv, SafeInv, Safe, TypeInv, TypeOK, Steady
<1>2. CASE AdmitRejected(b)
  <2> DEFINE failed == [rb[b] EXCEPT !.phase = "Failed"]
  <2>1. Sound(failed)
    BY SoundPhase DEF Phases
  <2>2. CASE WriteAndReturn(b, failed, FALSE)
    BY <2>1, <2>2, WriteAwake
  <2>3. CASE RepeatAndReturn(b, failed, FALSE)
    BY <1>2, <2>3, RepeatAwake DEF AdmitRejected
  <2> QED
    BY <1>2, <2>2, <2>3 DEF AdmitRejected
<1>3. CASE EnsureFinalizer(b)
  <2>1. rb[b].present
    BY <1>1, <1>3 DEF EnsureFinalizer, LocalTrails, Steady
  <2>2. Sound([rb[b] EXCEPT !.finalizer = TRUE])
    BY <1>1, <2>1 DEF Sound, RepoBinding
  <2> QED
    BY <1>3, <2>2, WriteAwake DEF EnsureFinalizer
<1>4. CASE FinalizerConflict(b) \/ ReleaseConflict(b) \/ PatchNotFound(b)
  BY <1>4, DropAwake DEF FinalizerConflict, ReleaseConflict, PatchNotFound
<1>5. CASE InitializeStatus(b)
  <2> DEFINE pending == [rb[b] EXCEPT !.phase = "Pending"]
             next == AfterInitialize(IF PatchRefreshes THEN pending ELSE local[b])
  <2>1. Managed(b) /\ local[b].phase = ""
    BY <1>1, <1>5 DEF InitializeStatus, LocalTrails, Provisioning, Steady
  <2>2. Sound(pending)
    BY <2>1, SoundPhase DEF Phases
  <2>3. pending.phase = "Pending"
    BY <1>1 DEF RepoBinding
  <2>4. next \in {"validate", "provision"}
    BY <2>1, <2>3 DEF AfterInitialize
  <2>5. WriteAndContinue(b, pending, next)
    BY <1>5 DEF InitializeStatus
  <2> HIDE DEF pending, next
  <2> QED
    BY <2>2, <2>4, <2>5, ContinueAwake
<1>6. CASE RejectPending(b) \/ MarkFailed(b)
  <2>1. Sound([rb[b] EXCEPT !.phase = "Failed"])
    BY SoundPhase DEF Phases
  <2> QED
    BY <1>6, <2>1, WriteAwake DEF RejectPending, MarkFailed
<1>7. CASE AcceptPending(b)
  <2>1. Managed(b)
    BY <1>1, <1>7 DEF AcceptPending, LocalTrails, Provisioning
  <2>2. Sound([rb[b] EXCEPT !.phase = "Provisioning"])
    BY <2>1, SoundPhase DEF Phases
  <2> QED
    BY <1>7, <2>2, ContinueAwake DEF AcceptPending
<1>8. CASE EnsureObject(b)
  <2> DEFINE stage == IF LastKind(b) THEN "record" ELSE "provision"
  <2>1. pc[b] = "provision" /\ stage \in {"provision", "record", "markFailed"}
    BY <1>8 DEF EnsureObject
  <2>2. pc' = [pc EXCEPT ![b] = stage]
    BY <1>8 DEF EnsureObject, WorkInv, SafeInv, TypeInv, TypeOK
  <2>3. UNCHANGED <<rb, cache, local, behind, queue>>
    BY <1>8 DEF EnsureObject
  <2> HIDE DEF stage
  <2> QED
    BY <2>1, <2>2, <2>3, StageAwake
<1>9. CASE ProvisionRefused(b)
  BY <1>9, StageAwake DEF ProvisionRefused
<1>10. CASE RecordStep(b)
  <2>1. Managed(b)
    BY <1>1, <1>10 DEF RecordStep, LocalTrails, Provisioning
  <2>2. Sound([rb[b] EXCEPT !.flags = @ \cup {CurrentStep(b)}])
    BY <1>1, <2>1 DEF Sound, RepoBinding, Managed
  <2> QED
    BY <1>10, <2>2, WriteAwake DEF RecordStep
<1>11. CASE RecordReady(b)
  <2>1. Managed(b)
    BY <1>1, <1>11 DEF RecordReady, LocalTrails, Provisioning
  <2>2. Sound([rb[b] EXCEPT !.phase = "Ready"])
    BY <2>1, SoundPhase DEF Phases
  <2> QED
    BY <1>11, <2>2, WriteAwake DEF RecordReady
<1>12. CASE CleanupObject(b)
  <2> DEFINE stage == IF at[b] = Len(CleanupOrder) THEN "release" ELSE "cleanup"
  <2>1. pc[b] \in {"cleanup", "release"} /\ stage \in {"cleanup", "release"}
    BY <1>12 DEF CleanupObject
  <2>2. /\ pc' = [pc EXCEPT ![b] = stage]
        /\ UNCHANGED <<rb, cache, local, behind, queue>>
    BY <1>12 DEF CleanupObject, CleanupAdvances, WorkInv, SafeInv, TypeInv, TypeOK
  <2> HIDE DEF stage
  <2> QED
    BY <2>1, <2>2, StageAwake
<1>13. CASE RemoveFinalizer(b)
  <2>1. Sound(Absent)
    BY DEF Sound, Absent, Created
  <2> QED
    BY <1>13, <2>1, WriteAwake DEF RemoveFinalizer
<1> QED
  BY <1>2, <1>3, <1>4, <1>5, <1>6, <1>7, <1>8, <1>9, <1>10, <1>11, <1>12, <1>13
     DEF Work

\* A failed call ends in a retry.
LEMMA FailureAwake ==
    ASSUME WorkInv, NEW b \in Bindings, Failure(b)
    PROVE  \A c \in Bindings : Steady(c)' /\ Awake(c)'
<1>1. CASE ProvisionFaulted(b)
  BY <1>1, StageAwake DEF ProvisionFaulted
<1>2. CASE CleanupSwallowed(b)
  <2> DEFINE stage == IF at[b] = Len(CleanupOrder) THEN "release" ELSE "cleanup"
  <2>1. pc[b] \in {"cleanup", "release"} /\ stage \in {"cleanup", "release"}
    BY <1>2 DEF CleanupSwallowed
  <2>2. /\ pc' = [pc EXCEPT ![b] = stage]
        /\ UNCHANGED <<rb, cache, local, behind, queue>>
    BY <1>2 DEF CleanupSwallowed, CleanupAdvances, WorkInv, SafeInv, TypeInv, TypeOK
  <2> HIDE DEF stage
  <2> QED
    BY <2>1, <2>2, StageAwake
<1>3. CASE Abort(b)
  BY <1>3, DropAwake DEF Abort
<1> QED
  BY <1>1, <1>2, <1>3 DEF Failure

\* A key is taken off the queue.  If nothing is to be done for the cached copy,
\* nothing is to be done for the object, or the cache has news to come.
LEMMA FetchAwake ==
    ASSUME WorkInv, NEW b \in Bindings, Fetch(b)
    PROVE  \A c \in Bindings : Steady(c)' /\ Awake(c)'
<1> DEFINE stage == IF cache[b].present THEN Dispatch(cache[b]) ELSE "idle"
<1>1. cache[b] \in RepoBinding /\ pc[b] = "idle"
  BY DEF WorkInv, SafeInv, TypeInv, TypeOK, Fetch
<1>2. /\ stage \in {"idle", "admit", "initialize", "validate", "provision", "cleanup"}
      /\ stage = "cleanup" => Doomed(cache[b])
      /\ stage = "initialize" => cache[b].phase = ""
      /\ stage # "idle" => cache[b].present
  BY <1>1, DispatchStages DEF Doomed, Dispatch, AfterInitialize, RepoBinding
<1>3. stage = "idle" /\ Sound(cache[b]) => AtRest(cache[b])
  BY <1>1 DEF Dispatch, AfterInitialize, RepoBinding, Sound, AtRest
<1>4. /\ pc' = [pc EXCEPT ![b] = stage] /\ queue' = queue \ {b}
      /\ local' = IF stage = "idle" THEN local ELSE [local EXCEPT ![b] = cache[b]]
      /\ behind' = IF stage # "idle" /\ "cache" \in behind[b]
                     THEN [behind EXCEPT ![b] = {"cache", "local"}] ELSE behind
      /\ UNCHANGED <<rb, cache>>
  BY DEF Fetch
<1> HIDE DEF stage
<1> SUFFICES ASSUME NEW c \in Bindings PROVE Steady(c)' /\ Awake(c)'
  OBVIOUS
<1>5. CASE c = b
  <2>1. /\ pc'[b] = stage
        /\ stage # "idle" => local'[b] = cache[b]
        /\ "cache" \in behind'[b] <=> "cache" \in behind[b]
        /\ ~Stale(b)' \/ Stale(b) \/ "cache" \in behind[b]
        /\ stage = "idle" => behind'[b] = behind[b]
    BY <1>4 DEF WorkInv, SafeInv, TypeInv, TypeOK, Stale
  <2>2. Steady(b) /\ Awake(b) /\ CacheTrails(b)
    BY DEF WorkInv, SafeInv, Safe
  <2>3. ~Stale(b) /\ Sound(rb[b])
    BY <1>1, <2>2 DEF Awake, Steady
  <2>4. Steady(b)'
    BY <1>2, <1>4, <2>1, <2>2 DEF Steady
  <2>5. Awake(b)'
    BY <1>3, <1>4, <2>1, <2>2, <2>3 DEF Awake, Stale, CacheTrails
  <2> QED
    BY <1>5, <2>4, <2>5
<1>6. CASE c # b
  BY <1>4, <1>6, WorkFrame DEF WorkInv, SafeInv, TypeInv, TypeOK
<1> QED
  BY <1>5, <1>6

\* A user's write raises an event; a reconcile under way has a copy behind it.
LEMMA UserAwake ==
    ASSUME WorkInv, NEW b \in Bindings, User(b)
    PROVE  \A c \in Bindings : Steady(c)' /\ Awake(c)'
<1>1. rb[b] \in RepoBinding /\ Sound(rb[b]) /\ Steady(b)
  BY DEF WorkInv, SafeInv, TypeInv, TypeOK, Steady
<1>2. ASSUME NEW o, StoredBy(b, o), Sound(o), o.present /\ o.finalizer => Managed(b)
      PROVE  \A c \in Bindings : Steady(c)' /\ Awake(c)'
  <2> SUFFICES ASSUME NEW c \in Bindings PROVE Steady(c)' /\ Awake(c)'
    OBVIOUS
  <2>1. CASE c = b
    <3>1. /\ rb'[b] = o /\ cache' = cache /\ local' = local /\ pc' = pc
          /\ "cache" \in behind'[b] /\ pc[b] = "idle" => behind'[b] = {"cache"}
      BY <1>2 DEF StoredBy, WorkInv, SafeInv, TypeInv, TypeOK
    <3>2. "cache" \in behind'[b]
      BY <1>2 DEF StoredBy, WorkInv, SafeInv, TypeInv, TypeOK
    <3>3. Awake(b)'
      BY <3>1, <3>2 DEF Awake, Stale
    <3>4. Steady(b)'
      BY <1>1, <1>2, <3>1 DEF Steady, Managed
    <3> QED
      BY <2>1, <3>3, <3>4
  <2>2. CASE c # b
    BY <1>2, <2>2, WorkFrame DEF StoredBy, WorkInv, SafeInv, TypeInv, TypeOK
  <2> QED
    BY <2>1, <2>2
<1>3. ASSUME NEW s \in Specs, UserCreate(b, s)
      PROVE  \A c \in Bindings : Steady(c)' /\ Awake(c)'
  <2>1. Sound(Created(s)) /\ ~Created(s).finalizer
    BY DEF Sound, Created
  <2> QED
    BY <1>2, <1>3, <2>1 DEF UserCreate
<1>4. ASSUME NEW s \in Specs, UserUpdate(b, s)
      PROVE  \A c \in Bindings : Steady(c)' /\ Awake(c)'
  <2> DEFINE o == [rb[b] EXCEPT !.spec = s]
  <2>1. Sound(o) /\ (o.present /\ o.finalizer => Managed(b))
    BY <1>1 DEF Sound, RepoBinding, Managed
  <2>2. StoredBy(b, o)
    BY <1>4 DEF UserUpdate
  <2> HIDE DEF o
  <2> QED
    BY <1>2, <2>1, <2>2
<1>5. CASE UserDelete(b)
  <2> DEFINE o == IF rb[b].finalizer THEN [rb[b] EXCEPT !.deleting = TRUE] ELSE Absent
  <2>1. rb[b].present /\ StoredBy(b, o)
    BY <1>5 DEF UserDelete
  <2>2. Sound(o) /\ (o.present /\ o.finalizer => Managed(b))
    BY <1>1, <2>1 DEF Sound, RepoBinding, Managed, Absent, Created
  <2> HIDE DEF o
  <2> QED
    BY <1>2, <2>1, <2>2
<1> QED
  BY <1>3, <1>4, <1>5 DEF User

\* Delivering an event queues the key; a restart queues all there is.
LEMMA RestAwake ==
    ASSUME WorkInv,
           (\E b \in Bindings : SyncBinding(b)) \/ Restart \/ ClusterStep \/ UNCHANGED vars
    PROVE  \A c \in Bindings : Steady(c)' /\ Awake(c)'
<1> SUFFICES ASSUME NEW c \in Bindings PROVE Steady(c)' /\ Awake(c)'
  OBVIOUS
<1>1. ASSUME NEW b \in Bindings, SyncBinding(b)
      PROVE  Steady(c)' /\ Awake(c)'
  <2>1. CASE c = b
    <3>1. /\ rb' = rb /\ pc' = pc /\ local' = local /\ cache'[b] = rb[b]
          /\ "local" \in behind'[b] <=> "local" \in behind[b]
          /\ b \in queue'
      BY <1>1 DEF SyncBinding, WorkInv, SafeInv, TypeInv, TypeOK
    <3>2. Steady(b) /\ Awake(b) /\ LocalTrails(b)
      BY DEF WorkInv, SafeInv, Safe
    <3>3. Awake(b)'
      BY <3>1, <3>2 DEF Awake, Stale
    <3>4. Steady(b)'
      BY <3>1, <3>2 DEF Steady, LocalTrails, Managed, Kept, Doomed
    <3> QED
      BY <2>1, <3>3, <3>4
  <2>2. CASE c # b
    BY <1>1, <2>2, WorkFrame DEF SyncBinding, WorkInv, SafeInv, TypeInv, TypeOK
  <2> QED
    BY <2>1, <2>2
<1>2. CASE Restart
  <2>1. /\ rb' = rb /\ pc'[c] = "idle" /\ behind'[c] = {}
        /\ c \in queue' <=> rb[c].present
    BY <1>2 DEF Restart
  <2> QED
    BY <2>1 DEF Steady, Awake, Stale, AtRest, WorkInv
<1>3. CASE ClusterStep \/ UNCHANGED vars
  BY <1>3, WorkFrame DEF ClusterStep, vars, WorkInv
<1> QED
  BY <1>1, <1>2, <1>3

-----------------------------------------------------------------------------
(***************************************************************************)
(* The theorems.                                                           *)
(***************************************************************************)
LEMMA WorkInit ==
    ASSUME Init
    PROVE  WorkInv
BY SafeInit DEF Init, WorkInv, Steady, Awake, Stale, Sound, AtRest, Managed,
                Absent, Created

\* Every step keeps it, one lemma per group of actions.
LEMMA WorkStep ==
    ASSUME WorkInv, [Next]_vars
    PROVE  WorkInv'
<1>1. SafeInv'
  BY SafeStep DEF WorkInv
<1>2. \A c \in Bindings : Steady(c)' /\ Awake(c)'
  BY WorkAwake, FetchAwake, FailureAwake, UserAwake, RestAwake DEF Next
<1> QED
  BY <1>1, <1>2 DEF WorkInv

\* The invariant behind NoLostWork; the proofs about tenants build on it too.
THEOREM WorkSafety == Spec => []WorkInv
BY WorkInit, WorkStep, PTL DEF Spec

\* Whatever copies are stale, calls fail and processes stop: a binding nobody
\* will reconcile again is one there is nothing left to do for.
THEOREM WorkIsNotLost == Spec => []NoLostWork
<1>1. WorkInv => NoLostWork
  BY DEF WorkInv, Awake, AtRest, NoLostWork, Settled
<1> QED
  BY <1>1, WorkSafety, PTL
=============================================================================
