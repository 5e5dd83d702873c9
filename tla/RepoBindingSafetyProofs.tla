------------------------ MODULE RepoBindingSafetyProofs ------------------------
(***************************************************************************)
(* The safety theorems of RepoBindingReconciler.  The inductive invariant  *)
(* says of each binding how the cached copy and the reconcile's copy trail *)
(* behind the stored object; what the status says of the steps follows.    *)
(***************************************************************************)
EXTENDS RepoBindingProofs

\* What the status of a stored object says of the seven steps.
Recorded(o) ==
    /\ \A s \in o.flags : Before(s) \subseteq o.flags
    /\ o.phase = "Ready" => o.flags = Steps

\* The cached copy of b.
CacheTrails(b) ==
    /\ "cache" \notin behind[b] => cache[b] = rb[b]
    /\ Doomed(cache[b]) => ~Kept(rb[b])
    /\ Kept(cache[b]) => Managed(b) /\ cache[b].flags \subseteq rb[b].flags

\* The copy a reconcile of b works on, if one runs.
LocalTrails(b) ==
    /\ pc[b] \in {"admit", "cleanup", "release"} /\ ~Stale(b)
          => local[b] = rb[b] /\ "cache" \notin behind[b]
    /\ pc[b] = "admit" => ~local[b].finalizer
    /\ pc[b] \in {"cleanup", "release"} => Doomed(local[b]) /\ ~Kept(rb[b])
    /\ pc[b] \in Provisioning => Managed(b) /\ local[b].flags \subseteq rb[b].flags

Safe(b) == CacheTrails(b) /\ LocalTrails(b) /\ Recorded(rb[b])

SafeInv == TypeInv /\ \A b \in Bindings : Safe(b)

-----------------------------------------------------------------------------
(***************************************************************************)
(* Lemmas on the ways a step can touch one binding.                        *)
(***************************************************************************)
\* A binding none of whose copies a step touches stays safe.
LEMMA SafeFrame ==
    ASSUME NEW c \in Bindings, Safe(c), rb'[c] = rb[c], cache'[c] = cache[c],
           local'[c] = local[c], behind'[c] = behind[c], pc'[c] = pc[c]
    PROVE  Safe(c)'
BY DEF Safe, CacheTrails, LocalTrails, Stale, Managed

\* A status patch changes neither the life nor the deletion of the object and
\* only adds flags.
Patches(b, o) ==
    /\ o \in RepoBinding
    /\ o.present = rb[b].present
    /\ o.finalizer = rb[b].finalizer
    /\ o.deleting = rb[b].deleting
    /\ rb[b].flags \subseteq o.flags

\* Whoever stores it, a patch leaves the cached copy trailing.
LEMMA PatchTrailed ==
    ASSUME SafeInv, NEW b \in Bindings, NEW o, Patches(b, o), rb'[b] = o,
           cache'[b] = cache[b], behind' \in [Bindings -> SUBSET {"cache", "local"}],
           "cache" \in behind'[b]
    PROVE  CacheTrails(b)'
BY DEF SafeInv, Safe, CacheTrails, Managed, Kept, Doomed, Patches

\* A reconcile that returns with nothing stored.
LEMMA DropSafe ==
    ASSUME SafeInv, NEW b \in Bindings, NEW again, Return(b, again),
           behind' = [behind EXCEPT ![b] = @ \ {"local"}], UNCHANGED <<rb, cache>>
    PROVE  \A c \in Bindings : Safe(c)'
<1> SUFFICES ASSUME NEW c \in Bindings PROVE Safe(c)'
  OBVIOUS
<1>1. CASE c = b
  <2>1. pc'[b] = "idle" /\ ("cache" \in behind'[b] <=> "cache" \in behind[b])
    BY DEF Return, SafeInv, TypeInv, TypeOK
  <2>2. CacheTrails(b)' /\ Recorded(rb[b])'
    BY <2>1 DEF SafeInv, Safe, CacheTrails, Managed
  <2>3. LocalTrails(b)'
    BY <2>1 DEF LocalTrails, Provisioning
  <2> QED
    BY <1>1, <2>2, <2>3 DEF Safe
<1>2. CASE c # b
  BY <1>2, SafeFrame DEF Return, SafeInv, TypeInv, TypeOK
<1> QED
  BY <1>1, <1>2

\* A reconcile that returns after a patch.
LEMMA PatchReturnSafe ==
    ASSUME SafeInv, NEW b \in Bindings, NEW o, NEW again,
           Patches(b, o), Recorded(o), WriteAndReturn(b, o, again)
    PROVE  \A c \in Bindings : Safe(c)'
<1> SUFFICES ASSUME NEW c \in Bindings PROVE Safe(c)'
  OBVIOUS
<1>1. CASE c = b
  <2>1. /\ pc'[b] = "idle" /\ rb'[b] = o /\ cache'[b] = cache[b]
        /\ "cache" \in behind'[b]
        /\ behind' \in [Bindings -> SUBSET {"cache", "local"}]
    BY DEF WriteAndReturn, Return, SafeInv, TypeInv, TypeOK
  <2>2. CacheTrails(b)'
    BY <2>1, PatchTrailed
  <2>3. LocalTrails(b)'
    BY <2>1 DEF LocalTrails, Provisioning
  <2> QED
    BY <1>1, <2>1, <2>2, <2>3 DEF Safe
<1>2. CASE c # b
  BY <1>2, SafeFrame DEF WriteAndReturn, Return, SafeInv, TypeInv, TypeOK
<1> QED
  BY <1>1, <1>2

\* A reconcile of a managed object that goes on after a patch.
LEMMA PatchContinueSafe ==
    ASSUME SafeInv, NEW b \in Bindings, NEW o, NEW stage,
           Patches(b, o), Recorded(o), WriteAndContinue(b, o, stage),
           pc[b] \in Provisioning, stage \in {"idle", "validate", "provision"}
    PROVE  \A c \in Bindings : Safe(c)'
<1> SUFFICES ASSUME NEW c \in Bindings PROVE Safe(c)'
  OBVIOUS
<1>1. CASE c = b
  <2>1. /\ pc'[b] = stage /\ rb'[b] = o /\ cache'[b] = cache[b]
        /\ local'[b] \in {o, local[b]}
        /\ "cache" \in behind'[b]
        /\ behind' \in [Bindings -> SUBSET {"cache", "local"}]
    BY DEF WriteAndContinue, SafeInv, TypeInv, TypeOK
  <2>2. CacheTrails(b)'
    BY <2>1, PatchTrailed
  <2>3. Managed(b) /\ local[b].flags \subseteq rb[b].flags
    BY DEF SafeInv, Safe, LocalTrails
  <2>4. LocalTrails(b)'
    BY <2>1, <2>3 DEF LocalTrails, Managed, Patches
  <2> QED
    BY <1>1, <2>1, <2>2, <2>4 DEF Safe
<1>2. CASE c # b
  BY <1>2, SafeFrame DEF WriteAndContinue, SafeInv, TypeInv, TypeOK
<1> QED
  BY <1>1, <1>2

\* A reconcile that goes on with nothing stored and its copy's flags as they
\* were, inside the same half of the life cycle.
LEMMA StageSafe ==
    ASSUME SafeInv, NEW b \in Bindings, NEW stage,
           \/ pc[b] \in Provisioning /\ stage \in Provisioning
           \/ /\ pc[b] \in {"cleanup", "release"} /\ stage \in {"cleanup", "release"}
              /\ local' = local,
           pc' = [pc EXCEPT ![b] = stage],
           local'[b].flags = local[b].flags,
           \A c \in Bindings \ {b} : local'[c] = local[c],
           UNCHANGED <<rb, cache, behind>>
    PROVE  \A c \in Bindings : Safe(c)'
<1> SUFFICES ASSUME NEW c \in Bindings PROVE Safe(c)'
  OBVIOUS
<1>1. CASE c = b
  <2>1. pc'[b] = stage
    BY DEF SafeInv, TypeInv, TypeOK
  <2>2. CacheTrails(b)' /\ Recorded(rb[b])'
    BY DEF SafeInv, Safe, CacheTrails, Managed
  <2>3. LocalTrails(b)
    BY DEF SafeInv, Safe
  <2>4. LocalTrails(b)'
    <3>1. CASE pc[b] \in Provisioning /\ stage \in Provisioning
      BY <2>1, <2>3, <3>1 DEF LocalTrails, Managed, Provisioning
    <3>2. CASE /\ pc[b] \in {"cleanup", "release"} /\ stage \in {"cleanup", "release"}
               /\ local' = local
      BY <2>1, <2>3, <3>2 DEF LocalTrails, Stale, Provisioning
    <3> QED
      BY <3>1, <3>2
  <2> QED
    BY <1>1, <2>2, <2>4 DEF Safe
<1>2. CASE c # b
  BY <1>2, SafeFrame DEF SafeInv, TypeInv, TypeOK
<1> QED
  BY <1>1, <1>2

\* Patching the phase; to Ready only when every step is recorded.
LEMMA PhasePatch ==
    ASSUME SafeInv, NEW b \in Bindings, NEW ph \in Phases,
           ph = "Ready" => rb[b].flags = Steps
    PROVE  /\ Patches(b, [rb[b] EXCEPT !.phase = ph])
           /\ Recorded([rb[b] EXCEPT !.phase = ph])
<1>1. rb[b] \in RepoBinding
  BY DEF SafeInv, TypeInv, TypeOK
<1>2. [rb[b] EXCEPT !.phase = ph] \in RepoBinding
  BY <1>1, UpdatesTyped
<1>3. /\ [rb[b] EXCEPT !.phase = ph].phase = ph
      /\ [rb[b] EXCEPT !.phase = ph].flags = rb[b].flags
      /\ [rb[b] EXCEPT !.phase = ph].present = rb[b].present
      /\ [rb[b] EXCEPT !.phase = ph].finalizer = rb[b].finalizer
      /\ [rb[b] EXCEPT !.phase = ph].deleting = rb[b].deleting
  BY <1>1 DEF RepoBinding
<1> QED
  BY <1>2, <1>3 DEF Patches, Recorded, SafeInv, Safe

\* Recording the first step the reconcile's copy does not know to be done.
LEMMA FlagPatch ==
    ASSUME SafeInv, NEW b \in Bindings, pc[b] \in Provisioning,
           CurrentStep(b) # Finalization
    PROVE  /\ Patches(b, [rb[b] EXCEPT !.flags = @ \cup {CurrentStep(b)}])
           /\ Recorded([rb[b] EXCEPT !.flags = @ \cup {CurrentStep(b)}])
<1> DEFINE s == CurrentStep(b)
           o == [rb[b] EXCEPT !.flags = @ \cup {s}]
<1>1. rb[b] \in RepoBinding /\ local[b].flags \in SUBSET Steps
  BY DEF SafeInv, TypeInv, TypeOK, RepoBinding
<1>2. s \in Steps /\ Before(s) \subseteq local[b].flags
  BY <1>1, NextStepFirst DEF CurrentStep
<1>3. local[b].flags \subseteq rb[b].flags
  BY DEF SafeInv, Safe, LocalTrails
<1> HIDE DEF s
<1>4. o \in RepoBinding
  BY <1>1, <1>2, UpdatesTyped
<1>5. /\ o.flags = rb[b].flags \cup {s} /\ o.phase = rb[b].phase
      /\ o.present = rb[b].present /\ o.finalizer = rb[b].finalizer
      /\ o.deleting = rb[b].deleting
  BY <1>1 DEF RepoBinding
<1>6. Patches(b, o)
  BY <1>4, <1>5 DEF Patches
<1>7. Recorded(o)
  <2>1. Recorded(rb[b])
    BY DEF SafeInv, Safe
  <2> QED
    BY <1>2, <1>3, <1>5, <2>1 DEF Recorded
<1> QED
  BY <1>6, <1>7 DEF s

-----------------------------------------------------------------------------
(***************************************************************************)
(* The actions.                                                            *)
(***************************************************************************)
\* The finalizer is only added through a current copy that has none: the cached
\* copy is current too, so none of the clauses on copies with the finalizer
\* comes to hold of a copy that is not.
LEMMA EnsureFinalizerSafe ==
    ASSUME SafeInv, NEW b \in Bindings, EnsureFinalizer(b)
    PROVE  \A c \in Bindings : Safe(c)'
<1> SUFFICES ASSUME NEW c \in Bindings PROVE Safe(c)'
  OBVIOUS
<1>1. CASE c = b
  <2>1. rb[b] \in RepoBinding /\ cache[b] = rb[b] /\ ~rb[b].finalizer
    BY DEF EnsureFinalizer, SafeInv, Safe, LocalTrails, CacheTrails, TypeInv, TypeOK
  <2>2. /\ pc'[b] = "idle" /\ rb'[b] = [rb[b] EXCEPT !.finalizer = TRUE]
        /\ cache'[b] = cache[b] /\ "cache" \in behind'[b]
    BY DEF EnsureFinalizer, WriteAndReturn, Return, SafeInv, TypeInv, TypeOK
  <2>3. CacheTrails(b)'
    BY <2>1, <2>2 DEF CacheTrails, Doomed, Kept
  <2>4. LocalTrails(b)'
    BY <2>2 DEF LocalTrails, Provisioning
  <2>5. rb'[b].flags = rb[b].flags /\ rb'[b].phase = rb[b].phase
    BY <2>1, <2>2 DEF RepoBinding
  <2>6. Recorded(rb[b])'
    BY <2>5 DEF Recorded, SafeInv, Safe
  <2> QED
    BY <1>1, <2>3, <2>4, <2>6 DEF Safe
<1>2. CASE c # b
  BY <1>2, SafeFrame DEF EnsureFinalizer, WriteAndReturn, Return, SafeInv, TypeInv, TypeOK
<1> QED
  BY <1>1, <1>2

\* Nor is it removed but through a current copy: the cached copy the next life
\* of the binding starts with is one of a doomed object.
LEMMA RemoveFinalizerSafe ==
    ASSUME SafeInv, NEW b \in Bindings, RemoveFinalizer(b)
    PROVE  \A c \in Bindings : Safe(c)'
<1> SUFFICES ASSUME NEW c \in Bindings PROVE Safe(c)'
  OBVIOUS
<1>1. CASE c = b
  <2>1. cache[b] = local[b] /\ Doomed(local[b])
    BY DEF RemoveFinalizer, SafeInv, Safe, LocalTrails, CacheTrails
  <2>2. /\ pc'[b] = "idle" /\ rb'[b] = Absent
        /\ cache'[b] = cache[b] /\ "cache" \in behind'[b]
    BY DEF RemoveFinalizer, WriteAndReturn, Return, SafeInv, TypeInv, TypeOK
  <2>3. ~Absent.present /\ Absent.flags = {} /\ Absent.phase = ""
    BY DEF Absent, Created
  <2>4. CacheTrails(b)'
    BY <2>1, <2>2, <2>3 DEF CacheTrails, Doomed, Kept
  <2>5. LocalTrails(b)'
    BY <2>2 DEF LocalTrails, Provisioning
  <2>6. Recorded(rb[b])'
    BY <2>2, <2>3 DEF Recorded
  <2> QED
    BY <1>1, <2>4, <2>5, <2>6 DEF Safe
<1>2. CASE c # b
  BY <1>2, SafeFrame DEF RemoveFinalizer, WriteAndReturn, Return, SafeInv, TypeInv, TypeOK
<1> QED
  BY <1>1, <1>2

LEMMA WorkSafe ==
    ASSUME SafeInv, NEW b \in Bindings, Work(b)
    PROVE  \A c \in Bindings : Safe(c)'
<1>1. CASE AdmitRejected(b)
  <2> DEFINE failed == [rb[b] EXCEPT !.phase = "Failed"]
  <2>1. Patches(b, failed) /\ Recorded(failed)
    BY PhasePatch DEF Phases
  <2>2. WriteAndReturn(b, failed, FALSE) \/ RepeatAndReturn(b, failed, FALSE)
    BY <1>1 DEF AdmitRejected
  <2> HIDE DEF failed
  <2>3. CASE WriteAndReturn(b, failed, FALSE)
    BY <2>1, <2>3, PatchReturnSafe
  <2>4. CASE RepeatAndReturn(b, failed, FALSE)
    BY <2>4, DropSafe DEF RepeatAndReturn
  <2> QED
    BY <2>2, <2>3, <2>4
<1>2. CASE FinalizerConflict(b) \/ ReleaseConflict(b) \/ PatchNotFound(b)
  BY <1>2, DropSafe DEF FinalizerConflict, ReleaseConflict, PatchNotFound
<1>3. CASE InitializeStatus(b)
  <2> DEFINE pending == [rb[b] EXCEPT !.phase = "Pending"]
             next == AfterInitialize(IF PatchRefreshes THEN pending ELSE local[b])
  <2>1. Patches(b, pending) /\ Recorded(pending)
    BY PhasePatch DEF Phases
  <2>2. next \in {"idle", "validate", "provision"}
    BY DEF AfterInitialize
  <2>3. pc[b] \in Provisioning /\ WriteAndContinue(b, pending, next)
    BY <1>3 DEF InitializeStatus, Provisioning
  <2> HIDE DEF pending, next
  <2> QED
    BY <2>1, <2>2, <2>3, PatchContinueSafe
<1>4. CASE RejectPending(b) \/ MarkFailed(b)
  <2> DEFINE failed == [rb[b] EXCEPT !.phase = "Failed"]
  <2>1. Patches(b, failed) /\ Recorded(failed)
    BY PhasePatch DEF Phases
  <2>2. WriteAndReturn(b, failed, TRUE)
    BY <1>4 DEF RejectPending, MarkFailed
  <2> HIDE DEF failed
  <2> QED
    BY <2>1, <2>2, PatchReturnSafe
<1>5. CASE AcceptPending(b)
  <2> DEFINE accepted == [rb[b] EXCEPT !.phase = "Provisioning"]
  <2>1. Patches(b, accepted) /\ Recorded(accepted)
    BY PhasePatch DEF Phases
  <2>2. pc[b] \in Provisioning /\ WriteAndContinue(b, accepted, "provision")
    BY <1>5 DEF AcceptPending, Provisioning
  <2> HIDE DEF accepted
  <2> QED
    BY <2>1, <2>2, PatchContinueSafe
<1>6. CASE EnsureObject(b)
  <2> DEFINE stage == IF LastKind(b) THEN "record" ELSE "provision"
  <2>1. pc[b] \in Provisioning /\ stage \in Provisioning
    BY <1>6 DEF EnsureObject, Provisioning
  <2>2. pc' = [pc EXCEPT ![b] = stage]
    BY <1>6 DEF EnsureObject, SafeInv, TypeInv, TypeOK
  <2>3. local'[b].flags = local[b].flags /\ \A c \in Bindings \ {b} : local'[c] = local[c]
    BY <1>6 DEF EnsureObject, SafeInv, TypeInv, TypeOK, RepoBinding
  <2>4. UNCHANGED <<rb, cache, behind>>
    BY <1>6 DEF EnsureObject
  <2> HIDE DEF stage
  <2> QED
    BY <2>1, <2>2, <2>3, <2>4, StageSafe
<1>7. CASE ProvisionRefused(b)
  BY <1>7, StageSafe DEF ProvisionRefused, Provisioning
<1>8. CASE RecordStep(b)
  <2> DEFINE o == [rb[b] EXCEPT !.flags = @ \cup {CurrentStep(b)}]
  <2>1. Patches(b, o) /\ Recorded(o)
    BY <1>8, FlagPatch DEF RecordStep, Provisioning
  <2>2. WriteAndReturn(b, o, TRUE)
    BY <1>8 DEF RecordStep
  <2> HIDE DEF o
  <2> QED
    BY <2>1, <2>2, PatchReturnSafe
<1>9. CASE RecordReady(b)
  <2> DEFINE ready == [rb[b] EXCEPT !.phase = "Ready"]
  <2>1. rb[b].flags = Steps
    <3>1. local[b].flags \in SUBSET Steps /\ rb[b].flags \subseteq Steps
      BY DEF SafeInv, TypeInv, TypeOK, RepoBinding
    <3>2. local[b].flags = Steps
      BY <1>9, <3>1, NextStepFirst DEF RecordReady, CurrentStep
    <3>3. local[b].flags \subseteq rb[b].flags
      BY <1>9 DEF RecordReady, SafeInv, Safe, LocalTrails, Provisioning
    <3> QED
      BY <3>1, <3>2, <3>3
  <2>2. Patches(b, ready) /\ Recorded(ready)
    BY <2>1, PhasePatch DEF Phases
  <2>3. WriteAndReturn(b, ready, FALSE)
    BY <1>9 DEF RecordReady
  <2> HIDE DEF ready
  <2> QED
    BY <2>2, <2>3, PatchReturnSafe
<1>10. CASE CleanupObject(b)
  <2> DEFINE stage == IF at[b] = Len(CleanupOrder) THEN "release" ELSE "cleanup"
  <2>1. pc[b] \in {"cleanup", "release"} /\ stage \in {"cleanup", "release"}
    BY <1>10 DEF CleanupObject
  <2>2. pc' = [pc EXCEPT ![b] = stage] /\ UNCHANGED <<rb, cache, local, behind>>
    BY <1>10 DEF CleanupObject, CleanupAdvances, SafeInv, TypeInv, TypeOK
  <2> HIDE DEF stage
  <2> QED
    BY <2>1, <2>2, StageSafe
<1> QED
  BY <1>1, <1>2, <1>3, <1>4, <1>5, <1>6, <1>7, <1>8, <1>9, <1>10,
     EnsureFinalizerSafe, RemoveFinalizerSafe DEF Work

LEMMA FailureSafe ==
    ASSUME SafeInv, NEW b \in Bindings, Failure(b)
    PROVE  \A c \in Bindings : Safe(c)'
<1>1. CASE ProvisionFaulted(b)
  BY <1>1, StageSafe DEF ProvisionFaulted, Provisioning
<1>2. CASE CleanupSwallowed(b)
  <2> DEFINE stage == IF at[b] = Len(CleanupOrder) THEN "release" ELSE "cleanup"
  <2>1. pc[b] \in {"cleanup", "release"} /\ stage \in {"cleanup", "release"}
    BY <1>2 DEF CleanupSwallowed
  <2>2. pc' = [pc EXCEPT ![b] = stage] /\ UNCHANGED <<rb, cache, local, behind>>
    BY <1>2 DEF CleanupSwallowed, CleanupAdvances, SafeInv, TypeInv, TypeOK
  <2> HIDE DEF stage
  <2> QED
    BY <2>1, <2>2, StageSafe
<1>3. CASE Abort(b)
  BY <1>3, DropSafe DEF Abort
<1> QED
  BY <1>1, <1>2, <1>3 DEF Failure

\* A reconcile starts from the cached copy; what Dispatch makes of it fits what
\* the cached copy says of the stored object.
LEMMA FetchSafe ==
    ASSUME SafeInv, NEW b \in Bindings, Fetch(b)
    PROVE  \A c \in Bindings : Safe(c)'
<1> DEFINE stage == IF cache[b].present THEN Dispatch(cache[b]) ELSE "idle"
<1>1. cache[b] \in RepoBinding
  BY DEF SafeInv, TypeInv, TypeOK
<1>2. /\ stage \in {"idle", "admit", "initialize", "validate", "provision", "cleanup"}
      /\ stage = "cleanup" => Doomed(cache[b])
      /\ stage \in Provisioning => Kept(cache[b])
      /\ stage = "admit" => ~cache[b].finalizer
  BY <1>1, DispatchStages DEF Doomed, Kept, Provisioning, Dispatch, AfterInitialize, RepoBinding
<1>3. /\ pc' = [pc EXCEPT ![b] = stage]
      /\ local' = IF stage = "idle" THEN local ELSE [local EXCEPT ![b] = cache[b]]
      /\ behind' = IF stage # "idle" /\ "cache" \in behind[b]
                     THEN [behind EXCEPT ![b] = {"cache", "local"}] ELSE behind
      /\ UNCHANGED <<rb, cache>>
  BY DEF Fetch
<1> HIDE DEF stage
<1> SUFFICES ASSUME NEW c \in Bindings PROVE Safe(c)'
  OBVIOUS
<1>4. CASE c = b
  <2>1. /\ pc'[b] = stage /\ rb'[b] = rb[b] /\ cache'[b] = cache[b]
        /\ stage # "idle" => local'[b] = cache[b]
        /\ "cache" \in behind'[b] <=> "cache" \in behind[b]
        /\ stage # "idle" /\ "cache" \in behind[b] => "local" \in behind'[b]
    BY <1>3 DEF SafeInv, TypeInv, TypeOK
  <2>2. CacheTrails(b) /\ Recorded(rb[b])
    BY DEF SafeInv, Safe
  <2>3. CacheTrails(b)' /\ Recorded(rb[b])'
    BY <2>1, <2>2 DEF CacheTrails, Managed
  <2>4. LocalTrails(b)'
    BY <1>2, <2>1, <2>2 DEF LocalTrails, CacheTrails, Stale, Managed, Provisioning
  <2> QED
    BY <1>4, <2>3, <2>4 DEF Safe
<1>5. CASE c # b
  BY <1>3, <1>5, SafeFrame DEF SafeInv, TypeInv, TypeOK
<1> QED
  BY <1>4, <1>5

\* Users update, delete and create under the reconcile's feet: every copy is
\* marked as overtaken, and no user hands out the finalizer.
LEMMA UserSafe ==
    ASSUME SafeInv, NEW b \in Bindings, User(b)
    PROVE  \A c \in Bindings : Safe(c)'
<1>1. rb[b] \in RepoBinding
  BY DEF SafeInv, TypeInv, TypeOK
<1>2. ASSUME NEW o, StoredBy(b, o), Recorded(o), CacheTrails(b)',
             Kept(o) => Kept(rb[b]),
             pc[b] \in Provisioning => Managed(b)' /\ rb[b].flags \subseteq o.flags
      PROVE  \A c \in Bindings : Safe(c)'
  <2> SUFFICES ASSUME NEW c \in Bindings PROVE Safe(c)'
    OBVIOUS
  <2>1. CASE c = b
    <3>1. /\ pc'[b] = pc[b] /\ local'[b] = local[b] /\ rb'[b] = o
          /\ pc[b] # "idle" => "local" \in behind'[b]
      BY <1>2 DEF StoredBy, SafeInv, TypeInv, TypeOK
    <3>2. LocalTrails(b)
      BY DEF SafeInv, Safe
    <3>3. LocalTrails(b)'
      BY <1>2, <3>1, <3>2 DEF LocalTrails, Stale
    <3> QED
      BY <1>2, <2>1, <3>1, <3>3 DEF Safe
  <2>2. CASE c # b
    BY <1>2, <2>2, SafeFrame DEF StoredBy, SafeInv, TypeInv, TypeOK
  <2> QED
    BY <2>1, <2>2
\* A new object, or none: what the copies knew of the finalizer was of one that
\* is not there to be lost.
<1>3. ASSUME NEW o, StoredBy(b, o), ~rb[b].present \/ ~rb[b].finalizer,
             ~o.finalizer, o.flags = {}, o.phase = ""
      PROVE  \A c \in Bindings : Safe(c)'
  <2>1. ~Managed(b) /\ CacheTrails(b) /\ LocalTrails(b)
    BY <1>3 DEF Managed, SafeInv, Safe
  <2>2. rb'[b] = o /\ cache'[b] = cache[b] /\ "cache" \in behind'[b]
    BY <1>3 DEF StoredBy, SafeInv, TypeInv, TypeOK
  <2>3. CacheTrails(b)'
    BY <1>3, <2>1, <2>2 DEF CacheTrails, Kept
  <2>4. pc[b] \notin Provisioning
    BY <2>1 DEF LocalTrails
  <2>5. Recorded(o) /\ ~Kept(o)
    BY <1>3 DEF Recorded, Kept
  <2> QED
    BY <1>2, <1>3, <2>3, <2>4, <2>5
<1>4. ASSUME NEW o, StoredBy(b, o), Patches(b, [o EXCEPT !.deleting = rb[b].deleting]),
             o \in RepoBinding, o.deleting = rb[b].deleting \/ o.deleting,
             Recorded(o)
      PROVE  \A c \in Bindings : Safe(c)'
  <2>1. /\ o.present = rb[b].present /\ o.finalizer = rb[b].finalizer
        /\ rb[b].flags \subseteq o.flags
    BY <1>4 DEF Patches, RepoBinding
  <2>2. rb'[b] = o /\ cache'[b] = cache[b] /\ "cache" \in behind'[b]
    BY <1>4 DEF StoredBy, SafeInv, TypeInv, TypeOK
  <2>3. CacheTrails(b) /\ LocalTrails(b)
    BY DEF SafeInv, Safe
  <2>4. CacheTrails(b)'
    BY <1>4, <2>1, <2>2, <2>3 DEF CacheTrails, Kept, Doomed, Managed
  <2>5. Kept(o) => Kept(rb[b])
    BY <1>1, <1>4, <2>1 DEF Kept, RepoBinding
  <2>6. pc[b] \in Provisioning => Managed(b)' /\ rb[b].flags \subseteq o.flags
    BY <2>1, <2>2, <2>3 DEF LocalTrails, Managed
  <2> QED
    BY <1>2, <1>4, <2>4, <2>5, <2>6
<1>5. ASSUME NEW s \in Specs, UserCreate(b, s)
      PROVE  \A c \in Bindings : Safe(c)'
  <2>1. StoredBy(b, Created(s)) /\ ~rb[b].present
    BY <1>5 DEF UserCreate
  <2>2. ~Created(s).finalizer /\ Created(s).flags = {} /\ Created(s).phase = ""
    BY DEF Created
  <2> QED
    BY <1>3, <2>1, <2>2
<1>6. ASSUME NEW s \in Specs, UserUpdate(b, s)
      PROVE  \A c \in Bindings : Safe(c)'
  <2> DEFINE o == [rb[b] EXCEPT !.spec = s]
  <2>1. o \in RepoBinding
    BY <1>1, UpdatesTyped
  <2>2. /\ o.present = rb[b].present /\ o.finalizer = rb[b].finalizer
        /\ o.deleting = rb[b].deleting /\ o.flags = rb[b].flags /\ o.phase = rb[b].phase
    BY <1>1 DEF RepoBinding
  <2>3. StoredBy(b, o)
    BY <1>6 DEF UserUpdate
  <2> HIDE DEF o
  <2>4. [o EXCEPT !.deleting = rb[b].deleting] = o
    BY <2>1, <2>2 DEF RepoBinding
  <2>5. Recorded(o) /\ Patches(b, o)
    BY <2>1, <2>2 DEF Recorded, Patches, SafeInv, Safe
  <2> QED
    BY <1>4, <2>1, <2>2, <2>3, <2>4, <2>5
<1>7. CASE UserDelete(b) /\ rb[b].finalizer
  <2> DEFINE o == [rb[b] EXCEPT !.deleting = TRUE]
  <2>1. o \in RepoBinding
    BY <1>1, UpdatesTyped
  <2>2. o.deleting /\ o.flags = rb[b].flags /\ o.phase = rb[b].phase
    BY <1>1 DEF RepoBinding
  <2>3. StoredBy(b, o)
    BY <1>7 DEF UserDelete
  <2>4. [o EXCEPT !.deleting = rb[b].deleting] = rb[b]
    BY <1>1 DEF RepoBinding
  <2> HIDE DEF o
  <2>5. Recorded(o)
    BY <2>2 DEF Recorded, SafeInv, Safe
  <2>6. Patches(b, rb[b])
    BY <1>1 DEF Patches
  <2> QED
    BY <1>4, <2>1, <2>2, <2>3, <2>4, <2>5, <2>6
<1>8. CASE UserDelete(b) /\ ~rb[b].finalizer
  <2>1. StoredBy(b, Absent)
    BY <1>8 DEF UserDelete
  <2>2. ~Absent.finalizer /\ Absent.flags = {} /\ Absent.phase = ""
    BY DEF Absent, Created
  <2> QED
    BY <1>3, <1>8, <2>1, <2>2
<1> QED
  BY <1>5, <1>6, <1>7, <1>8 DEF User

\* Informers deliver, the process restarts, the cluster moves.
LEMMA RestSafe ==
    ASSUME SafeInv,
           (\E b \in Bindings : SyncBinding(b)) \/ Restart \/ ClusterStep \/ UNCHANGED vars
    PROVE  \A c \in Bindings : Safe(c)'
<1> SUFFICES ASSUME NEW c \in Bindings PROVE Safe(c)'
  OBVIOUS
<1>1. ASSUME NEW b \in Bindings, SyncBinding(b)
      PROVE  Safe(c)'
  <2>1. CASE c = b
    <3>1. /\ rb' = rb /\ pc' = pc /\ local' = local /\ cache'[b] = rb[b]
          /\ "local" \in behind'[b] <=> "local" \in behind[b]
          /\ "cache" \in behind[b]
      BY <1>1 DEF SyncBinding, SafeInv, TypeInv, TypeOK
    <3>2. CacheTrails(b)'
      BY <3>1 DEF CacheTrails, Kept, Doomed, Managed
    <3>3. LocalTrails(b) /\ Recorded(rb[b])
      BY DEF SafeInv, Safe
    <3>4. LocalTrails(b)' /\ Recorded(rb[b])'
      BY <3>1, <3>3 DEF LocalTrails, Stale, Managed
    <3> QED
      BY <2>1, <3>2, <3>4 DEF Safe
  <2>2. CASE c # b
    BY <1>1, <2>2, SafeFrame DEF SyncBinding, SafeInv, TypeInv, TypeOK
  <2> QED
    BY <2>1, <2>2
<1>2. CASE Restart
  <2>1. rb' = rb /\ cache' = rb /\ pc'[c] = "idle"
    BY <1>2 DEF Restart
  <2>2. CacheTrails(c)' /\ LocalTrails(c)'
    BY <2>1 DEF CacheTrails, LocalTrails, Kept, Doomed, Managed, Provisioning
  <2> QED
    BY <2>1, <2>2 DEF Safe, SafeInv
<1>3. CASE ClusterStep \/ UNCHANGED vars
  BY <1>3, SafeFrame DEF ClusterStep, vars, SafeInv
<1> QED
  BY <1>1, <1>2, <1>3

-----------------------------------------------------------------------------
(***************************************************************************)
(* The theorems.                                                           *)
(***************************************************************************)
LEMMA SafeInit ==
    ASSUME Init
    PROVE  SafeInv
<1>1. ~Absent.present /\ Absent.flags = {} /\ Absent.phase = ""
  BY DEF Absent, Created
<1> QED
  BY <1>1, TypeInit DEF Init, SafeInv, Safe, CacheTrails, LocalTrails, Recorded,
                        Kept, Doomed, Provisioning

LEMMA SafeStep ==
    ASSUME SafeInv, [Next]_vars
    PROVE  SafeInv'
<1>1. TypeInv'
  BY TypeStep DEF SafeInv
<1>2. \A c \in Bindings : Safe(c)'
  BY WorkSafe, FetchSafe, FailureSafe, UserSafe, RestSafe DEF Next
<1> QED
  BY <1>1, <1>2 DEF SafeInv

\* The invariant the safety theorems follow from.
THEOREM Safety == Spec => []SafeInv
BY SafeInit, SafeStep, PTL DEF Spec

\* Whatever copies the controller works from, they trail the stored object in
\* the ways that make it safe: the cached copy and the copy of a reconcile.
THEOREM CopiesTrailAlways == Spec => []CopiesTrail
<1>1. SafeInv => CopiesTrail
  BY DEF SafeInv, Safe, CacheTrails, LocalTrails, CopiesTrail
<1> QED
  BY <1>1, Safety, PTL

\* No binding a user wants to keep is cleaned up.
THEOREM CleanupSpares == Spec => []CleanupOnlyDoomed
<1>1. SafeInv => CleanupOnlyDoomed
  BY DEF SafeInv, Safe, LocalTrails, CleanupOnlyDoomed
<1> QED
  BY <1>1, Safety, PTL

\* The recorded steps are a prefix of the code's list.
THEOREM StepsInOrder == Spec => []StepsRecordedInOrder
<1>1. SafeInv => StepsRecordedInOrder
  BY DEF SafeInv, Safe, Recorded, StepsRecordedInOrder
<1> QED
  BY <1>1, Safety, PTL

\* A Ready binding has all seven steps recorded.
THEOREM ReadyIsComplete == Spec => []ReadyMeansAllSteps
<1>1. SafeInv => ReadyMeansAllSteps
  BY DEF SafeInv, Safe, Recorded, ReadyMeansAllSteps
<1> QED
  BY <1>1, Safety, PTL

\* The finalizer is the one write that is refused from an old copy: it is never
\* given to an object whose stored spec has not been validated.
THEOREM FinalizerValidated == Spec => FinalizerOnlyOnValid
<1> DEFINE Validated(b) ==
        ~rb[b].finalizer /\ rb'[b].finalizer => rb'[b].spec \in ValidSpecs
<1>1. ASSUME SafeInv, [Next]_vars, NEW b \in Bindings
      PROVE  Validated(b)
  <2>1. rb \in [Bindings -> RepoBinding] /\ ~Absent.finalizer
    BY <1>1, RecordsTyped DEF SafeInv, TypeInv, TypeOK, Absent, Created
  <2>2. ASSUME NEW c \in Bindings, EnsureFinalizer(c)
        PROVE  Validated(b)
    <3>1. local[c] = rb[c] /\ local[c].spec \in ValidSpecs
      BY <1>1, <2>2 DEF EnsureFinalizer, PassesValidation, SafeInv, Safe, LocalTrails
    <3>2. rb' = [rb EXCEPT ![c] = [rb[c] EXCEPT !.finalizer = TRUE]]
      BY <2>2 DEF EnsureFinalizer, WriteAndReturn
    <3> QED
      BY <2>1, <3>1, <3>2 DEF RepoBinding
  <2>3. ASSUME NEW c \in Bindings, Work(c), ~EnsureFinalizer(c)
        PROVE  rb'[b].finalizer => rb[b].finalizer
    <3>1. CASE AdmitRejected(c) \/ RejectPending(c) \/ MarkFailed(c)
      BY <2>1, <3>1 DEF AdmitRejected, RejectPending, MarkFailed, WriteAndReturn,
                        RepeatAndReturn, RepoBinding
    <3>2. CASE FinalizerConflict(c) \/ ReleaseConflict(c) \/ PatchNotFound(c)
      BY <3>2 DEF FinalizerConflict, ReleaseConflict, PatchNotFound
    <3>3. CASE InitializeStatus(c) \/ AcceptPending(c)
      BY <2>1, <3>3 DEF InitializeStatus, AcceptPending, WriteAndContinue, RepoBinding
    <3>4. CASE EnsureObject(c) \/ ProvisionRefused(c) \/ CleanupObject(c)
      BY <3>4 DEF EnsureObject, ProvisionRefused, CleanupObject, CleanupAdvances
    <3>5. CASE RecordStep(c) \/ RecordReady(c)
      BY <2>1, <3>5 DEF RecordStep, RecordReady, WriteAndReturn, RepoBinding
    <3>6. CASE RemoveFinalizer(c)
      BY <2>1, <3>6 DEF RemoveFinalizer, WriteAndReturn
    <3> QED
      BY <2>3, <3>1, <3>2, <3>3, <3>4, <3>5, <3>6 DEF Work
  <2>4. ASSUME NEW c \in Bindings, User(c)
        PROVE  rb'[b].finalizer => rb[b].finalizer
    <3>1. ASSUME NEW s \in Specs, UserCreate(c, s)
          PROVE  rb'[b].finalizer => rb[b].finalizer
      BY <2>1, <3>1 DEF UserCreate, StoredBy, Created
    <3>2. ASSUME NEW s \in Specs, UserUpdate(c, s)
          PROVE  rb'[b].finalizer => rb[b].finalizer
      BY <2>1, <3>2 DEF UserUpdate, StoredBy, RepoBinding
    <3>3. CASE UserDelete(c)
      BY <2>1, <3>3 DEF UserDelete, StoredBy, RepoBinding
    <3> QED
      BY <2>4, <3>1, <3>2, <3>3 DEF User
  <2>5. ASSUME NEW c \in Bindings, Fetch(c) \/ Failure(c) \/ SyncBinding(c)
        PROVE  rb' = rb
    BY <2>5 DEF Fetch, Failure, SyncBinding, ProvisionFaulted, CleanupSwallowed,
                Abort, CleanupAdvances
  <2>6. Restart \/ ClusterStep \/ UNCHANGED vars => rb' = rb
    BY DEF Restart, ClusterStep, vars
  <2> QED
    BY <1>1, <2>2, <2>3, <2>4, <2>5, <2>6 DEF Next
<1>2. SafeInv /\ [Next]_vars
        => [\A b \in Bindings :
               ~rb[b].finalizer /\ rb'[b].finalizer => rb'[b].spec \in ValidSpecs]_vars
  BY <1>1
<1> QED
  BY <1>2, Safety, PTL DEF Spec, FinalizerOnlyOnValid
=============================================================================
