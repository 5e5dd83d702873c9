------------------------- MODULE EventListenerSelector -------------------------
(***************************************************************************)
(* The EventListener of an organization lists the namespaces it serves.    *)
(* Every RepoBinding of the organization appends its pipeline's name in    *)
(* updateEventListenerNamespaces: read through the cache, append, write    *)
(* back.  RepoBindingReconciler has one entry per pipeline and no list;    *)
(* this module has the list, the copies of it and the workers that race.   *)
(***************************************************************************)
EXTENDS Naturals, Sequences

CONSTANTS
    Bindings,  \* the bindings of one organization
    NameOf,    \* NameOf[b]: spec.pipelineName; two bindings may share it
    Strangers, \* names somebody else adds to the list
    MaxFaults, \* bound: failed calls, lost replies, successes not recorded
    MaxEdits   \* bound: edits of other fields of the EventListener

Names == {NameOf[b] : b \in Bindings} \cup Strangers

ASSUME SelectorAssumption == MaxFaults \in Nat /\ MaxEdits \in Nat

VARIABLES
    stored, \* the EventListener: its matchNames and its resourceVersion
    cached, \* the informer's copy
    copy,   \* copy[b]: the one b's step works on
    stage,  \* stage[b]: where b's step stands
    faults, edits

vars == <<stored, cached, copy, stage, faults, edits>>

Listener == [matchNames: Seq(Names), version: Nat]

Empty == [matchNames |-> <<>>, version |-> 0]

Listed(l) == {l.matchNames[i] : i \in 1..Len(l.matchNames)}

Init ==
    /\ stored = Empty
    /\ cached = Empty
    /\ copy = [b \in Bindings |-> Empty]
    /\ stage = [b \in Bindings |-> "queued"]
    /\ faults = 0
    /\ edits = 0

-----------------------------------------------------------------------------
\* Mistake: the name is appended without a look at the list.
AlreadyListedUnchecked(b, l) == b \notin Bindings

\* Mistake: some entry will do.
AnyEntryWillDo(b, l) == l.matchNames # <<>>

AlreadyListed(b, l) == NameOf[b] \in Listed(l)

\* The step reads the EventListener; a listed name needs no write.
Get(b) ==
    /\ stage[b] = "queued"
    /\ IF AlreadyListed(b, cached)
         THEN /\ stage' = [stage EXCEPT ![b] = "done"]
              /\ UNCHANGED copy
         ELSE /\ stage' = [stage EXCEPT ![b] = "update"]
              /\ copy' = [copy EXCEPT ![b] =
                    [cached EXCEPT !.matchNames = Append(@, NameOf[b])]]
    /\ UNCHANGED <<stored, cached, faults, edits>>

\* Mistake: the write is forced whatever is stored by now.
ForcedWrite(b) == b \in Bindings

\* An Update made from a copy of another version is refused.
Current(b) == copy[b].version = stored.version

Write(b) ==
    /\ Current(b)
    /\ stored' = [matchNames |-> copy[b].matchNames, version |-> stored.version + 1]

Update(b) ==
    /\ stage[b] = "update"
    /\ Write(b)
    /\ stage' = [stage EXCEPT ![b] = "done"]
    /\ UNCHANGED <<cached, copy, faults, edits>>

\* Mistake: the conflict is taken for "somebody has done it".
ConflictIsDone(b) == stage' = [stage EXCEPT ![b] = "done"]

\* The error sets the binding to Failed and queues it again.
Retry(b) == stage' = [stage EXCEPT ![b] = "queued"]

Conflict(b) ==
    /\ stage[b] = "update"
    /\ ~Current(b)
    /\ Retry(b)
    /\ UNCHANGED <<stored, cached, copy, faults, edits>>

\* The call fails, with or without having been carried out.
Fault(b) ==
    /\ stage[b] = "update"
    /\ faults < MaxFaults
    /\ faults' = faults + 1
    /\ Write(b) \/ UNCHANGED stored
    /\ stage' = [stage EXCEPT ![b] = "queued"]
    /\ UNCHANGED <<cached, copy, edits>>

\* The status patch after the step fails or the process restarts: the step is
\* run again.
NotRecorded(b) ==
    /\ stage[b] = "done"
    /\ faults < MaxFaults
    /\ faults' = faults + 1
    /\ stage' = [stage EXCEPT ![b] = "queued"]
    /\ UNCHANGED <<stored, cached, copy, edits>>

-----------------------------------------------------------------------------
\* Whoever owns the EventListener edits it with updates of its own: adds a name
\* or changes some other field.
Edit ==
    /\ edits < MaxEdits
    /\ edits' = edits + 1
    /\ stored' \in {[matchNames |-> s, version |-> stored.version + 1] :
                      s \in {stored.matchNames} \cup
                            {Append(stored.matchNames, n) : n \in Strangers \ Listed(stored)}}
    /\ UNCHANGED <<cached, copy, stage, faults>>

\* The informer delivers the newest EventListener.
SyncListener ==
    /\ cached # stored
    /\ cached' = stored
    /\ UNCHANGED <<stored, copy, stage, faults, edits>>

Step(b) == Get(b) \/ Update(b) \/ Conflict(b)

Next ==
    \/ \E b \in Bindings : Step(b) \/ Fault(b) \/ NotRecorded(b)
    \/ Edit
    \/ SyncListener

Spec == Init /\ [][Next]_vars

\* A queued binding gets a worker, a worker does not stop in the middle and the
\* informer delivers.
Fairness == WF_vars(SyncListener) /\ \A b \in Bindings : WF_vars(Step(b))

FairSpec == Spec /\ Fairness

-----------------------------------------------------------------------------
TypeOK ==
    /\ stored \in Listener
    /\ cached \in Listener
    /\ copy \in [Bindings -> Listener]
    /\ stage \in [Bindings -> {"queued", "update", "done"}]
    /\ faults \in 0..MaxFaults
    /\ edits \in 0..MaxEdits

\* However many bindings, also of one pipeline, race for the list, and although
\* an update may be carried out and reported as failed: no name is listed twice.
NoNameTwice ==
    \A i, j \in 1..Len(stored.matchNames) :
        stored.matchNames[i] = stored.matchNames[j] => i = j

\* What a copy says is listed, is: the shortcut of a listed name is safe on an
\* old copy because nobody removes names.
CopiesTrailListener ==
    /\ cached.version = stored.version => cached = stored
    /\ Listed(cached) \subseteq Listed(stored)
    /\ \A b \in Bindings : stage[b] = "update" /\ copy[b].version = stored.version =>
          copy[b].matchNames = Append(stored.matchNames, NameOf[b])

\* The selector promise: names are only added, and success means being listed.
Promise == INSTANCE ListenerPromise
    WITH listed <- Listed(stored), told <- {b \in Bindings : stage[b] = "done"}

KeepsPromise == Promise!Spec

\* Every binding is listed in the end, although each write of another one
\* refuses its own.
EveryoneListed == \A b \in Bindings : <>(NameOf[b] \in Listed(stored))
=============================================================================
