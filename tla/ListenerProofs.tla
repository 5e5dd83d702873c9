----------------------------- MODULE ListenerProofs -----------------------------
(***************************************************************************)
(* EventListenerSelector keeps its promise for any number of bindings,     *)
(* workers and edits.                                                      *)
(***************************************************************************)
EXTENDS EventListenerSelector, TLAPS

NotTwice(l) ==
    \A i, j \in 1..Len(l.matchNames) : l.matchNames[i] = l.matchNames[j] => i = j

\* An EventListener with one more name.
LEMMA AppendedName ==
    ASSUME NEW l \in Listener, NEW n \in Names, NEW k \in Listener,
           k.matchNames = Append(l.matchNames, n)
    PROVE  /\ Listed(k) = Listed(l) \cup {n}
           /\ NotTwice(l) /\ n \notin Listed(l) => NotTwice(k)
<1> DEFINE s == l.matchNames
           t == k.matchNames
<1>1. s \in Seq(Names) /\ t = Append(s, n)
  BY DEF Listener
<1> HIDE DEF s, t
<1>2. /\ Len(s) \in Nat /\ Len(t) = Len(s) + 1
      /\ \A i \in 1..Len(s) : t[i] = s[i]
      /\ t[Len(s) + 1] = n
  BY <1>1
<1>3. Listed(l) = {s[i] : i \in 1..Len(s)} /\ Listed(k) = {t[i] : i \in 1..Len(t)}
  BY DEF Listed, s, t
<1>4. Listed(k) = Listed(l) \cup {n}
  BY <1>2, <1>3
<1>5. ASSUME NotTwice(l), n \notin Listed(l)
      PROVE  NotTwice(k)
  <2>1. \A i, j \in 1..Len(s) : s[i] = s[j] => i = j
    BY <1>5 DEF NotTwice, s
  <2>2. \A i \in 1..Len(s) : s[i] # n
    BY <1>3, <1>5
  <2>3. \A i, j \in 1..Len(t) : t[i] = t[j] => i = j
    BY <1>2, <2>1, <2>2
  <2> QED
    BY <2>3 DEF NotTwice, t
<1> QED
  BY <1>4, <1>5

-----------------------------------------------------------------------------
(***************************************************************************)
(* The inductive invariant.  Versions only grow, so a copy of the stored   *)
(* version is a copy of what is stored.                                    *)
(***************************************************************************)
VersionsTrail ==
    /\ cached.version <= stored.version
    /\ \A b \in Bindings : copy[b].version <= stored.version

AppendsNewName ==
    \A b \in Bindings : stage[b] = "update" /\ Current(b) => NameOf[b] \notin Listed(stored)

DoneIsListed == \A b \in Bindings : stage[b] = "done" => NameOf[b] \in Listed(stored)

Inv == /\ TypeOK /\ VersionsTrail /\ CopiesTrailListener
       /\ AppendsNewName /\ NotTwice(stored) /\ DoneIsListed

LEMMA InvInit ==
    ASSUME Init
    PROVE  Inv
<1>1. Empty \in Listener /\ Listed(Empty) = {} /\ NotTwice(Empty) /\ Empty.version = 0
  BY DEF Empty, Listener, Listed, NotTwice
<1>2. TypeOK
  BY <1>1, SelectorAssumption DEF Init, TypeOK
<1> QED
  BY <1>1, <1>2 DEF Init, Inv, VersionsTrail, CopiesTrailListener, AppendsNewName,
                    DoneIsListed

\* Any step that stores a new version with no name less.
LEMMA StoreKeeps ==
    ASSUME Inv, TypeOK', NEW l \in Listener, stored' = l,
           l.version = stored.version + 1, Listed(stored) \subseteq Listed(l), NotTwice(l),
           UNCHANGED <<cached, copy>>,
           \A b \in Bindings : stage'[b] = "done" => NameOf[b] \in Listed(l)
    PROVE  Inv'
<1>1. /\ stored.version \in Nat /\ cached.version \in Nat
      /\ \A b \in Bindings : copy[b].version \in Nat
  BY DEF Inv, TypeOK, Listener
<1>2. VersionsTrail' /\ cached'.version # stored'.version
      /\ \A b \in Bindings : ~Current(b)'
  BY <1>1 DEF Inv, VersionsTrail, Current
<1>3. Listed(cached)' \subseteq Listed(stored)'
  BY DEF Inv, CopiesTrailListener, Listed
<1>4. CopiesTrailListener' /\ AppendsNewName'
  BY <1>2, <1>3 DEF CopiesTrailListener, AppendsNewName, Current
<1>5. NotTwice(stored)' /\ DoneIsListed'
  BY DEF NotTwice, DoneIsListed, Listed
<1> QED
  BY <1>2, <1>4, <1>5 DEF Inv

\* A step that stores nothing and starts no write.
LEMMA StageKeeps ==
    ASSUME Inv, TypeOK', UNCHANGED <<stored, cached, copy>>,
           \A b \in Bindings : stage'[b] = "update" => stage[b] = "update",
           \A b \in Bindings : stage'[b] = "done" => NameOf[b] \in Listed(stored)
    PROVE  Inv'
<1>1. \A b \in Bindings : Current(b)' <=> Current(b)
  BY DEF Current
<1>2. Listed(stored)' = Listed(stored) /\ Listed(cached)' = Listed(cached)
  BY DEF Listed
<1>3. VersionsTrail'
  BY DEF Inv, VersionsTrail
<1>4. CopiesTrailListener'
  BY <1>1, <1>2 DEF Inv, CopiesTrailListener
<1>5. AppendsNewName' /\ DoneIsListed'
  BY <1>1, <1>2 DEF Inv, AppendsNewName, DoneIsListed
<1>6. NotTwice(stored)'
  BY DEF Inv, NotTwice
<1> QED
  BY <1>3, <1>4, <1>5, <1>6 DEF Inv

\* Writing b's copy.
LEMMA WriteStores ==
    ASSUME Inv, NEW b \in Bindings, stage[b] = "update", Write(b)
    PROVE  /\ stored' \in Listener /\ stored'.version = stored.version + 1
           /\ Listed(stored)' = Listed(stored) \cup {NameOf[b]}
           /\ NotTwice(stored')
<1>1. stored \in Listener /\ copy[b] \in Listener /\ NameOf[b] \in Names
  BY DEF Inv, TypeOK, Names
<1>2. /\ copy[b].matchNames = Append(stored.matchNames, NameOf[b])
      /\ NameOf[b] \notin Listed(stored)
  BY DEF Inv, CopiesTrailListener, AppendsNewName, Write, Current
<1>3. /\ stored' = [matchNames |-> copy[b].matchNames, version |-> stored.version + 1]
      /\ stored' \in Listener
  BY <1>1 DEF Write, Listener
<1>4. stored'.matchNames = Append(stored.matchNames, NameOf[b]) /\ NotTwice(stored)
  BY <1>2, <1>3 DEF Inv
<1>5. Listed(stored') = Listed(stored) \cup {NameOf[b]} /\ NotTwice(stored')
  BY <1>1, <1>2, <1>3, <1>4, AppendedName
<1>6. Listed(stored)' = Listed(stored')
  BY DEF Listed
<1> QED
  BY <1>3, <1>5, <1>6

LEMMA TypeKept ==
    ASSUME Inv, [Next]_vars
    PROVE  TypeOK'
<1> USE DEF TypeOK
<1>1. ASSUME NEW b \in Bindings, Get(b)
      PROVE  TypeOK'
  <2>1. NameOf[b] \in Names /\ cached \in Listener
    BY DEF Inv, Names
  <2>2. [cached EXCEPT !.matchNames = Append(@, NameOf[b])] \in Listener
    BY <2>1 DEF Listener
  <2> QED
    BY <1>1, <2>2 DEF Get, Inv
<1>2. ASSUME NEW b \in Bindings, Update(b) \/ Conflict(b) \/ Fault(b) \/ NotRecorded(b)
      PROVE  TypeOK'
  <2>1. stored' \in Listener
    BY <1>2, WriteStores DEF Update, Conflict, Fault, NotRecorded, Inv
  <2>2. faults' \in 0..MaxFaults
    BY <1>2, SelectorAssumption DEF Update, Conflict, Fault, NotRecorded, Inv
  <2> QED
    BY <1>2, <2>1, <2>2 DEF Update, Conflict, Fault, NotRecorded, Retry, Inv
<1>3. CASE Edit
  <2>1. edits' \in 0..MaxEdits
    BY <1>3, SelectorAssumption DEF Edit, Inv
  <2>2. stored' \in Listener
    <3>1. PICK l \in {stored.matchNames} \cup
                     {Append(stored.matchNames, n) : n \in Strangers \ Listed(stored)} :
                 stored' = [matchNames |-> l, version |-> stored.version + 1]
      BY <1>3 DEF Edit
    <3>2. stored.matchNames \in Seq(Names) /\ stored.version + 1 \in Nat
      BY DEF Inv, Listener
    <3>3. \A n \in Strangers : Append(stored.matchNames, n) \in Seq(Names)
      BY <3>2 DEF Names
    <3>4. l \in Seq(Names)
      BY <3>1, <3>2, <3>3
    <3> QED
      BY <3>1, <3>2, <3>4 DEF Listener
  <2> QED
    BY <1>3, <2>1, <2>2 DEF Edit, Inv
<1>4. CASE SyncListener \/ UNCHANGED vars
  BY <1>4 DEF SyncListener, vars, Inv
<1> QED
  BY <1>1, <1>2, <1>3, <1>4 DEF Next, Step

\* What every step does to the list, and that it keeps the invariant.
LEMMA InvStep ==
    ASSUME Inv, [Next]_vars
    PROVE  Inv'
<1>1. TypeOK'
  BY TypeKept
<1>2. ASSUME NEW b \in Bindings, Get(b)
      PROVE  Inv'
  <2>1. CASE AlreadyListed(b, cached)
    <3>1. NameOf[b] \in Listed(stored)
      BY <2>1 DEF AlreadyListed, Inv, CopiesTrailListener
    <3>2. stage' = [stage EXCEPT ![b] = "done"] /\ UNCHANGED <<stored, cached, copy>>
      BY <1>2, <2>1 DEF Get
    <3> QED
      BY <1>1, <3>1, <3>2, StageKeeps DEF Inv, TypeOK, DoneIsListed
  <2>2. CASE ~AlreadyListed(b, cached)
    <3> DEFINE l == [cached EXCEPT !.matchNames = Append(@, NameOf[b])]
    <3>1. /\ stage' = [stage EXCEPT ![b] = "update"]
          /\ copy' = [copy EXCEPT ![b] = l]
          /\ UNCHANGED <<stored, cached>>
      BY <1>2, <2>2 DEF Get
    <3>2. /\ l.version = cached.version
          /\ l.matchNames = Append(cached.matchNames, NameOf[b])
      BY DEF Inv, TypeOK, Listener
    <3> HIDE DEF l
    <3>3. copy'[b] = l /\ \A c \in Bindings \ {b} : copy'[c] = copy[c] /\ stage'[c] = stage[c]
      BY <3>1 DEF Inv, TypeOK
    <3>4. VersionsTrail'
      BY <3>1, <3>2, <3>3 DEF Inv, VersionsTrail
    <3>5. cached.version = stored.version => cached = stored
      BY DEF Inv, CopiesTrailListener
    <3>6. \A c \in Bindings : stage'[c] = "update" /\ Current(c)' =>
             /\ copy'[c].matchNames = Append(stored.matchNames, NameOf[c])
             /\ NameOf[c] \notin Listed(stored)
      BY <2>2, <3>1, <3>2, <3>3, <3>5
         DEF Inv, CopiesTrailListener, AppendsNewName, Current, AlreadyListed
    <3>7. CopiesTrailListener' /\ AppendsNewName'
      <4>1. Listed(stored)' = Listed(stored) /\ Listed(cached)' = Listed(cached)
        BY <3>1 DEF Listed
      <4>2. CopiesTrailListener'
        BY <3>1, <3>6, <4>1 DEF Inv, CopiesTrailListener, Current
      <4>3. AppendsNewName'
        BY <3>6, <4>1 DEF AppendsNewName
      <4> QED
        BY <4>2, <4>3
    <3>8. DoneIsListed' /\ NotTwice(stored)'
      BY <3>1 DEF Inv, TypeOK, DoneIsListed, NotTwice, Listed
    <3> QED
      BY <1>1, <3>4, <3>7, <3>8 DEF Inv
  <2> QED
    BY <2>1, <2>2
<1>3. ASSUME NEW b \in Bindings, stage[b] = "update", Write(b), UNCHANGED <<cached, copy>>,
             stage' = [stage EXCEPT ![b] = "done"] \/ stage' = [stage EXCEPT ![b] = "queued"]
      PROVE  Inv'
  <2>1. /\ stored' \in Listener /\ stored'.version = stored.version + 1
        /\ Listed(stored') = Listed(stored) \cup {NameOf[b]} /\ NotTwice(stored')
    BY <1>3, WriteStores DEF Listed
  <2>2. \A c \in Bindings : stage'[c] = "done" => NameOf[c] \in Listed(stored')
    BY <1>3, <2>1 DEF Inv, TypeOK, DoneIsListed
  <2> QED
    BY <1>1, <1>3, <2>1, <2>2, StoreKeeps
<1>4. ASSUME NEW b \in Bindings, UNCHANGED <<stored, cached, copy>>,
             stage' = [stage EXCEPT ![b] = "queued"]
      PROVE  Inv'
  BY <1>1, <1>4, StageKeeps DEF Inv, TypeOK, DoneIsListed
<1>5. CASE Edit
  <2>1. stored' \in Listener
    BY <1>1 DEF TypeOK
  <2>2. /\ stored'.version = stored.version + 1
        /\ \/ stored'.matchNames = stored.matchNames
           \/ \E n \in Strangers \ Listed(stored) :
                 stored'.matchNames = Append(stored.matchNames, n)
    BY <1>5 DEF Edit
  <2>3. Listed(stored) \subseteq Listed(stored') /\ NotTwice(stored')
    <3>1. CASE stored'.matchNames = stored.matchNames
      BY <3>1 DEF Inv, Listed, NotTwice
    <3>2. ASSUME NEW n \in Strangers \ Listed(stored),
                 stored'.matchNames = Append(stored.matchNames, n)
          PROVE  Listed(stored) \subseteq Listed(stored') /\ NotTwice(stored')
      BY <2>1, <3>2, AppendedName DEF Inv, TypeOK, Names
    <3> QED
      BY <2>2, <3>1, <3>2
  <2>4. UNCHANGED <<cached, copy, stage>>
    BY <1>5 DEF Edit
  <2>5. \A c \in Bindings : stage'[c] = "done" => NameOf[c] \in Listed(stored')
    BY <2>3, <2>4 DEF Inv, DoneIsListed
  <2> QED
    BY <1>1, <2>1, <2>2, <2>3, <2>4, <2>5, StoreKeeps
<1>6. CASE SyncListener
  BY <1>1, <1>6 DEF SyncListener, Inv, TypeOK, Listener, VersionsTrail,
                    CopiesTrailListener, AppendsNewName, DoneIsListed, Current,
                    NotTwice, Listed
<1>7. CASE UNCHANGED vars
  BY <1>1, <1>7, StageKeeps DEF vars, Inv, DoneIsListed
<1> QED
  BY <1>2, <1>3, <1>4, <1>5, <1>6, <1>7
     DEF Next, Step, Update, Conflict, Retry, Fault, NotRecorded

\* No name is ever listed twice, and no copy lists what is not listed.
THEOREM ListenerSafety == Spec => [](NoNameTwice /\ CopiesTrailListener)
<1>1. Spec => []Inv
  BY InvInit, InvStep, PTL DEF Spec
<1>2. Inv => NoNameTwice /\ CopiesTrailListener
  BY DEF Inv, NotTwice, NoNameTwice
<1> QED
  BY <1>1, <1>2, PTL

\* The first half by itself: appends of racing workers, repeated after conflicts
\* and after updates whose success was not reported, never list a name twice.
THEOREM NamesOnce == Spec => []NoNameTwice
BY ListenerSafety, PTL

-----------------------------------------------------------------------------
(***************************************************************************)
(* The list and its racing copies implement a set that only grows.         *)
(***************************************************************************)
Told == {b \in Bindings : stage[b] = "done"}

LEMMA PromiseStep ==
    ASSUME Inv, [Next]_vars
    PROVE  [Promise!Next]_<<Listed(stored), Told>>
<1> USE DEF Told
<1>1. ASSUME NEW b \in Bindings, Get(b)
      PROVE  Promise!Tell(b) \/ UNCHANGED <<Listed(stored), Told>>
  <2>1. Listed(stored)' = Listed(stored)
    BY <1>1 DEF Get, Listed
  <2>2. CASE AlreadyListed(b, cached)
    <3>1. NameOf[b] \in Listed(stored)
      BY <2>2 DEF AlreadyListed, Inv, CopiesTrailListener
    <3>2. Told' = Told \cup {b}
      BY <1>1, <2>2 DEF Get, Inv, TypeOK
    <3> QED
      BY <2>1, <3>1, <3>2 DEF Promise!Tell
  <2>3. CASE ~AlreadyListed(b, cached)
    BY <1>1, <2>1, <2>3 DEF Get, Inv, TypeOK
  <2> QED
    BY <2>2, <2>3
<1>2. ASSUME NEW b \in Bindings, Update(b)
      PROVE  Promise!Tell(b)
  <2>1. Listed(stored)' = Listed(stored) \cup {NameOf[b]}
    BY <1>2, WriteStores DEF Update
  <2>2. Told' = Told \cup {b}
    BY <1>2 DEF Update, Inv, TypeOK
  <2> QED
    BY <2>1, <2>2 DEF Promise!Tell
<1>3. ASSUME NEW b \in Bindings, Conflict(b)
      PROVE  UNCHANGED <<Listed(stored), Told>>
  BY <1>3 DEF Conflict, Retry, Listed, Inv, TypeOK
<1>4. ASSUME NEW b \in Bindings, Fault(b)
      PROVE  Promise!List(NameOf[b]) \/ UNCHANGED <<Listed(stored), Told>>
  <2>1. Told' = Told
    BY <1>4 DEF Fault, Inv, TypeOK
  <2>2. CASE Write(b)
    BY <1>4, <2>1, <2>2, WriteStores DEF Fault, Promise!List
  <2>3. CASE UNCHANGED stored
    BY <2>1, <2>3 DEF Listed
  <2> QED
    BY <1>4, <2>2, <2>3 DEF Fault
<1>5. ASSUME NEW b \in Bindings, NotRecorded(b)
      PROVE  Promise!Forget({b})
  <2>1. Told' = Told \ {b} /\ stored' = stored
    BY <1>5 DEF NotRecorded, Inv, TypeOK
  <2> QED
    BY <2>1 DEF Promise!Forget, Listed
<1>6. CASE Edit
  <2>1. Told' = Told
    BY <1>6 DEF Edit
  <2>2. /\ stored' \in Listener
        /\ \/ stored'.matchNames = stored.matchNames
           \/ \E n \in Strangers : stored'.matchNames = Append(stored.matchNames, n)
    BY <1>6, TypeKept DEF Edit, TypeOK
  <2>3. CASE stored'.matchNames = stored.matchNames
    BY <2>1, <2>3 DEF Listed
  <2>4. ASSUME NEW n \in Strangers, stored'.matchNames = Append(stored.matchNames, n)
        PROVE  Promise!List(n)
    <3>1. Listed(stored') = Listed(stored) \cup {n}
      BY <2>2, <2>4, AppendedName DEF Inv, TypeOK, Names
    <3> QED
      BY <2>1, <3>1 DEF Promise!List, Listed
  <2> QED
    BY <2>2, <2>3, <2>4 DEF Promise!Next, Names
<1>7. CASE SyncListener \/ UNCHANGED vars
  BY <1>7 DEF SyncListener, vars, Listed
<1> QED
  BY <1>1, <1>2, <1>3, <1>4, <1>5, <1>6, <1>7 DEF Next, Step, Promise!Next, Names

\* Names are only ever added, and a binding whose step has succeeded is listed:
\* the step implements its promise.
THEOREM ListenerKeepsPromise == Spec => KeepsPromise
<1>1. Init => Promise!Init
  BY DEF Init, Promise!Init, Listed, Empty
<1>2. Inv /\ [Next]_vars => [Promise!Next]_<<Listed(stored), {b \in Bindings : stage[b] = "done"}>>
  BY PromiseStep DEF Told
<1>3. Spec => []Inv
  BY InvInit, InvStep, PTL DEF Spec
<1> QED
  BY <1>1, <1>2, <1>3, PTL DEF Spec, KeepsPromise, Promise!Spec
=============================================================================
