------------------------ MODULE InterfaceCacheProofs ------------------------
(***************************************************************************)
(* Proofs about InterfaceCache, for any number of threads, calls,          *)
(* refreshes and changes of the network.                                   *)
(***************************************************************************)
EXTENDS InterfaceCache, FiniteSetTheorems, SequenceLemmas, TLAPS

LEMMA Spent ==
    ASSUME NEW b \in Budgets, NEW t \in Threads
    PROVE  /\ b.calls[t] > 0 => [b EXCEPT !.calls[t] = @ - 1] \in Budgets
           /\ b.refreshes > 0 => [b EXCEPT !.refreshes = @ - 1] \in Budgets
           /\ b.failures > 0 => [b EXCEPT !.failures = @ - 1] \in Budgets
<1>1. ASSUME b.calls[t] > 0 PROVE [b EXCEPT !.calls[t] = @ - 1] \in Budgets
  <2>1. b.calls \in [Threads -> 0 .. Calls] /\ Calls \in Nat
    BY CacheAssumption DEF Budgets
  <2>2. [b.calls EXCEPT ![t] = @ - 1] \in [Threads -> 0 .. Calls]
    BY <1>1, <2>1
  <2>3. \A f \in [Threads -> 0 .. Calls] : [b EXCEPT !.calls = f] \in Budgets
    BY DEF Budgets
  <2>4. [b EXCEPT !.calls[t] = @ - 1] = [b EXCEPT !.calls = [b.calls EXCEPT ![t] = @ - 1]]
    BY DEF Budgets
  <2>5. QED
    BY <2>2, <2>3, <2>4
<1>2. b.refreshes > 0 => [b EXCEPT !.refreshes = @ - 1] \in Budgets
  BY CacheAssumption DEF Budgets
<1>3. b.failures > 0 => [b EXCEPT !.failures = @ - 1] \in Budgets
  BY CacheAssumption DEF Budgets
<1>4. QED
  BY <1>1, <1>2, <1>3

LEMMA FaultTypes ==
    ASSUME SharedTypes, NEW o \in Objects \cup {Null}
    PROVE  /\ FaultOf(o) \in {"none", "null", "deallocated"}
           /\ Retain(o) \/ Release(o) =>
                 /\ fault' \in {"none", "null", "deallocated", "garbage"}
                 /\ refs' \in [Objects -> Nat]
           /\ FaultOf(o) = "none" => o \in Objects /\ refs[o] # 0
<1>1. FaultOf(o) \in {"none", "null", "deallocated"}
  BY DEF FaultOf
<1>2. FaultOf(o) = "none" => o \in Objects /\ refs[o] # 0 /\ refs[o] \in Nat
  BY DEF FaultOf, SharedTypes
<1>0. refs \in [Objects -> Nat]
  BY DEF SharedTypes
<1>3. Retain(o) => refs' \in [Objects -> Nat]
  BY <1>0, <1>2 DEF Retain
<1>4. Release(o) => refs' \in [Objects -> Nat]
  BY <1>0, <1>2 DEF Release
<1>5. Retain(o) \/ Release(o) => fault' = FaultOf(o)
  BY DEF Retain, Release
<1>6. QED
  BY <1>1, <1>2, <1>3, <1>4, <1>5

LEMMA InitTypeOK == Init => TypeOK
<1> SUFFICES ASSUME Init PROVE TypeOK
  OBVIOUS
<1>1. 1 \in DOMAIN Nets
  BY CacheAssumption
<1>2. SharedTypes
  BY DEF Init, SharedTypes
<1>3. DictTypes
  BY <1>1, CacheAssumption DEF Init, DictTypes
<1>4. LocalTypes
  BY DEF Init, LocalTypes
<1>5. budget \in Budgets
  BY CacheAssumption DEF Init, Budgets
<1>6. WorldTypes
  BY <1>1, <1>5 DEF Init, WorldTypes
<1>7. LockOwned
  BY CacheAssumption DEF Init, LockOwned, Places, Locked
<1>8. QED
  BY <1>2, <1>3, <1>4, <1>6, <1>7 DEF TypeOK

\* A thread goes from one place to another and takes, keeps or gives back the lock.
LEMMA LockStep ==
    ASSUME LockOwned, NEW t \in Threads, NEW to \in Places, Goto(t, to),
           \/ lock' = lock /\ (to \in Locked <=> pc[t] \in Locked)
           \/ lock = NoThread /\ lock' = t /\ to \in Locked
           \/ pc[t] \in Locked /\ lock' = NoThread /\ to \notin Locked
    PROVE  LockOwned'
<1>1. /\ pc' \in [Threads -> Places] /\ pc'[t] = to
      /\ \A u \in Threads : u # t => pc'[u] = pc[u]
  BY DEF LockOwned, Goto
<1>2. \A u \in Threads : lock' = u <=> pc'[u] \in Locked
  BY <1>1, CacheAssumption DEF LockOwned
<1>3. QED
  BY <1>1, <1>2 DEF LockOwned

LEMMA ReleaseGlobalTypes ==
    ASSUME TypeOK, NEW t \in Threads, raced' \in BOOLEAN,
           CallRefresh(t) \/ ReleaseGlobal(t)
    PROVE  TypeOK'
<1>0. SharedTypes /\ DictTypes /\ LocalTypes /\ WorldTypes /\ LockOwned
  BY DEF TypeOK
<1> USE DEF dicts, memory, locals, world
<1>1. CASE CallRefresh(t)
  <2>1. SharedTypes' /\ DictTypes'
    BY <1>0, <1>1 DEF CallRefresh, SharedTypes, DictTypes
  <2>2. LocalTypes'
    BY <1>0, <1>1 DEF CallRefresh, LocalTypes
  <2>3. WorldTypes'
    BY <1>0, <1>1, Spent DEF CallRefresh, WorldTypes
  <2>4. LockOwned'
    <3>1. /\ Goto(t, "release") /\ lock' = lock /\ pc[t] = "idle"
      BY <1>1 DEF CallRefresh, RefreshFrom, At
    <3>2. QED
      BY <1>0, <3>1, LockStep DEF Places, Locked
  <2>5. QED
    BY <2>1, <2>2, <2>3, <2>4 DEF TypeOK
<1>2. CASE TestToRelease(t)
  <2>1. SharedTypes' /\ DictTypes' /\ LocalTypes' /\ WorldTypes'
    BY <1>0, <1>2 DEF TestToRelease, SharedTypes, DictTypes, LocalTypes, WorldTypes
  <2>2. PICK to \in {"lock to release", "create"} : Goto(t, to)
    BY <1>2 DEF TestToRelease
  <2>3. lock' = lock /\ pc[t] = "release"
    BY <1>2 DEF TestToRelease, At
  <2>4. LockOwned'
    BY <1>0, <2>2, <2>3, LockStep DEF Places, Locked
  <2>5. QED
    BY <2>1, <2>4 DEF TypeOK
<1>3. CASE LockToRelease(t)
  <2>1. SharedTypes' /\ DictTypes' /\ LocalTypes' /\ WorldTypes'
    BY <1>0, <1>3 DEF LockToRelease, Lock, SharedTypes, DictTypes, LocalTypes, WorldTypes
  <2>2. Goto(t, "releasing") /\ lock = NoThread /\ lock' = t
    BY <1>3 DEF LockToRelease, Lock
  <2>3. LockOwned'
    BY <1>0, <2>2, LockStep DEF Places, Locked
  <2>4. QED
    BY <2>1, <2>3 DEF TypeOK
<1>4. CASE ReleaseCache(t)
  <2>1. SharedTypes'
    BY <1>0, <1>4, FaultTypes DEF ReleaseCache, SharedTypes
  <2>2. DictTypes' /\ LocalTypes' /\ WorldTypes'
    BY <1>0, <1>4 DEF ReleaseCache, DictTypes, LocalTypes, WorldTypes
  <2>3. Goto(t, "forget") /\ lock' = lock /\ pc[t] = "releasing"
    BY <1>4 DEF ReleaseCache, At
  <2>4. LockOwned'
    BY <1>0, <2>3, LockStep DEF Places, Locked
  <2>5. QED
    BY <2>1, <2>2, <2>4 DEF TypeOK
<1>5. CASE ForgetCache(t)
  <2>1. SharedTypes' /\ DictTypes' /\ LocalTypes' /\ WorldTypes'
    BY <1>0, <1>5
       DEF ForgetCache, Forgotten, SharedTypes, DictTypes, LocalTypes, WorldTypes
  <2>2. Goto(t, "unlock released") /\ lock' = lock /\ pc[t] = "forget"
    BY <1>5 DEF ForgetCache, At
  <2>3. LockOwned'
    BY <1>0, <2>2, LockStep DEF Places, Locked
  <2>4. QED
    BY <2>1, <2>3 DEF TypeOK
<1>6. CASE UnlockReleased(t)
  <2>1. SharedTypes' /\ DictTypes' /\ LocalTypes' /\ WorldTypes'
    BY <1>0, <1>6 DEF UnlockReleased, Unlock, SharedTypes, DictTypes, LocalTypes, WorldTypes
  <2>2. Goto(t, "create") /\ lock' = NoThread /\ pc[t] = "unlock released"
    BY <1>6 DEF UnlockReleased, Unlock, At
  <2>3. LockOwned'
    BY <1>0, <2>2, LockStep DEF Places, Locked
  <2>4. QED
    BY <2>1, <2>3 DEF TypeOK
<1>7. QED
  BY <1>1, <1>2, <1>3, <1>4, <1>5, <1>6 DEF ReleaseGlobal

LEMMA CreateTypes ==
    ASSUME TypeOK, NEW t \in Threads, raced' \in BOOLEAN,
           CallCopy(t) \/ Create(t)
    PROVE  TypeOK'
<1>0. SharedTypes /\ DictTypes /\ LocalTypes /\ WorldTypes /\ LockOwned
  BY DEF TypeOK
<1> USE DEF dicts, memory, locals, world
<1>1. CASE CallCopy(t)
  <2>1. SharedTypes' /\ DictTypes' /\ LocalTypes'
    BY <1>0, <1>1 DEF CallCopy, SharedTypes, DictTypes, LocalTypes
  <2>2. WorldTypes'
    BY <1>0, <1>1, Spent DEF CallCopy, WorldTypes
  <2>3. Goto(t, "create") /\ lock' = lock /\ pc[t] = "idle"
    BY <1>1 DEF CallCopy, At
  <2>4. LockOwned'
    BY <1>0, <2>3, LockStep DEF Places, Locked
  <2>5. QED
    BY <2>1, <2>2, <2>4 DEF TypeOK
<1>2. CASE TestToCreate(t)
  <2>1. SharedTypes' /\ DictTypes' /\ LocalTypes' /\ WorldTypes'
    BY <1>0, <1>2 DEF TestToCreate, SharedTypes, DictTypes, LocalTypes, WorldTypes
  <2>2. PICK to \in {"lock to retain", "scan"} : Goto(t, to)
    BY <1>2 DEF TestToCreate
  <2>3. lock' = lock /\ pc[t] = "create"
    BY <1>2 DEF TestToCreate, At
  <2>4. LockOwned'
    BY <1>0, <2>2, <2>3, LockStep DEF Places, Locked
  <2>5. QED
    BY <2>1, <2>4 DEF TypeOK
<1>3. CASE LockToRetain(t)
  <2>1. SharedTypes' /\ DictTypes' /\ LocalTypes' /\ WorldTypes'
    BY <1>0, <1>3 DEF LockToRetain, Lock, SharedTypes, DictTypes, LocalTypes, WorldTypes
  <2>2. Goto(t, "retain") /\ lock = NoThread /\ lock' = t
    BY <1>3 DEF LockToRetain, Lock
  <2>3. LockOwned'
    BY <1>0, <2>2, LockStep DEF Places, Locked
  <2>4. QED
    BY <2>1, <2>3 DEF TypeOK
<1>4. CASE RetainCache(t)
  <2>1. SharedTypes'
    BY <1>0, <1>4, FaultTypes DEF RetainCache, SharedTypes
  <2>2. DictTypes' /\ LocalTypes' /\ WorldTypes'
    BY <1>0, <1>4 DEF RetainCache, DictTypes, LocalTypes, WorldTypes, SharedTypes
  <2>3. Goto(t, "store retained") /\ lock' = lock /\ pc[t] = "retain"
    BY <1>4 DEF RetainCache, At
  <2>4. LockOwned'
    BY <1>0, <2>3, LockStep DEF Places, Locked
  <2>5. QED
    BY <2>1, <2>2, <2>4 DEF TypeOK
<1>5. CASE StoreRetained(t)
  <2>1. SharedTypes'
    BY <1>0, <1>5 DEF StoreRetained, SharedTypes, LocalTypes
  <2>2. DictTypes' /\ LocalTypes' /\ WorldTypes'
    BY <1>0, <1>5 DEF StoreRetained, DictTypes, LocalTypes, WorldTypes
  <2>3. Goto(t, "unlock retained") /\ lock' = lock /\ pc[t] = "store retained"
    BY <1>5 DEF StoreRetained, At
  <2>4. LockOwned'
    BY <1>0, <2>3, LockStep DEF Places, Locked
  <2>5. QED
    BY <2>1, <2>2, <2>4 DEF TypeOK
<1>6. CASE UnlockRetained(t)
  <2>1. SharedTypes' /\ DictTypes' /\ LocalTypes' /\ WorldTypes'
    BY <1>0, <1>6 DEF UnlockRetained, Unlock, SharedTypes, DictTypes, LocalTypes, WorldTypes
  <2>2. Goto(t, "return") /\ lock' = NoThread /\ pc[t] = "unlock retained"
    BY <1>6 DEF UnlockRetained, Unlock, At
  <2>3. LockOwned'
    BY <1>0, <2>2, LockStep DEF Places, Locked
  <2>4. QED
    BY <2>1, <2>3 DEF TypeOK
<1>7. CASE Scan(t)
  <2>0. created + 1 \in Objects /\ created + 1 \in 0 .. MaxObjects
    BY <1>0, <1>7, CacheAssumption DEF Scan, DictTypes, Objects
  <2>1. SharedTypes' /\ WorldTypes'
    BY <1>0, <1>7 DEF Scan, SharedTypes, WorldTypes
  <2>2. DictTypes' /\ LocalTypes'
    BY <1>0, <1>7, <2>0 DEF Scan, DictTypes, LocalTypes, WorldTypes
  <2>3. Goto(t, "publish") /\ lock' = lock /\ pc[t] = "scan"
    BY <1>7 DEF Scan, At
  <2>4. LockOwned'
    BY <1>0, <2>3, LockStep DEF Places, Locked
  <2>5. QED
    BY <2>1, <2>2, <2>4 DEF TypeOK
<1>8. CASE ScanFails(t)
  <2>1. SharedTypes' /\ DictTypes'
    BY <1>0, <1>8 DEF ScanFails, SharedTypes, DictTypes
  <2>2. LocalTypes'
    BY <1>0, <1>8 DEF ScanFails, LocalTypes
  <2>3. WorldTypes'
    BY <1>0, <1>8, Spent DEF ScanFails, WorldTypes
  <2>4. (Goto(t, "idle") \/ pc' = pc) /\ lock' = lock /\ pc[t] = "scan"
    BY <1>8 DEF ScanFails, At
  <2>5. LockOwned'
    <3>1. CASE Goto(t, "idle")
      BY <1>0, <2>4, <3>1, LockStep DEF Places, Locked
    <3>2. CASE pc' = pc
      BY <1>0, <2>4, <3>2 DEF LockOwned
    <3>3. QED
      BY <2>4, <3>1, <3>2
  <2>6. QED
    BY <2>1, <2>2, <2>3, <2>5 DEF TypeOK
<1>9. CASE Publish(t)
  <2>1. SharedTypes'
    BY <1>0, <1>9 DEF Publish, SharedTypes, LocalTypes, FirstReferences
  <2>2. DictTypes' /\ LocalTypes' /\ WorldTypes'
    BY <1>0, <1>9 DEF Publish, DictTypes, LocalTypes, WorldTypes
  <2>3. Goto(t, "return") /\ lock' = lock /\ pc[t] = "publish"
    BY <1>9 DEF Publish, At
  <2>4. LockOwned'
    BY <1>0, <2>3, LockStep DEF Places, Locked
  <2>5. QED
    BY <2>1, <2>2, <2>4 DEF TypeOK
<1>10. CASE Return(t)
  <2>1. SharedTypes' /\ DictTypes'
    BY <1>0, <1>10 DEF Return, SharedTypes, DictTypes
  <2>2. LocalTypes'
    BY <1>0, <1>10 DEF Return, LocalTypes, SharedTypes
  <2>3. WorldTypes'
    BY <1>0, <1>10 DEF Return, WorldTypes, SharedTypes
  <2>4. PICK to \in {"idle", "done", "copy"} : Goto(t, to)
    BY <1>10 DEF Return
  <2>5. lock' = lock /\ pc[t] = "return"
    BY <1>10 DEF Return, At
  <2>6. LockOwned'
    BY <1>0, <2>4, <2>5, LockStep DEF Places, Locked
  <2>7. QED
    BY <2>1, <2>2, <2>3, <2>6 DEF TypeOK
<1>11. CASE ScanCrashes(t)
  <2>1. SharedTypes' /\ DictTypes' /\ LocalTypes' /\ WorldTypes'
    BY <1>0, <1>11 DEF ScanCrashes, SharedTypes, DictTypes, LocalTypes, WorldTypes
  <2>2. LockOwned'
    BY <1>0, <1>11 DEF ScanCrashes, LockOwned
  <2>3. QED
    BY <2>1, <2>2 DEF TypeOK
<1>12. QED
  BY <1>1, <1>2, <1>3, <1>4, <1>5, <1>6, <1>7, <1>8, <1>9, <1>10, <1>11 DEF Create

LEMMA StepTypeOK == TypeOK /\ [Next]_vars => TypeOK'
<1> SUFFICES ASSUME TypeOK, [Next]_vars PROVE TypeOK'
  OBVIOUS
<1>0. SharedTypes /\ DictTypes /\ LocalTypes /\ WorldTypes /\ LockOwned
  BY DEF TypeOK
<1> USE DEF dicts, memory, locals, world
<1>1. CASE UNCHANGED vars
  BY <1>1, <1>0
     DEF vars, TypeOK, SharedTypes, DictTypes, LocalTypes, WorldTypes, LockOwned
<1>2. CASE Next
  <2>0. raced' \in BOOLEAN
    BY <1>2 DEF Next
  <2>1. ASSUME NEW t \in Threads, CopyAddresses(t) PROVE TypeOK'
    <3>1. ifaces[t] \in Objects \cup {Null}
      BY <1>0 DEF LocalTypes
    <3>2. SharedTypes' /\ DictTypes' /\ LocalTypes' /\ WorldTypes'
      BY <1>0, <2>0, <2>1, <3>1, FaultTypes
         DEF CopyAddresses, SharedTypes, DictTypes, LocalTypes, WorldTypes
    <3>3. Goto(t, "done") /\ lock' = lock /\ pc[t] = "copy"
      BY <2>1 DEF CopyAddresses, At
    <3>4. LockOwned'
      BY <1>0, <3>3, LockStep DEF Places, Locked
    <3>5. QED
      BY <3>2, <3>4 DEF TypeOK
  <2>2. ASSUME NEW t \in Threads, ReleaseIfaces(t) PROVE TypeOK'
    <3>1. ifaces[t] \in Objects \cup {Null}
      BY <1>0 DEF LocalTypes
    <3>2. SharedTypes'
      BY <1>0, <2>0, <2>2, <3>1, FaultTypes DEF ReleaseIfaces, SharedTypes
    <3>3. DictTypes' /\ LocalTypes' /\ WorldTypes'
      BY <1>0, <2>2 DEF ReleaseIfaces, DictTypes, LocalTypes, WorldTypes
    <3>4. Goto(t, "idle") /\ lock' = lock /\ pc[t] = "done"
      BY <2>2 DEF ReleaseIfaces, At
    <3>5. LockOwned'
      BY <1>0, <3>4, LockStep DEF Places, Locked
    <3>6. QED
      BY <3>2, <3>3, <3>5 DEF TypeOK
  <2>3. CASE NetworkChanges
    <3>1. SharedTypes' /\ DictTypes' /\ LocalTypes' /\ LockOwned'
      BY <1>0, <2>0, <2>3
         DEF NetworkChanges, SharedTypes, DictTypes, LocalTypes, LockOwned
    <3>2. net' \in DOMAIN Nets
      BY <1>0, <2>3, CacheAssumption DEF NetworkChanges, WorldTypes
    <3>3. WorldTypes'
      BY <1>0, <2>3, <3>2 DEF NetworkChanges, WorldTypes
    <3>4. QED
      BY <3>1, <3>3 DEF TypeOK
  <2>4. QED
    BY <1>2, <2>0, <2>1, <2>2, <2>3, ReleaseGlobalTypes, CreateTypes DEF Next, Step
<1>3. QED
  BY <1>1, <1>2

\* The types hold, and the lock belongs to the thread that is between taking it and
\* giving it back: no two threads are, and none keeps it.
THEOREM TypeCorrect == Spec => []TypeOK
<1>1. Init => TypeOK
  BY InitTypeOK
<1>2. TypeOK /\ [Next]_vars => TypeOK'
  BY StepTypeOK
<1>3. QED
  BY <1>1, <1>2, PTL DEF Spec

-----------------------------------------------------------------------------
(***************************************************************************)
(* What the reference counts rest on, while no thread has changed the      *)
(* pointer with another one inside.                                        *)
(***************************************************************************)
Peaceful == ~raced => ~Conflict

\* Dictionaries are new when they are created, and a caller that goes on has one.
Given ==
    /\ cache <= created
    /\ \A t \in Threads :
        /\ ifaces[t] <= created
        /\ pc[t] \in {"copy", "done"} => ifaces[t] # Null

\* What a thread knows of the pointer, long after it read it.
KnowsCache(t) ==
    /\ pc[t] \in {"lock to retain", "retain", "lock to release", "releasing"} =>
         cache # Null
    /\ pc[t] \in {"store retained", "unlock retained", "return"} =>
         cache # Null /\ ifaces[t] = cache
    /\ pc[t] \in {"scan", "publish", "unlock released"} => cache = Null
    /\ pc[t] = "publish" => ifaces[t] # Null /\ Owners(ifaces[t]) = {}

CacheKnown == fault = "none" /\ ~raced => \A t \in Threads : KnowsCache(t)

IInv == TypeOK /\ Peaceful /\ Given /\ CacheKnown /\ RefsAreOwners /\ NoDanglingUse

\* The reference count of one dictionary.
Counted(o) ==
    refs[o] = Cardinality(Owners(o)) + (IF OwnedByCache(o) THEN 1 ELSE 0)

Known == \A t \in Threads : KnowsCache(t)

AllCounted == \A o \in Objects : Counted(o)

\* Where a thread runs on undisturbed.
Calm == TypeOK /\ Given /\ ~Conflict /\ Known /\ AllCounted

Owning == {"store retained", "unlock retained", "return", "copy", "done"}

\* A step that only thread t takes.
Moved(t, to) ==
    /\ pc'[t] = to
    /\ \A u \in Threads \ {t} : pc'[u] = pc[u] /\ ifaces'[u] = ifaces[u]

LEMMA Going ==
    ASSUME LockOwned, LocalTypes, NEW t \in Threads, NEW to,
           pc' = [pc EXCEPT ![t] = to],
           ifaces' = ifaces \/ \E o : ifaces' = [ifaces EXCEPT ![t] = o]
    PROVE  Moved(t, to)
  BY DEF LockOwned, LocalTypes, Moved

\* The owners change by the thread that takes the step.
LEMMA OwnersMove ==
    ASSUME NEW t \in Threads, NEW to, Moved(t, to), NEW o
    PROVE  /\ Owners(o)' \subseteq Owners(o) \cup {t}
           /\ Owners(o) \subseteq Owners(o)' \cup {t}
           /\ t \in Owners(o) <=> pc[t] \in Owning /\ ifaces[t] = o
           /\ t \in Owners(o)' <=> to \in Owning /\ ifaces'[t] = o
  BY DEF Moved, Owners, Owning

LEMMA OwnersFinite ==
    ASSUME NEW o
    PROVE  /\ IsFiniteSet(Owners(o))
           /\ Cardinality(Owners(o)) \in Nat
           /\ \A t : t \in Owners(o) => Cardinality(Owners(o)) > 0
<1>1. IsFiniteSet(Owners(o))
  BY CacheAssumption, FS_Subset DEF Owners
<1>2. Cardinality(Owners(o)) \in Nat
  BY <1>1, FS_CardinalityType
<1>3. Cardinality(Owners(o)) = 0 => Owners(o) = {}
  BY <1>1, FS_EmptySet
<1>4. QED
  BY <1>1, <1>2, <1>3

\* Nobody takes away what the others know: a thread writes the pointer only when no
\* other is inside, and becomes an owner only inside.
LEMMA OthersKnow ==
    ASSUME TypeOK, Known, ~Conflict, NEW t \in Threads, NEW to, Moved(t, to),
           cache' = cache \/ Writing(t),
           Inside(t) \/ \A o : t \in Owners(o)' => t \in Owners(o),
           NEW u \in Threads \ {t}
    PROVE  KnowsCache(u)'
<1>1. pc'[u] = pc[u] /\ ifaces'[u] = ifaces[u]
  BY DEF Moved
<1>2. Inside(u) => cache' = cache
  BY DEF Conflict
<1>3. Writing(u) => ~Inside(t)
  BY DEF Conflict
<1>4. KnowsCache(u)
  BY DEF Known
<1>5. pc[u] = "publish" => Owners(ifaces[u])' = {}
  <2> SUFFICES ASSUME pc[u] = "publish" PROVE Owners(ifaces[u])' = {}
    OBVIOUS
  <2>1. \A o : t \in Owners(o)' => t \in Owners(o)
    BY <1>3 DEF Writing
  <2>2. Owners(ifaces[u]) = {}
    BY <1>4 DEF KnowsCache
  <2>3. \A o : Owners(o)' \subseteq Owners(o) \cup {t}
    BY OwnersMove
  <2>4. \A o : Owners(o)' \subseteq Owners(o)
    BY <2>1, <2>3
  <2>5. \A o : Owners(o) = {} => Owners(o)' = {}
    BY <2>4
  <2>6. ifaces'[u] = ifaces[u]
    BY <1>1
  <2>7. \A o : ifaces[u] = o => Owners(o)' = {}
    BY <2>2, <2>5
  <2>8. QED
    BY <2>6, <2>7 DEF Owners
<1>6. QED
  BY <1>1, <1>2, <1>4, <1>5 DEF KnowsCache, Inside

\* A step that changes neither pointer, nor counts, nor who owns what.
LEMMA PlainStep ==
    ASSUME Calm, NEW t \in Threads, NEW to, Moved(t, to),
           cache' = cache, refs' = refs, pc[t] # "forget", to # "forget",
           to \in Owning <=> pc[t] \in Owning,
           pc[t] \in Owning => ifaces'[t] = ifaces[t],
           KnowsCache(t)'
    PROVE  Known' /\ AllCounted'
<1>1. ASSUME NEW o PROVE Owners(o)' = Owners(o)
  BY OwnersMove
<1>2. Known'
  <2>1. ASSUME NEW u \in Threads \ {t} PROVE KnowsCache(u)'
    BY <1>1, OthersKnow DEF Calm
  <2>2. QED
    BY <2>1 DEF Known
<1>3. ASSUME NEW o \in Objects PROVE Counted(o)'
  <2>1. OwnedByCache(o)' <=> OwnedByCache(o)
    BY DEF OwnedByCache, Moved
  <2>2. Counted(o)
    BY DEF Calm, AllCounted
  <2>3. QED
    BY <1>1, <2>1, <2>2 DEF Counted
<1>4. QED
  BY <1>2, <1>3 DEF AllCounted

\* Every owner finds the dictionary it owns; and the cache, unless it has just been
\* released.
LEMMA OwnersAreSafe ==
    ASSUME TypeOK, AllCounted, NEW t \in Threads
    PROVE  /\ pc[t] \in Owning /\ ifaces[t] # Null => FaultOf(ifaces[t]) = "none"
           /\ cache # Null /\ ~(\E u \in Threads : pc[u] = "forget") =>
                FaultOf(cache) = "none"
<1>1. ASSUME NEW o \in Objects, t \in Owners(o) \/ OwnedByCache(o)
      PROVE  FaultOf(o) = "none"
  <2>1. refs[o] = Cardinality(Owners(o)) + (IF OwnedByCache(o) THEN 1 ELSE 0)
    BY DEF AllCounted, Counted
  <2>2. refs[o] # 0
    BY <1>1, <2>1, OwnersFinite
  <2>3. o # Null
    BY DEF Objects, Null
  <2>4. QED
    BY <2>2, <2>3 DEF FaultOf
<1>2. ifaces[t] \in Objects \cup {Null} /\ cache \in Objects \cup {Null}
  BY DEF TypeOK, LocalTypes, SharedTypes
<1>3. pc[t] \in Owning => t \in Owners(ifaces[t])
  BY DEF Owners, Owning
<1>4. ~(\E u \in Threads : pc[u] = "forget") => OwnedByCache(cache)
  BY DEF OwnedByCache
<1>5. QED
  BY <1>1, <1>2, <1>3, <1>4

\* What is shown of every step that a thread takes while nobody races.
Safe == fault \notin {"null", "deallocated"} /\ (fault = "none" => Known /\ AllCounted)

LEMMA PlainActions ==
    ASSUME Calm, fault = "none", NEW t \in Threads,
           \/ CallRefresh(t) \/ TestToRelease(t) \/ LockToRelease(t)
           \/ UnlockReleased(t) \/ CallCopy(t) \/ TestToCreate(t) \/ LockToRetain(t)
           \/ UnlockRetained(t)
    PROVE  Safe'
<1>0. LockOwned /\ LocalTypes /\ KnowsCache(t)
  BY DEF Calm, TypeOK, Known
<1> USE DEF dicts, memory, locals, world
<1>1. CASE CallRefresh(t)
  <2>1. /\ pc[t] = "idle" /\ pc' = [pc EXCEPT ![t] = "release"]
        /\ cache' = cache /\ refs' = refs /\ ifaces' = ifaces /\ fault' = fault
    BY <1>1 DEF CallRefresh, At, Goto, RefreshFrom
  <2>2. Moved(t, "release")
    BY <1>0, <2>1, Going
  <2>3. KnowsCache(t)'
    BY <2>2 DEF KnowsCache, Moved
  <2>4. QED
    BY <2>1, <2>2, <2>3, PlainStep DEF Safe, Owning
<1>2. CASE TestToRelease(t)
  <2>1. /\ pc[t] = "release" /\ cache' = cache /\ refs' = refs
        /\ ifaces' = ifaces /\ fault' = fault
    BY <1>2 DEF TestToRelease, At
  <2>2. PICK to \in {"lock to release", "create"} :
          /\ pc' = [pc EXCEPT ![t] = to]
          /\ to = "lock to release" => cache # Null
    BY <1>2 DEF TestToRelease, Goto
  <2>3. Moved(t, to)
    BY <1>0, <2>1, <2>2, Going
  <2>4. KnowsCache(t)'
    BY <2>1, <2>2, <2>3 DEF KnowsCache, Moved
  <2>5. QED
    BY <2>1, <2>3, <2>4, PlainStep DEF Safe, Owning
<1>3. CASE LockToRelease(t)
  <2>1. /\ pc[t] = "lock to release" /\ pc' = [pc EXCEPT ![t] = "releasing"]
        /\ cache' = cache /\ refs' = refs /\ ifaces' = ifaces /\ fault' = fault
    BY <1>3 DEF LockToRelease, Lock, At, Goto
  <2>2. Moved(t, "releasing")
    BY <1>0, <2>1, Going
  <2>3. KnowsCache(t)'
    BY <1>0, <2>1, <2>2 DEF KnowsCache, Moved
  <2>4. QED
    BY <2>1, <2>2, <2>3, PlainStep DEF Safe, Owning
<1>4. CASE UnlockReleased(t)
  <2>1. /\ pc[t] = "unlock released" /\ pc' = [pc EXCEPT ![t] = "create"]
        /\ cache' = cache /\ refs' = refs /\ ifaces' = ifaces /\ fault' = fault
    BY <1>4 DEF UnlockReleased, Unlock, At, Goto
  <2>2. Moved(t, "create")
    BY <1>0, <2>1, Going
  <2>3. KnowsCache(t)'
    BY <2>2 DEF KnowsCache, Moved
  <2>4. QED
    BY <2>1, <2>2, <2>3, PlainStep DEF Safe, Owning
<1>5. CASE CallCopy(t)
  <2>1. /\ pc[t] = "idle" /\ pc' = [pc EXCEPT ![t] = "create"]
        /\ cache' = cache /\ refs' = refs /\ ifaces' = ifaces /\ fault' = fault
    BY <1>5 DEF CallCopy, At, Goto
  <2>2. Moved(t, "create")
    BY <1>0, <2>1, Going
  <2>3. KnowsCache(t)'
    BY <2>2 DEF KnowsCache, Moved
  <2>4. QED
    BY <2>1, <2>2, <2>3, PlainStep DEF Safe, Owning
<1>6. CASE TestToCreate(t)
  <2>1. /\ pc[t] = "create" /\ cache' = cache /\ refs' = refs
        /\ ifaces' = ifaces /\ fault' = fault
    BY <1>6 DEF TestToCreate, At
  <2>2. PICK to \in {"lock to retain", "scan"} :
          /\ pc' = [pc EXCEPT ![t] = to]
          /\ to = "lock to retain" <=> cache # Null
    BY <1>6 DEF TestToCreate, Goto, IsCached
  <2>3. Moved(t, to)
    BY <1>0, <2>1, <2>2, Going
  <2>4. KnowsCache(t)'
    BY <2>1, <2>2, <2>3 DEF KnowsCache, Moved
  <2>5. QED
    BY <2>1, <2>2, <2>3, <2>4, PlainStep DEF Safe, Owning
<1>7. CASE LockToRetain(t)
  <2>1. /\ pc[t] = "lock to retain" /\ pc' = [pc EXCEPT ![t] = "retain"]
        /\ cache' = cache /\ refs' = refs /\ ifaces' = ifaces /\ fault' = fault
    BY <1>7 DEF LockToRetain, Lock, At, Goto
  <2>2. Moved(t, "retain")
    BY <1>0, <2>1, Going
  <2>3. KnowsCache(t)'
    BY <1>0, <2>1, <2>2 DEF KnowsCache, Moved
  <2>4. QED
    BY <2>1, <2>2, <2>3, PlainStep DEF Safe, Owning
<1>8. CASE UnlockRetained(t)
  <2>1. /\ pc[t] = "unlock retained" /\ pc' = [pc EXCEPT ![t] = "return"]
        /\ cache' = cache /\ refs' = refs /\ ifaces' = ifaces /\ fault' = fault
    BY <1>8 DEF UnlockRetained, Unlock, At, Goto
  <2>2. Moved(t, "return")
    BY <1>0, <2>1, Going
  <2>3. KnowsCache(t)'
    BY <1>0, <2>1, <2>2 DEF KnowsCache, Moved
  <2>4. QED
    BY <2>1, <2>2, <2>3, PlainStep DEF Safe, Owning
<1>9. QED
  BY <1>1, <1>2, <1>3, <1>4, <1>5, <1>6, <1>7, <1>8

LEMMA CalmChanges == Calm /\ fault = "none" /\ NetworkChanges => Safe'
  BY DEF NetworkChanges, memory, locals, Safe, Calm, Known, KnowsCache, AllCounted,
         Counted, Owners, OwnedByCache

LEMMA ResultActions ==
    ASSUME Calm, fault = "none", NEW t \in Threads,
           \/ StoreRetained(t) \/ Scan(t) \/ ScanCrashes(t) \/ ScanFails(t)
           \/ Return(t) \/ CopyAddresses(t)
    PROVE  Safe'
<1>0. LockOwned /\ LocalTypes /\ KnowsCache(t)
  BY DEF Calm, TypeOK, Known
<1> USE DEF dicts, memory, locals, world
<1>1. CASE StoreRetained(t)
  <2>1. /\ pc[t] = "store retained" /\ pc' = [pc EXCEPT ![t] = "unlock retained"]
        /\ cache' = ifaces[t] /\ refs' = refs /\ ifaces' = ifaces /\ fault' = fault
    BY <1>1 DEF StoreRetained, At, Goto
  <2>2. Moved(t, "unlock retained")
    BY <1>0, <2>1, Going
  <2>3. cache' = cache
    BY <1>0, <2>1 DEF KnowsCache
  <2>4. KnowsCache(t)'
    BY <1>0, <2>1, <2>2, <2>3 DEF KnowsCache, Moved
  <2>5. QED
    BY <2>1, <2>2, <2>3, <2>4, PlainStep DEF Safe, Owning
<1>2. CASE Scan(t)
  <2>1. /\ pc[t] = "scan" /\ pc' = [pc EXCEPT ![t] = "publish"]
        /\ ifaces' = [ifaces EXCEPT ![t] = created + 1]
        /\ cache' = cache /\ refs' = refs /\ fault' = fault
    BY <1>2 DEF Scan, At, Goto
  <2>2. Moved(t, "publish")
    BY <1>0, <2>1, Going
  <2>3. ifaces'[t] = created + 1 /\ created \in Nat
    BY <1>0, <2>1, CacheAssumption DEF LocalTypes, Calm, TypeOK, DictTypes
  <2>4. Owners(created + 1) = {}
    <3>1. \A u \in Threads : ifaces[u] <= created /\ ifaces[u] \in Nat
      BY <1>0 DEF Calm, Given, LocalTypes, Objects, Null
    <3>2. \A u \in Threads : ifaces[u] # created + 1
      BY <2>3, <3>1
    <3>3. \A n : (\A u \in Threads : ifaces[u] # n) => Owners(n) = {}
      BY DEF Owners
    <3>4. QED
      BY <3>2, <3>3
  <2>5. ASSUME NEW o, Owners(o) = {} PROVE Owners(o)' = {}
    <3>1. /\ Owners(o)' \subseteq Owners(o) \cup {t}
          /\ t \in Owners(o)' <=> "publish" \in Owning /\ ifaces'[t] = o
      BY <2>2, OwnersMove
    <3>2. "publish" \notin Owning
      BY DEF Owning
    <3>3. QED
      BY <2>5, <3>1, <3>2
  <2>6. \A o : ifaces'[t] = o /\ Owners(o) = {} => Owners(ifaces[t])' = {}
    BY <2>5 DEF Owners
  <2>7. KnowsCache(t)'
    <3>1. ifaces'[t] # Null /\ Owners(ifaces[t])' = {}
      BY <2>3, <2>4, <2>6 DEF Null
    <3>2. pc'[t] = "publish" /\ cache' = Null
      BY <1>0, <2>1, <2>2 DEF KnowsCache, Moved
    <3>3. QED
      BY <3>1, <3>2 DEF KnowsCache
  <2>8. QED
    BY <2>1, <2>2, <2>7, PlainStep DEF Safe, Owning
<1>3. CASE ScanFails(t)
  <2>1. /\ pc[t] = "scan" /\ cache' = cache /\ refs' = refs
        /\ \/ /\ pc' = [pc EXCEPT ![t] = "idle"] /\ fault' = fault
              /\ ifaces' = [ifaces EXCEPT ![t] = Null]
           \/ fault' = "garbage"
    BY <1>3 DEF ScanFails, At, Goto
  <2>2. CASE fault' = "garbage"
    BY <2>2 DEF Safe
  <2>3. CASE fault' = "none" /\ ifaces' = [ifaces EXCEPT ![t] = Null]
             /\ pc' = [pc EXCEPT ![t] = "idle"]
    <3>1. Moved(t, "idle")
      BY <1>0, <2>3, Going
    <3>2. KnowsCache(t)'
      BY <3>1 DEF KnowsCache, Moved
    <3>3. QED
      BY <2>1, <2>3, <3>1, <3>2, PlainStep DEF Safe, Owning
  <2>4. QED
    BY <2>1, <2>2, <2>3
<1>4. CASE Return(t)
  <2>1. /\ pc[t] = "return" /\ ifaces' = [ifaces EXCEPT ![t] = cache]
        /\ cache' = cache /\ refs' = refs /\ fault' = fault
    BY <1>4 DEF Return, At
  <2>2. cache # Null /\ ifaces[t] = cache
    BY <1>0, <2>1 DEF KnowsCache
  <2>3. PICK to \in {"copy", "done"} : pc' = [pc EXCEPT ![t] = to]
    BY <1>4, <2>2 DEF Return, Goto
  <2>4. Moved(t, to)
    BY <1>0, <2>1, <2>3, Going
  <2>5. ifaces'[t] = ifaces[t]
    BY <1>0, <2>1, <2>2 DEF LocalTypes
  <2>6. KnowsCache(t)'
    BY <2>4 DEF KnowsCache, Moved
  <2>7. QED
    BY <2>1, <2>4, <2>5, <2>6, PlainStep DEF Safe, Owning
<1>5. CASE CopyAddresses(t)
  <2>1. /\ pc[t] = "copy" /\ pc' = [pc EXCEPT ![t] = "done"]
        /\ cache' = cache /\ refs' = refs /\ ifaces' = ifaces
        /\ fault' = FaultOf(ifaces[t])
    BY <1>5 DEF CopyAddresses, At, Goto
  <2>2. Moved(t, "done")
    BY <1>0, <2>1, Going
  <2>3. KnowsCache(t)'
    BY <2>2 DEF KnowsCache, Moved
  <2>4. fault' = "none"
    BY <2>1, OwnersAreSafe DEF Calm, Given, Owning
  <2>5. QED
    BY <2>1, <2>2, <2>3, <2>4, PlainStep DEF Safe, Owning
<1>6. CASE ScanCrashes(t)
  BY <1>6 DEF ScanCrashes, Safe
<1>7. QED
  BY <1>1, <1>2, <1>3, <1>4, <1>5, <1>6

Held(b) == IF b THEN 1 ELSE 0

\* What a step does to the count of every dictionary, by what it does to its owners.
LEMMA CountedAfter ==
    ASSUME TypeOK, AllCounted, NEW o \in Objects, NEW t \in Threads, NEW to,
           Moved(t, to),
           refs'[o] = refs[o] - Held(t \in Owners(o)) - Held(OwnedByCache(o))
                              + Held(t \in Owners(o)') + Held(OwnedByCache(o)')
    PROVE  Counted(o)'
<1> DEFINE Others == Owners(o) \ {t}
<1> USE DEF Held
<1>1. IsFiniteSet(Others) /\ Cardinality(Others) \in Nat
  BY OwnersFinite, FS_Subset, FS_CardinalityType
<1>2. Others = Owners(o)' \ {t}
  BY OwnersMove
<1>3. t \notin Others /\ (t \in Owners(o) => Owners(o) = Others \cup {t})
      /\ (t \notin Owners(o) => Owners(o) = Others)
  OBVIOUS
<1>4. t \notin Others /\ (t \in Owners(o)' => Owners(o)' = Others \cup {t})
      /\ (t \notin Owners(o)' => Owners(o)' = Others)
  BY <1>2
<1>5. Cardinality(Others \cup {t}) = Cardinality(Others) + 1
  BY <1>1, <1>3, FS_AddElement
<1>6. Cardinality(Owners(o)) = Cardinality(Others) + Held(t \in Owners(o))
  <2>1. CASE t \in Owners(o)
    <3>1. Cardinality(Owners(o)) = Cardinality(Others \cup {t})
      BY <2>1, <1>3
    <3>2. QED
      BY <2>1, <3>1, <1>5
  <2>2. CASE t \notin Owners(o)
    <3>1. Cardinality(Owners(o)) = Cardinality(Others)
      BY <2>2, <1>3
    <3>2. QED
      BY <2>2, <3>1, <1>1
  <2>3. QED
    BY <2>1, <2>2
<1>7. Cardinality(Owners(o)') = Cardinality(Others) + Held(t \in Owners(o)')
  <2>1. CASE t \in Owners(o)'
    <3>1. Cardinality(Owners(o)') = Cardinality(Others \cup {t})
      BY <2>1, <1>4
    <3>2. QED
      BY <2>1, <3>1, <1>5
  <2>2. CASE t \notin Owners(o)'
    <3>1. Cardinality(Owners(o)') = Cardinality(Others)
      BY <2>2, <1>4
    <3>2. QED
      BY <2>2, <3>1, <1>1
  <2>3. QED
    BY <2>1, <2>2
<1>8. refs[o] = Cardinality(Owners(o)) + Held(OwnedByCache(o))
  BY DEF AllCounted, Counted
<1>9. refs'[o] = Cardinality(Owners(o)') + Held(OwnedByCache(o)')
  BY <1>1, <1>6, <1>7, <1>8
<1>10. QED
  BY <1>9 DEF Counted

LEMMA NobodyForgets ==
    ASSUME ~Conflict, NEW t \in Threads, Inside(t), pc[t] # "forget"
    PROVE  \A u \in Threads : pc[u] # "forget"
  BY DEF Conflict, Writing

LEMMA RetainSafe ==
    ASSUME Calm, fault = "none", NEW t \in Threads, RetainCache(t)
    PROVE  Safe'
<1>0. LockOwned /\ LocalTypes /\ SharedTypes /\ TypeOK /\ AllCounted /\ KnowsCache(t)
  BY DEF Calm, TypeOK, Known
<1>1. /\ pc[t] = "retain" /\ pc' = [pc EXCEPT ![t] = "store retained"]
      /\ ifaces' = [ifaces EXCEPT ![t] = cache] /\ cache' = cache /\ Retain(cache)
  BY DEF RetainCache, At, Goto
<1>2. Moved(t, "store retained") /\ ifaces'[t] = cache
  BY <1>0, <1>1, Going DEF LocalTypes
<1>3. cache # Null
  BY <1>0, <1>1 DEF KnowsCache
<1>4. (\A u \in Threads : pc[u] # "forget") /\ (\A u \in Threads : pc'[u] # "forget")
  BY <1>1, <1>2, NobodyForgets DEF Calm, Inside, Moved
<1>5. FaultOf(cache) = "none"
  BY <1>0, <1>3, <1>4, OwnersAreSafe
<1>6. fault' = "none" /\ refs' = [refs EXCEPT ![cache] = @ + 1]
  BY <1>1, <1>5 DEF Retain
<1>7. KnowsCache(t)'
  BY <1>1, <1>2, <1>3 DEF KnowsCache, Moved
<1>8. Known'
  <2>1. ASSUME NEW u \in Threads \ {t} PROVE KnowsCache(u)'
    BY <1>1, <1>2, OthersKnow DEF Calm, Inside
  <2>2. QED
    BY <1>7, <2>1 DEF Known
<1>9. ASSUME NEW o \in Objects PROVE Counted(o)'
  <2>1. t \notin Owners(o) /\ (t \in Owners(o)' <=> cache = o)
    <3>1. "store retained" \in Owning /\ pc[t] \notin Owning
      BY <1>1 DEF Owning
    <3>2. QED
      BY <1>2, <3>1, OwnersMove
  <2>2. OwnedByCache(o)' <=> OwnedByCache(o)
    BY <1>1, <1>4 DEF OwnedByCache
  <2>3. refs'[o] = refs[o] + Held(cache = o)
    BY <1>0, <1>6 DEF SharedTypes, Held
  <2>4. refs[o] \in Nat
    BY <1>0 DEF SharedTypes
  <2>5. refs'[o] = refs[o] - Held(t \in Owners(o)) - Held(OwnedByCache(o))
                           + Held(t \in Owners(o)') + Held(OwnedByCache(o)')
    BY <2>1, <2>2, <2>3, <2>4 DEF Held
  <2>6. QED
    BY <1>0, <1>2, <2>5, CountedAfter
<1>10. QED
  BY <1>6, <1>8, <1>9 DEF Safe, AllCounted

LEMMA PublishSafe ==
    ASSUME Calm, fault = "none", NEW t \in Threads, Publish(t)
    PROVE  Safe'
<1>0. LockOwned /\ LocalTypes /\ SharedTypes /\ TypeOK /\ AllCounted /\ KnowsCache(t)
  BY DEF Calm, TypeOK, Known
<1>1. /\ pc[t] = "publish" /\ pc' = [pc EXCEPT ![t] = "return"] /\ ifaces' = ifaces
      /\ cache' = ifaces[t] /\ fault' = fault
      /\ refs' = [refs EXCEPT ![ifaces[t]] = 2]
  BY DEF Publish, At, Goto, FirstReferences, locals
<1>2. Moved(t, "return") /\ ifaces'[t] = ifaces[t]
  BY <1>0, <1>1, Going
<1>3. cache = Null /\ ifaces[t] # Null /\ Owners(ifaces[t]) = {}
  BY <1>0, <1>1 DEF KnowsCache
<1>4. \A u \in Threads : pc'[u] # "forget"
  BY <1>1, <1>2, NobodyForgets DEF Calm, Inside, Moved
<1>5. KnowsCache(t)'
  BY <1>1, <1>2, <1>3 DEF KnowsCache, Moved
<1>6. Known'
  <2>1. ASSUME NEW u \in Threads \ {t} PROVE KnowsCache(u)'
    BY <1>0, <1>1, <1>2, OthersKnow DEF Calm, Inside, Writing
  <2>2. QED
    BY <1>5, <2>1 DEF Known
<1>7. ASSUME NEW o \in Objects PROVE Counted(o)'
  <2>1. /\ t \notin Owners(o) /\ (t \in Owners(o)' <=> ifaces[t] = o)
    BY <1>1, <1>2, OwnersMove DEF Owning
  <2>2. ~OwnedByCache(o) /\ (OwnedByCache(o)' <=> ifaces[t] = o)
    BY <1>1, <1>3, <1>4 DEF OwnedByCache, Objects, Null
  <2>3. refs[o] \in Nat
    BY <1>0 DEF SharedTypes
  <2>4. ifaces[t] = o => refs[o] = 0
    <3>1. ifaces[t] = o => Owners(o) = {}
      BY <1>3
    <3>2. refs[o] = Cardinality(Owners(o)) + 0
      BY <1>0, <2>2 DEF AllCounted, Counted
    <3>3. QED
      BY <3>1, <3>2, FS_EmptySet
  <2>5. refs'[o] = refs[o] + Held(ifaces[t] = o) + Held(ifaces[t] = o)
    BY <1>0, <1>1, <2>3, <2>4 DEF SharedTypes, Held
  <2>6. refs'[o] = refs[o] - Held(t \in Owners(o)) - Held(OwnedByCache(o))
                           + Held(t \in Owners(o)') + Held(OwnedByCache(o)')
    BY <2>1, <2>2, <2>3, <2>5 DEF Held
  <2>7. QED
    BY <1>0, <1>2, <2>6, CountedAfter
<1>8. QED
  BY <1>1, <1>6, <1>7 DEF Safe, AllCounted

LEMMA ReleaseIfacesSafe ==
    ASSUME Calm, fault = "none", NEW t \in Threads, ReleaseIfaces(t)
    PROVE  Safe'
<1>0. LockOwned /\ LocalTypes /\ SharedTypes /\ TypeOK /\ AllCounted /\ Given
  BY DEF Calm, TypeOK
<1>1. /\ pc[t] = "done" /\ pc' = [pc EXCEPT ![t] = "idle"] /\ cache' = cache
      /\ ifaces' = [ifaces EXCEPT ![t] = Null] /\ Release(ifaces[t])
  BY DEF ReleaseIfaces, At, Goto
<1>2. Moved(t, "idle")
  BY <1>0, <1>1, Going
<1>3. ifaces[t] # Null
  BY <1>0, <1>1 DEF Given
<1>4. FaultOf(ifaces[t]) = "none"
  BY <1>0, <1>1, <1>3, OwnersAreSafe DEF Owning
<1>5. fault' = "none" /\ refs' = [refs EXCEPT ![ifaces[t]] = @ - 1]
  BY <1>1, <1>4 DEF Release
<1>6. "idle" \notin Owning /\ pc[t] \in Owning
  BY <1>1 DEF Owning
<1>7. Known'
  <2>1. KnowsCache(t)'
    BY <1>2 DEF KnowsCache, Moved
  <2>2. \A o : t \in Owners(o)' => t \in Owners(o)
    BY <1>2, <1>6, OwnersMove
  <2>3. ASSUME NEW u \in Threads \ {t} PROVE KnowsCache(u)'
    BY <1>1, <1>2, <2>2, OthersKnow DEF Calm
  <2>4. QED
    BY <2>1, <2>3 DEF Known
<1>8. ASSUME NEW o \in Objects PROVE Counted(o)'
  <2>1. t \notin Owners(o)' /\ (t \in Owners(o) <=> ifaces[t] = o)
    BY <1>2, <1>6, OwnersMove
  <2>2. OwnedByCache(o)' <=> OwnedByCache(o)
    BY <1>1, <1>2 DEF OwnedByCache, Moved
  <2>3. refs[o] \in Nat
    BY <1>0 DEF SharedTypes
  <2>4. refs'[o] = refs[o] - Held(ifaces[t] = o)
    BY <1>0, <1>5, <2>3 DEF SharedTypes, Held
  <2>5. refs'[o] = refs[o] - Held(t \in Owners(o)) - Held(OwnedByCache(o))
                           + Held(t \in Owners(o)') + Held(OwnedByCache(o)')
    BY <2>1, <2>2, <2>3, <2>4 DEF Held
  <2>6. QED
    BY <1>0, <1>2, <2>5, CountedAfter
<1>9. QED
  BY <1>5, <1>7, <1>8 DEF Safe, AllCounted

LEMMA ReleaseCacheSafe ==
    ASSUME Calm, fault = "none", NEW t \in Threads, ReleaseCache(t) \/ ForgetCache(t)
    PROVE  Safe'
<1>0. LockOwned /\ LocalTypes /\ SharedTypes /\ TypeOK /\ AllCounted /\ KnowsCache(t)
  BY DEF Calm, TypeOK, Known
<1> USE DEF locals, memory
<1>1. CASE ReleaseCache(t)
  <2>1. /\ pc[t] = "releasing" /\ pc' = [pc EXCEPT ![t] = "forget"]
        /\ cache' = cache /\ ifaces' = ifaces /\ Release(cache)
    BY <1>1 DEF ReleaseCache, At, Goto
  <2>2. Moved(t, "forget")
    BY <1>0, <2>1, Going
  <2>3. cache # Null /\ \A u \in Threads : pc[u] # "forget"
    BY <1>0, <2>1, NobodyForgets DEF KnowsCache, Calm, Inside
  <2>4. FaultOf(cache) = "none"
    BY <1>0, <2>3, OwnersAreSafe
  <2>5. fault' = "none" /\ refs' = [refs EXCEPT ![cache] = @ - 1]
    BY <2>1, <2>4 DEF Release
  <2>6. Known'
    <3>1. KnowsCache(t)'
      BY <2>2 DEF KnowsCache, Moved
    <3>2. ASSUME NEW u \in Threads \ {t} PROVE KnowsCache(u)'
      BY <2>1, <2>2, OthersKnow DEF Calm, Inside
    <3>3. QED
      BY <3>1, <3>2 DEF Known
  <2>7. ASSUME NEW o \in Objects PROVE Counted(o)'
    <3>1. t \notin Owners(o) /\ t \notin Owners(o)'
      <4>1. pc[t] \notin Owning /\ "forget" \notin Owning
        BY <2>1 DEF Owning
      <4>2. QED
        BY <2>2, <4>1, OwnersMove
    <3>2. (OwnedByCache(o) <=> cache = o) /\ ~OwnedByCache(o)'
      BY <2>2, <2>3 DEF OwnedByCache, Moved
    <3>3. refs[o] \in Nat
      BY <1>0 DEF SharedTypes
    <3>4. refs'[o] = refs[o] - Held(cache = o)
      BY <1>0, <2>5, <3>3 DEF SharedTypes, Held
    <3>5. refs'[o] = refs[o] - Held(t \in Owners(o)) - Held(OwnedByCache(o))
                             + Held(t \in Owners(o)') + Held(OwnedByCache(o)')
      BY <3>1, <3>2, <3>3, <3>4 DEF Held
    <3>6. QED
      BY <1>0, <2>2, <3>5, CountedAfter
  <2>8. QED
    BY <2>5, <2>6, <2>7 DEF Safe, AllCounted
<1>2. CASE ForgetCache(t)
  <2>1. /\ pc[t] = "forget" /\ pc' = [pc EXCEPT ![t] = "unlock released"]
        /\ cache' = Null /\ ifaces' = ifaces /\ refs' = refs /\ fault' = fault
    BY <1>2 DEF ForgetCache, Forgotten, At, Goto
  <2>2. Moved(t, "unlock released")
    BY <1>0, <2>1, Going
  <2>3. Known'
    <3>1. KnowsCache(t)'
      BY <2>1, <2>2 DEF KnowsCache, Moved
    <3>2. ASSUME NEW u \in Threads \ {t} PROVE KnowsCache(u)'
      BY <2>1, <2>2, OthersKnow DEF Calm, Inside, Writing
    <3>3. QED
      BY <3>1, <3>2 DEF Known
  <2>4. ASSUME NEW o \in Objects PROVE Counted(o)'
    <3>1. t \notin Owners(o) /\ t \notin Owners(o)'
      <4>1. pc[t] \notin Owning /\ "unlock released" \notin Owning
        BY <2>1 DEF Owning
      <4>2. QED
        BY <2>2, <4>1, OwnersMove
    <3>2. ~OwnedByCache(o) /\ ~OwnedByCache(o)'
      <4>1. o # Null
        BY DEF Objects, Null
      <4>2. QED
        BY <2>1, <4>1 DEF OwnedByCache
    <3>3. refs[o] \in Nat /\ refs'[o] = refs[o]
      BY <1>0, <2>1 DEF SharedTypes
    <3>4. refs'[o] = refs[o] - Held(t \in Owners(o)) - Held(OwnedByCache(o))
                             + Held(t \in Owners(o)') + Held(OwnedByCache(o)')
      BY <3>1, <3>2, <3>3 DEF Held
    <3>5. QED
      BY <1>0, <2>2, <3>4, CountedAfter
  <2>5. QED
    BY <2>1, <2>3, <2>4 DEF Safe, AllCounted
<1>3. QED
  BY <1>1, <1>2

LEMMA StepGiven == TypeOK /\ TypeOK' /\ Given /\ [Next]_vars => Given'
<1> SUFFICES ASSUME TypeOK, TypeOK', Given, [Next]_vars PROVE Given'
  OBVIOUS
<1>0. /\ LocalTypes /\ SharedTypes /\ DictTypes /\ LockOwned
      /\ LocalTypes' /\ SharedTypes' /\ DictTypes'
  BY DEF TypeOK
<1> USE DEF dicts, memory, locals, world
<1>1. ASSUME NEW t \in Threads, NEW to,
             pc' = [pc EXCEPT ![t] = to], created' = created,
             cache' \in {cache, Null, ifaces[t]},
             \E o \in {ifaces[t], cache, Null} : ifaces' = [ifaces EXCEPT ![t] = o],
             to \in {"copy", "done"} => ifaces'[t] # Null
      PROVE  Given'
  <2>1. cache' <= created /\ ifaces'[t] <= created
    BY <1>0, <1>1 DEF Given, LocalTypes, DictTypes, Null
  <2>2. \A u \in Threads \ {t} : pc'[u] = pc[u] /\ ifaces'[u] = ifaces[u]
    BY <1>0, <1>1 DEF LockOwned, LocalTypes
  <2>3. pc'[t] = to
    BY <1>0, <1>1 DEF LockOwned
  <2>4. QED
    BY <1>1, <2>1, <2>2, <2>3 DEF Given
<1>2. \A t \in Threads : ifaces = [ifaces EXCEPT ![t] = ifaces[t]]
  BY <1>0 DEF LocalTypes
<1>3. CASE UNCHANGED vars
  BY <1>3 DEF vars, Given
<1>4. ASSUME NEW t \in Threads, CallRefresh(t) \/ ReleaseGlobal(t) PROVE Given'
  <2>1. created' = created /\ cache' \in {cache, Null} /\ ifaces' = ifaces
    BY <1>4
       DEF CallRefresh, ReleaseGlobal, TestToRelease, LockToRelease, ReleaseCache,
           ForgetCache, UnlockReleased, Lock, Unlock, Forgotten
  <2>2. PICK to \in Places \ {"copy", "done"} : pc' = [pc EXCEPT ![t] = to]
    <3> USE DEF Goto, Places
    <3>1. CASE CallRefresh(t)
      BY <3>1 DEF CallRefresh, RefreshFrom
    <3>2. CASE TestToRelease(t)
      <4>1. CASE cache # Null
        BY <3>2, <4>1 DEF TestToRelease
      <4>2. CASE ~(cache # Null)
        BY <3>2, <4>2 DEF TestToRelease
      <4>3. QED
        BY <4>1, <4>2
    <3>3. CASE LockToRelease(t)
      BY <3>3 DEF LockToRelease, Lock
    <3>4. CASE ReleaseCache(t)
      BY <3>4 DEF ReleaseCache
    <3>5. CASE ForgetCache(t)
      BY <3>5 DEF ForgetCache
    <3>6. CASE UnlockReleased(t)
      BY <3>6 DEF UnlockReleased, Unlock
    <3>7. QED
      BY <1>4, <3>1, <3>2, <3>3, <3>4, <3>5, <3>6 DEF ReleaseGlobal
  <2>3. QED
    BY <1>1, <1>2, <2>1, <2>2
<1>5. ASSUME NEW t \in Threads,
             \/ CallCopy(t) \/ TestToCreate(t) \/ LockToRetain(t) \/ UnlockRetained(t)
             \/ RetainCache(t) \/ StoreRetained(t) \/ Publish(t)
      PROVE  Given'
  <2>1. /\ created' = created /\ cache' \in {cache, ifaces[t]}
        /\ ifaces' = ifaces \/ ifaces' = [ifaces EXCEPT ![t] = cache]
    BY <1>5
       DEF CallCopy, TestToCreate, LockToRetain, UnlockRetained, RetainCache,
           StoreRetained, Publish, Lock, Unlock
  <2>2. PICK to \in Places \ {"copy", "done"} : pc' = [pc EXCEPT ![t] = to]
    <3> USE DEF Goto, Places
    <3>1. CASE CallCopy(t)
      BY <3>1 DEF CallCopy
    <3>2. CASE TestToCreate(t)
      <4>1. CASE IsCached
        BY <3>2, <4>1 DEF TestToCreate
      <4>2. CASE ~IsCached
        BY <3>2, <4>2 DEF TestToCreate
      <4>3. QED
        BY <4>1, <4>2
    <3>3. CASE LockToRetain(t)
      BY <3>3 DEF LockToRetain, Lock
    <3>4. CASE RetainCache(t)
      BY <3>4 DEF RetainCache
    <3>5. CASE StoreRetained(t)
      BY <3>5 DEF StoreRetained
    <3>6. CASE UnlockRetained(t)
      BY <3>6 DEF UnlockRetained, Unlock
    <3>7. CASE Publish(t)
      BY <3>7 DEF Publish
    <3>8. QED
      BY <1>5, <3>1, <3>2, <3>3, <3>4, <3>5, <3>6, <3>7
  <2>3. QED
    BY <1>1, <1>2, <2>1, <2>2
<1>6. ASSUME NEW t \in Threads, Scan(t) PROVE Given'
  <2>1. /\ created' = created + 1 /\ cache' = cache
        /\ ifaces' = [ifaces EXCEPT ![t] = created + 1]
        /\ pc' = [pc EXCEPT ![t] = "publish"]
    BY <1>6 DEF Scan, Goto
  <2>2. cache \in Nat /\ created \in Nat /\ \A u \in Threads : ifaces[u] \in Nat
    <3>1. Objects \cup {Null} \subseteq Nat
      BY CacheAssumption DEF Objects, Null
    <3>2. cache \in Nat
      BY <1>0, <3>1 DEF SharedTypes
    <3>3. created \in Nat
      BY <1>0, CacheAssumption DEF DictTypes
    <3>4. QED
      BY <1>0, <3>1, <3>2, <3>3 DEF LocalTypes
  <2>3. cache' <= created' /\ \A u \in Threads : ifaces'[u] <= created'
    BY <1>0, <2>1, <2>2 DEF Given, LocalTypes
  <2>4. \A u \in Threads : pc'[u] \in {"copy", "done"} => ifaces'[u] # Null
    BY <1>0, <2>1 DEF Given, LocalTypes, LockOwned
  <2>5. QED
    BY <2>3, <2>4 DEF Given
<1>7. ASSUME NEW t \in Threads, ScanFails(t) PROVE Given'
  <2>1. CASE ifaces' = [ifaces EXCEPT ![t] = Null] /\ pc' = [pc EXCEPT ![t] = "idle"]
    BY <1>1, <1>7, <2>1 DEF ScanFails
  <2>2. CASE ifaces' = ifaces /\ pc' = pc
    BY <1>7, <2>2 DEF ScanFails, Given
  <2>3. QED
    BY <1>7, <2>1, <2>2 DEF ScanFails, Goto
<1>8. ASSUME NEW t \in Threads, Return(t) PROVE Given'
  <2>1. /\ created' = created /\ cache' = cache
        /\ ifaces' = [ifaces EXCEPT ![t] = cache]
    BY <1>8 DEF Return
  <2>2. ifaces'[t] = cache
    BY <1>0, <2>1 DEF LocalTypes
  <2>3. CASE ~(cache # Null)
    <3>1. pc' = [pc EXCEPT ![t] = "idle"]
      BY <1>8, <2>3 DEF Return, Goto
    <3>2. QED
      BY <1>1, <2>1, <3>1
  <2>4. CASE cache # Null
    <3>1. PICK to \in {"copy", "done"} : pc' = [pc EXCEPT ![t] = to]
      BY <1>8, <2>4 DEF Return, Goto
    <3>2. QED
      BY <1>1, <2>1, <2>2, <2>4, <3>1
  <2>5. QED
    BY <2>3, <2>4
<1>9. ASSUME NEW t \in Threads, CopyAddresses(t) \/ ReleaseIfaces(t) PROVE Given'
  <2>1. created' = created /\ cache' = cache
    BY <1>9 DEF CopyAddresses, ReleaseIfaces
  <2>2. CASE CopyAddresses(t)
    <3>1. /\ ifaces' = ifaces /\ pc' = [pc EXCEPT ![t] = "done"]
          /\ pc[t] = "copy"
      BY <2>2 DEF CopyAddresses, Goto, At
    <3>2. ifaces'[t] # Null
      BY <3>1 DEF Given
    <3>3. QED
      BY <1>1, <1>2, <2>1, <3>1, <3>2
  <2>3. CASE ReleaseIfaces(t)
    BY <1>1, <2>1, <2>3 DEF ReleaseIfaces, Goto
  <2>4. QED
    BY <1>9, <2>2, <2>3
<1>10. CASE NetworkChanges
  BY <1>10 DEF NetworkChanges, Given
<1>11. ASSUME NEW t \in Threads, ScanCrashes(t) PROVE Given'
  BY <1>11 DEF ScanCrashes, Given
<1>12. QED
  BY <1>3, <1>4, <1>5, <1>6, <1>7, <1>8, <1>9, <1>10, <1>11 DEF Next, Step, Create

LEMMA StepInv == IInv /\ [Next]_vars => IInv'
<1> SUFFICES ASSUME IInv, [Next]_vars PROVE IInv'
  OBVIOUS
<1>1. TypeOK /\ TypeOK' /\ Given /\ Given'
  BY StepTypeOK, StepGiven DEF IInv
<1>2. CASE UNCHANGED vars
  <2>1. Peaceful'
    BY <1>2 DEF IInv, vars, Peaceful, Conflict, Writing, Inside
  <2>2. CacheKnown'
    BY <1>2 DEF IInv, vars, memory, locals, CacheKnown, KnowsCache, Owners
  <2>3. RefsAreOwners' /\ NoDanglingUse'
    BY <1>2 DEF IInv, vars, memory, locals, RefsAreOwners, Owners, OwnedByCache,
                NoDanglingUse
  <2>4. QED
    BY <1>1, <2>1, <2>2, <2>3 DEF IInv
<1>3. CASE Next
  <2>1. Peaceful'
    BY <1>1, <1>3 DEF Next, Peaceful, TypeOK, SharedTypes
  <2>2. CASE raced'
    BY <1>1, <2>1, <2>2 DEF IInv, CacheKnown, RefsAreOwners, NoDanglingUse
  <2>3. CASE ~raced'
    <3>1. ~raced /\ ~Conflict
      BY <1>3, <2>3 DEF Next, IInv, Peaceful
    <3>2. fault = "none"
      BY <1>3 DEF Next, Step, Create, ReleaseGlobal, CallCopy, CallRefresh,
                  TestToCreate, LockToRetain, RetainCache, StoreRetained,
                  UnlockRetained, Scan, ScanCrashes, ScanFails, Publish, Return,
                  TestToRelease,
                  LockToRelease, ReleaseCache, ForgetCache, UnlockReleased,
                  CopyAddresses, ReleaseIfaces, NetworkChanges, Lock, Unlock, At
    <3>3. Calm
      BY <1>1, <3>1, <3>2 DEF IInv, Calm, CacheKnown, Known, RefsAreOwners,
                              AllCounted, Counted
    <3>4. Safe'
      <4>1. CASE NetworkChanges
        BY <3>2, <3>3, <4>1, CalmChanges
      <4>2. ASSUME NEW t \in Threads, CallCopy(t) \/ CallRefresh(t) \/ Step(t)
            PROVE  Safe'
        BY <3>2, <3>3, <4>2, PlainActions, ResultActions, RetainSafe, PublishSafe,
           ReleaseIfacesSafe, ReleaseCacheSafe
           DEF Step, Create, ReleaseGlobal
      <4>3. QED
        BY <1>3, <4>1, <4>2 DEF Next
    <3>5. CacheKnown' /\ RefsAreOwners' /\ NoDanglingUse'
      BY <2>3, <3>4 DEF Safe, CacheKnown, Known, RefsAreOwners, AllCounted, Counted,
                        NoDanglingUse
    <3>6. QED
      BY <1>1, <2>1, <3>5 DEF IInv
  <2>4. QED
    BY <2>2, <2>3
<1>4. QED
  BY <1>2, <1>3

LEMMA InitInv == Init => IInv
<1> SUFFICES ASSUME Init PROVE IInv
  OBVIOUS
<1>1. TypeOK
  BY InitTypeOK
<1>2. \A t \in Threads : pc[t] = "idle" /\ ifaces[t] = Null
  BY DEF Init
<1>3. Peaceful /\ Given /\ CacheKnown /\ NoDanglingUse
  BY <1>2 DEF Init, Peaceful, Conflict, Writing, Given, CacheKnown, KnowsCache,
              NoDanglingUse, Null
<1>4. ASSUME NEW o \in Objects PROVE Counted(o)
  <2>1. refs[o] = 0
    BY DEF Init
  <2>2. Owners(o) = {}
    BY <1>2 DEF Owners
  <2>3. ~OwnedByCache(o)
    BY DEF Init, OwnedByCache, Objects, Null
  <2>4. QED
    BY <2>1, <2>2, <2>3, FS_EmptySet DEF Counted
<1>5. RefsAreOwners
  BY <1>4 DEF RefsAreOwners, Counted
<1>6. QED
  BY <1>1, <1>3, <1>5 DEF IInv

LEMMA SpecInv == Spec => []IInv
<1>1. Init => IInv
  BY InitInv
<1>2. IInv /\ [Next]_vars => IInv'
  BY StepInv
<1>3. QED
  BY <1>1, <1>2, PTL DEF Spec

\* The reference counts are right as long as no thread changes the pointer with
\* another one inside.
THEOREM CountsAreRight == Spec => []RefsAreOwners
<1>1. IInv => RefsAreOwners
  BY DEF IInv
<1>2. QED
  BY <1>1, SpecInv, PTL

\* The process touches no dictionary that is gone, and does not take NULL for one,
\* as long as no thread changes the pointer with another one inside.
THEOREM NothingDangles == Spec => []NoDanglingUse
<1>1. IInv => NoDanglingUse
  BY DEF IInv
<1>2. QED
  BY <1>1, SpecInv, PTL

-----------------------------------------------------------------------------
(***************************************************************************)
(* Callers get the same dictionary until the next refresh.                 *)
(***************************************************************************)

\* A refresh is on its way to the pointer.
Replacing == {"release", "lock to release", "releasing", "forget"}

\* What was obtained since the last refresh is what the pointer leads to; while it
\* is being replaced, nothing was; and a dictionary that is, or will be, in the
\* cache is not older than the refresh.
Current ==
    /\ epoch <= net
    /\ ~raced =>
          /\ obtained \subseteq {cache}
          /\ \A t \in Threads : pc[t] \in Replacing => obtained = {}
          /\ cache # Null /\ (\A t \in Threads : pc[t] \notin Replacing)
                => scanned[cache] >= epoch
          /\ \A t \in Threads : pc[t] = "publish" => scanned[ifaces[t]] >= epoch

LEMMA InitCurrent == Init => Current
  BY CacheAssumption DEF Init, Current, Null, Replacing

\* A step that leaves the dictionaries, the refresh and what was obtained alone.
LEMMA QuietStep ==
    ASSUME TypeOK, Current, ~raced, NEW t \in Threads, NEW to, Moved(t, to),
           cache' = cache, UNCHANGED <<dicts, epoch, obtained>>,
           to # "publish",
           \/ to \in Replacing <=> pc[t] \in Replacing
           \/ cache = Null /\ to \notin Replacing
    PROVE  /\ obtained' \subseteq {cache'}
           /\ \A u \in Threads : pc'[u] \in Replacing => obtained' = {}
           /\ cache' # Null /\ (\A u \in Threads : pc'[u] \notin Replacing)
                 => scanned'[cache'] >= epoch'
           /\ \A u \in Threads :
                 pc'[u] = "publish" => scanned'[ifaces'[u]] >= epoch'
<1>1. \A u \in Threads \ {t} : pc'[u] = pc[u] /\ ifaces'[u] = ifaces[u]
  BY DEF Moved
<1>2. pc'[t] = to
  BY DEF Moved
<1>3. /\ obtained \subseteq {cache}
      /\ \A u \in Threads : pc[u] \in Replacing => obtained = {}
      /\ cache # Null /\ (\A u \in Threads : pc[u] \notin Replacing)
            => scanned[cache] >= epoch
      /\ \A u \in Threads : pc[u] = "publish" => scanned[ifaces[u]] >= epoch
  BY DEF Current
<1>4. UNCHANGED <<scanned, epoch, obtained>>
  BY DEF dicts
<1>5. \A u \in Threads : pc'[u] \in Replacing => obtained' = {}
  <2>1. ASSUME NEW u \in Threads, pc'[u] \in Replacing PROVE pc[u] \in Replacing
    BY <1>1, <1>2, <2>1
  <2>2. QED
    BY <1>3, <1>4, <2>1
<1>6. cache' # Null /\ (\A u \in Threads : pc'[u] \notin Replacing)
         => scanned'[cache'] >= epoch'
  <2> SUFFICES ASSUME cache # Null, \A u \in Threads : pc'[u] \notin Replacing
               PROVE  scanned[cache] >= epoch
    BY <1>4
  <2>1. \A u \in Threads : pc[u] \notin Replacing
    BY <1>1, <1>2
  <2>2. QED
    BY <1>3, <2>1
<1>7. \A u \in Threads : pc'[u] = "publish" => scanned'[ifaces'[u]] >= epoch'
  <2>1. ASSUME NEW u \in Threads, pc'[u] = "publish"
        PROVE  pc[u] = "publish" /\ ifaces'[u] = ifaces[u]
    BY <1>1, <1>2, <2>1
  <2>2. QED
    BY <1>3, <1>4, <2>1
<1>8. QED
  BY <1>3, <1>4, <1>5, <1>6, <1>7

\* Thread t goes on to a place where it replaces the pointer as much as before.
Goes(t, to) ==
    /\ pc' = [pc EXCEPT ![t] = to]
    /\ ifaces' = ifaces \/ \E o : ifaces' = [ifaces EXCEPT ![t] = o]
    /\ to # "publish"
    /\ \/ to \in Replacing <=> pc[t] \in Replacing
       \/ cache = Null /\ to \notin Replacing

LEMMA QuietActions ==
    ASSUME Calm, Current, ~raced, fault = "none", NEW t \in Threads,
           \/ TestToRelease(t) \/ LockToRelease(t) \/ ReleaseCache(t)
           \/ UnlockReleased(t) \/ CallCopy(t) \/ TestToCreate(t)
           \/ LockToRetain(t) \/ RetainCache(t) \/ StoreRetained(t)
           \/ UnlockRetained(t) \/ ScanCrashes(t) \/ ScanFails(t)
           \/ CopyAddresses(t) \/ ReleaseIfaces(t)
    PROVE  Current'
<1>1. KnowsCache(t) /\ LockOwned /\ LocalTypes
  BY DEF Calm, Known, TypeOK
<1>2. cache' = cache /\ UNCHANGED <<dicts, epoch, obtained, net>>
  BY <1>1 DEF TestToRelease, LockToRelease, ReleaseCache, UnlockReleased, CallCopy,
     TestToCreate, LockToRetain, RetainCache, StoreRetained, UnlockRetained,
     ScanCrashes, ScanFails, CopyAddresses, ReleaseIfaces, Lock, Unlock, At, world,
     KnowsCache
<1>3. epoch' <= net'
  BY <1>2 DEF Current
<1>4. ASSUME UNCHANGED <<pc, ifaces>> PROVE Current'
  BY <1>2, <1>4 DEF Current, dicts
<1>5. ASSUME ~UNCHANGED <<pc, ifaces>> PROVE \E to : Goes(t, to)
  <2>1. CASE TestToRelease(t)
    <3>1. Goes(t, "lock to release") \/ Goes(t, "create")
      BY <2>1 DEF TestToRelease, At, Goto, locals, Replacing, Goes
    <3>2. QED
      BY <3>1
  <2>2. CASE LockToRelease(t) \/ UnlockReleased(t) \/ LockToRetain(t)
             \/ UnlockRetained(t)
    <3>1. \/ Goes(t, "releasing") \/ Goes(t, "create")
          \/ Goes(t, "retain") \/ Goes(t, "return")
      BY <2>2 DEF LockToRelease, UnlockReleased, LockToRetain, UnlockRetained,
         Lock, Unlock, At, Goto, locals, Replacing, Goes
    <3>2. QED
      BY <3>1
  <2>3. CASE ReleaseCache(t)
    <3>1. Goes(t, "forget")
      BY <2>3 DEF ReleaseCache, At, Goto, locals, Replacing, Goes
    <3>2. QED
      BY <3>1
  <2>4. CASE CallCopy(t)
    <3>1. Goes(t, "create")
      BY <2>4 DEF CallCopy, At, Goto, locals, Replacing, Goes
    <3>2. QED
      BY <3>1
  <2>5. CASE TestToCreate(t)
    <3>1. Goes(t, "lock to retain") \/ Goes(t, "scan")
      BY <2>5 DEF TestToCreate, At, Goto, locals, Replacing, Goes
    <3>2. QED
      BY <3>1
  <2>6. CASE RetainCache(t)
    <3>1. Goes(t, "store retained")
      BY <2>6 DEF RetainCache, At, Goto, Replacing, Goes
    <3>2. QED
      BY <3>1
  <2>7. CASE StoreRetained(t)
    <3>1. Goes(t, "unlock retained")
      BY <2>7 DEF StoreRetained, At, Goto, locals, Replacing, Goes
    <3>2. QED
      BY <3>1
  <2>8. CASE ScanFails(t)
    <3>1. Goes(t, "idle")
      BY <1>5, <2>8 DEF ScanFails, At, Goto, locals, Replacing, Goes
    <3>2. QED
      BY <3>1
  <2>9. CASE CopyAddresses(t)
    <3>1. Goes(t, "done")
      BY <2>9 DEF CopyAddresses, At, Goto, locals, Replacing, Goes
    <3>2. QED
      BY <3>1
  <2>10. CASE ReleaseIfaces(t)
    <3>1. Goes(t, "idle")
      BY <2>10 DEF ReleaseIfaces, At, Goto, Replacing, Goes
    <3>2. QED
      BY <3>1
  <2>11. ~ScanCrashes(t)
    BY <1>5 DEF ScanCrashes, locals
  <2>12. QED
    BY <2>1, <2>2, <2>3, <2>4, <2>5, <2>6, <2>7, <2>8, <2>9, <2>10, <2>11
<1>6. ASSUME ~UNCHANGED <<pc, ifaces>> PROVE Current'
  <2>1. PICK to : Goes(t, to)
    BY <1>5, <1>6
  <2>2. Moved(t, to)
    BY <1>1, <2>1, Going DEF Goes
  <2>3. TypeOK
    BY DEF Calm
  <2>4. QED
    BY <1>2, <1>3, <2>1, <2>2, <2>3, QuietStep DEF Current, Goes
<1>7. QED
  BY <1>4, <1>6

LEMMA CallRefreshCurrent ==
    ASSUME Calm, Current, ~Conflict', NEW t \in Threads, CallRefresh(t)
    PROVE  Current'
<1>1. Moved(t, "release")
  BY Going DEF Calm, TypeOK, CallRefresh, Goto, RefreshFrom
<1>2. \A u \in Threads \ {t} : pc'[u] # "publish"
  BY <1>1 DEF Conflict, Writing, Inside, Moved
<1>3. pc'[t] = "release" /\ "release" \in Replacing
  BY <1>1 DEF Moved, Replacing
<1>4. epoch' = net /\ net' = net /\ net \in Nat /\ obtained' = {}
  BY CacheAssumption DEF Calm, TypeOK, WorldTypes, CallRefresh
<1>5. QED
  BY <1>2, <1>3, <1>4 DEF Current

LEMMA ForgetCacheCurrent ==
    ASSUME Calm, Current, ~raced, NEW t \in Threads, ForgetCache(t)
    PROVE  Current'
<1>1. Moved(t, "unlock released")
  BY Going DEF Calm, TypeOK, ForgetCache, Goto, locals
<1>2. pc[t] \in Replacing
  BY DEF ForgetCache, At, Replacing
<1>3. obtained' = {}
  BY <1>2 DEF Current, ForgetCache, world
<1>4. cache' = Null /\ UNCHANGED <<epoch, net, scanned>>
  BY DEF ForgetCache, Forgotten, world, dicts
<1>5. ASSUME NEW u \in Threads, pc'[u] = "publish"
      PROVE  pc[u] = "publish" /\ ifaces'[u] = ifaces[u]
  BY <1>1, <1>5 DEF Moved
<1>6. QED
  BY <1>3, <1>4, <1>5 DEF Current

LEMMA ScanCurrent ==
    ASSUME Calm, Current, ~raced, NEW t \in Threads, Scan(t)
    PROVE  Current'
<1>1. Moved(t, "publish") /\ ifaces'[t] = created + 1
  BY Going DEF Calm, TypeOK, LocalTypes, Scan, Goto
<1>2. pc[t] = "scan" /\ cache = Null
  BY DEF Scan, At, Calm, Known, KnowsCache
<1>3. cache' = cache /\ UNCHANGED <<epoch, net, obtained>>
  BY DEF Scan, world
<1>4. created \in Nat /\ created + 1 \in Objects
  BY CacheAssumption DEF Calm, TypeOK, DictTypes, Scan, Objects
<1>5. scanned'[created + 1] = net
  BY <1>4 DEF Calm, TypeOK, DictTypes, Scan
<1>6. net \in Nat /\ epoch \in Nat /\ epoch <= net
  BY CacheAssumption DEF Calm, TypeOK, WorldTypes, Current
<1>7. ASSUME NEW u \in Threads \ {t} PROVE pc'[u] = pc[u] /\ pc[u] # "publish"
  BY <1>1, <1>2 DEF Moved, Calm, Conflict, Writing, Inside
<1>8. \A u \in Threads : pc'[u] = "publish" => scanned'[ifaces'[u]] >= epoch'
  BY <1>1, <1>3, <1>5, <1>6, <1>7
<1>9. \A u \in Threads : pc'[u] \in Replacing => pc[u] \in Replacing
  BY <1>1, <1>7 DEF Moved, Replacing
<1>10. QED
  BY <1>2, <1>3, <1>6, <1>8, <1>9 DEF Current

LEMMA PublishCurrent ==
    ASSUME Calm, Current, ~raced, NEW t \in Threads, Publish(t)
    PROVE  Current'
<1>1. Moved(t, "return") /\ ifaces' = ifaces
  BY Going DEF Calm, TypeOK, Publish, Goto, locals
<1>2. pc[t] = "publish" /\ cache = Null
  BY DEF Publish, At, Calm, Known, KnowsCache
<1>3. cache' = ifaces[t] /\ UNCHANGED <<epoch, net, obtained, scanned>>
  BY DEF Publish, world, dicts
<1>4. obtained = {}
  BY <1>2 DEF Current, Calm, TypeOK, WorldTypes, Objects, Null
<1>5. scanned[ifaces[t]] >= epoch
  BY <1>2 DEF Current
<1>6. ASSUME NEW u \in Threads, pc'[u] = "publish" PROVE pc[u] = "publish"
  BY <1>1, <1>6 DEF Moved
<1>7. QED
  BY <1>1, <1>3, <1>4, <1>5, <1>6 DEF Current

LEMMA ReturnCurrent ==
    ASSUME Calm, Current, ~raced, NEW t \in Threads, Return(t)
    PROVE  Current'
<1>1. PICK to : /\ pc' = [pc EXCEPT ![t] = to]
                /\ to \in {"idle", "done", "copy"}
  BY DEF Return, Goto
<1>2. Moved(t, to)
  BY <1>1, Going DEF Calm, TypeOK, Return
<1>3. pc[t] = "return"
  BY DEF Return, At
<1>4. /\ obtained' = obtained \cup ({cache} \ {Null}) /\ cache' = cache
      /\ UNCHANGED <<epoch, net, scanned>>
  BY DEF Return, dicts
<1>5. ASSUME NEW u \in Threads
      PROVE  pc[u] \notin Replacing /\ pc'[u] \notin Replacing
  <2>1. CASE u = t
    BY <1>1, <1>2, <1>3, <2>1 DEF Moved, Replacing
  <2>2. CASE u # t
    BY <1>2, <1>3, <2>2 DEF Calm, Conflict, Writing, Inside, Moved, Replacing
  <2>3. QED
    BY <2>1, <2>2
<1>6. ASSUME NEW u \in Threads, pc'[u] = "publish"
      PROVE  pc[u] = "publish" /\ ifaces'[u] = ifaces[u]
  BY <1>1, <1>2, <1>6 DEF Moved
<1>7. QED
  BY <1>4, <1>5, <1>6 DEF Current

LEMMA NetworkChangesCurrent ==
    ASSUME TypeOK, Current, ~raced, NetworkChanges
    PROVE  Current'
<1>1. net \in Nat /\ epoch \in Nat
  BY CacheAssumption DEF TypeOK, WorldTypes
<1>2. net' > net /\ UNCHANGED <<cache, pc, epoch, obtained, scanned, ifaces>>
  BY <1>1, CacheAssumption DEF NetworkChanges, dicts, locals
<1>3. net' \in Nat
  BY <1>1, CacheAssumption DEF NetworkChanges
<1>4. QED
  BY <1>1, <1>2, <1>3 DEF Current

LEMMA StepCurrent == IInv /\ Current /\ [Next]_vars => Current'
<1> SUFFICES ASSUME IInv, Current, [Next]_vars PROVE Current'
  OBVIOUS
<1>1. CASE UNCHANGED vars
  BY <1>1 DEF Current, vars, dicts, locals, world
<1>2. CASE Next /\ raced'
  <2>1. net \in Nat /\ epoch \in Nat /\ epoch <= net
    BY CacheAssumption DEF IInv, TypeOK, WorldTypes, Current
  <2>2. epoch' = epoch \/ epoch' = net
    BY <1>2 DEF Next, Step, Create, ReleaseGlobal, CallCopy, CallRefresh,
       TestToRelease, LockToRelease, ReleaseCache, ForgetCache, UnlockReleased,
       TestToCreate, LockToRetain, RetainCache, StoreRetained, UnlockRetained,
       Scan, ScanCrashes, ScanFails, Publish, Return, CopyAddresses, ReleaseIfaces,
       NetworkChanges, Lock, Unlock, world
  <2>3. net' = net \/ net' \in net + 1 .. Len(Nets)
    BY <1>2 DEF Next, Step, Create, ReleaseGlobal, CallCopy, CallRefresh,
       TestToRelease, LockToRelease, ReleaseCache, ForgetCache, UnlockReleased,
       TestToCreate, LockToRetain, RetainCache, StoreRetained, UnlockRetained,
       Scan, ScanCrashes, ScanFails, Publish, Return, CopyAddresses, ReleaseIfaces,
       NetworkChanges, Lock, Unlock, world
  <2>4. epoch' <= net'
    BY <2>1, <2>2, <2>3, CacheAssumption
  <2>5. QED
    BY <1>2, <2>4 DEF Current
<1>3. CASE Next /\ ~raced'
  <2>1. ~raced /\ ~Conflict'
    BY <1>3 DEF Next
  <2>2. fault = "none"
    BY <1>3 DEF Next, Step, Create, ReleaseGlobal, CallCopy, CallRefresh,
       TestToRelease, LockToRelease, ReleaseCache, ForgetCache, UnlockReleased,
       TestToCreate, LockToRetain, RetainCache, StoreRetained, UnlockRetained,
       Scan, ScanCrashes, ScanFails, Publish, Return, CopyAddresses, ReleaseIfaces,
       NetworkChanges, Lock, Unlock, At
  <2>3. Calm
    BY <2>1, <2>2 DEF IInv, Calm, Peaceful, CacheKnown, Known, RefsAreOwners,
       AllCounted, Counted
  <2>4. CASE NetworkChanges
    BY <2>1, <2>4, NetworkChangesCurrent DEF IInv
  <2>5. ASSUME NEW t \in Threads, CallCopy(t) \/ CallRefresh(t) \/ Step(t)
        PROVE  Current'
    BY <2>1, <2>2, <2>3, <2>5, QuietActions, CallRefreshCurrent, ForgetCacheCurrent,
       ScanCurrent, PublishCurrent, ReturnCurrent DEF Step, Create, ReleaseGlobal
  <2>6. QED
    BY <1>3, <2>4, <2>5 DEF Next
<1>4. QED
  BY <1>1, <1>2, <1>3

\* With any number of threads, the copies made between two refreshes agree, and
\* none is older than the refresh before it, as long as no thread changes the
\* pointer with another one inside.
THEOREM CopiesAlwaysAgree == Spec => []CopiesAgree
<1>1. IInv /\ Current => CopiesAgree
  <2> SUFFICES ASSUME IInv, Current, ~raced
               PROVE  /\ \A o, p \in obtained : o = p
                      /\ \A o \in obtained : scanned[o] >= epoch
    BY DEF CopiesAgree
  <2>1. \A o \in obtained : o = cache /\ o # Null
    BY DEF Current, IInv, TypeOK, WorldTypes, Objects, Null
  <2>2. obtained # {} => \A t \in Threads : pc[t] \notin Replacing
    BY DEF Current
  <2>3. cache # Null /\ obtained # {} => scanned[cache] >= epoch
    BY <2>2 DEF Current
  <2>4. QED
    BY <2>1, <2>3
<1>2. IInv /\ Current /\ [Next]_vars => (IInv /\ Current)'
  BY StepInv, StepCurrent
<1>3. QED
  BY <1>1, <1>2, InitInv, InitCurrent, PTL DEF Spec

-----------------------------------------------------------------------------
(***************************************************************************)
(* The loop over the list of getifaddrs, for lists of any length.          *)
(***************************************************************************)

\* What NetAssumption says of a network.
IsNet(n) == n.addrs \in Seq(Range(n.addrs))

AddressesIn(n) == {n.addrs[i].addr : i \in DOMAIN n.addrs}

\* The places among the first k elements.
PlacesUpTo(n, name, family, k) ==
    {i \in 1 .. k : n.addrs[i].name = name /\ n.addrs[i].family = family}

ListsUpTo(s, n, name, family, k) ==
    s \in Seq(AddressesIn(n)) /\ Lists(s, n, PlacesUpTo(n, name, family, k))

Fields == {"status", "inet4", "inet6", "netmask", "broadcast", "ether"}

\* What the entry of an interface says after the first k elements.
EntryUpTo(r, n, name, k) ==
    /\ DOMAIN r = Fields
    /\ r.status = MediaStatus(name, n.media[name])
    /\ ListsUpTo(r.inet4, n, name, "inet", k)
    /\ ListsUpTo(r.inet6, n, name, "inet6", k)
    /\ HasMasksOfLast(r, n, PlacesUpTo(n, name, "inet", k))
    /\ name \notin EthernetNames => r.ether = NoAddress

\* What the dictionary says after the first k elements.
CollectedUpTo(dict, n, k) ==
    /\ DOMAIN dict = {n.addrs[i].name : i \in 1 .. k}
    /\ \A name \in DOMAIN dict : EntryUpTo(dict[name], n, name, k)

LEMMA ListsNothing == \A n : Lists(<<>>, n, {})
  BY FS_EmptySet DEF Lists

\* Appending the address of the next place lists that place too.
LEMMA ListsAppended ==
    ASSUME NEW S, NEW s \in Seq(S), NEW n, NEW k \in Nat, NEW I \in SUBSET (1 .. k),
           Lists(s, n, I), n.addrs[k + 1].addr \in S
    PROVE  /\ Append(s, n.addrs[k + 1].addr) \in Seq(S)
           /\ Lists(Append(s, n.addrs[k + 1].addr), n, I \cup {k + 1})
<1>1. PICK a \in S : a = n.addrs[k + 1].addr
  OBVIOUS
<1>2. PICK t : t = Append(s, a) /\ t \in Seq(S)
  BY AppendProperties
<1>3. PICK c : c = Cardinality(I)
  OBVIOUS
<1>4. IsFiniteSet(I) /\ c \in Nat
  <2>1. IsFiniteSet(1 .. k)
    BY FS_Interval
  <2>2. QED
    BY <1>3, <2>1, FS_Subset, FS_CardinalityType
<1>5. Cardinality(I \cup {k + 1}) = c + 1
  <2>1. k + 1 \notin I
    OBVIOUS
  <2>2. QED
    BY <1>3, <1>4, <2>1, FS_AddElement
<1>6. Len(s) = c
  <2>1. 1 .. Len(s) = 1 .. c /\ Len(s) \in Nat
    BY <1>3 DEF Lists
  <2>2. QED
    BY <1>4, <2>1
<1>7. DOMAIN t = 1 .. c + 1 /\ t[c + 1] = a /\ \A i \in 1 .. c : t[i] = s[i]
  BY <1>2, <1>4, <1>6
<1>8. ASSUME NEW i \in I
      PROVE  t[Cardinality({j \in I \cup {k + 1} : j <= i})] = n.addrs[i].addr
  <2>1. PICK U : U = {j \in I : j <= i}
    OBVIOUS
  <2>2. {j \in I \cup {k + 1} : j <= i} = U
    BY <2>1
  <2>3. IsFiniteSet(U) /\ Cardinality(U) <= c
    BY <1>3, <1>4, <2>1, FS_Subset
  <2>4. i \in U
    <3>1. i \in Nat
      OBVIOUS
    <3>2. i <= i
      BY <3>1
    <3>3. QED
      BY <2>1, <3>2
  <2>5. Cardinality(U) \in Nat /\ Cardinality(U) # 0
    BY <2>3, <2>4, FS_CardinalityType, FS_EmptySet
  <2>6. Cardinality(U) \in 1 .. c
    BY <1>4, <2>3, <2>5
  <2>7. s[Cardinality(U)] = n.addrs[i].addr
    BY <2>1 DEF Lists
  <2>8. QED
    BY <1>7, <2>2, <2>6, <2>7
<1>9. t[Cardinality({j \in I \cup {k + 1} : j <= k + 1})] = n.addrs[k + 1].addr
  <2>1. \A j \in I \cup {k + 1} : j <= k + 1
    OBVIOUS
  <2>2. {j \in I \cup {k + 1} : j <= k + 1} = I \cup {k + 1}
    BY <2>1
  <2>3. QED
    BY <1>1, <1>4, <1>5, <1>7, <2>2
<1>10. Lists(t, n, I \cup {k + 1})
  BY <1>5, <1>7, <1>8, <1>9 DEF Lists
<1>11. QED
  BY <1>1, <1>2, <1>10

LEMMA NewEntry ==
    ASSUME NEW n, NEW k \in Nat, NEW name,
           name \notin {n.addrs[i].name : i \in 1 .. k}
    PROVE  EntryUpTo(NewInterface(name, n.media[name]), n, name, k)
<1>1. \A family : PlacesUpTo(n, name, family, k) = {}
  BY DEF PlacesUpTo
<1>2. \A family : ListsUpTo(<<>>, n, name, family, k)
  <2>1. <<>> \in Seq(AddressesIn(n))
    OBVIOUS
  <2>2. QED
    BY <1>1, <2>1, ListsNothing DEF ListsUpTo
<1>3. PICK r : r = NewInterface(name, n.media[name])
  OBVIOUS
<1>4. /\ DOMAIN r = Fields /\ r.status = MediaStatus(name, n.media[name])
      /\ r.inet4 = <<>> /\ r.inet6 = <<>>
      /\ r.netmask = NoAddress /\ r.broadcast = NoAddress /\ r.ether = NoAddress
  BY <1>3 DEF NewInterface, Fields
<1>5. EntryUpTo(r, n, name, k)
  BY <1>1, <1>2, <1>4 DEF EntryUpTo, HasMasksOfLast
<1>6. QED
  BY <1>3, <1>5

LEMMA ExtendedEntry ==
    ASSUME NEW n, IsNet(n), NEW k \in Nat, k + 1 \in DOMAIN n.addrs,
           NEW r, EntryUpTo(r, n, n.addrs[k + 1].name, k)
    PROVE  EntryUpTo(WithAddress(r, n.addrs[k + 1]), n, n.addrs[k + 1].name, k + 1)
<1>1. PICK a : a = n.addrs[k + 1]
  OBVIOUS
<1>2. PICK m : m = a.name
  OBVIOUS
<1>3. PICK w : w = WithAddress(r, a)
  OBVIOUS
<1>4. /\ DOMAIN r = Fields /\ r.status = MediaStatus(m, n.media[m])
      /\ ListsUpTo(r.inet4, n, m, "inet", k) /\ ListsUpTo(r.inet6, n, m, "inet6", k)
      /\ HasMasksOfLast(r, n, PlacesUpTo(n, m, "inet", k))
      /\ m \notin EthernetNames => r.ether = NoAddress
  BY <1>1, <1>2 DEF EntryUpTo
<1>5. ASSUME NEW family
      PROVE  /\ a.family = family =>
                  PlacesUpTo(n, m, family, k + 1) = PlacesUpTo(n, m, family, k) \cup {k + 1}
             /\ a.family # family =>
                  PlacesUpTo(n, m, family, k + 1) = PlacesUpTo(n, m, family, k)
  <2>1. \A i : i \in 1 .. k + 1 <=> i \in 1 .. k \/ i = k + 1
    OBVIOUS
  <2>2. QED
    BY <1>1, <1>2, <2>1 DEF PlacesUpTo
<1>6. ASSUME NEW s, NEW family, ListsUpTo(s, n, m, family, k)
      PROVE  /\ a.family = family => ListsUpTo(Append(s, a.addr), n, m, family, k + 1)
             /\ a.family # family => ListsUpTo(s, n, m, family, k + 1)
  <2>1. s \in Seq(AddressesIn(n)) /\ Lists(s, n, PlacesUpTo(n, m, family, k))
    BY <1>6 DEF ListsUpTo
  <2>2. a.addr \in AddressesIn(n)
    BY <1>1 DEF AddressesIn
  <2>3. PlacesUpTo(n, m, family, k) \in SUBSET (1 .. k)
    BY DEF PlacesUpTo
  <2>4. /\ Append(s, a.addr) \in Seq(AddressesIn(n))
        /\ Lists(Append(s, a.addr), n, PlacesUpTo(n, m, family, k) \cup {k + 1})
    BY <1>1, <2>1, <2>2, <2>3, ListsAppended
  <2>5. QED
    BY <1>5, <2>1, <2>4 DEF ListsUpTo
<1>7. CASE a.family = "inet"
  <2>1. /\ DOMAIN w = Fields /\ w.status = r.status
        /\ w.inet4 = Append(r.inet4, a.addr) /\ w.inet6 = r.inet6
        /\ w.netmask = a.netmask /\ w.broadcast = a.broadaddr /\ w.ether = r.ether
    BY <1>3, <1>4, <1>7 DEF WithAddress, Fields
  <2>2. HasMasksOfLast(w, n, PlacesUpTo(n, m, "inet", k + 1))
    <3>1. /\ k + 1 \in PlacesUpTo(n, m, "inet", k + 1)
          /\ PlacesUpTo(n, m, "inet", k + 1) \subseteq 1 .. k + 1
      BY <1>1, <1>2, <1>7 DEF PlacesUpTo
    <3>2. \A i \in PlacesUpTo(n, m, "inet", k + 1) : k + 1 <= i => i = k + 1
      BY <3>1
    <3>3. QED
      BY <1>1, <2>1, <3>1, <3>2 DEF HasMasksOfLast
  <2>3. EntryUpTo(w, n, m, k + 1)
    BY <1>4, <1>5, <1>6, <1>7, <2>1, <2>2 DEF EntryUpTo
  <2>4. QED
    BY <1>1, <1>2, <1>3, <2>3
<1>8. CASE a.family = "inet6"
  <2>2. /\ DOMAIN w = Fields /\ w.status = r.status
        /\ w.inet4 = r.inet4 /\ w.inet6 = Append(r.inet6, a.addr)
        /\ w.netmask = r.netmask /\ w.broadcast = r.broadcast /\ w.ether = r.ether
    BY <1>3, <1>4, <1>8 DEF WithAddress, Fields
  <2>3. EntryUpTo(w, n, m, k + 1)
    BY <1>4, <1>5, <1>6, <1>8, <2>2 DEF EntryUpTo, HasMasksOfLast
  <2>4. QED
    BY <1>1, <1>2, <1>3, <2>3
<1>9. CASE a.family \notin {"inet", "inet6"}
  <2>2. /\ DOMAIN w = Fields /\ w.status = r.status
        /\ w.inet4 = r.inet4 /\ w.inet6 = r.inet6 /\ w.netmask = r.netmask
        /\ w.broadcast = r.broadcast
        /\ m \notin EthernetNames => w.ether = r.ether
    BY <1>2, <1>3, <1>4, <1>9 DEF WithAddress, Fields
  <2>3. EntryUpTo(w, n, m, k + 1)
    BY <1>4, <1>5, <1>6, <1>9, <2>2 DEF EntryUpTo, HasMasksOfLast
  <2>4. QED
    BY <1>1, <1>2, <1>3, <2>3
<1>10. QED
  BY <1>7, <1>8, <1>9

LEMMA CollectsNext ==
    ASSUME NEW n, IsNet(n), NEW k \in Nat, k + 1 \in DOMAIN n.addrs,
           NEW dict, CollectedUpTo(dict, n, k)
    PROVE  CollectedUpTo(Collect(n, dict, n.addrs[k + 1]), n, k + 1)
<1>1. PICK a : a = n.addrs[k + 1]
  OBVIOUS
<1>2. PICK m : m = a.name
  OBVIOUS
<1>3. PICK r : r = IF m \in DOMAIN dict THEN dict[m] ELSE NewInterface(m, n.media[m])
  OBVIOUS
<1>4. PICK w : w = WithAddress(r, a)
  OBVIOUS
<1>5. Collect(n, dict, a) =
         [name \in DOMAIN dict \cup {m} |-> IF name = m THEN w ELSE dict[name]]
  BY <1>2, <1>3, <1>4 DEF Collect
<1>6. EntryUpTo(r, n, m, k)
  <2>1. CASE m \in DOMAIN dict
    BY <1>3, <2>1 DEF CollectedUpTo
  <2>2. CASE m \notin DOMAIN dict
    <3>1. m \notin {n.addrs[i].name : i \in 1 .. k}
      BY <2>2 DEF CollectedUpTo
    <3>2. QED
      BY <1>3, <2>2, <3>1, NewEntry
  <2>3. QED
    BY <2>1, <2>2
<1>7. EntryUpTo(w, n, m, k + 1)
  BY <1>1, <1>2, <1>4, <1>6, ExtendedEntry
<1>8. ASSUME NEW name \in DOMAIN dict, name # m
      PROVE  EntryUpTo(dict[name], n, name, k + 1)
  <2>1. ASSUME NEW family
        PROVE  PlacesUpTo(n, name, family, k + 1) = PlacesUpTo(n, name, family, k)
    <3>1. \A i : i \in 1 .. k + 1 <=> i \in 1 .. k \/ i = k + 1
      OBVIOUS
    <3>2. QED
      BY <1>1, <1>2, <1>8, <3>1 DEF PlacesUpTo
  <2>2. EntryUpTo(dict[name], n, name, k)
    BY DEF CollectedUpTo
  <2>3. QED
    BY <2>1, <2>2 DEF EntryUpTo, ListsUpTo
<1>9. {n.addrs[i].name : i \in 1 .. k + 1} = {n.addrs[i].name : i \in 1 .. k} \cup {m}
  <2>1. \A i : i \in 1 .. k + 1 <=> i \in 1 .. k \/ i = k + 1
    OBVIOUS
  <2>2. QED
    BY <1>1, <1>2, <2>1
<1>10. CollectedUpTo(Collect(n, dict, a), n, k + 1)
  BY <1>5, <1>7, <1>8, <1>9 DEF CollectedUpTo
<1>11. QED
  BY <1>1, <1>10

\* after[i] is the dictionary after the first i turns of the loop.
IsLoop(after, n, k) ==
    after = [i \in 0 .. k |->
               IF i = 0 THEN <<>> ELSE Collect(n, after[i - 1], n.addrs[i])]

LEMMA LoopRuns == \A n : \A k \in Nat : \E after : IsLoop(after, n, k)
<1> SUFFICES ASSUME NEW n PROVE \A k \in Nat : \E after : IsLoop(after, n, k)
  OBVIOUS
<1> DEFINE T == {k \in Nat : \E after : IsLoop(after, n, k)}
<1>1. 0 \in T
  <2>1. IsLoop([i \in 0 .. 0 |-> <<>>], n, 0)
    BY DEF IsLoop
  <2>2. QED
    BY <2>1
<1>2. ASSUME NEW k \in Nat, NEW f, IsLoop(f, n, k)
      PROVE  \E g : IsLoop(g, n, k + 1)
  <2> DEFINE g == [i \in 0 .. k + 1 |->
                     IF i = k + 1 THEN Collect(n, f[k], n.addrs[k + 1]) ELSE f[i]]
  <2>1. ASSUME NEW i \in 0 .. k + 1
        PROVE  g[i] = IF i = 0 THEN <<>> ELSE Collect(n, g[i - 1], n.addrs[i])
    <3>1. CASE i = k + 1
      <4>1. i # 0 /\ i - 1 = k /\ k \in 0 .. k + 1 /\ k # k + 1
        BY <3>1
      <4>2. g[k] = f[k] /\ g[i] = Collect(n, f[k], n.addrs[i])
        BY <3>1, <4>1
      <4>3. QED
        BY <4>1, <4>2
    <3>2. CASE i # k + 1
      <4>1. i \in 0 .. k /\ g[i] = f[i]
        BY <3>2
      <4>2. i # 0 => i - 1 \in 0 .. k /\ g[i - 1] = f[i - 1]
        BY <4>1
      <4>3. f[i] = IF i = 0 THEN <<>> ELSE Collect(n, f[i - 1], n.addrs[i])
        BY <1>2, <4>1 DEF IsLoop
      <4>4. QED
        BY <4>1, <4>2, <4>3
    <3>3. QED
      BY <3>1, <3>2
  <2>2. g = [i \in 0 .. k + 1 |-> g[i]]
    OBVIOUS
  <2> HIDE DEF g
  <2>3. IsLoop(g, n, k + 1)
    BY <2>1, <2>2 DEF IsLoop
  <2>4. QED
    BY <2>3
<1>3. ASSUME NEW k \in Nat, k \in T PROVE k + 1 \in T
  BY <1>2, <1>3
<1>4. Nat \subseteq T
  <2> HIDE DEF T
  <2> QED
    BY <1>1, <1>3, SetInduction
<1>5. QED
  BY <1>4

\* The loop collects what the list says, whatever its length and order.
LEMMA AllCollected ==
    ASSUME NEW n, IsNet(n)
    PROVE  CollectedUpTo(Collected(n), n, Len(n.addrs))
<1> DEFINE L == Len(n.addrs)
           after == CHOOSE f : IsLoop(f, n, L)
<1>1. L \in Nat /\ DOMAIN n.addrs = 1 .. L
  BY DEF IsNet
<1>2. Collected(n) = after[L]
  BY DEF Collected, IsLoop
<1>3. IsLoop(after, n, L)
  <2> HIDE DEF L
  <2>1. QED
    BY <1>1, LoopRuns
<1> HIDE DEF after, L
<1>4. /\ after[0] = <<>>
      /\ \A i \in 1 .. L : after[i] = Collect(n, after[i - 1], n.addrs[i])
  <2>1. 0 \in 0 .. L /\ \A i \in 1 .. L : i \in 0 .. L /\ i # 0
    BY <1>1
  <2>2. QED
    BY <1>3, <2>1 DEF IsLoop
<1> DEFINE T == {k \in Nat : k <= L => CollectedUpTo(after[k], n, k)}
<1>5. 0 \in T
  <2>1. DOMAIN <<>> = {} /\ 1 .. 0 = {}
    OBVIOUS
  <2>2. CollectedUpTo(<<>>, n, 0)
    BY <2>1 DEF CollectedUpTo
  <2>3. QED
    BY <1>4, <2>2
<1>6. ASSUME NEW k \in Nat, k \in T, k + 1 <= L
      PROVE  CollectedUpTo(after[k + 1], n, k + 1)
  <2>1. k <= L /\ k + 1 \in 1 .. L /\ (k + 1) - 1 = k
    BY <1>1, <1>6
  <2>2. CollectedUpTo(after[k], n, k)
    BY <1>6, <2>1
  <2>3. after[k + 1] = Collect(n, after[k], n.addrs[k + 1])
    BY <1>4, <2>1
  <2>4. QED
    BY <1>1, <2>1, <2>2, <2>3, CollectsNext
<1>7. ASSUME NEW k \in Nat, k \in T PROVE k + 1 \in T
  BY <1>6, <1>7
<1>8. Nat \subseteq T
  <2> HIDE DEF T
  <2> QED
    BY <1>5, <1>7, SetInduction
<1>9. CollectedUpTo(after[L], n, L)
  <2>1. L \in T /\ L <= L
    BY <1>1, <1>8
  <2>2. QED
    BY <2>1
<1>10. QED
  BY <1>2, <1>9 DEF L

LEMMA ListIsDescribed ==
    ASSUME NEW n, IsNet(n)
    PROVE  Describes(Collected(n), n)
<1>1. PICK d : d = Collected(n)
  OBVIOUS
<1>2. PICK L \in Nat : DOMAIN n.addrs = 1 .. L /\ CollectedUpTo(d, n, L)
  <2>1. Len(n.addrs) \in Nat /\ DOMAIN n.addrs = 1 .. Len(n.addrs)
    BY DEF IsNet
  <2>2. QED
    BY <1>1, <2>1, AllCollected
<1>3. DOMAIN d = {a.name : a \in Range(n.addrs)}
  BY <1>2 DEF CollectedUpTo, Range
<1>4. \A name, family : PlacesUpTo(n, name, family, L) = PlacesOf(n, name, family)
  BY <1>2 DEF PlacesUpTo, PlacesOf
<1>5. \A name \in DOMAIN d : EntryUpTo(d[name], n, name, L)
  BY <1>2 DEF CollectedUpTo
<1>6. ActiveNetworkInterfaces(d) = {name \in DOMAIN d : n.media[name].active}
  <2>1. \A name \in DOMAIN d : d[name].status = MediaStatus(name, n.media[name])
    BY <1>5 DEF EntryUpTo
  <2>2. \A name : MediaStatus(name, n.media[name]).active = n.media[name].active
    BY DEF MediaStatus
  <2>3. \A name \in DOMAIN d : d[name].status.active = n.media[name].active
    BY <2>1, <2>2
  <2>4. QED
    BY <2>3 DEF ActiveNetworkInterfaces
<1>7. ASSUME NEW name \in DOMAIN d
      PROVE  /\ \A family \in {"inet", "inet6"} :
                  Lists(CopyInetAddresses(d, name, family), n,
                        PlacesOf(n, name, family))
             /\ HasMasksOfLast(d[name], n, PlacesOf(n, name, "inet"))
             /\ name \notin EthernetNames => d[name].ether = NoAddress
  BY <1>4, <1>5 DEF EntryUpTo, ListsUpTo, CopyInetAddresses
<1>8. Describes(d, n)
  BY <1>3, <1>6, <1>7 DEF Describes
<1>9. QED
  BY <1>1, <1>8

\* Every dictionary was made from a list that the loop could read to its end.
ReadToTheEnd == \A o \in 1 .. created : IsReadable(Nets[scanned[o]])

LEMMA StepReadToTheEnd ==
    TypeOK /\ ReadToTheEnd /\ [Next]_vars => ReadToTheEnd'
<1> SUFFICES ASSUME TypeOK, ReadToTheEnd, [Next]_vars PROVE ReadToTheEnd'
  OBVIOUS
<1>1. CASE UNCHANGED dicts
  BY <1>1 DEF dicts, ReadToTheEnd
<1>2. ASSUME NEW t \in Threads, Scan(t) PROVE ReadToTheEnd'
  <2>1. /\ created \in Nat /\ created + 1 \in Objects
        /\ scanned \in [Objects -> DOMAIN Nets] /\ 1 .. created \subseteq Objects
    BY <1>2, CacheAssumption DEF TypeOK, DictTypes, Scan, Objects
  <2>2. /\ created' = created + 1 /\ IsReadable(Nets[net])
        /\ scanned' = [scanned EXCEPT ![created + 1] = net]
    BY <1>2 DEF Scan
  <2>3. \A o \in 1 .. created' : o \in 1 .. created \/ o = created + 1
    BY <2>1, <2>2
  <2>4. \A o \in 1 .. created : o # created + 1
    BY <2>1
  <2>5. QED
    BY <2>1, <2>2, <2>3, <2>4 DEF ReadToTheEnd
<1>3. ASSUME ~UNCHANGED dicts PROVE \E t \in Threads : Scan(t)
  BY <1>3 DEF Next, Step, Create, ReleaseGlobal, CallCopy, CallRefresh,
     TestToRelease, LockToRelease, ReleaseCache, ForgetCache, UnlockReleased,
     TestToCreate, LockToRetain, RetainCache, StoreRetained, UnlockRetained,
     ScanCrashes, ScanFails, Publish, Return, CopyAddresses, ReleaseIfaces,
     NetworkChanges, Lock, Unlock, vars
<1>4. QED
  BY <1>1, <1>2, <1>3

\* Whatever the networks are, and whatever addresses their lists lack: a dictionary
\* that a thread got was made from a list without a null pointer the loop looks
\* behind, and describes it, each address at its place, and the right interfaces
\* active.  With a list of any other kind nobody gets one: the helper crashed.
THEOREM CopiesAlwaysDescribe == Spec => []CopiesDescribeNet
<1>1. TypeOK /\ IInv /\ Current /\ ReadToTheEnd => CopiesDescribeNet
  <2> SUFFICES ASSUME TypeOK, IInv, Current, ReadToTheEnd, ~raced, NEW o \in obtained
               PROVE  /\ IsReadable(Nets[scanned[o]])
                      /\ Describes(Collected(Nets[scanned[o]]), Nets[scanned[o]])
    BY DEF CopiesDescribeNet
  <2>1. scanned[o] \in DOMAIN Nets /\ o \in Objects
    BY DEF TypeOK, DictTypes, WorldTypes
  <2>2. IsNet(Nets[scanned[o]])
    BY <2>1, NetAssumption DEF IsNet
  <2>3. o \in 1 .. created
    BY <2>1, CacheAssumption DEF Current, IInv, Given, TypeOK, DictTypes, Objects
  <2>4. QED
    BY <2>2, <2>3, ListIsDescribed DEF ReadToTheEnd
<1>2. Init => ReadToTheEnd
  BY DEF Init, ReadToTheEnd
<1>3. IInv /\ Current /\ [Next]_vars => (IInv /\ Current)'
  BY StepInv, StepCurrent
<1>4. TypeOK /\ ReadToTheEnd /\ [Next]_vars => ReadToTheEnd'
  BY StepReadToTheEnd
<1>5. IInv => TypeOK
  BY DEF IInv
<1>6. QED
  BY <1>1, <1>2, <1>3, <1>4, <1>5, InitInv, InitCurrent, PTL DEF Spec

=============================================================================
