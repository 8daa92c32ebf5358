--------------------------- MODULE InterfaceCache ---------------------------
(***************************************************************************)
(* The cached dictionary of HelperTool/SCNetworkAddition.c: one global     *)
(* pointer, a spin lock, and reference counts kept by hand.  The pointer   *)
(* is tested, stored by the creator and read for the result without the    *)
(* lock.                                                                   *)
(*                                                                         *)
(* Threads are the XPC queues of the helper, one per connection, that call *)
(* startSniffingAuthorization:; the program itself never calls             *)
(* SCNetworkInterfaceInetAddressesRefresh, which the header offers.        *)
(***************************************************************************)
EXTENDS InterfaceList

CONSTANTS
    Threads,    \* the threads that call
    NoThread,   \* the lock is free
    Nets,       \* the networks getifaddrs may describe, a sequence
    Refreshes,  \* bound: calls of ...Refresh
    Calls,      \* bound: calls of a thread
    Changes,    \* bound: the last network of Nets that changes into another
    Failures,   \* bound: calls of getifaddrs that fail
    MaxObjects  \* bound: dictionaries created

ASSUME CacheAssumption ==
    /\ IsFiniteSet(Threads) /\ NoThread \notin Threads
    /\ Nets \in Seq(Range(Nets)) /\ Nets # <<>>
    /\ Refreshes \in Nat /\ Calls \in Nat /\ Changes \in Nat /\ Failures \in Nat
    /\ MaxObjects \in Nat

\* Each network is described by a list.
ASSUME NetAssumption ==
    \A i \in DOMAIN Nets : Nets[i].addrs \in Seq(Range(Nets[i].addrs))

\* The dictionaries, numbered in the order of their creation.
Objects == 1 .. MaxObjects

Null == 0

VARIABLES
    cache,      \* _SCNANetworkInterfaceAddresses
    lock,       \* _SCNADataLock
    refs,       \* reference count of each dictionary; 0: none, or deallocated
    scanned,    \* the network described by each dictionary
    created,    \* number of dictionaries created
    pc,         \* where each thread is
    ifaces,     \* its local variable, in whatever function it is
    refreshing, \* is it in ...Refresh?
    net,        \* the network now, an index of Nets
    fault,      \* what made the process crash
    raced,      \* history: was the cache written while another thread was at it?
    epoch,      \* history: the network when the last refresh was called
    obtained,   \* history: the dictionaries returned to callers since then
    budget      \* what is left of the bounds

dicts == <<scanned, created>>
memory == <<refs, fault>>
locals == <<ifaces, refreshing>>
world == <<net, epoch, obtained, budget>>
vars == <<cache, lock, pc, raced, dicts, memory, locals, world>>

Init ==
    /\ cache = Null /\ lock = NoThread
    /\ refs = [o \in Objects |-> 0]
    /\ scanned = [o \in Objects |-> 1]
    /\ created = 0
    /\ pc = [t \in Threads |-> "idle"]
    /\ ifaces = [t \in Threads |-> Null]
    /\ refreshing = [t \in Threads |-> FALSE]
    /\ net = 1 /\ fault = "none" /\ raced = FALSE /\ epoch = 1 /\ obtained = {}
    /\ budget = [calls |-> [t \in Threads |-> Calls], refreshes |-> Refreshes,
                 failures |-> Failures]

-----------------------------------------------------------------------------
At(t, place) == fault = "none" /\ pc[t] = place

Goto(t, place) == pc' = [pc EXCEPT ![t] = place]

\* CFRetain and CFRelease crash on NULL; on a deallocated object they may.
FaultOf(o) ==
    IF o = Null THEN "null" ELSE IF refs[o] = 0 THEN "deallocated" ELSE "none"

Retain(o) ==
    /\ fault' = FaultOf(o)
    /\ refs' = IF FaultOf(o) = "none" THEN [refs EXCEPT ![o] = @ + 1] ELSE refs

Release(o) ==
    /\ fault' = FaultOf(o)
    /\ refs' = IF FaultOf(o) = "none" THEN [refs EXCEPT ![o] = @ - 1] ELSE refs

Lock(t, from, to) ==
    /\ At(t, from) /\ lock = NoThread
    /\ lock' = t
    /\ Goto(t, to)
    /\ UNCHANGED <<cache, dicts, memory, locals, world>>

Unlock(t, from, to) ==
    /\ At(t, from)
    /\ lock' = NoThread
    /\ Goto(t, to)
    /\ UNCHANGED <<cache, dicts, memory, locals, world>>

-----------------------------------------------------------------------------
(***************************************************************************)
(* _SCNANetworkInterfaceAddressesRelease, and its caller.                  *)
(***************************************************************************)

\* Mutant: the old dictionary is kept.
Mut_RefreshFrom == "create"

\* Where ...Refresh begins.
RefreshFrom == "release"

CallRefresh(t) ==
    /\ At(t, "idle") /\ budget.refreshes > 0
    /\ Goto(t, RefreshFrom)
    /\ refreshing' = [refreshing EXCEPT ![t] = TRUE]
    /\ budget' = [budget EXCEPT !.refreshes = @ - 1]
    /\ epoch' = net /\ obtained' = {}
    /\ UNCHANGED <<cache, lock, ifaces, net, dicts, memory>>

\* if (_SCNANetworkInterfaceAddresses), without the lock
TestToRelease(t) ==
    /\ At(t, "release")
    /\ Goto(t, IF cache # Null THEN "lock to release" ELSE "create")
    /\ UNCHANGED <<cache, lock, dicts, memory, locals, world>>

LockToRelease(t) == Lock(t, "lock to release", "releasing")

ReleaseCache(t) ==
    /\ At(t, "releasing")
    /\ Release(cache)
    /\ Goto(t, "forget")
    /\ UNCHANGED <<cache, lock, dicts, locals, world>>

\* Mutant: the pointer is left dangling.
Mut_Forgotten == cache

Forgotten == Null

ForgetCache(t) ==
    /\ At(t, "forget")
    /\ cache' = Forgotten
    /\ Goto(t, "unlock released")
    /\ UNCHANGED <<lock, dicts, memory, locals, world>>

UnlockReleased(t) == Unlock(t, "unlock released", "create")

-----------------------------------------------------------------------------
(***************************************************************************)
(* _SCNANetworkInterfaceAddressesCreate                                    *)
(***************************************************************************)
CallCopy(t) ==
    /\ At(t, "idle") /\ budget.calls[t] > 0
    /\ Goto(t, "create")
    /\ budget' = [budget EXCEPT !.calls[t] = @ - 1]
    /\ UNCHANGED <<cache, lock, net, epoch, obtained, dicts, memory, locals>>

\* NULL != _SCNANetworkInterfaceAddresses, without the lock
IsCached == cache # Null

TestToCreate(t) ==
    /\ At(t, "create")
    /\ Goto(t, IF IsCached THEN "lock to retain" ELSE "scan")
    /\ UNCHANGED <<cache, lock, dicts, memory, locals, world>>

LockToRetain(t) == Lock(t, "lock to retain", "retain")

RetainCache(t) ==
    /\ At(t, "retain")
    /\ ifaces' = [ifaces EXCEPT ![t] = cache]
    /\ Retain(cache)
    /\ Goto(t, "store retained")
    /\ UNCHANGED <<cache, lock, refreshing, dicts, world>>

\* The assignment of CFRetain's result back to the global variable.
StoreRetained(t) ==
    /\ At(t, "store retained")
    /\ cache' = ifaces[t]
    /\ Goto(t, "unlock retained")
    /\ UNCHANGED <<lock, dicts, memory, locals, world>>

\* Mutant: an early return keeps the lock.
Mut_UnlockRetained(t) ==
    /\ At(t, "unlock retained")
    /\ Goto(t, "return")
    /\ UNCHANGED <<cache, lock, dicts, memory, locals, world>>

UnlockRetained(t) == Unlock(t, "unlock retained", "return")

\* getifaddrs, and the copy made of what it returns.
Scan(t) ==
    /\ At(t, "scan") /\ created < MaxObjects
    /\ IsReadable(Nets[net])
    /\ created' = created + 1
    /\ scanned' = [scanned EXCEPT ![created + 1] = net]
    /\ ifaces' = [ifaces EXCEPT ![t] = created + 1]
    /\ Goto(t, "publish")
    /\ UNCHANGED <<cache, lock, refreshing, memory, world>>

\* An element lacks an address that the loop dereferences: the helper ends.
ScanCrashes(t) ==
    /\ At(t, "scan") /\ ~IsReadable(Nets[net])
    /\ fault' = "no address"
    /\ UNCHANGED <<cache, lock, pc, refs, dicts, locals, world>>

\* Nothing looks at the result of getifaddrs.  When it fails, array is NULL, or
\* what happened to be in that uninitialized variable.
ScanFails(t) ==
    /\ At(t, "scan") /\ budget.failures > 0
    /\ budget' = [budget EXCEPT !.failures = @ - 1]
    /\ \/ /\ ifaces' = [ifaces EXCEPT ![t] = Null]
          /\ Goto(t, "idle")
          /\ refreshing' = [refreshing EXCEPT ![t] = FALSE]
          /\ UNCHANGED fault
       \/ /\ fault' = "garbage"
          /\ UNCHANGED <<pc, locals>>
    /\ UNCHANGED <<cache, lock, refs, net, epoch, obtained, dicts>>

\* Mutant: a new dictionary is returned with one reference, the cache's.
Mut_FirstReferences == 1

\* One of CFDictionaryCreateCopy and one of CFRetain: the cache's, the caller's.
FirstReferences == 2

Publish(t) ==
    /\ At(t, "publish")
    /\ refs' = [refs EXCEPT ![ifaces[t]] = FirstReferences]
    /\ cache' = ifaces[t]
    /\ Goto(t, "return")
    /\ UNCHANGED <<lock, fault, dicts, locals, world>>

\* return _SCNANetworkInterfaceAddresses: the global variable is read again.
Return(t) ==
    /\ At(t, "return")
    /\ ifaces' = [ifaces EXCEPT ![t] = cache]
    /\ Goto(t, CASE cache = Null -> "idle"
                 [] cache # Null /\ refreshing[t] -> "done"
                 [] cache # Null /\ ~refreshing[t] -> "copy")
    /\ refreshing' = [refreshing EXCEPT ![t] = @ /\ cache # Null]
    /\ obtained' = obtained \cup ({cache} \ {Null})
    /\ UNCHANGED <<cache, lock, net, epoch, budget, dicts, memory>>

-----------------------------------------------------------------------------
(***************************************************************************)
(* What the callers do with the result.                                    *)
(***************************************************************************)

\* SCNetworkInterfaceCopyAllAddresses copies the dictionary, or
\* ...CopyInetAddresses a part of it.
CopyAddresses(t) ==
    /\ At(t, "copy")
    /\ fault' = FaultOf(ifaces[t])
    /\ Goto(t, "done")
    /\ UNCHANGED <<cache, lock, refs, dicts, locals, world>>

ReleaseIfaces(t) ==
    /\ At(t, "done")
    /\ Release(ifaces[t])
    /\ ifaces' = [ifaces EXCEPT ![t] = Null]
    /\ refreshing' = [refreshing EXCEPT ![t] = FALSE]
    /\ Goto(t, "idle")
    /\ UNCHANGED <<cache, lock, dicts, world>>

\* Addresses come and go: the network becomes another of those that follow.
NetworkChanges ==
    /\ fault = "none" /\ net <= Changes
    /\ net' \in net + 1 .. Len(Nets)
    /\ UNCHANGED <<cache, lock, pc, epoch, obtained, budget, dicts, memory, locals>>

-----------------------------------------------------------------------------
Create(t) ==
    \/ TestToCreate(t) \/ LockToRetain(t) \/ RetainCache(t) \/ StoreRetained(t)
    \/ UnlockRetained(t) \/ Scan(t) \/ ScanCrashes(t) \/ ScanFails(t)
    \/ Publish(t) \/ Return(t)

ReleaseGlobal(t) ==
    \/ TestToRelease(t) \/ LockToRelease(t) \/ ReleaseCache(t) \/ ForgetCache(t)
    \/ UnlockReleased(t)

Step(t) == Create(t) \/ ReleaseGlobal(t) \/ CopyAddresses(t) \/ ReleaseIfaces(t)

\* A thread that is about to change the pointer, because it found it NULL or
\* because it was asked to; and one that is between its own test and its result.
\* A caller that holds a dictionary (at "copy" or "done") is in neither.
Writing(t) ==
    pc[t] \in {"scan", "publish", "release", "lock to release", "releasing",
               "forget", "unlock released"}

Inside(t) == pc[t] \notin {"idle", "copy", "done"}

Conflict == \E t, u \in Threads : t # u /\ Writing(t) /\ Inside(u)

Next ==
    /\ \/ \E t \in Threads : CallCopy(t) \/ CallRefresh(t) \/ Step(t)
       \/ NetworkChanges
    /\ raced' = (raced \/ Conflict')

Spec == Init /\ [][Next]_vars

\* Threads run on, and getifaddrs returns.  The lock is a spin lock that is not
\* fair, but there are finitely many calls.
FairSpec == Spec /\ \A t \in Threads : WF_vars(Next /\ Step(t))

-----------------------------------------------------------------------------
Places ==
    {"idle", "release", "lock to release", "releasing", "forget",
     "unlock released", "create", "lock to retain", "retain", "store retained",
     "unlock retained", "scan", "publish", "return", "copy", "done"}

\* Where a thread has the lock.
Locked ==
    {"releasing", "forget", "unlock released", "retain", "store retained",
     "unlock retained"}

Budgets == [calls : [Threads -> 0 .. Calls], refreshes : 0 .. Refreshes,
            failures : 0 .. Failures]

SharedTypes ==
    /\ cache \in Objects \cup {Null} /\ lock \in Threads \cup {NoThread}
    /\ refs \in [Objects -> Nat] /\ raced \in BOOLEAN
    /\ fault \in {"none", "null", "deallocated", "garbage", "no address"}

DictTypes == scanned \in [Objects -> DOMAIN Nets] /\ created \in 0 .. MaxObjects

LocalTypes ==
    /\ ifaces \in [Threads -> Objects \cup {Null}]
    /\ refreshing \in [Threads -> BOOLEAN]

WorldTypes ==
    /\ net \in DOMAIN Nets /\ epoch \in DOMAIN Nets /\ obtained \subseteq Objects
    /\ budget \in Budgets

LockOwned ==
    /\ pc \in [Threads -> Places]
    /\ \A t \in Threads : lock = t <=> pc[t] \in Locked

\* The types; and the lock belongs to the thread that is in a locked place.
TypeOK == SharedTypes /\ DictTypes /\ LocalTypes /\ WorldTypes /\ LockOwned

\* The threads that own a reference to o: they retained it, or published it, and
\* have not released it.
Owners(o) ==
    {t \in Threads :
        /\ pc[t] \in {"store retained", "unlock retained", "return", "copy",
                     "done"}
        /\ ifaces[t] = o}

\* The cache owns one, until ReleaseCache and before it is forgotten.
OwnedByCache(o) == cache = o /\ ~\E t \in Threads : pc[t] = "forget"

\* The reference count of every dictionary is the number of those who own it,
\* the cache included: nothing leaks and nothing is released too early, though
\* the result is read from the global variable and not from what was retained.
\* Holds while no thread changes the pointer with another inside.
RefsAreOwners ==
    fault = "none" /\ ~raced =>
        \A o \in Objects :
            refs[o] = Cardinality(Owners(o)) + (IF OwnedByCache(o) THEN 1 ELSE 0)

\* Unless threads raced, the process does not touch a deallocated dictionary, or
\* take NULL for one: not even a caller that still reads a dictionary when a refresh has
\* replaced it.
NoDanglingUse == fault \in {"null", "deallocated"} => raced

\* Callers get the same dictionary until the next refresh, so the copies made for
\* one start, the first to choose the interfaces and one more for the addresses
\* of each, agree; and after a refresh they get one that is not older than it.
CopiesAgree ==
    ~raced =>
        /\ \A o, p \in obtained : o = p
        /\ \A o \in obtained : scanned[o] >= epoch

\* What callers copy describes a network that was there, and only one whose list
\* the loop could read to its end.  Not so when threads race: two that scan at once
\* share the static buffers of inet_ntoa and inet_ntop, and an address of one may
\* get into the dictionary of the other.
CopiesDescribeNet ==
    ~raced =>
        \A o \in obtained :
            /\ IsReadable(Nets[scanned[o]])
            /\ Describes(Collected(Nets[scanned[o]]), Nets[scanned[o]])

Waiting(t) == pc[t] \in {"lock to retain", "lock to release"}

\* A thread that waits for the lock gets it: nobody keeps it, on no path.
LockIsReleased ==
    \A t \in Threads : Waiting(t) ~> ~Waiting(t) \/ fault # "none"

=============================================================================
