----------------------------- MODULE FetchLock -----------------------------
(***************************************************************************)
(* repository_fetcher/fetch_lock.go: a lock per key, made of a map from    *)
(* keys to mutexes, guarded by a mutex of its own, and never shrunk.       *)
(*                                                                         *)
(* Acquire(key) looks the key's mutex up under l.mutex, creating it when   *)
(* the map has none, lets go of l.mutex and only then locks the key's      *)
(* mutex.  Release(key) looks it up again and unlocks it.  Each statement  *)
(* that touches shared state is a step.  The callers follow the protocol   *)
(* of Remote.fetchLayer: Acquire, work, Release of the same key.           *)
(*                                                                         *)
(* Mutex objects are numbered in the order of their allocation; number 0   *)
(* stands for a map entry that does not exist.                             *)
(***************************************************************************)
EXTENDS Naturals

CONSTANTS
    Threads,     \* goroutines that fetch layers
    Keys,        \* blob sums
    NoThread     \* the owner of l.mutex when nobody owns it

ASSUME NoThreadAssumption == NoThread \notin Threads

NoMutex == 0

VARIABLES
    pc,          \* where each thread is, named after the next statement
    key,         \* the argument of the thread's current call
    lock,        \* the local variable "lock" of the current call
    locks,       \* l.locks: the mutex object of each key
    mutex,       \* l.mutex: the thread that owns it
    allocated,   \* number of mutex objects allocated so far
    locked       \* the mutex objects that are locked

vars == <<pc, key, lock, locks, mutex, allocated, locked>>

AcquireSteps == {"acquire", "check", "create", "read", "lock"}
ReleaseSteps == {"release", "lookup", "unlock"}

\* Only mutexes that exist are ever locked: number 0 is a nil pointer.
TypeOK ==
    /\ pc \in [Threads -> {"idle", "held", "noLock"} \cup AcquireSteps \cup ReleaseSteps]
    /\ key \in [Threads -> Keys]
    /\ lock \in [Threads -> 0..allocated]
    /\ locks \in [Keys -> 0..allocated]
    /\ mutex \in Threads \cup {NoThread}
    /\ allocated \in Nat
    /\ locked \subseteq 1..allocated

Init ==
    /\ pc = [t \in Threads |-> "idle"]
    /\ key \in [Threads -> Keys]
    /\ lock = [t \in Threads |-> NoMutex]
    /\ locks = [k \in Keys |-> NoMutex]
    /\ mutex = NoThread
    /\ allocated = 0
    /\ locked = {}

----------------------------------------------------------------------------
(***************************************************************************)
(* Acquire.                                                                *)
(***************************************************************************)
Acquire(t, k) ==
    /\ pc[t] = "idle"
    /\ pc' = [pc EXCEPT ![t] = "acquire"]
    /\ key' = [key EXCEPT ![t] = k]
    /\ UNCHANGED <<lock, locks, mutex, allocated, locked>>

\* Mutant: the map is read and written without l.mutex.
LockMapUnguarded(t) ==
    /\ pc[t] = "acquire"
    /\ pc' = [pc EXCEPT ![t] = "check"]
    /\ mutex' = t
    /\ UNCHANGED <<key, lock, locks, allocated, locked>>

LockMap(t) ==
    /\ pc[t] = "acquire"
    /\ mutex = NoThread
    /\ mutex' = t
    /\ pc' = [pc EXCEPT ![t] = "check"]
    /\ UNCHANGED <<key, lock, locks, allocated, locked>>

\* Mutant: the test for the entry is the wrong way round.
CheckEntryInverted(t) ==
    /\ pc[t] = "check"
    /\ pc' = [pc EXCEPT ![t] = IF locks[key[t]] # NoMutex THEN "create" ELSE "read"]
    /\ UNCHANGED <<key, lock, locks, mutex, allocated, locked>>

CheckEntry(t) ==
    /\ pc[t] = "check"
    /\ pc' = [pc EXCEPT ![t] = IF locks[key[t]] = NoMutex THEN "create" ELSE "read"]
    /\ UNCHANGED <<key, lock, locks, mutex, allocated, locked>>

CreateEntry(t) ==
    /\ pc[t] = "create"
    /\ allocated' = allocated + 1
    /\ locks' = [locks EXCEPT ![key[t]] = allocated + 1]
    /\ pc' = [pc EXCEPT ![t] = "read"]
    /\ UNCHANGED <<key, lock, mutex, locked>>

ReadEntry(t) ==
    /\ pc[t] = "read"
    /\ lock' = [lock EXCEPT ![t] = locks[key[t]]]
    /\ mutex' = NoThread
    /\ pc' = [pc EXCEPT ![t] = "lock"]
    /\ UNCHANGED <<key, locks, allocated, locked>>

\* Mutant: a busy mutex sends the caller back to the start instead of blocking.
SpinOnEntry(t) ==
    /\ pc[t] = "lock"
    /\ IF lock[t] \in locked
         THEN pc' = [pc EXCEPT ![t] = "acquire"] /\ UNCHANGED locked
         ELSE pc' = [pc EXCEPT ![t] = "held"] /\ locked' = locked \cup {lock[t]}
    /\ UNCHANGED <<key, lock, locks, mutex, allocated>>

LockEntry(t) ==
    /\ pc[t] = "lock"
    /\ lock[t] \notin locked
    /\ locked' = locked \cup {lock[t]}
    /\ pc' = [pc EXCEPT ![t] = "held"]
    /\ UNCHANGED <<key, lock, locks, mutex, allocated>>

----------------------------------------------------------------------------
(***************************************************************************)
(* Release.  Looking the key up and letting go of l.mutex is one step: it  *)
(* reads the map and writes only the thread's own variables.               *)
(***************************************************************************)
Release(t) ==
    /\ pc[t] = "held"
    /\ pc' = [pc EXCEPT ![t] = "release"]
    /\ UNCHANGED <<key, lock, locks, mutex, allocated, locked>>

LockMapToRelease(t) ==
    /\ pc[t] = "release"
    /\ mutex = NoThread
    /\ mutex' = t
    /\ pc' = [pc EXCEPT ![t] = "lookup"]
    /\ UNCHANGED <<key, lock, locks, allocated, locked>>

\* Mutant: the entry is dropped from the map when it is released.
LookupAndForget(t) ==
    /\ pc[t] = "lookup"
    /\ lock' = [lock EXCEPT ![t] = locks[key[t]]]
    /\ locks' = [locks EXCEPT ![key[t]] = NoMutex]
    /\ mutex' = NoThread
    /\ pc' = [pc EXCEPT ![t] = IF locks[key[t]] = NoMutex THEN "noLock" ELSE "unlock"]
    /\ UNCHANGED <<key, allocated, locked>>

LookupEntry(t) ==
    /\ pc[t] = "lookup"
    /\ lock' = [lock EXCEPT ![t] = locks[key[t]]]
    /\ mutex' = NoThread
    /\ pc' = [pc EXCEPT ![t] = IF locks[key[t]] = NoMutex THEN "noLock" ELSE "unlock"]
    /\ UNCHANGED <<key, locks, allocated, locked>>

UnlockEntry(t) ==
    /\ pc[t] = "unlock"
    /\ locked' = locked \ {lock[t]}
    /\ pc' = [pc EXCEPT ![t] = "idle"]
    /\ UNCHANGED <<key, lock, locks, mutex, allocated>>

----------------------------------------------------------------------------
Step(t) ==
    \/ LockMap(t)
    \/ CheckEntry(t)
    \/ CreateEntry(t)
    \/ ReadEntry(t)
    \/ LockEntry(t)
    \/ Release(t)
    \/ LockMapToRelease(t)
    \/ LookupEntry(t)
    \/ UnlockEntry(t)

Next == \E t \in Threads : Step(t) \/ \E k \in Keys : Acquire(t, k)

(***************************************************************************)
(* A goroutine that can run does run, and Go's mutexes are starvation      *)
(* free: a waiter is handed the lock once it has waited a millisecond, so  *)
(* the two locking statements are strongly fair.  No caller is obliged to  *)
(* call Acquire.                                                           *)
(***************************************************************************)
Fairness == \A t \in Threads :
    /\ WF_vars(Step(t))
    /\ SF_vars(LockMap(t))
    /\ SF_vars(LockMapToRelease(t))
    /\ SF_vars(LockEntry(t))

SafetySpec == Init /\ [][Next]_vars

Spec == SafetySpec /\ Fairness

----------------------------------------------------------------------------
\* t is between the return of Acquire and the lock.Unlock() of Release.
Holds(t) == pc[t] \in {"held", "release", "lookup", "unlock"}

\* t is executing under l.mutex.
InMap(t) == pc[t] \in {"check", "create", "read", "lookup"}

(***************************************************************************)
(* Two goroutines never hold the same key (fetch_lock.go 19-45): the       *)
(* second waits in Acquire until the first has released it, whatever the   *)
(* order in which both look the key up and create its mutex.               *)
(***************************************************************************)
MutualExclusion == \A t, u \in Threads :
    (Holds(t) /\ Holds(u) /\ key[t] = key[u]) => t = u

(***************************************************************************)
(* Release after Acquire never fails with "no lock for key"                *)
(* (fetch_lock.go 38-40), and it unlocks a mutex that is locked (unlocking *)
(* any other aborts the process).                                          *)
(***************************************************************************)
ReleaseIsSafe == \A t \in Threads :
    /\ pc[t] # "noLock"
    /\ pc[t] = "unlock" => lock[t] \in locked

(***************************************************************************)
(* A key's mutex is never exchanged for another one once created           *)
(* (fetch_lock.go 23-25): otherwise a goroutine waiting on the old mutex   *)
(* and one locking the new one would both get the key.                     *)
(***************************************************************************)
MutexIsForever ==
    [][\A k \in Keys : locks[k] # NoMutex => locks'[k] = locks[k]]_vars

(***************************************************************************)
(* Every Acquire returns, if holders release: the per-key mutex map blocks *)
(* nobody forever.                                                         *)
(***************************************************************************)
AcquireReturns == \A t \in Threads : pc[t] = "acquire" ~> pc[t] = "held"

----------------------------------------------------------------------------
(***************************************************************************)
(* FetchLock implements the keyed mutex.  A request is the call of         *)
(* Acquire, the grant is lock.Lock(), the key is free after lock.Unlock(). *)
(***************************************************************************)
status == [t \in Threads |->
    IF pc[t] \in AcquireSteps THEN "waiting" ELSE IF Holds(t) THEN "holding" ELSE "idle"]

Mutex == INSTANCE KeyedMutex WITH wants <- key

(***************************************************************************)
(* The lock map behaves as one mutex per key, liveness included.           *)
(***************************************************************************)
ImplementsKeyedMutex == Mutex!Spec
=============================================================================
