-------------------------- MODULE FetchLockProofs --------------------------
(***************************************************************************)
(* Proofs about FetchLock, for any number of goroutines and of keys.       *)
(*                                                                         *)
(* Mutual exclusion of holders is not inductive: it depends on the mutex   *)
(* in the map being the one that waiters and holders have read from it.    *)
(* LockInv adds that: code under l.mutex is executed by one thread at a    *)
(* time, so an entry is created once; distinct keys have distinct mutexes; *)
(* who has read a key's mutex has the one that is still in the map; and    *)
(* the mutex of a held key is locked.                                      *)
(***************************************************************************)
EXTENDS FetchLock, TLAPS

\* One thread at a time executes the code guarded by l.mutex.
MapInv == \A t \in Threads : InMap(t) => mutex = t

\* No two keys share a mutex.
EntryInv == \A j, k \in Keys : (locks[j] = locks[k] /\ locks[j] # NoMutex) => j = k

\* A thread that checked the entry knows whether it exists, and a thread
\* that read it has what is still in the map.
ReadInv == \A t \in Threads :
    /\ pc[t] = "create" => locks[key[t]] = NoMutex
    /\ pc[t] = "read" => locks[key[t]] # NoMutex
    /\ pc[t] = "lock" => lock[t] = locks[key[t]] /\ lock[t] # NoMutex
    /\ Holds(t) => lock[t] = locks[key[t]] /\ lock[t] # NoMutex

\* The mutex of a held key is locked, and no Release misses it.
HeldInv ==
    /\ \A t \in Threads : Holds(t) => lock[t] \in locked
    /\ \A t \in Threads : pc[t] # "noLock"

LockInv == TypeOK /\ MapInv /\ EntryInv /\ ReadInv /\ HeldInv /\ MutualExclusion

\* The strengthened invariant holds initially.
LEMMA InitLockInv == Init => LockInv
  BY DEF Init, LockInv, TypeOK, MapInv, EntryInv, ReadInv, HeldInv, MutualExclusion,
         Holds, InMap, NoMutex, AcquireSteps, ReleaseSteps

\* Every step of every thread preserves the strengthened invariant.
LEMMA NextLockInv == LockInv /\ [Next]_vars => LockInv'
<1> SUFFICES ASSUME LockInv, [Next]_vars
             PROVE  LockInv'
  OBVIOUS
<1> USE NoThreadAssumption DEF LockInv, TypeOK, AcquireSteps, ReleaseSteps, NoMutex
<1>1. ASSUME NEW t \in Threads, NEW k \in Keys, Acquire(t, k)
      PROVE  LockInv'
  BY <1>1 DEF Acquire, MapInv, EntryInv, ReadInv, HeldInv, MutualExclusion, Holds, InMap
<1>2. ASSUME NEW t \in Threads, LockMap(t)
      PROVE  LockInv'
  BY <1>2 DEF LockMap, MapInv, EntryInv, ReadInv, HeldInv, MutualExclusion, Holds, InMap
<1>3. ASSUME NEW t \in Threads, CheckEntry(t)
      PROVE  LockInv'
  BY <1>3 DEF CheckEntry, MapInv, EntryInv, ReadInv, HeldInv, MutualExclusion, Holds, InMap
<1>4. ASSUME NEW t \in Threads, CreateEntry(t)
      PROVE  LockInv'
  BY <1>4 DEF CreateEntry, MapInv, EntryInv, ReadInv, HeldInv, MutualExclusion, Holds, InMap
<1>5. ASSUME NEW t \in Threads, ReadEntry(t)
      PROVE  LockInv'
  BY <1>5 DEF ReadEntry, MapInv, EntryInv, ReadInv, HeldInv, MutualExclusion, Holds, InMap
<1>6. ASSUME NEW t \in Threads, LockEntry(t)
      PROVE  LockInv'
  <2>1. (TypeOK /\ MapInv /\ EntryInv /\ ReadInv)'
    <3>1. TypeOK'
      <4>1. lock[t] \in 1..allocated /\ locked \subseteq 1..allocated
        BY <1>6 DEF LockEntry, ReadInv
      <4>2. locked' \subseteq 1..allocated
        BY <1>6, <4>1 DEF LockEntry
      <4>3. QED
        BY <1>6, <4>2 DEF LockEntry
    <3>2. (MapInv /\ EntryInv)'
      BY <1>6 DEF LockEntry, MapInv, EntryInv, InMap
    <3>3. ReadInv'
      BY <1>6 DEF LockEntry, ReadInv, Holds
    <3>4. QED
      BY <3>1, <3>2, <3>3
  <2>2. HeldInv'
    BY <1>6 DEF LockEntry, HeldInv, Holds
  <2>3. ASSUME NEW u \in Threads, Holds(u)
        PROVE  key[u] # key[t]
    BY <1>6, <2>3 DEF LockEntry, ReadInv, HeldInv
  <2>4. MutualExclusion'
    BY <1>6, <2>3 DEF LockEntry, MutualExclusion, Holds
  <2>5. QED
    BY <2>1, <2>2, <2>4
<1>7. ASSUME NEW t \in Threads, Release(t)
      PROVE  LockInv'
  BY <1>7 DEF Release, MapInv, EntryInv, ReadInv, HeldInv, MutualExclusion, Holds, InMap
<1>8. ASSUME NEW t \in Threads, LockMapToRelease(t)
      PROVE  LockInv'
  BY <1>8 DEF LockMapToRelease, MapInv, EntryInv, ReadInv, HeldInv, MutualExclusion, Holds, InMap
<1>9. ASSUME NEW t \in Threads, LookupEntry(t)
      PROVE  LockInv'
  BY <1>9 DEF LookupEntry, MapInv, EntryInv, ReadInv, HeldInv, MutualExclusion, Holds, InMap
<1>10. ASSUME NEW t \in Threads, UnlockEntry(t)
       PROVE  LockInv'
  <2>1. (TypeOK /\ MapInv /\ EntryInv /\ ReadInv)'
    BY <1>10 DEF UnlockEntry, MapInv, EntryInv, ReadInv, Holds, InMap
  <2>2. ASSUME NEW u \in Threads, u # t, Holds(u)
        PROVE  lock[u] # lock[t]
    BY <1>10, <2>2 DEF UnlockEntry, EntryInv, ReadInv, MutualExclusion, Holds
  <2>3. HeldInv'
    BY <1>10, <2>2 DEF UnlockEntry, HeldInv, Holds
  <2>4. MutualExclusion'
    BY <1>10 DEF UnlockEntry, MutualExclusion, Holds
  <2>5. QED
    BY <2>1, <2>3, <2>4
<1>11. CASE UNCHANGED vars
  BY <1>11 DEF vars, MapInv, EntryInv, ReadInv, HeldInv, MutualExclusion, Holds, InMap
<1>12. QED
  BY <1>1, <1>2, <1>3, <1>4, <1>5, <1>6, <1>7, <1>8, <1>9, <1>10, <1>11 DEF Next, Step

----------------------------------------------------------------------------
(***************************************************************************)
(* The types of the lock map's state, for any threads and keys; only       *)
(* mutexes that were created are in the map and locked (fetch_lock.go      *)
(* 19-45).                                                                 *)
(***************************************************************************)
THEOREM TypeCorrect == SafetySpec => []TypeOK
<1>1. LockInv => TypeOK
  BY DEF LockInv
<1>2. QED
  BY <1>1, InitLockInv, NextLockInv, PTL DEF SafetySpec

(***************************************************************************)
(* No two goroutines ever hold the same key (fetch_lock.go 19-45).         *)
(***************************************************************************)
THEOREM MutualExclusionHolds == SafetySpec => []MutualExclusion
<1>1. LockInv => MutualExclusion
  BY DEF LockInv
<1>2. QED
  BY <1>1, InitLockInv, NextLockInv, PTL DEF SafetySpec

(***************************************************************************)
(* A Release that follows the Acquire of its key finds the key's mutex,    *)
(* and finds it locked (fetch_lock.go 33-45).                              *)
(***************************************************************************)
THEOREM ReleaseIsSafeHolds == SafetySpec => []ReleaseIsSafe
<1>1. LockInv => ReleaseIsSafe
  BY DEF LockInv, HeldInv, ReleaseIsSafe, Holds
<1>2. QED
  BY <1>1, InitLockInv, NextLockInv, PTL DEF SafetySpec

(***************************************************************************)
(* The mutex of a key is never replaced (fetch_lock.go 23-25).             *)
(***************************************************************************)
THEOREM MutexIsForeverHolds == SafetySpec => MutexIsForever
<1>1. LockInv /\ [Next]_vars =>
        [\A k \in Keys : locks[k] # NoMutex => locks'[k] = locks[k]]_vars
  <2> SUFFICES ASSUME LockInv, Next,
                      NEW k \in Keys, locks[k] # NoMutex
               PROVE  locks'[k] = locks[k]
    OBVIOUS
  <2>1. ASSUME NEW t \in Threads, CreateEntry(t)
        PROVE  locks'[k] = locks[k]
    BY <2>1 DEF CreateEntry, LockInv, TypeOK, ReadInv
  <2>2. ASSUME NEW t \in Threads, Step(t), ~CreateEntry(t)
        PROVE  locks' = locks
    BY <2>2 DEF Step, LockMap, CheckEntry, ReadEntry, LockEntry, Release,
                LockMapToRelease, LookupEntry, UnlockEntry
  <2>3. ASSUME NEW t \in Threads, NEW j \in Keys, Acquire(t, j)
        PROVE  locks' = locks
    BY <2>3 DEF Acquire
  <2>4. QED
    BY <2>1, <2>2, <2>3 DEF Next
<1>2. QED
  BY <1>1, InitLockInv, NextLockInv, PTL DEF SafetySpec, MutexIsForever

----------------------------------------------------------------------------
(***************************************************************************)
(* Refinement of the keyed mutex, safety part.                             *)
(***************************************************************************)
MutexSafety == Mutex!Init /\ [][Mutex!Next]_Mutex!vars

\* A thread that locks the key's mutex finds no holder of that key: every
\* holder of the key has the same mutex, and it is locked.
LEMMA LockedKeyIsFree ==
    ASSUME LockInv, NEW t \in Threads, LockEntry(t), NEW u \in Threads, Holds(u)
    PROVE  key[u] # key[t]
  BY DEF LockInv, LockEntry, ReadInv, HeldInv

\* Every step of the lock map is a step of the keyed mutex, or none.
LEMMA StepRefines == LockInv /\ [Next]_vars => [Mutex!Next]_Mutex!vars
<1> SUFFICES ASSUME LockInv, [Next]_vars
             PROVE  [Mutex!Next]_Mutex!vars
  OBVIOUS
<1> USE DEF LockInv, TypeOK, AcquireSteps, ReleaseSteps, status, Holds
<1>1. ASSUME NEW t \in Threads, NEW k \in Keys, Acquire(t, k)
      PROVE  Mutex!Request(t, k)
  BY <1>1 DEF Acquire, Mutex!Request
<1>2. ASSUME NEW t \in Threads, LockEntry(t)
      PROVE  Mutex!Grant(t)
  <2>1. \A u \in Threads : status[u] = "holding" => key[u] # key[t]
    BY <1>2, LockedKeyIsFree
  <2>2. status[t] = "waiting" /\ status' = [status EXCEPT ![t] = "holding"] /\ key' = key
    BY <1>2 DEF LockEntry
  <2>3. QED
    BY <2>1, <2>2 DEF Mutex!Grant
<1>3. ASSUME NEW t \in Threads, UnlockEntry(t)
      PROVE  Mutex!Free(t)
  BY <1>3 DEF UnlockEntry, Mutex!Free
<1>4. ASSUME NEW t \in Threads, Step(t), ~LockEntry(t), ~UnlockEntry(t)
      PROVE  UNCHANGED Mutex!vars
  <2>1. key' = key
    BY <1>4 DEF Step, LockMap, CheckEntry, CreateEntry, ReadEntry, Release,
                LockMapToRelease, LookupEntry
  <2>2. CASE LockMap(t) \/ CheckEntry(t) \/ CreateEntry(t) \/ ReadEntry(t)
    BY <2>1, <2>2 DEF LockMap, CheckEntry, CreateEntry, ReadEntry, Mutex!vars
  <2>3. CASE Release(t) \/ LockMapToRelease(t) \/ LookupEntry(t)
    BY <2>1, <2>3 DEF Release, LockMapToRelease, LookupEntry, ReadInv, NoMutex, Mutex!vars
  <2>4. QED
    BY <1>4, <2>2, <2>3 DEF Step
<1>5. CASE UNCHANGED vars
  BY <1>5 DEF vars, Mutex!vars
<1>6. QED
  BY <1>1, <1>2, <1>3, <1>4, <1>5 DEF Next, Mutex!Next

(***************************************************************************)
(* The lock map implements one mutex per key: every behaviour of           *)
(* fetch_lock.go is a behaviour of KeyedMutex (its safety part; the        *)
(* fairness is checked by TLC).                                            *)
(***************************************************************************)
THEOREM Refinement == SafetySpec => MutexSafety
<1>1. Init => Mutex!Init
  BY DEF Init, Mutex!Init, status, Holds, AcquireSteps
<1>2. QED
  BY <1>1, InitLockInv, NextLockInv, StepRefines, PTL DEF SafetySpec, MutexSafety
=============================================================================
