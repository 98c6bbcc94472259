----------------------------- MODULE KeyedMutex -----------------------------
(***************************************************************************)
(* What callers of repository_fetcher.FetchLock rely on: one mutex per     *)
(* key.  A caller waits for a key, is granted it when no other caller      *)
(* holds that key, and gives it back.  Callers of different keys never     *)
(* wait for one another.                                                   *)
(***************************************************************************)
CONSTANTS
    Threads,    \* the goroutines that fetch layers
    Keys        \* the keys they lock (blob sums)

VARIABLES
    status,     \* [Threads -> {"idle", "waiting", "holding"}]
    wants       \* [Threads -> Keys], the key of the thread's last request

vars == <<status, wants>>

TypeOK ==
    /\ status \in [Threads -> {"idle", "waiting", "holding"}]
    /\ wants \in [Threads -> Keys]

Init ==
    /\ status = [t \in Threads |-> "idle"]
    /\ wants \in [Threads -> Keys]

Request(t, k) ==
    /\ status[t] = "idle"
    /\ status' = [status EXCEPT ![t] = "waiting"]
    /\ wants' = [wants EXCEPT ![t] = k]

Grant(t) ==
    /\ status[t] = "waiting"
    /\ \A u \in Threads : status[u] = "holding" => wants[u] # wants[t]
    /\ status' = [status EXCEPT ![t] = "holding"]
    /\ UNCHANGED wants

Free(t) ==
    /\ status[t] = "holding"
    /\ status' = [status EXCEPT ![t] = "idle"]
    /\ UNCHANGED wants

Next == \E t \in Threads :
    \/ \E k \in Keys : Request(t, k)
    \/ Grant(t)
    \/ Free(t)

(***************************************************************************)
(* sync.Mutex hands over a contended lock, so a waiter that finds its key  *)
(* free again and again gets it; a holder always gives its key back.       *)
(***************************************************************************)
Fairness == \A t \in Threads : SF_vars(Grant(t)) /\ WF_vars(Free(t))

Spec == Init /\ [][Next]_vars /\ Fairness
=============================================================================
