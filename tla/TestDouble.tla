----------------------------- MODULE TestDouble -----------------------------
(***************************************************************************)
(* The test doubles of the packages, which counterfeiter generated from    *)
(* the interfaces.  All follow one pattern, and differ in their methods    *)
(* only: a method has arguments or not, results or not, and the doubles of *)
(* an older generator keep no list of invocations.  The concurrent tests   *)
(* (remote_test.go, cakeordinator_test.go) call a double from several      *)
(* goroutines while the test looks at what it recorded.                    *)
(*                                                                         *)
(* A test sets results and stubs, fields that no mutex protects, only      *)
(* while no call is running.  It may look at any time.                     *)
(***************************************************************************)
EXTENDS Integers, SequencesExt

CONSTANTS
    Callers,     \* the goroutines that call the double
    MaxCalls,    \* how many calls each of them makes
    Indices,     \* the calls, counted from 0, for which ReturnsOnCall is used
    Doubles,     \* the doubles to check
    None

ASSUME CallersAssumption ==
    /\ None \notin Callers
    /\ MaxCalls \in [Callers -> Nat]
    /\ Indices \subseteq Nat

----------------------------------------------------------------------------
(***************************************************************************)
(* The doubles: how many methods of each kind a double's struct has.  A    *)
(* getter has results only, a command arguments only, an operation both.   *)
(***************************************************************************)
Kinds == {"getter", "operation", "command"}

Recording(getters, operations, commands) ==
    [records |-> TRUE, getter |-> getters, operation |-> operations, command |-> commands]

\* A double of the older generator, which keeps no invocations.
Plain(operations) ==
    [records |-> FALSE, getter |-> 0, operation |-> operations, command |-> 0]

FakeCake == Recording(3, 9, 0)
FakeGraphDriver == Recording(3, 10, 0)
FakeConn == Recording(0, 2, 0)
FakeBackingStoreMgr == Recording(0, 2, 0)
FakeLoopMounter == Recording(0, 2, 0)
FakeRepositoryFetcher == Recording(0, 2, 0)
FakeNamespacer == Recording(1, 1, 0)
FakeTranslator == Recording(1, 1, 0)
FakeLock == Recording(0, 1, 1)
FakeRetainer == Recording(0, 0, 1)
FakeID == Recording(1, 0, 0)
FakeIDProvider == Recording(0, 1, 0)
FakeContainerIDProvider == Recording(0, 1, 0)
FakeRetrier == Recording(0, 1, 0)
FakeThreshold == Recording(0, 1, 0)
FakeAUFSDiffPathFinder == Recording(0, 1, 0)
FakeBaseSizer == Recording(0, 1, 0)
FakeDiffSizer == Recording(0, 1, 0)
FakeDialer == Recording(0, 1, 0)
FakeRemoteImageIDFetcher == Recording(0, 1, 0)
FakeVerifier == Recording(0, 1, 0)
FakeGCer == Recording(0, 1, 0)
FakeLayerCreator == Recording(0, 1, 0)
FakeMetricser == Recording(0, 1, 0)

\* The RepositoryFetcher that CakeOrdinator uses, without FetchID.
FakeFetcherOfProvider == Recording(0, 1, 0)

FakeFetcher == Plain(1)
FakeMapper == Plain(1)
FakeRemoteV1MetadataProvider == Plain(1)
FakeRemoteV2MetadataProvider == Plain(1)

AllDoubles ==
    {FakeCake, FakeGraphDriver, FakeConn, FakeBackingStoreMgr, FakeLoopMounter,
     FakeRepositoryFetcher, FakeNamespacer, FakeTranslator, FakeLock, FakeRetainer, FakeID,
     FakeIDProvider, FakeContainerIDProvider, FakeRetrier, FakeThreshold,
     FakeAUFSDiffPathFinder, FakeBaseSizer, FakeDiffSizer, FakeDialer,
     FakeRemoteImageIDFetcher, FakeVerifier, FakeGCer, FakeLayerCreator, FakeMetricser,
     FakeFetcherOfProvider, FakeFetcher, FakeMapper, FakeRemoteV1MetadataProvider,
     FakeRemoteV2MetadataProvider}

KindsOf(d) == {k \in Kinds : d[k] > 0}

\* Two methods of a double, or one: the others are not called.  Only their
\* kinds matter, so that doubles alike are checked once.
Uses ==
    UNION {{[records |-> d.records, kinds |-> <<k>>] : k \in KindsOf(d)}
           \cup {[records |-> d.records, kinds |-> p] :
                    p \in {p \in KindsOf(d) \X KindsOf(d) : p[1] # p[2] \/ d[p[1]] > 1}} :
        d \in Doubles}

----------------------------------------------------------------------------
VARIABLES
    double,       \* what is checked of which double
    stub,         \* whether XStub is set
    returns,      \* xReturns
    onCall,       \* xReturnsOnCall; None where it has no entry
    args,         \* xArgsForCall
    invocations,  \* the invocations of each method
    writer,       \* the call that has locked xMutex
    pc,           \* where each goroutine's call is
    method,       \* the method it is of
    calls,        \* the number of calls it has made
    ret,          \* ret, or None without a specificReturn
    answer,       \* what its last call returned
    looker,       \* where Invocations() is
    held,         \* the mutexes it has read-locked: 0 is invocationsMutex
    left,         \* the methods it has still to copy
    copied        \* copiedInvocations

setUp == <<stub, returns, onCall>>
records == <<args, invocations>>
caller == <<pc, method, calls, ret, answer>>
look == <<looker, held, left, copied>>
vars == <<double, stub, returns, onCall, args, invocations, writer, pc, method, calls, ret,
          answer, looker, held, left, copied>>

Used == 1..Len(double.kinds)
HasResults(m) == double.kinds[m] # "command"

\* A call is known by its goroutine and number; they stand for its arguments.
Call(c) == <<c, calls[c]>>

Init ==
    /\ double \in Uses
    /\ stub = [m \in Used |-> FALSE]
    /\ returns = [m \in Used |-> "zero"]
    /\ onCall = [m \in Used |-> [i \in Indices |-> None]]
    /\ args = [m \in Used |-> <<>>]
    /\ invocations = [m \in Used |-> <<>>]
    /\ writer = [m \in Used |-> None]
    /\ pc = [c \in Callers |-> "idle"]
    /\ method = [c \in Callers |-> 1]
    /\ calls = [c \in Callers |-> 0]
    /\ ret = [c \in Callers |-> None]
    /\ answer = [c \in Callers |-> "nothing"]
    /\ looker = "away"
    /\ held = {}
    /\ left = {}
    /\ copied = [m \in Used |-> <<>>]

Goto(c, step) == pc' = [pc EXCEPT ![c] = step]

----------------------------------------------------------------------------
(***************************************************************************)
(* The test sets the double up, before the code under test runs.  Methods  *)
(* share no results: the model sets up those of the first method used.     *)
(***************************************************************************)
BeforeCalls == \A c \in Callers : calls[c] = 0

SetStub(m) ==
    /\ BeforeCalls
    /\ stub' = [stub EXCEPT ![m] = TRUE]
    /\ UNCHANGED <<double, returns, onCall, records, writer, caller, look>>

Returns(m) ==
    /\ BeforeCalls
    /\ HasResults(m)
    /\ stub' = [stub EXCEPT ![m] = FALSE]
    /\ returns' = [returns EXCEPT ![m] = "set"]
    /\ UNCHANGED <<double, onCall, records, writer, caller, look>>

ReturnsOnCall(m, i) ==
    /\ BeforeCalls
    /\ HasResults(m)
    /\ double.records
    /\ stub' = [stub EXCEPT ![m] = FALSE]
    /\ onCall' = [onCall EXCEPT ![m][i] = "set"]
    /\ UNCHANGED <<double, returns, records, writer, caller, look>>

----------------------------------------------------------------------------
(***************************************************************************)
(* A call of a method.                                                     *)
(***************************************************************************)
StartCall(c, m) ==
    /\ pc[c] = "idle"
    /\ calls[c] < MaxCalls[c]
    /\ method' = [method EXCEPT ![c] = m]
    /\ calls' = [calls EXCEPT ![c] = @ + 1]
    /\ answer' = [answer EXCEPT ![c] = "nothing"]
    /\ Goto(c, "lock")
    /\ UNCHANGED <<double, setUp, records, writer, ret, look>>

\* What xReturnsOnCall has for call i.
Specific(m, i) == IF i \in Indices THEN onCall[m][i] ELSE None

\* Mutant: the number of the call is taken after its arguments are appended.
SpecificOfNext(c) == Specific(method[c], Len(args[method[c]]) + 1)

SpecificReturn(c) == Specific(method[c], Len(args[method[c]]))

LockMethod(c) ==
    LET m == method[c] IN
    /\ pc[c] = "lock"
    /\ writer[m] = None
    /\ m \notin held
    /\ writer' = [writer EXCEPT ![m] = c]
    /\ ret' = [ret EXCEPT ![c] = SpecificReturn(c)]
    /\ args' = [args EXCEPT ![m] = Append(@, Call(c))]
    /\ Goto(c, IF double.records THEN "record" ELSE "unlock")
    /\ UNCHANGED <<double, setUp, invocations, method, calls, answer, look>>

\* invocationsMutex is locked and unlocked within this step.
RecordInvocation(c) ==
    /\ pc[c] = "record"
    /\ 0 \notin held
    /\ invocations' = [invocations EXCEPT ![method[c]] = Append(@, Call(c))]
    /\ Goto(c, "unlock")
    /\ UNCHANGED <<double, setUp, args, writer, method, calls, ret, answer, look>>

\* Mutant: the mutex is still locked while the stub runs.
UnlockAfterStub(c) ==
    /\ pc[c] = "unlock"
    /\ writer' = IF stub[method[c]] THEN writer ELSE [writer EXCEPT ![method[c]] = None]
    /\ Goto(c, "answer")
    /\ UNCHANGED <<double, setUp, records, method, calls, ret, answer, look>>

UnlockMethod(c) ==
    /\ pc[c] = "unlock"
    /\ writer' = [writer EXCEPT ![method[c]] = None]
    /\ Goto(c, "answer")
    /\ UNCHANGED <<double, setUp, records, method, calls, ret, answer, look>>

ReturnValue(c) ==
    CASE ~HasResults(method[c]) -> "nothing"
      [] HasResults(method[c]) /\ ret[c] # None -> ret[c]
      [] OTHER -> returns[method[c]]

Return(c) ==
    /\ pc[c] = "answer"
    /\ ~stub[method[c]]
    /\ answer' = [answer EXCEPT ![c] = ReturnValue(c)]
    /\ Goto(c, "idle")
    /\ UNCHANGED <<double, setUp, records, writer, method, calls, ret, look>>

CallStub(c) ==
    /\ pc[c] = "answer"
    /\ stub[method[c]]
    /\ Goto(c, "stub")
    /\ UNCHANGED <<double, setUp, records, writer, method, calls, ret, answer, look>>

\* A stub asks the double how often it was called (retryable_test.go:43), which
\* takes the read lock.
CallCount(c) ==
    /\ pc[c] = "stub"
    /\ writer[method[c]] = None
    /\ answer' = [answer EXCEPT ![c] = "stub"]
    /\ Goto(c, "idle")
    /\ UNCHANGED <<double, setUp, records, writer, method, calls, ret, look>>

----------------------------------------------------------------------------
(***************************************************************************)
(* The test looks.  CallCount and ArgsForCall read one list under its read *)
(* lock and change nothing.  Invocations() read-locks invocationsMutex,    *)
(* then every method's mutex, and copies the lists one by one.             *)
(***************************************************************************)
Look ==
    /\ double.records
    /\ looker = "away"
    /\ copied # args
    /\ looker' = "locking"
    /\ UNCHANGED <<double, setUp, records, writer, caller, held, left, copied>>

\* Mutant: Invocations() copies without any lock.
LookLockNothing(m) ==
    /\ looker = "locking"
    /\ looker' = "copying"
    /\ left' = Used
    /\ UNCHANGED <<double, setUp, records, writer, caller, held, copied>>

LookLock(m) ==
    /\ looker = "locking"
    /\ held = 0..(m - 1)
    /\ m \in Used => writer[m] = None
    /\ held' = held \cup {m}
    /\ IF m = Len(double.kinds)
         THEN looker' = "copying" /\ left' = Used
         ELSE UNCHANGED <<looker, left>>
    /\ UNCHANGED <<double, setUp, records, writer, caller, copied>>

LookCopy(m) ==
    /\ looker = "copying"
    /\ m \in left
    /\ left' = left \ {m}
    /\ copied' = [copied EXCEPT ![m] = invocations[m]]
    /\ UNCHANGED <<double, setUp, records, writer, caller, looker, held>>

LookAway ==
    /\ looker = "copying"
    /\ left = {}
    /\ looker' = "away"
    /\ held' = {}
    /\ UNCHANGED <<double, setUp, records, writer, caller, left, copied>>

----------------------------------------------------------------------------
CallStep(c) ==
    \/ LockMethod(c)
    \/ RecordInvocation(c)
    \/ UnlockMethod(c)
    \/ Return(c)
    \/ CallStub(c)
    \/ CallCount(c)

LookStep ==
    \/ \E m \in {0} \cup Used : LookLock(m)
    \/ \E m \in Used : LookCopy(m)
    \/ LookAway

Next ==
    \/ SetStub(1)
    \/ Returns(1)
    \/ \E i \in Indices : ReturnsOnCall(1, i)
    \/ \E c \in Callers :
        \/ \E m \in Used : StartCall(c, m)
        \/ CallStep(c)
    \/ Look
    \/ LookStep

Spec == Init /\ [][Next]_vars

\* Goroutines that can run do run.
Fairness == (\A c \in Callers : WF_vars(CallStep(c))) /\ WF_vars(LookStep)

FairSpec == Spec /\ Fairness

----------------------------------------------------------------------------
(***************************************************************************)
(* What tests rely on.                                                     *)
(***************************************************************************)

\* The copy Invocations() returns is of one instant: a call it holds is there
\* with all the calls the same goroutine made before, to any method.
CopyIsOfOneInstant ==
    looker = "away" =>
        LET seen == UNION {Range(copied[m]) : m \in Used}
        IN  \A call \in seen : \A n \in 1..call[2] : <<call[1], n>> \in seen

\* What the call at position i of xArgsForCall has to return, from what the
\* test has set up.
Expected(m, i) ==
    CASE stub[m] -> "stub"
      [] ~stub[m] /\ ~HasResults(m) -> "nothing"
      [] ~stub[m] /\ HasResults(m) /\ Specific(m, i) # None -> Specific(m, i)
      [] OTHER -> returns[m]

\* A call returns what was set up for its own place in xArgsForCall, also when
\* others call the method between its recording and its return.
AnswersAsSetUp ==
    [][\A c \in Callers : (pc[c] # "idle" /\ pc'[c] = "idle") =>
          \E i \in 1..Len(args[method[c]]) :
              /\ args[method[c]][i] = Call(c)
              /\ answer'[c] = Expected(method[c], i - 1)]_vars

\* Invocations() holds invocationsMutex and waits for a method whose call waits
\* for invocationsMutex: the two take the locks in opposite orders.
Crossed ==
    \E c \in Callers : pc[c] = "record" /\ 0 \in held /\ method[c] \notin held

\* A call of a double returns, its stub asking for the count included, unless
\* Invocations() came between its two locks and the two wait for each other.
CallsReturn ==
    \A c \in Callers : pc[c] # "idle" ~> (pc[c] = "idle" \/ Crossed)
=============================================================================
