-------------------------- MODULE TestDoubleProofs --------------------------
(***************************************************************************)
(* Proofs about TestDouble, for any number of goroutines and calls, and    *)
(* for the doubles of any interface.                                       *)
(***************************************************************************)
EXTENDS TestDouble, TLAPS

\* The calls a goroutine has entered into the list of invocations.
Entered(c) == IF pc[c] \in {"lock", "record"} THEN calls[c] - 1 ELSE calls[c]

\* TestDouble's own types, as far as the proofs need them.
Types ==
    /\ Len(double.kinds) \in Nat
    /\ pc \in [Callers -> {"idle", "lock", "record", "unlock", "answer", "stub"}]
    /\ method \in [Callers -> Used]
    /\ calls \in [Callers -> Nat]
    /\ args \in [Used -> Seq(Callers \X Nat)]
    /\ invocations \in [Used -> Seq(Callers \X Nat)]
    /\ copied \in [Used -> Seq(Callers \X Nat)]
    /\ ret = [c \in Callers |-> ret[c]]
    /\ answer = [c \in Callers |-> answer[c]]

\* A call is under way only after it has been counted, so the test sets nothing
\* up meanwhile; a double that records nothing never looks.
CallInv ==
    /\ \A c \in Callers : pc[c] # "idle" => calls[c] > 0
    /\ \A c \in Callers : pc[c] = "record" => double.records
    /\ \A c \in Callers : pc[c] = "stub" => stub[method[c]]
    /\ looker # "away" => double.records

\* A call that has locked its method knows its own place among the arguments.
PlaceInv == \A c \in Callers : pc[c] \in {"record", "unlock", "answer", "stub"} =>
    \E i \in 1..Len(args[method[c]]) :
        args[method[c]][i] = Call(c) /\ ret[c] = Specific(method[c], i - 1)

\* The invocations are the calls entered so far, all of them and no others.
Recorded == UNION {Range(invocations[m]) : m \in Used}

RecordInv == double.records =>
    \A c \in Callers, n \in Nat : <<c, n>> \in Recorded <=> n \in 1..Entered(c)

\* While the lists are copied nobody enters a call, and what has been copied
\* is what there is.
LookInv ==
    looker = "copying" =>
        0 \in held /\ \A m \in Used \ left : copied[m] = invocations[m]

\* What Invocations() has copied.
Seen == UNION {Range(copied[m]) : m \in Used}

DoubleInv ==
    /\ Types
    /\ CallInv
    /\ PlaceInv
    /\ RecordInv
    /\ LookInv
    /\ CopyIsOfOneInstant

\* Every double that is checked has at least one method.
LEMMA UsesHaveMethods ==
    ASSUME NEW d \in Uses
    PROVE  Len(d.kinds) \in Nat \ {0}
<1>1. \/ \E e \in Doubles : \E p \in KindsOf(e) \X KindsOf(e) :
           d = [records |-> e.records, kinds |-> p]
      \/ \E e \in Doubles : \E k \in KindsOf(e) :
           d = [records |-> e.records, kinds |-> <<k>>]
  BY DEF Uses
<1>2. (\E a, b : d.kinds = <<a, b>>) \/ (\E a : d.kinds = <<a>>)
  BY <1>1
<1>3. ASSUME NEW a, NEW b, d.kinds = <<a, b>> PROVE Len(d.kinds) = 2
  BY <1>3
<1>4. ASSUME NEW a, d.kinds = <<a>> PROVE Len(d.kinds) = 1
  BY <1>4
<1> QED
  BY <1>2, <1>3, <1>4

\* Appending to a list adds one member to it.
LEMMA AppendRange ==
    ASSUME NEW S, NEW s \in Seq(S), NEW e \in S
    PROVE  Range(Append(s, e)) = Range(s) \cup {e}
<1>1. /\ DOMAIN Append(s, e) = 1..(Len(s) + 1) /\ DOMAIN s = 1..Len(s) /\ Len(s) \in Nat
      /\ \A i \in 1..Len(s) : Append(s, e)[i] = s[i]
      /\ Append(s, e)[Len(s) + 1] = e
  OBVIOUS
<1>2. 1..(Len(s) + 1) = 1..Len(s) \cup {Len(s) + 1}
  BY <1>1
<1> QED
  BY <1>1, <1>2 DEF Range

\* CopyIsOfOneInstant, before and after a step, in terms of Seen.
LEMMA SeenWhole ==
    /\ CopyIsOfOneInstant <=> (looker = "away" =>
         \A call \in Seen : \A n \in 1..call[2] : <<call[1], n>> \in Seen)
    /\ CopyIsOfOneInstant' <=> (looker' = "away" =>
         \A call \in Seen' : \A n \in 1..call[2] : <<call[1], n>> \in Seen')
  BY DEF CopyIsOfOneInstant, Seen

\* Every step keeps the types.
LEMMA NextTypes == DoubleInv /\ [Next]_vars => Types'
<1> SUFFICES ASSUME DoubleInv, [Next]_vars
             PROVE  Types'
  OBVIOUS
<1> USE CallersAssumption DEF DoubleInv, Types, Used, Call, Goto, setUp, records,
   caller, look
<1>1. CASE SetStub(1)
  BY <1>1 DEF SetStub
<1>2. CASE Returns(1)
  BY <1>2 DEF Returns
<1>3. ASSUME NEW i \in Indices, ReturnsOnCall(1, i) PROVE Types'
  BY <1>3 DEF ReturnsOnCall
<1>4. ASSUME NEW c \in Callers, NEW m \in Used, StartCall(c, m) PROVE Types'
  <2>1. Used' = Used /\ m \in Used /\ 1 \in Nat
    BY <1>4 DEF StartCall
  <2> HIDE DEF Used
  <2>2. pc' \in [Callers -> {"idle", "lock", "record", "unlock", "answer", "stub"}]
    BY <1>4 DEF StartCall
  <2>3. method' \in [Callers -> Used] /\ answer' = [d \in Callers |-> answer'[d]]
    BY <1>4, <2>1 DEF StartCall
  <2>4. calls' \in [Callers -> Nat]
    BY <1>4 DEF StartCall
  <2> QED
    BY <1>4, <2>1, <2>2, <2>3, <2>4 DEF StartCall
<1>5. ASSUME NEW c \in Callers, LockMethod(c) PROVE Types'
  <2>1. Used' = Used /\ method[c] \in Used
    BY <1>5 DEF LockMethod
  <2>2. Call(c) \in Callers \X Nat
    OBVIOUS
  <2> HIDE DEF Used, Call
  <2>3. args' \in [Used -> Seq(Callers \X Nat)]
    BY <1>5, <2>1, <2>2 DEF LockMethod
  <2>4. pc' \in [Callers -> {"idle", "lock", "record", "unlock", "answer", "stub"}]
    BY <1>5 DEF LockMethod
  <2>5. ret' = [d \in Callers |-> ret'[d]]
    BY <1>5 DEF LockMethod
  <2> QED
    BY <1>5, <2>1, <2>3, <2>4, <2>5 DEF LockMethod
<1>6. ASSUME NEW c \in Callers, RecordInvocation(c) PROVE Types'
  BY <1>6 DEF RecordInvocation
<1>7. ASSUME NEW c \in Callers, UnlockMethod(c) PROVE Types'
  BY <1>7 DEF UnlockMethod
<1>8. ASSUME NEW c \in Callers, Return(c) PROVE Types'
  BY <1>8 DEF Return
<1>9. ASSUME NEW c \in Callers, CallStub(c) PROVE Types'
  BY <1>9 DEF CallStub
<1>10. ASSUME NEW c \in Callers, CallCount(c) PROVE Types'
  BY <1>10 DEF CallCount
<1>11. CASE Look
  BY <1>11 DEF Look
<1>12. ASSUME NEW m \in {0} \cup Used, LookLock(m) PROVE Types'
  BY <1>12 DEF LookLock
<1>13. ASSUME NEW m \in Used, LookCopy(m) PROVE Types'
  BY <1>13 DEF LookCopy
<1>14. CASE LookAway
  BY <1>14 DEF LookAway
<1>15. CASE UNCHANGED vars
  BY <1>15 DEF vars
<1> QED
  BY <1>1, <1>2, <1>3, <1>4, <1>5, <1>6, <1>7, <1>8, <1>9, <1>10, <1>11, <1>12,
     <1>13, <1>14, <1>15 DEF Next, CallStep, LookStep

\* Every step keeps what is known of a call under way: the test sets nothing up
\* while one is.
LEMMA NextCallInv == DoubleInv /\ [Next]_vars => CallInv'
<1> SUFFICES ASSUME DoubleInv, [Next]_vars
             PROVE  CallInv'
  OBVIOUS
<1> USE CallersAssumption DEF DoubleInv, Types, CallInv, BeforeCalls, Used, Goto,
   setUp, records, caller, look
<1>1. CASE SetStub(1)
  <2>1. \A c \in Callers : pc[c] = "idle"
    BY <1>1 DEF SetStub
  <2> QED
    BY <1>1, <2>1 DEF SetStub
<1>2. CASE Returns(1)
  <2>1. \A c \in Callers : pc[c] = "idle"
    BY <1>2 DEF Returns
  <2> QED
    BY <1>2, <2>1 DEF Returns
<1>3. ASSUME NEW i \in Indices, ReturnsOnCall(1, i) PROVE CallInv'
  <2>1. \A c \in Callers : pc[c] = "idle"
    BY <1>3 DEF ReturnsOnCall
  <2> QED
    BY <1>3, <2>1 DEF ReturnsOnCall
<1>4. ASSUME NEW c \in Callers, NEW m \in Used, StartCall(c, m) PROVE CallInv'
  <2>1. \A d \in Callers \ {c} : pc'[d] = pc[d] /\ calls'[d] = calls[d] /\ method'[d] = method[d]
    BY <1>4 DEF StartCall
  <2>2. pc'[c] = "lock" /\ calls'[c] > 0
    BY <1>4 DEF StartCall
  <2>3. UNCHANGED <<double, stub, looker>>
    BY <1>4 DEF StartCall
  <2> QED
    BY <2>1, <2>2, <2>3
<1>5. ASSUME NEW c \in Callers, LockMethod(c) PROVE CallInv'
  BY <1>5 DEF LockMethod
<1>6. ASSUME NEW c \in Callers, RecordInvocation(c) PROVE CallInv'
  BY <1>6 DEF RecordInvocation
<1>7. ASSUME NEW c \in Callers, UnlockMethod(c) PROVE CallInv'
  BY <1>7 DEF UnlockMethod
<1>8. ASSUME NEW c \in Callers, Return(c) PROVE CallInv'
  BY <1>8 DEF Return
<1>9. ASSUME NEW c \in Callers, CallStub(c) PROVE CallInv'
  BY <1>9 DEF CallStub
<1>10. ASSUME NEW c \in Callers, CallCount(c) PROVE CallInv'
  BY <1>10 DEF CallCount
<1>11. CASE Look
  BY <1>11 DEF Look
<1>12. ASSUME NEW m \in {0} \cup Used, LookLock(m) PROVE CallInv'
  BY <1>12 DEF LookLock
<1>13. ASSUME NEW m \in Used, LookCopy(m) PROVE CallInv'
  BY <1>13 DEF LookCopy
<1>14. CASE LookAway
  BY <1>14 DEF LookAway
<1>15. CASE UNCHANGED vars
  BY <1>15 DEF vars
<1> QED
  BY <1>1, <1>2, <1>3, <1>4, <1>5, <1>6, <1>7, <1>8, <1>9, <1>10, <1>11, <1>12,
     <1>13, <1>14, <1>15 DEF Next, CallStep, LookStep

\* Every step keeps the places of the calls: lists only grow, at their end.
LEMMA NextPlaceInv == DoubleInv /\ [Next]_vars => PlaceInv'
<1> SUFFICES ASSUME DoubleInv, [Next]_vars
             PROVE  PlaceInv'
  OBVIOUS
<1> USE CallersAssumption DEF DoubleInv, Types, CallInv, PlaceInv, BeforeCalls,
   Used, Call, Specific, Goto, setUp, records, caller, look
<1>1. CASE SetStub(1)
  <2>1. \A c \in Callers : pc[c] = "idle"
    BY <1>1 DEF SetStub
  <2> QED
    BY <1>1, <2>1 DEF SetStub
<1>2. CASE Returns(1)
  <2>1. \A c \in Callers : pc[c] = "idle"
    BY <1>2 DEF Returns
  <2> QED
    BY <1>2, <2>1 DEF Returns
<1>3. ASSUME NEW i \in Indices, ReturnsOnCall(1, i) PROVE PlaceInv'
  <2>1. \A c \in Callers : pc[c] = "idle"
    BY <1>3 DEF ReturnsOnCall
  <2> QED
    BY <1>3, <2>1 DEF ReturnsOnCall
<1>4. ASSUME NEW c \in Callers, NEW m \in Used, StartCall(c, m) PROVE PlaceInv'
  BY <1>4 DEF StartCall
<1>5. ASSUME NEW c \in Callers, LockMethod(c) PROVE PlaceInv'
  <2> DEFINE k == method[c]
  <2>1. UNCHANGED <<onCall, method, calls>> /\ k \in Used
    BY <1>5 DEF LockMethod
  <2>2. /\ Len(args'[k]) = Len(args[k]) + 1 /\ Len(args[k]) \in Nat
        /\ args'[k][Len(args[k]) + 1] = Call(c)
        /\ \A i \in 1..Len(args[k]) : args'[k][i] = args[k][i]
        /\ \A m \in Used \ {k} : args'[m] = args[m]
    BY <1>5, <2>1 DEF LockMethod
  <2>3. ret'[c] = Specific(k, Len(args[k])) /\ \A d \in Callers \ {c} : ret'[d] = ret[d]
    BY <1>5 DEF LockMethod, SpecificReturn
  <2>4. \A d \in Callers \ {c} : pc'[d] = pc[d]
    BY <1>5 DEF LockMethod
  <2>5. \A d \in Callers : Call(d)' = Call(d)
    BY <2>1
  <2>6. \A m, i : Specific(m, i)' = Specific(m, i)
    BY <2>1
  <2> HIDE DEF Call, Specific, Used
  <2>7. \E i \in 1..Len(args'[k]) : args'[k][i] = Call(c) /\ ret'[c] = Specific(k, i - 1)
    <3>1. Len(args[k]) + 1 \in 1..Len(args'[k]) /\ (Len(args[k]) + 1) - 1 = Len(args[k])
      BY <2>2
    <3> QED
      BY <2>2, <2>3, <3>1
  <2>8. ASSUME NEW d \in Callers, d # c, pc[d] \in {"record", "unlock", "answer", "stub"}
        PROVE  \E i \in 1..Len(args'[method[d]]) :
                 args'[method[d]][i] = Call(d) /\ ret'[d] = Specific(method[d], i - 1)
    <3>1. PICK i \in 1..Len(args[method[d]]) :
            args[method[d]][i] = Call(d) /\ ret[d] = Specific(method[d], i - 1)
      BY <2>8
    <3>2. method[d] \in Used
      BY DEF Used
    <3>3. i \in 1..Len(args'[method[d]]) /\ args'[method[d]][i] = args[method[d]][i]
      <4>1. CASE method[d] = k
        <5>1. i \in 1..Len(args[k])
          BY <3>1, <4>1
        <5>2. i \in 1..Len(args'[k]) /\ args'[k][i] = args[k][i]
          BY <2>2, <5>1
        <5> QED
          BY <4>1, <5>2
      <4>2. CASE method[d] # k
        BY <2>2, <3>1, <3>2, <4>2
      <4> QED
        BY <4>1, <4>2
    <3> QED
      BY <2>3, <2>8, <3>1, <3>3
  <2>9. ASSUME NEW d \in Callers, pc'[d] \in {"record", "unlock", "answer", "stub"}
        PROVE  \E i \in 1..Len(args'[method'[d]]) :
                 args'[method'[d]][i] = Call(d)' /\ ret'[d] = Specific(method[d], i - 1)'
    <3>1. CASE d = c
      BY <2>1, <2>5, <2>6, <2>7, <3>1
    <3>2. CASE d # c
      <4>1. pc[d] \in {"record", "unlock", "answer", "stub"} /\ method'[d] = method[d]
        BY <2>1, <2>4, <2>9, <3>2
      <4> QED
        BY <2>5, <2>6, <2>8, <3>2, <4>1
    <3> QED
      BY <3>1, <3>2
  <2> QED
    BY <2>1, <2>9
<1>6. ASSUME NEW c \in Callers, RecordInvocation(c) PROVE PlaceInv'
  BY <1>6 DEF RecordInvocation
<1>7. ASSUME NEW c \in Callers, UnlockMethod(c) PROVE PlaceInv'
  BY <1>7 DEF UnlockMethod
<1>8. ASSUME NEW c \in Callers, Return(c) PROVE PlaceInv'
  BY <1>8 DEF Return
<1>9. ASSUME NEW c \in Callers, CallStub(c) PROVE PlaceInv'
  BY <1>9 DEF CallStub
<1>10. ASSUME NEW c \in Callers, CallCount(c) PROVE PlaceInv'
  BY <1>10 DEF CallCount
<1>11. CASE Look
  BY <1>11 DEF Look
<1>12. ASSUME NEW m \in {0} \cup Used, LookLock(m) PROVE PlaceInv'
  BY <1>12 DEF LookLock
<1>13. ASSUME NEW m \in Used, LookCopy(m) PROVE PlaceInv'
  BY <1>13 DEF LookCopy
<1>14. CASE LookAway
  BY <1>14 DEF LookAway
<1>15. CASE UNCHANGED vars
  BY <1>15 DEF vars
<1> QED
  BY <1>1, <1>2, <1>3, <1>4, <1>5, <1>6, <1>7, <1>8, <1>9, <1>10, <1>11, <1>12,
     <1>13, <1>14, <1>15 DEF Next, CallStep, LookStep

\* Every step keeps the invocations complete: a call is entered by its own record
\* step, once.
LEMMA NextRecordInv == DoubleInv /\ [Next]_vars => RecordInv'
<1> SUFFICES ASSUME DoubleInv, [Next]_vars
             PROVE  RecordInv'
  OBVIOUS
<1> USE CallersAssumption DEF DoubleInv, Types, CallInv, RecordInv, Recorded,
   Entered, Used, Goto, setUp, records, caller, look
<1>0. ASSUME UNCHANGED <<double, invocations>>,
             \A c \in Callers : Entered(c)' = Entered(c)
      PROVE  RecordInv'
  <2> HIDE DEF Entered
  <2> QED BY <1>0
<1>1. CASE SetStub(1)
  BY <1>0, <1>1 DEF SetStub
<1>2. CASE Returns(1)
  BY <1>0, <1>2 DEF Returns
<1>3. ASSUME NEW i \in Indices, ReturnsOnCall(1, i) PROVE RecordInv'
  BY <1>0, <1>3 DEF ReturnsOnCall
<1>4. ASSUME NEW c \in Callers, NEW m \in Used, StartCall(c, m) PROVE RecordInv'
  <2>1. Entered(c)' = Entered(c)
    <3>1. calls[c] \in Nat /\ pc[c] = "idle" /\ pc'[c] = "lock" /\ calls'[c] = calls[c] + 1
      BY <1>4 DEF StartCall
    <3> QED
      BY <3>1
  <2>2. \A d \in Callers \ {c} : Entered(d)' = Entered(d)
    BY <1>4 DEF StartCall
  <2>3. UNCHANGED <<double, invocations>>
    BY <1>4 DEF StartCall
  <2> QED
    BY <1>0, <2>1, <2>2, <2>3
<1>5. ASSUME NEW c \in Callers, LockMethod(c) PROVE RecordInv'
  BY <1>0, <1>5 DEF LockMethod
<1>6. ASSUME NEW c \in Callers, RecordInvocation(c) PROVE RecordInv'
  <2> DEFINE k == method[c]
  <2>1. k \in Used /\ UNCHANGED <<double, calls>> /\ Call(c) \in Callers \X Nat
    BY <1>6 DEF RecordInvocation, Call
  <2>2. /\ invocations' = [invocations EXCEPT ![k] = Append(invocations[k], Call(c))]
        /\ Range(invocations'[k]) = Range(invocations[k]) \cup {Call(c)}
        /\ \A m \in Used \ {k} : invocations'[m] = invocations[m]
    <3>1. invocations' = [invocations EXCEPT ![k] = Append(invocations[k], Call(c))]
      BY <1>6 DEF RecordInvocation
    <3>2. invocations[k] \in Seq(Callers \X Nat)
      BY <2>1
    <3>3. Range(Append(invocations[k], Call(c))) = Range(invocations[k]) \cup {Call(c)}
      BY ONLY <2>1, <3>2, AppendRange
    <3>4. /\ invocations'[k] = Append(invocations[k], Call(c))
          /\ \A m \in Used \ {k} : invocations'[m] = invocations[m]
      BY <2>1, <3>1
    <3> QED
      BY <3>1, <3>3, <3>4
  <2>3. Recorded' = Recorded \cup {Call(c)}
    <3>1. Used' = Used
      BY <2>1
    <3>2. \A x : x \in Recorded <=> \E m \in Used : x \in Range(invocations[m])
      BY ONLY DEF Recorded
    <3>3. \A x : x \in Recorded' <=> \E m \in Used : x \in Range(invocations'[m])
      BY ONLY <3>1 DEF Recorded
    <3>4. \A x : x \in Recorded' <=> x \in Recorded \/ x = Call(c)
      BY ONLY <2>1, <2>2, <3>2, <3>3
    <3> HIDE DEF Recorded
    <3> QED
      BY ONLY <3>4
  <2>4. Entered(c)' = calls[c] /\ Entered(c) = calls[c] - 1 /\ calls[c] \in Nat \ {0}
    <3>1. pc[c] = "record" /\ pc'[c] = "unlock" /\ calls' = calls
      BY <1>6 DEF RecordInvocation
    <3>2. calls[c] \in Nat /\ calls[c] > 0
      BY <3>1
    <3> QED
      BY <3>1, <3>2
  <2>5. \A d \in Callers \ {c} : Entered(d)' = Entered(d)
    BY <1>6 DEF RecordInvocation
  <2> HIDE DEF Entered, Recorded
  <2>6. \A n \in Nat : n \in 1..calls[c] <=> n \in 1..(calls[c] - 1) \/ n = calls[c]
    BY <2>4
  <2> QED
    BY <2>1, <2>3, <2>4, <2>5, <2>6 DEF Call
<1>7. ASSUME NEW c \in Callers, UnlockMethod(c) PROVE RecordInv'
  BY <1>0, <1>7 DEF UnlockMethod
<1>8. ASSUME NEW c \in Callers, Return(c) PROVE RecordInv'
  BY <1>0, <1>8 DEF Return
<1>9. ASSUME NEW c \in Callers, CallStub(c) PROVE RecordInv'
  BY <1>0, <1>9 DEF CallStub
<1>10. ASSUME NEW c \in Callers, CallCount(c) PROVE RecordInv'
  BY <1>0, <1>10 DEF CallCount
<1>11. CASE Look
  BY <1>0, <1>11 DEF Look
<1>12. ASSUME NEW m \in {0} \cup Used, LookLock(m) PROVE RecordInv'
  BY <1>0, <1>12 DEF LookLock
<1>13. ASSUME NEW m \in Used, LookCopy(m) PROVE RecordInv'
  BY <1>0, <1>13 DEF LookCopy
<1>14. CASE LookAway
  BY <1>0, <1>14 DEF LookAway
<1>15. CASE UNCHANGED vars
  BY <1>15, <1>0 DEF vars
<1> QED
  BY <1>1, <1>2, <1>3, <1>4, <1>5, <1>6, <1>7, <1>8, <1>9, <1>10, <1>11, <1>12,
     <1>13, <1>14, <1>15 DEF Next, CallStep, LookStep

\* Every step keeps the copies true: no call is entered while invocationsMutex is
\* read-locked.
LEMMA NextLookInv == DoubleInv /\ [Next]_vars => LookInv'
<1> SUFFICES ASSUME DoubleInv, [Next]_vars
             PROVE  LookInv'
  OBVIOUS
<1> USE CallersAssumption DEF DoubleInv, Types, LookInv, Used, Goto, setUp,
   records, caller, look
<1>1. CASE SetStub(1)
  BY <1>1 DEF SetStub
<1>2. CASE Returns(1)
  BY <1>2 DEF Returns
<1>3. ASSUME NEW i \in Indices, ReturnsOnCall(1, i) PROVE LookInv'
  BY <1>3 DEF ReturnsOnCall
<1>4. ASSUME NEW c \in Callers, NEW m \in Used, StartCall(c, m) PROVE LookInv'
  BY <1>4 DEF StartCall
<1>5. ASSUME NEW c \in Callers, LockMethod(c) PROVE LookInv'
  BY <1>5 DEF LockMethod
<1>6. ASSUME NEW c \in Callers, RecordInvocation(c) PROVE LookInv'
  BY <1>6 DEF RecordInvocation
<1>7. ASSUME NEW c \in Callers, UnlockMethod(c) PROVE LookInv'
  BY <1>7 DEF UnlockMethod
<1>8. ASSUME NEW c \in Callers, Return(c) PROVE LookInv'
  BY <1>8 DEF Return
<1>9. ASSUME NEW c \in Callers, CallStub(c) PROVE LookInv'
  BY <1>9 DEF CallStub
<1>10. ASSUME NEW c \in Callers, CallCount(c) PROVE LookInv'
  BY <1>10 DEF CallCount
<1>11. CASE Look
  BY <1>11 DEF Look
<1>12. ASSUME NEW m \in {0} \cup Used, LookLock(m) PROVE LookInv'
  BY <1>12 DEF LookLock
<1>13. ASSUME NEW m \in Used, LookCopy(m) PROVE LookInv'
  BY <1>13 DEF LookCopy
<1>14. CASE LookAway
  BY <1>14 DEF LookAway
<1>15. CASE UNCHANGED vars
  BY <1>15 DEF vars
<1> QED
  BY <1>1, <1>2, <1>3, <1>4, <1>5, <1>6, <1>7, <1>8, <1>9, <1>10, <1>11, <1>12,
     <1>13, <1>14, <1>15 DEF Next, CallStep, LookStep

\* Every step keeps CopyIsOfOneInstant: a copy is finished under the locks.
LEMMA NextCopyIsOfOneInstant == DoubleInv /\ [Next]_vars => CopyIsOfOneInstant'
<1> SUFFICES ASSUME DoubleInv, [Next]_vars
             PROVE  CopyIsOfOneInstant'
  OBVIOUS
<1> USE CallersAssumption DEF DoubleInv, Types, CallInv, Used, Goto, setUp,
   records, caller, look
<1>0. ASSUME UNCHANGED <<double, copied>>, looker' = "away" => looker = "away"
      PROVE  CopyIsOfOneInstant'
  <2>1. Seen' = Seen
    BY <1>0 DEF Seen
  <2> QED
    BY <1>0, <2>1, SeenWhole
<1>1. CASE SetStub(1)
  BY <1>0, <1>1 DEF SetStub
<1>2. CASE Returns(1)
  BY <1>0, <1>2 DEF Returns
<1>3. ASSUME NEW i \in Indices, ReturnsOnCall(1, i) PROVE CopyIsOfOneInstant'
  BY <1>0, <1>3 DEF ReturnsOnCall
<1>4. ASSUME NEW c \in Callers, NEW m \in Used, StartCall(c, m) PROVE CopyIsOfOneInstant'
  BY <1>0, <1>4 DEF StartCall
<1>5. ASSUME NEW c \in Callers, LockMethod(c) PROVE CopyIsOfOneInstant'
  BY <1>0, <1>5 DEF LockMethod
<1>6. ASSUME NEW c \in Callers, RecordInvocation(c) PROVE CopyIsOfOneInstant'
  BY <1>0, <1>6 DEF RecordInvocation
<1>7. ASSUME NEW c \in Callers, UnlockMethod(c) PROVE CopyIsOfOneInstant'
  BY <1>0, <1>7 DEF UnlockMethod
<1>8. ASSUME NEW c \in Callers, Return(c) PROVE CopyIsOfOneInstant'
  BY <1>0, <1>8 DEF Return
<1>9. ASSUME NEW c \in Callers, CallStub(c) PROVE CopyIsOfOneInstant'
  BY <1>0, <1>9 DEF CallStub
<1>10. ASSUME NEW c \in Callers, CallCount(c) PROVE CopyIsOfOneInstant'
  BY <1>0, <1>10 DEF CallCount
<1>11. CASE Look
  BY <1>0, <1>11 DEF Look
<1>12. ASSUME NEW m \in {0} \cup Used, LookLock(m) PROVE CopyIsOfOneInstant'
  BY <1>0, <1>12 DEF LookLock
<1>13. ASSUME NEW m \in Used, LookCopy(m) PROVE CopyIsOfOneInstant'
  BY <1>13 DEF LookCopy, CopyIsOfOneInstant
<1>14. CASE LookAway
  <2>1. /\ UNCHANGED <<double, copied, invocations>> /\ double.records
        /\ \A m \in Used : copied[m] = invocations[m]
    BY <1>14 DEF LookAway, LookInv
  <2>2. Seen' = Recorded
    BY <2>1 DEF Recorded, Seen
  <2>3. \A call \in Recorded : call \in Callers \X Nat
    BY DEF Recorded, Range
  <2>4. ASSUME NEW call \in Recorded, NEW n \in 1..call[2] PROVE <<call[1], n>> \in Recorded
    <3>1. call[1] \in Callers /\ call[2] \in Nat /\ call = <<call[1], call[2]>>
      BY <2>3
    <3>2. call[2] \in 1..Entered(call[1])
      BY <2>1, <3>1 DEF RecordInv
    <3>3. n \in Nat /\ n \in 1..Entered(call[1])
      BY <3>1, <3>2 DEF Entered
    <3> QED
      BY <2>1, <3>1, <3>3 DEF RecordInv
  <2> QED
    BY <2>2, <2>4, SeenWhole
<1>15. CASE UNCHANGED vars
  BY <1>15, <1>0 DEF vars
<1> QED
  BY <1>1, <1>2, <1>3, <1>4, <1>5, <1>6, <1>7, <1>8, <1>9, <1>10, <1>11, <1>12,
     <1>13, <1>14, <1>15 DEF Next, CallStep, LookStep

\* Nothing has been called or copied initially.
LEMMA InitDoubleInv == Init => DoubleInv
<1> SUFFICES ASSUME Init PROVE DoubleInv
  OBVIOUS
<1>1. Len(double.kinds) \in Nat \ {0} /\ 1 \in Used
  BY UsesHaveMethods DEF Init, Used
<1>2. Types
  BY <1>1 DEF Init, Types
<1>3. Recorded = {} /\ Seen = {}
  BY DEF Init, Recorded, Seen, Range
<1>4. RecordInv
  BY <1>3 DEF Init, RecordInv, Entered
<1>5. CopyIsOfOneInstant
  BY <1>3, SeenWhole
<1>6. CallInv /\ PlaceInv /\ LookInv
  BY DEF Init, CallInv, PlaceInv, LookInv
<1> QED
  BY <1>2, <1>4, <1>5, <1>6 DEF DoubleInv

(***************************************************************************)
(* DoubleInv holds whatever the goroutines and the test do: each call      *)
(* knows its place, and the invocations are the calls entered so far       *)
(* (fake_cake.go 199-216, 732-776).                                        *)
(***************************************************************************)
THEOREM DoubleInvHolds == Spec => []DoubleInv
<1>1. DoubleInv /\ [Next]_vars => DoubleInv'
  BY NextTypes, NextCallInv, NextPlaceInv, NextRecordInv, NextLookInv, NextCopyIsOfOneInstant
  DEF DoubleInv
<1> QED
  BY InitDoubleInv, <1>1, PTL DEF Spec

(***************************************************************************)
(* Invocations() returns a copy of one instant: with a call it holds every *)
(* earlier call of the same goroutine, to whatever method.                 *)
(***************************************************************************)
THEOREM CopiesAreOfOneInstant == Spec => []CopyIsOfOneInstant
<1>1. DoubleInv => CopyIsOfOneInstant
  BY DEF DoubleInv
<1> QED
  BY DoubleInvHolds, <1>1, PTL

(***************************************************************************)
(* A call returns what the test set up for its own place among the calls   *)
(* of the method, whoever calls between its recording and its return.      *)
(***************************************************************************)
THEOREM CallsAnswerAsSetUp == Spec => AnswersAsSetUp
<1> DEFINE Right(c) == \E i \in 1..Len(args[method[c]]) :
              /\ args[method[c]][i] = Call(c)
              /\ answer'[c] = Expected(method[c], i - 1)
<1>1. ASSUME DoubleInv, [Next]_vars, NEW c \in Callers, pc[c] # "idle", pc'[c] = "idle"
      PROVE  Right(c)
  <2> USE DEF DoubleInv, Types
  <2>1. Return(c) \/ CallCount(c)
    BY <1>1 DEF Next, vars, CallStep, LookStep, SetStub, Returns, ReturnsOnCall, StartCall,
            LockMethod, RecordInvocation, UnlockMethod, Return, CallStub, CallCount, Look,
            LookLock, LookCopy, LookAway, Goto, caller
  <2>2. pc[c] \in {"answer", "stub"}
    BY <2>1 DEF Return, CallCount
  <2>3. PICK i \in 1..Len(args[method[c]]) :
          args[method[c]][i] = Call(c) /\ ret[c] = Specific(method[c], i - 1)
    BY <1>1, <2>2 DEF PlaceInv
  <2>4. CASE Return(c)
    <3>1. ~stub[method[c]] /\ answer'[c] = ReturnValue(c)
      BY <1>1, <2>4 DEF Return
    <3>2. ReturnValue(c) = Expected(method[c], i - 1)
      BY <2>3, <3>1 DEF ReturnValue, Expected
    <3> QED
      BY <2>3, <3>1, <3>2
  <2>5. CASE CallCount(c)
    <3>1. stub[method[c]] /\ answer'[c] = "stub"
      BY <1>1, <2>5 DEF CallCount, CallInv
    <3>2. Expected(method[c], i - 1) = "stub"
      BY <3>1 DEF Expected
    <3> QED
      BY <2>3, <3>1, <3>2
  <2> QED
    BY <2>1, <2>4, <2>5
<1>2. DoubleInv /\ [Next]_vars =>
        [\A c \in Callers : (pc[c] # "idle" /\ pc'[c] = "idle") =>
            \E i \in 1..Len(args[method[c]]) :
              /\ args[method[c]][i] = Call(c)
              /\ answer'[c] = Expected(method[c], i - 1)]_vars
  BY <1>1
<1> QED
  BY DoubleInvHolds, <1>2, PTL DEF Spec, AnswersAsSetUp
=============================================================================
