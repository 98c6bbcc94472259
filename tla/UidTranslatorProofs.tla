------------------------ MODULE UidTranslatorProofs ------------------------
(***************************************************************************)
(* A walk on which no call of chown fails translates the image, whatever   *)
(* its files, their names and the mappings: each inode is mapped once and  *)
(* keeps its mode, however many names it has.                              *)
(*                                                                         *)
(* The tree after n names has a closed form, AfterNames.  It satisfies the *)
(* equation of the recursive function in Namespace, and any function that  *)
(* satisfies it agrees with it: the least n at which they differ would be  *)
(* neither 0 nor the successor of one at which they agree.                 *)
(***************************************************************************)
EXTENDS UidTranslator, WellFoundedInduction, TLAPS

\* The inode as the walk leaves it.
Mapped(i) == [Tree[i] EXCEPT !.uid = Map(UidMap, @), !.gid = Map(GidMap, Tree[i].gid)]

AfterNames(n) ==
    [i \in DOMAIN Tree |-> IF \E k \in 1..n : Names[k] = i THEN Mapped(i) ELSE Tree[i]]

\* Every set of natural numbers but the empty one has a least member.
LEMMA LeastMember ==
    ASSUME NEW T \in SUBSET Nat, T # {}
    PROVE  \E least \in T : \A n \in T : ~(n < least)
<1>1. PICK least \in T : \A n \in T : ~(<<n, least>> \in OpToRel(<, Nat))
  BY WFMin, NatLessThanWellFounded
<1>2. \A n \in T : n < least => <<n, least>> \in OpToRel(<, Nat)
  BY <1>1 DEF OpToRel
<1> QED
  BY <1>1, <1>2

\* What Mapped changes: the two ids, and nothing else.
LEMMA MappedFields ==
    ASSUME NEW i \in DOMAIN Tree
    PROVE  /\ Mapped(i) = [uid |-> Map(UidMap, Tree[i].uid), gid |-> Map(GidMap, Tree[i].gid),
                           setuid |-> Tree[i].setuid, symlink |-> Tree[i].symlink]
           /\ Tree[i] = [uid |-> Tree[i].uid, gid |-> Tree[i].gid,
                         setuid |-> Tree[i].setuid, symlink |-> Tree[i].symlink]
           /\ Tree[i].setuid \in BOOLEAN
<1> DEFINE t == Tree[i]
<1>1. t \in [uid : Nat, gid : Nat, setuid : BOOLEAN, symlink : BOOLEAN]
  BY TreeAssumption
<1>2. t.setuid \in BOOLEAN
  BY <1>1
<1>3. t = [uid |-> t.uid, gid |-> t.gid, setuid |-> t.setuid, symlink |-> t.symlink]
  BY <1>1
<1> HIDE DEF t
<1>4. ASSUME NEW u, NEW g
      PROVE  [t EXCEPT !.uid = u, !.gid = g]
                = [uid |-> u, gid |-> g, setuid |-> t.setuid, symlink |-> t.symlink]
  <2>1. [t EXCEPT !.uid = u] = [uid |-> u, gid |-> t.gid, setuid |-> t.setuid, symlink |-> t.symlink]
    BY <1>3
  <2>2. \A r : r = [uid |-> u, gid |-> t.gid, setuid |-> t.setuid, symlink |-> t.symlink]
            => [r EXCEPT !.gid = g]
                 = [uid |-> u, gid |-> g, setuid |-> t.setuid, symlink |-> t.symlink]
    OBVIOUS
  <2> QED
    BY <2>1, <2>2
<1> QED
  BY <1>2, <1>3, <1>4 DEF Mapped, t

\* The first visit of an inode maps it; its mode is set again.
LEMMA FirstVisit ==
    ASSUME NEW i \in DOMAIN Tree
    PROVE  Translate(Tree[i], "done") = Mapped(i)
  BY MappedFields, TreeAssumption DEF Translate, Chown, Mapped

\* Another name of an inode already mapped changes nothing.
LEMMA LaterVisit ==
    ASSUME NEW m \in DOMAIN Names, NEW n \in DOMAIN Names, m # n, Names[m] = Names[n]
    PROVE  Translate(Mapped(Names[n]), "done") = Mapped(Names[n])
<1>1. Names[n] \in DOMAIN Tree
  BY TreeAssumption
<1> DEFINE i == Names[n]
<1>2. Mapped(i).uid = Map(UidMap, Tree[i].uid) /\ Mapped(i).gid = Map(GidMap, Tree[i].gid)
  BY <1>1, MappedFields
<1>3. /\ Map(UidMap, Map(UidMap, Tree[i].uid)) = Map(UidMap, Tree[i].uid)
      /\ Map(GidMap, Map(GidMap, Tree[i].gid)) = Map(GidMap, Tree[i].gid)
  BY StableAssumption
<1> QED
  BY <1>2, <1>3 DEF Translate

\* The closed form takes the step of the walk.
LEMMA WalkStep ==
    ASSUME NEW n \in 1..Len(Names)
    PROVE  AfterNames(n) = [AfterNames(n - 1) EXCEPT ![Names[n]] = Translate(@, "done")]
<1> DEFINE old == AfterNames(n - 1)
           new == [old EXCEPT ![Names[n]] = Translate(@, "done")]
<1>1. n \in DOMAIN Names /\ Names[n] \in DOMAIN Tree /\ n \in Nat
  BY TreeAssumption
<1>2. ASSUME NEW i \in DOMAIN Tree PROVE AfterNames(n)[i] = new[i]
  <2>1. CASE i # Names[n]
    BY <1>1, <2>1 DEF AfterNames
  <2>2. CASE i = Names[n]
    <3>1. AfterNames(n)[i] = Mapped(i)
      BY <1>1, <2>2 DEF AfterNames
    <3>2. new[i] = Translate(old[i], "done")
      BY <1>1, <2>2 DEF AfterNames
    <3>3. CASE \E k \in 1..(n - 1) : Names[k] = i
      <4>1. PICK k \in 1..(n - 1) : Names[k] = i
        BY <3>3
      <4>2. k \in DOMAIN Names /\ k # n
        <5>1. k \in 1..Len(Names) /\ k # n
          BY <4>1
        <5> QED
          BY <5>1, TreeAssumption
      <4>3. old[i] = Mapped(i)
        BY <3>3 DEF AfterNames
      <4> QED
        BY <1>1, <2>2, <3>1, <3>2, <4>1, <4>2, <4>3, LaterVisit
    <3>4. CASE ~\E k \in 1..(n - 1) : Names[k] = i
      <4>1. old[i] = Tree[i]
        BY <3>4 DEF AfterNames
      <4> QED
        BY <3>1, <3>2, <4>1, FirstVisit
    <3> QED
      BY <3>3, <3>4
  <2> QED
    BY <2>1, <2>2
<1> QED
  BY <1>2 DEF AfterNames

(***************************************************************************)
(* UidNamespacer.Namespace (namespace.go 26-40, translator.go 24-50): when *)
(* every chown goes through, every file of the copy belongs to the ids its *)
(* owner is mapped to, once, and has the mode it had.                      *)
(***************************************************************************)
THEOREM CleanWalkTranslates ==
    \A outcomes \in [DOMAIN Names -> {"done"}] : IsTranslated(Namespace(outcomes))
<1> SUFFICES ASSUME NEW outcomes \in [DOMAIN Names -> {"done"}]
             PROVE  IsTranslated(Namespace(outcomes))
  OBVIOUS
<1> DEFINE last == Len(Names)
           Body(f, n) == IF n = 0 THEN Tree
                         ELSE [f[n - 1] EXCEPT ![Names[n]] = Translate(@, outcomes[n])]
           closed == [n \in 0..last |-> AfterNames(n)]
           after == CHOOSE f : f = [n \in 0..last |-> Body(f, n)]
<1>1. last \in Nat /\ \A n \in 1..last : n \in DOMAIN Names /\ outcomes[n] = "done"
  BY TreeAssumption
<1>2. AfterNames(0) = Tree
  BY TreeAssumption DEF AfterNames
<1>3. \A n \in 0..last : AfterNames(n) = Body(closed, n)
  <2> SUFFICES ASSUME NEW n \in 0..last PROVE AfterNames(n) = Body(closed, n)
    OBVIOUS
  <2>1. CASE n = 0
    BY <1>2, <2>1
  <2>2. CASE n # 0
    <3>1. n \in 1..last /\ n - 1 \in 0..last
      BY <1>1, <2>2
    <3>2. closed[n - 1] = AfterNames(n - 1)
      BY <3>1
    <3> QED
      BY <1>1, <2>2, <3>1, <3>2, WalkStep
  <2> QED
    BY <2>1, <2>2
<1>4. closed = [n \in 0..last |-> Body(closed, n)]
  BY <1>3
<1>5. after = [n \in 0..last |-> Body(after, n)]
  BY <1>4
<1>6. \A n \in 0..last : after[n] = AfterNames(n)
  <2> DEFINE Differ == {n \in 0..last : after[n] # AfterNames(n)}
  <2> SUFFICES ASSUME Differ # {} PROVE FALSE
    OBVIOUS
  <2>1. PICK n \in Differ : \A m \in Differ : ~(m < n)
    <3> HIDE DEF after
    <3>1. Differ \in SUBSET Nat
      BY <1>1
    <3> HIDE DEF Differ
    <3> QED
      BY <3>1, LeastMember
  <2>2. n \in 0..last /\ after[n] # AfterNames(n) /\ after[n] = Body(after, n)
    <3> HIDE DEF after
    <3> QED BY <1>5, <2>1
  <2> HIDE DEF after
  <2>3. CASE n = 0
    BY <1>2, <2>2, <2>3
  <2>4. CASE n # 0
    <3>1. n \in 1..last /\ n - 1 \in 0..last /\ n - 1 < n
      BY <1>1, <2>2, <2>4
    <3>2. after[n - 1] = AfterNames(n - 1)
      BY <2>1, <3>1
    <3>3. after[n] = [AfterNames(n - 1) EXCEPT ![Names[n]] = Translate(@, "done")]
      BY <1>1, <2>2, <2>4, <3>1, <3>2
    <3> QED
      BY <2>2, <3>1, <3>3, WalkStep
  <2> QED
    BY <2>3, <2>4
<1>7. Namespace(outcomes) = after[last]
  BY DEF Namespace
<1>8. Namespace(outcomes) = AfterNames(last)
  <2> HIDE DEF after
  <2> QED BY <1>1, <1>6, <1>7
<1>9. ASSUME NEW i \in DOMAIN Tree PROVE AfterNames(last)[i] = Mapped(i)
  <2>1. PICK k \in DOMAIN Names : Names[k] = i
    BY TreeAssumption
  <2>2. k \in 1..last
    BY TreeAssumption
  <2> QED
    BY <2>1, <2>2 DEF AfterNames
<1> QED
  BY <1>8, <1>9 DEF IsTranslated, Mapped
=============================================================================
