-------------------------- MODULE AufsCakeProofs --------------------------
(***************************************************************************)
(* Proofs about AufsCake, for any images and copies and any failures and   *)
(* crashes.                                                                *)
(*                                                                         *)
(* What holds between operations is not inductive: in the middle of one    *)
(* the two directories of files and the graph disagree, each statement in  *)
(* its own way.  AufsInv says how, for the copy that is being made or      *)
(* removed and for the parent-child file of its image, and that all the    *)
(* others are as they are between operations.                              *)
(***************************************************************************)
EXTENDS AufsCake, UidTranslatorProofs, TLAPS

\* The steps of Create in which the graph has the copy and no file records it,
\* and those in which it is recorded as a line of its image's file.
Making == {"register", "copy", "openParentChild", "writeParentChild", "openChildParent"}
Copied == {"openParentChild", "writeParentChild", "openChildParent", "writeChildParent",
           "translate"}
Noted == {"openChildParent", "writeChildParent", "translate"}
Removed == {"removeChildParent", "removeParentChild", "reopen", "rewrite"}
Rewriting == {"reopen", "rewrite"}

\* An operation works on one copy, and only rewriting a file keeps its lines.
CallInv ==
    /\ IF step = "idle" THEN copy = NoCopy ELSE copy \in Copies
    /\ IF step \in Rewriting THEN others # {} ELSE others = {}

\* A child-parent file names the image the copy was made of.
ChildInv == \A n \in Copies : childParent[n] \in {NoFile, EmptyFile, Source[n]}

\* What is known of the copy an operation works on, whatever failed before.
CopyInv ==
    /\ step \in {"hasInfo", "register"} \cup Removed => copy \notin graph
    /\ step \in Making => childParent[copy] = NoFile
    /\ step = "writeChildParent" => childParent[copy] = EmptyFile
    /\ step \in Copied => copy \in graph /\ content[copy] = "copied"
    /\ step = "copy" => copy \in graph
    /\ step = "delete" => copy \in graph
    /\ step = "translate" => childParent[copy] = Source[copy]
    /\ step \in {"removeParentChild"} \cup Rewriting => childParent[copy] = NoFile
    /\ step \in {"writeParentChild", "rewrite"} \cup Noted => parentChild[Source[copy]] # NoFile
    /\ step \in Noted => copy \in parentChild[Source[copy]]

\* The lines of an image's parent-child file, with those still to be written.
Lines(i) ==
    (IF parentChild[i] = NoFile THEN {} ELSE parentChild[i])
      \cup (IF step \in Rewriting /\ Source[copy] = i THEN others ELSE {})

\* No copy that child-parent records loses its line.
LineInv == \A i \in Images \ broken : LinkedCopies(i) \subseteq Lines(i)

\* Files and graph agree on a copy nobody works on, and nothing broke off on;
\* on the copy of an operation they differ by what is not done yet.
Matches(n) == childParent[n] = IF n \in graph THEN Source[n] ELSE NoFile

MatchInv == \A n \in Copies \ broken :
    /\ (n # copy \/ step \in {"get", "hasInfo", "delete"}) => Matches(n)
    /\ (n = copy /\ step = "removeChildParent") => childParent[n] = Source[n]

\* The image's file, likewise.
Untouched(i) == copy \notin Copies \/ Source[copy] # i
Clean(i) == i \notin broken /\ \A n \in broken \cap Copies : Source[n] # i

FileOf(i) ==
    /\ (Untouched(i) \/ step \in {"get", "hasInfo", "register", "copy", "openParentChild",
                                 "delete"})
         => parentChild[i] = IF LinkedCopies(i) = {} THEN NoFile ELSE LinkedCopies(i)
    /\ ~Untouched(i) =>
         /\ step \in {"writeParentChild", "translate"} => parentChild[i] = LinkedCopies(i)
         /\ step \in {"openChildParent", "writeChildParent", "removeChildParent",
                      "removeParentChild"} => parentChild[i] = LinkedCopies(i) \cup {copy}
         /\ step \in Rewriting => Lines(i) = LinkedCopies(i)

FileInv == \A i \in Images : Clean(i) => FileOf(i)

\* Every copy that nothing broke off on is translated once it is made.
ContentInv == \A n \in (Copies \cap graph) \ broken :
    (n = copy /\ step \in {"copy"} \cup Copied) \/ content[n] = "translated"

\* The answer is a copy in the graph.
AnswerInv == answer # NoCopy => answer \in graph /\ step = "idle"

AufsInv ==
    /\ TypeOK
    /\ CallInv
    /\ ChildInv
    /\ CopyInv
    /\ LineInv
    /\ LinkedCopiesAreWhole
    /\ MatchInv
    /\ FileInv
    /\ ContentInv
    /\ AnswerInv

\* Every step keeps the types.
LEMMA NextTypeOK == AufsInv /\ [Next]_vars => TypeOK'
<1> SUFFICES ASSUME AufsInv, [Next]_vars
             PROVE  TypeOK'
  OBVIOUS
<1> USE AufsAssumption DEF AufsInv, TypeOK, CallInv, CopyInv, Steps, Making,
   Copied, Noted, Removed, Rewriting
<1>1. ASSUME NEW i \in Images, RegisterImage(i) PROVE TypeOK'
  BY <1>1 DEF RegisterImage
<1>2. ASSUME NEW i \in Images, RemoveImage(i) PROVE TypeOK'
  BY <1>2 DEF RemoveImage, IsLeaf, HasChildInfo
<1>3. ASSUME NEW n \in Copies, NamespaceCall(n) PROVE TypeOK'
  BY <1>3 DEF NamespaceCall
<1>4. ASSUME NEW n \in Copies, RemoveCall(n) PROVE TypeOK'
  BY <1>4 DEF RemoveCall
<1>5. CASE GetCopy
  BY <1>5 DEF GetCopy, Return, Then
<1>6. CASE HasInfo
  BY <1>6 DEF HasInfo, Return, Then
<1>7. CASE RegisterCopy
  BY <1>7 DEF RegisterCopy, Then
<1>8. CASE CopyImage
  BY <1>8 DEF CopyImage, Then
<1>9. CASE OpenParentChild
  BY <1>9 DEF OpenParentChild, Then
<1>10. CASE WriteParentChild
  BY <1>10 DEF WriteParentChild, Then
<1>11. CASE OpenChildParent
  BY <1>11 DEF OpenChildParent, Then
<1>12. CASE WriteChildParent
  BY <1>12 DEF WriteChildParent, Then
<1>13. CASE TranslateCopy
  BY <1>13 DEF TranslateCopy, Return
<1>14. CASE MakeFails
  BY <1>14 DEF MakeFails, BreakOff, Return
<1>15. CASE DeleteCopy
  BY <1>15 DEF DeleteCopy, Then
<1>16. CASE RemoveChildParent
  BY <1>16 DEF RemoveChildParent, Return, Then
<1>17. CASE RemoveParentChild
  BY <1>17 DEF RemoveParentChild, Return
<1>18. CASE Reopen
  BY <1>18 DEF Reopen, Then
<1>19. ASSUME NEW n \in Copies, Rewrite(n) PROVE TypeOK'
  BY <1>19 DEF Rewrite, Return
<1>20. CASE UnmakeFails
  BY <1>20 DEF UnmakeFails, BreakOff, Return
<1>21. CASE Crash
  BY <1>21 DEF Crash, BreakOff, Return
<1>22. CASE UNCHANGED vars
  BY <1>22 DEF vars
<1> QED
  BY <1>1, <1>2, <1>3, <1>4, <1>5, <1>6, <1>7, <1>8, <1>9, <1>10, <1>11, <1>12,
     <1>13, <1>14, <1>15, <1>16, <1>17, <1>18, <1>19, <1>20, <1>21, <1>22
  DEF Next, MakeStep, UnmakeStep

\* Every step keeps the call's own variables in order.
LEMMA NextCallInv == AufsInv /\ [Next]_vars => CallInv'
<1> SUFFICES ASSUME AufsInv, [Next]_vars
             PROVE  CallInv'
  OBVIOUS
<1> USE AufsAssumption DEF AufsInv, TypeOK, CallInv, Making, Copied, Noted,
   Removed, Rewriting
<1>1. ASSUME NEW i \in Images, RegisterImage(i) PROVE CallInv'
  BY <1>1 DEF RegisterImage
<1>2. ASSUME NEW i \in Images, RemoveImage(i) PROVE CallInv'
  BY <1>2 DEF RemoveImage, IsLeaf, HasChildInfo
<1>3. ASSUME NEW n \in Copies, NamespaceCall(n) PROVE CallInv'
  BY <1>3 DEF NamespaceCall
<1>4. ASSUME NEW n \in Copies, RemoveCall(n) PROVE CallInv'
  BY <1>4 DEF RemoveCall
<1>5. CASE GetCopy
  BY <1>5 DEF GetCopy, Return, Then
<1>6. CASE HasInfo
  BY <1>6 DEF HasInfo, Return, Then
<1>7. CASE RegisterCopy
  BY <1>7 DEF RegisterCopy, Then
<1>8. CASE CopyImage
  BY <1>8 DEF CopyImage, Then
<1>9. CASE OpenParentChild
  BY <1>9 DEF OpenParentChild, Then
<1>10. CASE WriteParentChild
  BY <1>10 DEF WriteParentChild, Then
<1>11. CASE OpenChildParent
  BY <1>11 DEF OpenChildParent, Then
<1>12. CASE WriteChildParent
  BY <1>12 DEF WriteChildParent, Then
<1>13. CASE TranslateCopy
  BY <1>13 DEF TranslateCopy, Return
<1>14. CASE MakeFails
  BY <1>14 DEF MakeFails, BreakOff, Return
<1>15. CASE DeleteCopy
  BY <1>15 DEF DeleteCopy, Then
<1>16. CASE RemoveChildParent
  BY <1>16 DEF RemoveChildParent, Return, Then
<1>17. CASE RemoveParentChild
  BY <1>17 DEF RemoveParentChild, Return
<1>18. CASE Reopen
  BY <1>18 DEF Reopen, Then
<1>19. ASSUME NEW n \in Copies, Rewrite(n) PROVE CallInv'
  BY <1>19 DEF Rewrite, Return
<1>20. CASE UnmakeFails
  BY <1>20 DEF UnmakeFails, BreakOff, Return
<1>21. CASE Crash
  BY <1>21 DEF Crash, BreakOff, Return
<1>22. CASE UNCHANGED vars
  BY <1>22 DEF vars
<1> QED
  BY <1>1, <1>2, <1>3, <1>4, <1>5, <1>6, <1>7, <1>8, <1>9, <1>10, <1>11, <1>12,
     <1>13, <1>14, <1>15, <1>16, <1>17, <1>18, <1>19, <1>20, <1>21, <1>22
  DEF Next, MakeStep, UnmakeStep

\* Every step keeps the child-parent files to images of their copies.
LEMMA NextChildInv == AufsInv /\ [Next]_vars => ChildInv'
<1> SUFFICES ASSUME AufsInv, [Next]_vars
             PROVE  ChildInv'
  OBVIOUS
<1> USE AufsAssumption DEF AufsInv, TypeOK, CallInv, ChildInv, Making, Copied,
   Noted, Removed, Rewriting
<1>1. ASSUME NEW i \in Images, RegisterImage(i) PROVE ChildInv'
  BY <1>1 DEF RegisterImage
<1>2. ASSUME NEW i \in Images, RemoveImage(i) PROVE ChildInv'
  BY <1>2 DEF RemoveImage, IsLeaf, HasChildInfo
<1>3. ASSUME NEW n \in Copies, NamespaceCall(n) PROVE ChildInv'
  BY <1>3 DEF NamespaceCall
<1>4. ASSUME NEW n \in Copies, RemoveCall(n) PROVE ChildInv'
  BY <1>4 DEF RemoveCall
<1>5. CASE GetCopy
  BY <1>5 DEF GetCopy, Return, Then
<1>6. CASE HasInfo
  BY <1>6 DEF HasInfo, Return, Then
<1>7. CASE RegisterCopy
  BY <1>7 DEF RegisterCopy, Then
<1>8. CASE CopyImage
  BY <1>8 DEF CopyImage, Then
<1>9. CASE OpenParentChild
  BY <1>9 DEF OpenParentChild, Then
<1>10. CASE WriteParentChild
  BY <1>10 DEF WriteParentChild, Then
<1>11. CASE OpenChildParent
  BY <1>11 DEF OpenChildParent, Then
<1>12. CASE WriteChildParent
  BY <1>12 DEF WriteChildParent, Then
<1>13. CASE TranslateCopy
  BY <1>13 DEF TranslateCopy, Return
<1>14. CASE MakeFails
  BY <1>14 DEF MakeFails, BreakOff, Return
<1>15. CASE DeleteCopy
  BY <1>15 DEF DeleteCopy, Then
<1>16. CASE RemoveChildParent
  BY <1>16 DEF RemoveChildParent, Return, Then
<1>17. CASE RemoveParentChild
  BY <1>17 DEF RemoveParentChild, Return
<1>18. CASE Reopen
  BY <1>18 DEF Reopen, Then
<1>19. ASSUME NEW n \in Copies, Rewrite(n) PROVE ChildInv'
  BY <1>19 DEF Rewrite, Return
<1>20. CASE UnmakeFails
  BY <1>20 DEF UnmakeFails, BreakOff, Return
<1>21. CASE Crash
  BY <1>21 DEF Crash, BreakOff, Return
<1>22. CASE UNCHANGED vars
  BY <1>22 DEF vars
<1> QED
  BY <1>1, <1>2, <1>3, <1>4, <1>5, <1>6, <1>7, <1>8, <1>9, <1>10, <1>11, <1>12,
     <1>13, <1>14, <1>15, <1>16, <1>17, <1>18, <1>19, <1>20, <1>21, <1>22
  DEF Next, MakeStep, UnmakeStep

\* Every step leads to what is known of the copy at the next statement.
LEMMA NextCopyInv == AufsInv /\ [Next]_vars => CopyInv'
<1> SUFFICES ASSUME AufsInv, [Next]_vars
             PROVE  CopyInv'
  OBVIOUS
<1> USE AufsAssumption DEF AufsInv, TypeOK, CallInv, CopyInv, Making, Copied,
   Noted, Removed, Rewriting
<1>1. ASSUME NEW i \in Images, RegisterImage(i) PROVE CopyInv'
  BY <1>1 DEF RegisterImage
<1>2. ASSUME NEW i \in Images, RemoveImage(i) PROVE CopyInv'
  BY <1>2 DEF RemoveImage, IsLeaf, HasChildInfo
<1>3. ASSUME NEW n \in Copies, NamespaceCall(n) PROVE CopyInv'
  BY <1>3 DEF NamespaceCall
<1>4. ASSUME NEW n \in Copies, RemoveCall(n) PROVE CopyInv'
  BY <1>4 DEF RemoveCall
<1>5. CASE GetCopy
  BY <1>5 DEF GetCopy, Return, Then
<1>6. CASE HasInfo
  BY <1>6 DEF HasInfo, Return, Then
<1>7. CASE RegisterCopy
  BY <1>7 DEF RegisterCopy, Then
<1>8. CASE CopyImage
  BY <1>8 DEF CopyImage, Then
<1>9. CASE OpenParentChild
  BY <1>9 DEF OpenParentChild, Then
<1>10. CASE WriteParentChild
  BY <1>10 DEF WriteParentChild, Then
<1>11. CASE OpenChildParent
  BY <1>11 DEF OpenChildParent, Then
<1>12. CASE WriteChildParent
  BY <1>12 DEF WriteChildParent, Then
<1>13. CASE TranslateCopy
  BY <1>13 DEF TranslateCopy, Return
<1>14. CASE MakeFails
  BY <1>14 DEF MakeFails, BreakOff, Return
<1>15. CASE DeleteCopy
  BY <1>15 DEF DeleteCopy, Then
<1>16. CASE RemoveChildParent
  BY <1>16 DEF RemoveChildParent, Return, Then
<1>17. CASE RemoveParentChild
  BY <1>17 DEF RemoveParentChild, Return
<1>18. CASE Reopen
  BY <1>18 DEF Reopen, Then
<1>19. ASSUME NEW n \in Copies, Rewrite(n) PROVE CopyInv'
  BY <1>19 DEF Rewrite, Return
<1>20. CASE UnmakeFails
  BY <1>20 DEF UnmakeFails, BreakOff, Return
<1>21. CASE Crash
  BY <1>21 DEF Crash, BreakOff, Return
<1>22. CASE UNCHANGED vars
  BY <1>22 DEF vars
<1> QED
  BY <1>1, <1>2, <1>3, <1>4, <1>5, <1>6, <1>7, <1>8, <1>9, <1>10, <1>11, <1>12,
     <1>13, <1>14, <1>15, <1>16, <1>17, <1>18, <1>19, <1>20, <1>21, <1>22
  DEF Next, MakeStep, UnmakeStep

\* Every step keeps the lines of the linked copies, written or still to be.
LEMMA NextLineInv == AufsInv /\ [Next]_vars => LineInv'
<1> SUFFICES ASSUME AufsInv, [Next]_vars
             PROVE  LineInv'
  OBVIOUS
<1> USE AufsAssumption DEF AufsInv, TypeOK, CallInv, ChildInv, CopyInv, LineInv,
   Lines, LinkedCopies, Making, Copied, Noted, Removed, Rewriting
<1>1. ASSUME NEW i \in Images, RegisterImage(i) PROVE LineInv'
  BY <1>1 DEF RegisterImage
<1>2. ASSUME NEW i \in Images, RemoveImage(i) PROVE LineInv'
  BY <1>2 DEF RemoveImage, IsLeaf, HasChildInfo
<1>3. ASSUME NEW n \in Copies, NamespaceCall(n) PROVE LineInv'
  BY <1>3 DEF NamespaceCall
<1>4. ASSUME NEW n \in Copies, RemoveCall(n) PROVE LineInv'
  BY <1>4 DEF RemoveCall
<1>5. CASE GetCopy
  BY <1>5 DEF GetCopy, Return, Then
<1>6. CASE HasInfo
  BY <1>6 DEF HasInfo, Return, Then
<1>7. CASE RegisterCopy
  BY <1>7 DEF RegisterCopy, Then
<1>8. CASE CopyImage
  BY <1>8 DEF CopyImage, Then
<1>9. CASE OpenParentChild
  BY <1>9 DEF OpenParentChild, Then
<1>10. CASE WriteParentChild
  BY <1>10 DEF WriteParentChild, Then
<1>11. CASE OpenChildParent
  BY <1>11 DEF OpenChildParent, Then
<1>12. CASE WriteChildParent
  BY <1>12 DEF WriteChildParent, Then
<1>13. CASE TranslateCopy
  BY <1>13 DEF TranslateCopy, Return
<1>14. CASE MakeFails
  BY <1>14 DEF MakeFails, BreakOff, Return
<1>15. CASE DeleteCopy
  BY <1>15 DEF DeleteCopy, Then
<1>16. CASE RemoveChildParent
  BY <1>16 DEF RemoveChildParent, Return, Then
<1>17. CASE RemoveParentChild
  BY <1>17 DEF RemoveParentChild, Return
<1>18. CASE Reopen
  BY <1>18 DEF Reopen, Then
<1>19. ASSUME NEW n \in Copies, Rewrite(n) PROVE LineInv'
  BY <1>19 DEF Rewrite, Return
<1>20. CASE UnmakeFails
  BY <1>20 DEF UnmakeFails, BreakOff, Return
<1>21. CASE Crash
  BY <1>21 DEF Crash, BreakOff, Return
<1>22. CASE UNCHANGED vars
  BY <1>22 DEF vars
<1> QED
  BY <1>1, <1>2, <1>3, <1>4, <1>5, <1>6, <1>7, <1>8, <1>9, <1>10, <1>11, <1>12,
     <1>13, <1>14, <1>15, <1>16, <1>17, <1>18, <1>19, <1>20, <1>21, <1>22
  DEF Next, MakeStep, UnmakeStep

\* Every step keeps linked copies whole: only a copy that is through is linked.
LEMMA NextLinkedCopiesAreWhole == AufsInv /\ [Next]_vars => LinkedCopiesAreWhole'
<1> SUFFICES ASSUME AufsInv, [Next]_vars
             PROVE  LinkedCopiesAreWhole'
  OBVIOUS
<1> USE AufsAssumption DEF AufsInv, TypeOK, CallInv, ChildInv, CopyInv,
   LinkedCopiesAreWhole, LinkedCopies, Making, Copied, Noted, Removed, Rewriting
<1>1. ASSUME NEW i \in Images, RegisterImage(i) PROVE LinkedCopiesAreWhole'
  BY <1>1 DEF RegisterImage
<1>2. ASSUME NEW i \in Images, RemoveImage(i) PROVE LinkedCopiesAreWhole'
  BY <1>2 DEF RemoveImage, IsLeaf, HasChildInfo
<1>3. ASSUME NEW n \in Copies, NamespaceCall(n) PROVE LinkedCopiesAreWhole'
  BY <1>3 DEF NamespaceCall
<1>4. ASSUME NEW n \in Copies, RemoveCall(n) PROVE LinkedCopiesAreWhole'
  BY <1>4 DEF RemoveCall
<1>5. CASE GetCopy
  BY <1>5 DEF GetCopy, Return, Then
<1>6. CASE HasInfo
  BY <1>6 DEF HasInfo, Return, Then
<1>7. CASE RegisterCopy
  BY <1>7 DEF RegisterCopy, Then
<1>8. CASE CopyImage
  BY <1>8 DEF CopyImage, Then
<1>9. CASE OpenParentChild
  BY <1>9 DEF OpenParentChild, Then
<1>10. CASE WriteParentChild
  BY <1>10 DEF WriteParentChild, Then
<1>11. CASE OpenChildParent
  BY <1>11 DEF OpenChildParent, Then
<1>12. CASE WriteChildParent
  BY <1>12 DEF WriteChildParent, Then
<1>13. CASE TranslateCopy
  BY <1>13 DEF TranslateCopy, Return
<1>14. CASE MakeFails
  BY <1>14 DEF MakeFails, BreakOff, Return
<1>15. CASE DeleteCopy
  BY <1>15 DEF DeleteCopy, Then
<1>16. CASE RemoveChildParent
  BY <1>16 DEF RemoveChildParent, Return, Then
<1>17. CASE RemoveParentChild
  BY <1>17 DEF RemoveParentChild, Return
<1>18. CASE Reopen
  BY <1>18 DEF Reopen, Then
<1>19. ASSUME NEW n \in Copies, Rewrite(n) PROVE LinkedCopiesAreWhole'
  BY <1>19 DEF Rewrite, Return
<1>20. CASE UnmakeFails
  BY <1>20 DEF UnmakeFails, BreakOff, Return
<1>21. CASE Crash
  BY <1>21 DEF Crash, BreakOff, Return
<1>22. CASE UNCHANGED vars
  BY <1>22 DEF vars
<1> QED
  BY <1>1, <1>2, <1>3, <1>4, <1>5, <1>6, <1>7, <1>8, <1>9, <1>10, <1>11, <1>12,
     <1>13, <1>14, <1>15, <1>16, <1>17, <1>18, <1>19, <1>20, <1>21, <1>22
  DEF Next, MakeStep, UnmakeStep

\* Every step keeps graph and child-parent together.
LEMMA NextMatchInv == AufsInv /\ [Next]_vars => MatchInv'
<1> SUFFICES ASSUME AufsInv, [Next]_vars
             PROVE  MatchInv'
  OBVIOUS
<1> USE AufsAssumption DEF AufsInv, TypeOK, CallInv, ChildInv, CopyInv, MatchInv,
   Matches, Making, Copied, Noted, Removed, Rewriting
<1>1. ASSUME NEW i \in Images, RegisterImage(i) PROVE MatchInv'
  BY <1>1 DEF RegisterImage
<1>2. ASSUME NEW i \in Images, RemoveImage(i) PROVE MatchInv'
  BY <1>2 DEF RemoveImage, IsLeaf, HasChildInfo
<1>3. ASSUME NEW n \in Copies, NamespaceCall(n) PROVE MatchInv'
  BY <1>3 DEF NamespaceCall
<1>4. ASSUME NEW n \in Copies, RemoveCall(n) PROVE MatchInv'
  BY <1>4 DEF RemoveCall
<1>5. CASE GetCopy
  BY <1>5 DEF GetCopy, Return, Then
<1>6. CASE HasInfo
  BY <1>6 DEF HasInfo, Return, Then
<1>7. CASE RegisterCopy
  BY <1>7 DEF RegisterCopy, Then
<1>8. CASE CopyImage
  BY <1>8 DEF CopyImage, Then
<1>9. CASE OpenParentChild
  BY <1>9 DEF OpenParentChild, Then
<1>10. CASE WriteParentChild
  BY <1>10 DEF WriteParentChild, Then
<1>11. CASE OpenChildParent
  BY <1>11 DEF OpenChildParent, Then
<1>12. CASE WriteChildParent
  BY <1>12 DEF WriteChildParent, Then
<1>13. CASE TranslateCopy
  BY <1>13 DEF TranslateCopy, Return
<1>14. CASE MakeFails
  BY <1>14 DEF MakeFails, BreakOff, Return
<1>15. CASE DeleteCopy
  BY <1>15 DEF DeleteCopy, Then
<1>16. CASE RemoveChildParent
  BY <1>16 DEF RemoveChildParent, Return, Then
<1>17. CASE RemoveParentChild
  BY <1>17 DEF RemoveParentChild, Return
<1>18. CASE Reopen
  BY <1>18 DEF Reopen, Then
<1>19. ASSUME NEW n \in Copies, Rewrite(n) PROVE MatchInv'
  BY <1>19 DEF Rewrite, Return
<1>20. CASE UnmakeFails
  BY <1>20 DEF UnmakeFails, BreakOff, Return
<1>21. CASE Crash
  BY <1>21 DEF Crash, BreakOff, Return
<1>22. CASE UNCHANGED vars
  BY <1>22 DEF vars
<1> QED
  BY <1>1, <1>2, <1>3, <1>4, <1>5, <1>6, <1>7, <1>8, <1>9, <1>10, <1>11, <1>12,
     <1>13, <1>14, <1>15, <1>16, <1>17, <1>18, <1>19, <1>20, <1>21, <1>22
  DEF Next, MakeStep, UnmakeStep

\* Every step keeps graph and parent-child together.
LEMMA NextFileInv == AufsInv /\ [Next]_vars => FileInv'
<1> SUFFICES ASSUME AufsInv, [Next]_vars
             PROVE  FileInv'
  OBVIOUS
<1> USE AufsAssumption DEF AufsInv, TypeOK, CallInv, ChildInv, CopyInv, MatchInv,
   Matches, FileInv, FileOf, Untouched, Clean, Lines, LinkedCopies, Making,
   Copied, Noted, Removed, Rewriting
<1>1. ASSUME NEW i \in Images, RegisterImage(i) PROVE FileInv'
  BY <1>1 DEF RegisterImage
<1>2. ASSUME NEW i \in Images, RemoveImage(i) PROVE FileInv'
  BY <1>2 DEF RemoveImage, IsLeaf, HasChildInfo
<1>3. ASSUME NEW n \in Copies, NamespaceCall(n) PROVE FileInv'
  BY <1>3 DEF NamespaceCall
<1>4. ASSUME NEW n \in Copies, RemoveCall(n) PROVE FileInv'
  BY <1>4 DEF RemoveCall
<1>5. CASE GetCopy
  BY <1>5 DEF GetCopy, Return, Then
<1>6. CASE HasInfo
  BY <1>6 DEF HasInfo, Return, Then
<1>7. CASE RegisterCopy
  BY <1>7 DEF RegisterCopy, Then
<1>8. CASE CopyImage
  BY <1>8 DEF CopyImage, Then
<1>9. CASE OpenParentChild
  <2>1. /\ copy' = copy /\ copy \in Copies /\ Source[copy] \in Images /\ step' = "writeParentChild"
        /\ \A i \in Images : LinkedCopies(i)' = LinkedCopies(i) /\ (Clean(i)' <=> Clean(i))
    BY <1>9 DEF OpenParentChild, Then
  <2>2. ASSUME NEW i \in Images, Clean(i), i # Source[copy]
        PROVE  parentChild'[i] = IF LinkedCopies(i) = {} THEN NoFile ELSE LinkedCopies(i)
    BY <1>9, <2>2 DEF OpenParentChild, Then
  <2>3. ASSUME Clean(Source[copy])
        PROVE  parentChild'[Source[copy]] = LinkedCopies(Source[copy])
    BY <1>9, <2>1, <2>3 DEF OpenParentChild, Then
  <2> HIDE DEF LinkedCopies, Clean
  <2>4. ASSUME NEW i \in Images, Clean(i)' PROVE FileOf(i)'
    <3>1. CASE i # Source[copy]
      BY <2>1, <2>2, <2>4, <3>1
    <3>2. CASE i = Source[copy]
      BY <2>1, <2>3, <2>4, <3>2
    <3> QED
      BY <3>1, <3>2
  <2> QED
    <3> HIDE DEF FileOf
    <3> QED BY <2>4
<1>10. CASE WriteParentChild
  <2>1. /\ copy' = copy /\ copy \in Copies /\ Source[copy] \in Images /\ step' = "openChildParent"
        /\ \A i \in Images : LinkedCopies(i)' = LinkedCopies(i) /\ (Clean(i)' <=> Clean(i))
    BY <1>10 DEF WriteParentChild, Then
  <2>2. ASSUME NEW i \in Images, Clean(i), i # Source[copy]
        PROVE  parentChild'[i] = IF LinkedCopies(i) = {} THEN NoFile ELSE LinkedCopies(i)
    BY <1>10, <2>2 DEF WriteParentChild, Then
  <2>3. ASSUME Clean(Source[copy])
        PROVE  parentChild'[Source[copy]] = LinkedCopies(Source[copy]) \cup {copy}
    BY <1>10, <2>1, <2>3 DEF WriteParentChild, Then
  <2> HIDE DEF LinkedCopies, Clean
  <2>4. ASSUME NEW i \in Images, Clean(i)' PROVE FileOf(i)'
    <3>1. CASE i # Source[copy]
      BY <2>1, <2>2, <2>4, <3>1
    <3>2. CASE i = Source[copy]
      BY <2>1, <2>3, <2>4, <3>2
    <3> QED
      BY <3>1, <3>2
  <2> QED
    <3> HIDE DEF FileOf
    <3> QED BY <2>4
<1>11. CASE OpenChildParent
  BY <1>11 DEF OpenChildParent, Then
<1>12. CASE WriteChildParent
  BY <1>12 DEF WriteChildParent, Then
<1>13. CASE TranslateCopy
  BY <1>13 DEF TranslateCopy, Return
<1>14. CASE MakeFails
  BY <1>14 DEF MakeFails, BreakOff, Return
<1>15. CASE DeleteCopy
  BY <1>15 DEF DeleteCopy, Then
<1>16. CASE RemoveChildParent
  BY <1>16 DEF RemoveChildParent, Return, Then
<1>17. CASE RemoveParentChild
  <2> DEFINE src == Source[copy]
             file == parentChild[src]
             rest == IF file = NoFile THEN {} ELSE file \ {copy}
  <2>1. /\ copy \in Copies /\ src \in Images /\ copy \notin LinkedCopies(src)
        /\ \A i \in Images : LinkedCopies(i)' = LinkedCopies(i) /\ (Clean(i)' <=> Clean(i))
    BY <1>17 DEF RemoveParentChild
  <2>2. ASSUME NEW i \in Images, Clean(i), i # src
        PROVE  parentChild'[i] = IF LinkedCopies(i) = {} THEN NoFile ELSE LinkedCopies(i)
    BY <1>17, <2>2 DEF RemoveParentChild
  <2>3. parentChild'[src] = NoFile
    BY <1>17, <2>1 DEF RemoveParentChild
  <2>4. ASSUME Clean(src)
        PROVE  rest = LinkedCopies(src)
    <3>1. file = LinkedCopies(src) \cup {copy} /\ file # NoFile
      BY <1>17, <2>1, <2>4 DEF RemoveParentChild
    <3> QED
      BY <2>1, <3>1
  <2>5. ASSUME NEW i \in Images, Clean(i)', rest = {} PROVE FileOf(i)'
    <3>1. step' = "idle" /\ copy' = NoCopy
      BY <1>17, <2>5 DEF RemoveParentChild, Return
    <3> HIDE DEF LinkedCopies, Clean, Lines, rest
    <3>2. CASE i # src
      BY <2>1, <2>2, <2>5, <3>1, <3>2
    <3>3. CASE i = src
      BY <2>1, <2>3, <2>4, <2>5, <3>1, <3>3
    <3> QED
      BY <3>2, <3>3
  <2>6. ASSUME NEW i \in Images, Clean(i)', rest # {} PROVE FileOf(i)'
    <3>1. step' = "reopen" /\ copy' = copy /\ others' = rest
      BY <1>17, <2>6 DEF RemoveParentChild
    <3>2. ASSUME Clean(src)
          PROVE  Lines(src)' = LinkedCopies(src)
      <4> HIDE DEF rest
      <4> QED BY <2>1, <2>3, <2>4, <3>1, <3>2
    <3> HIDE DEF LinkedCopies, Clean, Lines, rest
    <3>3. CASE i # src
      BY <2>1, <2>2, <2>6, <3>1, <3>3
    <3>4. CASE i = src
      BY <2>1, <2>6, <3>1, <3>2, <3>4
    <3> QED
      BY <3>3, <3>4
  <2> QED
    <3> HIDE DEF FileOf, Clean
    <3> QED BY <2>5, <2>6
<1>18. CASE Reopen
  <2>1. /\ copy' = copy /\ copy \in Copies /\ Source[copy] \in Images /\ step' = "rewrite"
        /\ \A i \in Images : LinkedCopies(i)' = LinkedCopies(i) /\ (Clean(i)' <=> Clean(i))
    BY <1>18 DEF Reopen, Then
  <2>2. ASSUME NEW i \in Images, Clean(i), i # Source[copy]
        PROVE  parentChild'[i] = IF LinkedCopies(i) = {} THEN NoFile ELSE LinkedCopies(i)
    BY <1>18, <2>2 DEF Reopen, Then
  <2>3. ASSUME Clean(Source[copy])
        PROVE  Lines(Source[copy])' = LinkedCopies(Source[copy])
    BY <1>18, <2>1, <2>3 DEF Reopen, Then
  <2> HIDE DEF LinkedCopies, Clean, Lines
  <2>4. ASSUME NEW i \in Images, Clean(i)' PROVE FileOf(i)'
    <3>1. CASE i # Source[copy]
      BY <2>1, <2>2, <2>4, <3>1
    <3>2. CASE i = Source[copy]
      BY <2>1, <2>3, <2>4, <3>2
    <3> QED
      BY <3>1, <3>2
  <2> QED
    <3> HIDE DEF FileOf
    <3> QED BY <2>4
<1>19. ASSUME NEW n \in Copies, Rewrite(n) PROVE FileInv'
  <2> DEFINE src == Source[copy]
  <2>1. /\ copy \in Copies /\ src \in Images
        /\ \A i \in Images : LinkedCopies(i)' = LinkedCopies(i) /\ (Clean(i)' <=> Clean(i))
    BY <1>19 DEF Rewrite
  <2>2. ASSUME NEW i \in Images, Clean(i), i # src
        PROVE  parentChild'[i] = IF LinkedCopies(i) = {} THEN NoFile ELSE LinkedCopies(i)
    BY <1>19, <2>2 DEF Rewrite
  <2>3. parentChild'[src] = parentChild[src] \cup {n} /\ parentChild'[src] # NoFile
    BY <1>19, <2>1 DEF Rewrite
  <2>4. ASSUME Clean(src)
        PROVE  LinkedCopies(src) = parentChild[src] \cup others
    BY <1>19, <2>1, <2>4 DEF Rewrite
  <2>5. ASSUME NEW i \in Images, Clean(i)', others = {n} PROVE FileOf(i)'
    <3>1. step' = "idle" /\ copy' = NoCopy
      BY <1>19, <2>5 DEF Rewrite, Return
    <3>2. ASSUME Clean(src)
          PROVE  parentChild'[src] = LinkedCopies(src) /\ LinkedCopies(src) # {}
      BY <2>3, <2>4, <2>5, <3>2
    <3> HIDE DEF LinkedCopies, Clean, Lines
    <3>3. CASE i # src
      BY <2>1, <2>2, <2>5, <3>1, <3>3
    <3>4. CASE i = src
      BY <2>1, <2>5, <3>1, <3>2, <3>4
    <3> QED
      BY <3>3, <3>4
  <2>6. ASSUME NEW i \in Images, Clean(i)', others # {n} PROVE FileOf(i)'
    <3>1. step' = "reopen" /\ copy' = copy /\ others' = others \ {n} /\ n \in others
      BY <1>19, <2>6 DEF Rewrite
    <3>2. ASSUME Clean(src)
          PROVE  Lines(src)' = LinkedCopies(src)
      BY <2>1, <2>3, <2>4, <3>1, <3>2
    <3> HIDE DEF LinkedCopies, Clean, Lines
    <3>3. CASE i # src
      BY <2>1, <2>2, <2>6, <3>1, <3>3
    <3>4. CASE i = src
      BY <2>1, <2>6, <3>1, <3>2, <3>4
    <3> QED
      BY <3>3, <3>4
  <2> QED
    <3> HIDE DEF FileOf, Clean
    <3> QED BY <2>5, <2>6
<1>20. CASE UnmakeFails
  BY <1>20 DEF UnmakeFails, BreakOff, Return
<1>21. CASE Crash
  BY <1>21 DEF Crash, BreakOff, Return
<1>22. CASE UNCHANGED vars
  BY <1>22 DEF vars
<1> QED
  BY <1>1, <1>2, <1>3, <1>4, <1>5, <1>6, <1>7, <1>8, <1>9, <1>10, <1>11, <1>12,
     <1>13, <1>14, <1>15, <1>16, <1>17, <1>18, <1>19, <1>20, <1>21, <1>22
  DEF Next, MakeStep, UnmakeStep

\* Every step keeps the copies translated that nothing broke off on.
LEMMA NextContentInv == AufsInv /\ [Next]_vars => ContentInv'
<1> SUFFICES ASSUME AufsInv, [Next]_vars
             PROVE  ContentInv'
  OBVIOUS
<1> USE AufsAssumption DEF AufsInv, TypeOK, CallInv, CopyInv, ContentInv, Making,
   Copied, Noted, Removed, Rewriting
<1>1. ASSUME NEW i \in Images, RegisterImage(i) PROVE ContentInv'
  BY <1>1 DEF RegisterImage
<1>2. ASSUME NEW i \in Images, RemoveImage(i) PROVE ContentInv'
  BY <1>2 DEF RemoveImage, IsLeaf, HasChildInfo
<1>3. ASSUME NEW n \in Copies, NamespaceCall(n) PROVE ContentInv'
  BY <1>3 DEF NamespaceCall
<1>4. ASSUME NEW n \in Copies, RemoveCall(n) PROVE ContentInv'
  BY <1>4 DEF RemoveCall
<1>5. CASE GetCopy
  BY <1>5 DEF GetCopy, Return, Then
<1>6. CASE HasInfo
  BY <1>6 DEF HasInfo, Return, Then
<1>7. CASE RegisterCopy
  BY <1>7 DEF RegisterCopy, Then
<1>8. CASE CopyImage
  BY <1>8 DEF CopyImage, Then
<1>9. CASE OpenParentChild
  BY <1>9 DEF OpenParentChild, Then
<1>10. CASE WriteParentChild
  BY <1>10 DEF WriteParentChild, Then
<1>11. CASE OpenChildParent
  BY <1>11 DEF OpenChildParent, Then
<1>12. CASE WriteChildParent
  BY <1>12 DEF WriteChildParent, Then
<1>13. CASE TranslateCopy
  <2>1. copy \in Copies
    BY <1>13 DEF TranslateCopy
  <2>2. PICK outcomes \in [DOMAIN Names -> IF "walk" \in Faults THEN Outcomes ELSE {"done"}] :
        /\ content' = [content EXCEPT ![copy] =
               IF IsTranslated(Namespace(outcomes)) THEN "translated" ELSE "copied"]
        /\ broken' = broken \cup {n \in {copy} : \E k \in DOMAIN Names : outcomes[k] # "done"}
    BY <1>13 DEF TranslateCopy
  <2>3. ASSUME copy \notin broken'
        PROVE  content'[copy] = "translated"
    <3>1. \A k \in DOMAIN Names : outcomes[k] = "done"
      BY <2>2, <2>3
    <3>2. outcomes \in [DOMAIN Names -> {"done"}]
      BY <2>2, <3>1
    <3>3. IsTranslated(Namespace(outcomes))
      BY <3>2, CleanWalkTranslates
    <3> QED
      BY <2>1, <2>2, <3>3
  <2>4. \A n \in Copies \ {copy} : content'[n] = content[n] /\ (n \in broken' <=> n \in broken)
    BY <2>1, <2>2
  <2>5. graph' = graph
    BY <1>13 DEF TranslateCopy
  <2> QED
    BY <2>1, <2>3, <2>4, <2>5
<1>14. CASE MakeFails
  BY <1>14 DEF MakeFails, BreakOff, Return
<1>15. CASE DeleteCopy
  BY <1>15 DEF DeleteCopy, Then
<1>16. CASE RemoveChildParent
  BY <1>16 DEF RemoveChildParent, Return, Then
<1>17. CASE RemoveParentChild
  BY <1>17 DEF RemoveParentChild, Return
<1>18. CASE Reopen
  BY <1>18 DEF Reopen, Then
<1>19. ASSUME NEW n \in Copies, Rewrite(n) PROVE ContentInv'
  BY <1>19 DEF Rewrite, Return
<1>20. CASE UnmakeFails
  BY <1>20 DEF UnmakeFails, BreakOff, Return
<1>21. CASE Crash
  BY <1>21 DEF Crash, BreakOff, Return
<1>22. CASE UNCHANGED vars
  BY <1>22 DEF vars
<1> QED
  BY <1>1, <1>2, <1>3, <1>4, <1>5, <1>6, <1>7, <1>8, <1>9, <1>10, <1>11, <1>12,
     <1>13, <1>14, <1>15, <1>16, <1>17, <1>18, <1>19, <1>20, <1>21, <1>22
  DEF Next, MakeStep, UnmakeStep

\* Every step keeps the answer in the graph until the next call.
LEMMA NextAnswerInv == AufsInv /\ [Next]_vars => AnswerInv'
<1> SUFFICES ASSUME AufsInv, [Next]_vars
             PROVE  AnswerInv'
  OBVIOUS
<1> USE AufsAssumption DEF AufsInv, TypeOK, CallInv, CopyInv, AnswerInv, Making,
   Copied, Noted, Removed, Rewriting
<1>1. ASSUME NEW i \in Images, RegisterImage(i) PROVE AnswerInv'
  BY <1>1 DEF RegisterImage
<1>2. ASSUME NEW i \in Images, RemoveImage(i) PROVE AnswerInv'
  BY <1>2 DEF RemoveImage, IsLeaf, HasChildInfo
<1>3. ASSUME NEW n \in Copies, NamespaceCall(n) PROVE AnswerInv'
  BY <1>3 DEF NamespaceCall
<1>4. ASSUME NEW n \in Copies, RemoveCall(n) PROVE AnswerInv'
  BY <1>4 DEF RemoveCall
<1>5. CASE GetCopy
  BY <1>5 DEF GetCopy, Return, Then
<1>6. CASE HasInfo
  BY <1>6 DEF HasInfo, Return, Then
<1>7. CASE RegisterCopy
  BY <1>7 DEF RegisterCopy, Then
<1>8. CASE CopyImage
  BY <1>8 DEF CopyImage, Then
<1>9. CASE OpenParentChild
  BY <1>9 DEF OpenParentChild, Then
<1>10. CASE WriteParentChild
  BY <1>10 DEF WriteParentChild, Then
<1>11. CASE OpenChildParent
  BY <1>11 DEF OpenChildParent, Then
<1>12. CASE WriteChildParent
  BY <1>12 DEF WriteChildParent, Then
<1>13. CASE TranslateCopy
  BY <1>13 DEF TranslateCopy, Return
<1>14. CASE MakeFails
  BY <1>14 DEF MakeFails, BreakOff, Return
<1>15. CASE DeleteCopy
  BY <1>15 DEF DeleteCopy, Then
<1>16. CASE RemoveChildParent
  BY <1>16 DEF RemoveChildParent, Return, Then
<1>17. CASE RemoveParentChild
  BY <1>17 DEF RemoveParentChild, Return
<1>18. CASE Reopen
  BY <1>18 DEF Reopen, Then
<1>19. ASSUME NEW n \in Copies, Rewrite(n) PROVE AnswerInv'
  BY <1>19 DEF Rewrite, Return
<1>20. CASE UnmakeFails
  BY <1>20 DEF UnmakeFails, BreakOff, Return
<1>21. CASE Crash
  BY <1>21 DEF Crash, BreakOff, Return
<1>22. CASE UNCHANGED vars
  BY <1>22 DEF vars
<1> QED
  BY <1>1, <1>2, <1>3, <1>4, <1>5, <1>6, <1>7, <1>8, <1>9, <1>10, <1>11, <1>12,
     <1>13, <1>14, <1>15, <1>16, <1>17, <1>18, <1>19, <1>20, <1>21, <1>22
  DEF Next, MakeStep, UnmakeStep

\* Neither a layer nor a file initially.
LEMMA InitAufsInv == Init => AufsInv
  BY AufsAssumption
  DEF Init, AufsInv, TypeOK, CallInv, ChildInv, CopyInv, LineInv, LinkedCopiesAreWhole,
      MatchInv, Matches, FileInv, FileOf, Untouched, Clean, Lines, LinkedCopies, ContentInv,
      AnswerInv, Making, Copied, Noted, Removed, Rewriting, Steps

(***************************************************************************)
(* AufsInv holds throughout, whatever fails and wherever the process dies: *)
(* how far graph and files are apart at each statement of Create and of    *)
(* Remove (aufs.go 33-92, 135-193).                                        *)
(***************************************************************************)
THEOREM AufsInvHolds == Spec => []AufsInv
<1>1. AufsInv /\ [Next]_vars => AufsInv'
  BY NextTypeOK, NextCallInv, NextChildInv, NextCopyInv, NextLineInv,
     NextLinkedCopiesAreWhole, NextMatchInv, NextFileInv, NextContentInv, NextAnswerInv
  DEF AufsInv
<1> QED
  BY InitAufsInv, <1>1, PTL DEF Spec

\* Every variable keeps its type.
THEOREM TypesHold == Spec => []TypeOK
<1>1. AufsInv => TypeOK
  BY DEF AufsInv
<1> QED
  BY AufsInvHolds, <1>1, PTL

(***************************************************************************)
(* Between operations an image with a recorded copy in the graph has a     *)
(* parent-child file and so is no leaf, unless the rewriting of that very  *)
(* file was cut off (aufs.go 117-133, 184-192).                            *)
(***************************************************************************)
THEOREM SiblingsProtectTheirImage == Spec => []SiblingsKeepParent
<1>1. AufsInv => SiblingsKeepParent
  BY DEF AufsInv, LineInv, Lines, Rewriting, SiblingsKeepParent, IsLeaf, HasChildInfo
<1> QED
  BY AufsInvHolds, <1>1, PTL

(***************************************************************************)
(* A copy recorded in child-parent holds all of its image, after any       *)
(* failure and any crash (aufs.go 60-71).                                  *)
(***************************************************************************)
THEOREM RecordedCopiesAreWhole == Spec => []LinkedCopiesAreWhole
<1>1. AufsInv => LinkedCopiesAreWhole
  BY DEF AufsInv
<1> QED
  BY AufsInvHolds, <1>1, PTL

(***************************************************************************)
(* Between operations the graph and both directories of files agree on     *)
(* every id on which no operation has broken off (aufs.go 33-92, 135-193). *)
(***************************************************************************)
THEOREM FilesFollowGraph == Spec => []FilesMatchGraph
<1>1. AufsInv => FilesMatchGraph
  <2> SUFFICES ASSUME AufsInv, step = "idle"
               PROVE  /\ \A n \in Copies \ broken : Matches(n)
                      /\ \A i \in Images : Clean(i) =>
                           parentChild[i] = IF LinkedCopies(i) = {} THEN NoFile
                                            ELSE LinkedCopies(i)
    BY DEF FilesMatchGraph, Matches, Clean
  <2>1. copy \notin Copies
    BY AufsAssumption DEF AufsInv, CallInv
  <2> QED
    BY <2>1 DEF AufsInv, MatchInv, FileInv, FileOf, Untouched
<1> QED
  BY AufsInvHolds, <1>1, PTL

(***************************************************************************)
(* What namespace() returns is translated, each inode exactly once, unless *)
(* an operation on that very copy has broken off (layer_creator.go 73-94). *)
(***************************************************************************)
THEOREM UnbrokenAnswersAreTranslated == Spec => []UnbrokenAnswers
<1>1. AufsInv => UnbrokenAnswers
  BY AufsAssumption
  DEF AufsInv, TypeOK, CallInv, ContentInv, AnswerInv, UnbrokenAnswers, AnswerIsTranslated
<1> QED
  BY AufsInvHolds, <1>1, PTL
=============================================================================
