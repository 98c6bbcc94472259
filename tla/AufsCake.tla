------------------------------ MODULE AufsCake ------------------------------
(***************************************************************************)
(* layercake/aufs.go and its caller, ContainerLayerCreator.namespace.      *)
(*                                                                         *)
(* On AUFS a uid-translated ("namespaced") layer is a full copy of its     *)
(* image, registered in the graph without a parent.  Which image it was    *)
(* copied from is kept in two directories of plain files:                  *)
(*   garden-info/parent-child/<image>: one line per copy of the image;     *)
(*   garden-info/child-parent/<copy>:  the image the copy was made of.     *)
(* Files and graph live on disk and are written step by step; any step may *)
(* fail, which returns an error and undoes nothing, and the process may    *)
(* die between any two.  The operations run one at a time: copies are made *)
(* under ContainerLayerCreator.mutex and the read lock of CakeOrdinator,   *)
(* and removed under its write lock (module CakeOrdinator).                *)
(***************************************************************************)
EXTENDS UidTranslator

CONSTANTS
    Images,     \* graph ids of image layers
    Copies,     \* graph ids of namespaced layers
    Source,     \* the image a namespaced id is derived from
    NoFile,     \* there is no such file
    EmptyFile,  \* the file has been created but not written
    NoCopy,
    Faults      \* subset of FaultKinds

\* "make": a step of Create or of namespacing fails; "unmake": a step of
\* Remove fails; "walk": the translation stops half-way; "crash": the
\* process dies and is started again.
FaultKinds == {"make", "unmake", "walk", "crash"}

ASSUME AufsAssumption ==
    /\ Source \in [Copies -> Images]
    /\ Images \cap Copies = {}
    /\ {NoFile, EmptyFile, NoCopy} \cap (Images \cup Copies) = {}
    /\ NoFile # EmptyFile
    /\ \A lines \in SUBSET Copies : NoFile # lines
    /\ Faults \subseteq FaultKinds

VARIABLES
    graph,        \* the ids registered in docker's graph
    content,      \* what each namespaced layer's directory holds
    parentChild,  \* the parent-child files: NoFile, or the set of their lines
    childParent,  \* the child-parent files: NoFile, EmptyFile or their line
    step,         \* the next statement of the operation under way
    copy,         \* the namespaced layer it works on
    others,       \* removeInfo: the lines it has still to write back
    answer,       \* history: the layer namespace() returned last, or NoCopy
    broken        \* history: ids on which an operation has broken off

vars == <<graph, content, parentChild, childParent, step, copy, others, answer, broken>>

Steps == {"idle", "get", "hasInfo", "register", "copy", "openParentChild",
          "writeParentChild", "openChildParent", "writeChildParent", "translate",
          "delete", "removeChildParent", "removeParentChild", "reopen", "rewrite"}

TypeOK ==
    /\ graph \subseteq Images \cup Copies
    /\ content \in [Copies -> {"none", "empty", "partial", "copied", "translated"}]
    /\ parentChild \in [Images -> {NoFile} \cup SUBSET Copies]
    /\ childParent \in [Copies -> Images \cup {NoFile, EmptyFile}]
    /\ step \in Steps
    /\ copy \in Copies \cup {NoCopy}
    /\ others \subseteq Copies
    /\ answer \in Copies \cup {NoCopy}
    /\ broken \subseteq Images \cup Copies

Init ==
    /\ graph = {}
    /\ content = [n \in Copies |-> "none"]
    /\ parentChild = [i \in Images |-> NoFile]
    /\ childParent = [n \in Copies |-> NoFile]
    /\ step = "idle"
    /\ copy = NoCopy
    /\ others = {}
    /\ answer = NoCopy
    /\ broken = {}

\* os.Stat on the file in parent-child.
HasChildInfo(i) == parentChild[i] # NoFile

\* AufsCake.IsLeaf of an image that no graph layer sits on.
IsLeaf(i) == ~HasChildInfo(i)

Return ==
    /\ step' = "idle"
    /\ copy' = NoCopy
    /\ others' = {}

\* The statement after this one.
Then(s) == step' = s /\ UNCHANGED <<copy, others>>

----------------------------------------------------------------------------
(***************************************************************************)
(* The fetcher registers an image; the cleaner removes one that is a leaf. *)
(***************************************************************************)
RegisterImage(i) ==
    /\ step = "idle"
    /\ i \notin graph
    /\ graph' = graph \cup {i}
    /\ answer' = NoCopy
    /\ UNCHANGED <<content, parentChild, childParent, step, copy, others, broken>>

RemoveImage(i) ==
    /\ step = "idle"
    /\ i \in graph
    /\ IsLeaf(i)
    /\ graph' = graph \ {i}
    /\ answer' = NoCopy
    /\ UNCHANGED <<content, parentChild, childParent, step, copy, others, broken>>

----------------------------------------------------------------------------
(***************************************************************************)
(* ContainerLayerCreator.namespace and AufsCake.Create.                    *)
(***************************************************************************)
NamespaceCall(n) ==
    /\ step = "idle"
    /\ Source[n] \in graph
    /\ step' = "get"
    /\ copy' = n
    /\ answer' = NoCopy
    /\ UNCHANGED <<graph, content, parentChild, childParent, others, broken>>

\* A layer of that id in the graph is returned as it is.
GetCopy ==
    /\ step = "get"
    /\ IF copy \in graph THEN Return /\ answer' = copy
                         ELSE Then("hasInfo") /\ UNCHANGED answer
    /\ UNCHANGED <<graph, content, parentChild, childParent, broken>>

HasInfo ==
    /\ step = "hasInfo"
    /\ IF childParent[copy] # NoFile THEN Return ELSE Then("register")
    /\ UNCHANGED <<graph, content, parentChild, childParent, answer, broken>>

RegisterCopy ==
    /\ step = "register"
    /\ graph' = graph \cup {copy}
    /\ content' = [content EXCEPT ![copy] = "empty"]
    /\ Then("copy")
    /\ UNCHANGED <<parentChild, childParent, answer, broken>>

\* Mutant: an error of cp is ignored.
CopyImageIgnoringErrors ==
    /\ step = "copy"
    /\ \/ content' = [content EXCEPT ![copy] = "copied"]
       \/ "make" \in Faults /\ content' = [content EXCEPT ![copy] = "partial"]
    /\ Then("openParentChild")
    /\ UNCHANGED <<graph, parentChild, childParent, answer, broken>>

\* cp -a of the mounted image into the mounted copy.
CopyImage ==
    /\ step = "copy"
    /\ content' = [content EXCEPT ![copy] = "copied"]
    /\ Then("openParentChild")
    /\ UNCHANGED <<graph, parentChild, childParent, answer, broken>>

\* addInfo opens the file, creating it, and appends a line.
OpenParentChild ==
    /\ step = "openParentChild"
    /\ parentChild' = [parentChild EXCEPT ![Source[copy]] = IF @ = NoFile THEN {} ELSE @]
    /\ Then("writeParentChild")
    /\ UNCHANGED <<graph, content, childParent, answer, broken>>

WriteParentChild ==
    /\ step = "writeParentChild"
    /\ parentChild' = [parentChild EXCEPT ![Source[copy]] = @ \cup {copy}]
    /\ Then("openChildParent")
    /\ UNCHANGED <<graph, content, childParent, answer, broken>>

OpenChildParent ==
    /\ step = "openChildParent"
    /\ childParent' = [childParent EXCEPT ![copy] = EmptyFile]
    /\ Then("writeChildParent")
    /\ UNCHANGED <<graph, content, parentChild, answer, broken>>

\* Mutant: the copy is noted as its own parent.
WriteChildAsParent ==
    /\ step = "writeChildParent"
    /\ childParent' = [childParent EXCEPT ![copy] = copy]
    /\ Then("translate")
    /\ UNCHANGED <<graph, content, parentChild, answer, broken>>

WriteChildParent ==
    /\ step = "writeChildParent"
    /\ childParent' = [childParent EXCEPT ![copy] = Source[copy]]
    /\ Then("translate")
    /\ UNCHANGED <<graph, content, parentChild, answer, broken>>

\* Mutant: the copy is not translated.
SkipTranslate ==
    /\ step = "translate"
    /\ Return
    /\ answer' = copy
    /\ UNCHANGED <<graph, content, parentChild, childParent, broken>>

\* The namespacer walks over the copy.  What goes wrong on the way is ignored,
\* and namespace() succeeds all the same.
TranslateCopy ==
    /\ step = "translate"
    /\ \E outcomes \in [DOMAIN Names -> IF "walk" \in Faults THEN Outcomes ELSE {"done"}] :
        /\ content' = [content EXCEPT ![copy] =
               IF IsTranslated(Namespace(outcomes)) THEN "translated" ELSE "copied"]
        /\ broken' = broken \cup {n \in {copy} : \E k \in DOMAIN Names : outcomes[k] # "done"}
    /\ Return
    /\ answer' = copy
    /\ UNCHANGED <<graph, parentChild, childParent>>

\* The operation ends here; a file that was being rewritten stays as it is.
BreakOff ==
    /\ broken' = broken \cup {copy} \cup
         (IF step \in {"reopen", "rewrite"} THEN {Source[copy]} ELSE {})
    /\ Return

\* Any statement fails: the error is returned, and what was done stays.
MakeFails ==
    /\ "make" \in Faults
    /\ step \in {"register", "copy", "openParentChild", "writeParentChild",
                 "openChildParent", "writeChildParent", "translate"}
    /\ \/ UNCHANGED content
       \/ step = "copy" /\ content' = [content EXCEPT ![copy] = "partial"]
    /\ BreakOff
    /\ UNCHANGED <<graph, parentChild, childParent, answer>>

----------------------------------------------------------------------------
(***************************************************************************)
(* AufsCake.Remove of a namespaced layer.                                  *)
(***************************************************************************)
RemoveCall(n) ==
    /\ step = "idle"
    /\ n \in graph
    /\ step' = "delete"
    /\ copy' = n
    /\ answer' = NoCopy
    /\ UNCHANGED <<graph, content, parentChild, childParent, others, broken>>

DeleteCopy ==
    /\ step = "delete"
    /\ graph' = graph \ {copy}
    /\ content' = [content EXCEPT ![copy] = "none"]
    /\ Then("removeChildParent")
    /\ UNCHANGED <<parentChild, childParent, answer, broken>>

\* Mutant: the child-parent file stays.
KeepChildParent ==
    /\ step = "removeChildParent"
    /\ IF childParent[copy] \in {NoFile, EmptyFile} THEN Return ELSE Then("removeParentChild")
    /\ UNCHANGED <<graph, content, parentChild, childParent, answer, broken>>

\* No child-parent file: nothing more to do.  An empty one names no parent,
\* and removeInfo then reads a directory, which fails.
RemoveChildParent ==
    /\ step = "removeChildParent"
    /\ IF childParent[copy] \in {NoFile, EmptyFile} THEN Return ELSE Then("removeParentChild")
    /\ childParent' = [childParent EXCEPT ![copy] = NoFile]
    /\ UNCHANGED <<graph, content, parentChild, answer, broken>>

\* Mutant: the parent-child file goes away with its first child.
RemoveWholeFile ==
    /\ step = "removeParentChild"
    /\ parentChild' = [parentChild EXCEPT ![Source[copy]] = NoFile]
    /\ Return
    /\ UNCHANGED <<graph, content, childParent, answer, broken>>

\* removeInfo reads the file, deletes it and writes the other lines back.
RemoveParentChild ==
    /\ step = "removeParentChild"
    /\ LET file == parentChild[Source[copy]]
           rest == IF file = NoFile THEN {} ELSE file \ {copy}
       IN  IF rest = {} THEN Return
                        ELSE step' = "reopen" /\ others' = rest /\ UNCHANGED copy
    /\ parentChild' = [parentChild EXCEPT ![Source[copy]] = NoFile]
    /\ UNCHANGED <<graph, content, childParent, answer, broken>>

Reopen ==
    /\ step = "reopen"
    /\ parentChild' = [parentChild EXCEPT ![Source[copy]] = IF @ = NoFile THEN {} ELSE @]
    /\ Then("rewrite")
    /\ UNCHANGED <<graph, content, childParent, answer, broken>>

Rewrite(n) ==
    /\ step = "rewrite"
    /\ n \in others
    /\ parentChild' = [parentChild EXCEPT ![Source[copy]] = @ \cup {n}]
    /\ IF others = {n} THEN Return
                       ELSE step' = "reopen" /\ others' = others \ {n} /\ UNCHANGED copy
    /\ UNCHANGED <<graph, content, childParent, answer, broken>>

UnmakeFails ==
    /\ "unmake" \in Faults
    /\ step \in {"delete", "removeChildParent", "removeParentChild", "reopen", "rewrite"}
    /\ BreakOff
    /\ UNCHANGED <<graph, content, parentChild, childParent, answer>>

----------------------------------------------------------------------------
\* The process dies and comes back; what is on disk is what there is.
Crash ==
    /\ "crash" \in Faults
    /\ step # "idle"
    /\ BreakOff
    /\ answer' = NoCopy
    /\ UNCHANGED <<graph, content, parentChild, childParent>>

MakeStep ==
    \/ GetCopy
    \/ HasInfo
    \/ RegisterCopy
    \/ CopyImage
    \/ OpenParentChild
    \/ WriteParentChild
    \/ OpenChildParent
    \/ WriteChildParent
    \/ TranslateCopy
    \/ MakeFails

UnmakeStep ==
    \/ DeleteCopy
    \/ RemoveChildParent
    \/ RemoveParentChild
    \/ Reopen
    \/ \E n \in Copies : Rewrite(n)
    \/ UnmakeFails

Next ==
    \/ \E i \in Images : RegisterImage(i) \/ RemoveImage(i)
    \/ \E n \in Copies : NamespaceCall(n) \/ RemoveCall(n)
    \/ MakeStep
    \/ UnmakeStep
    \/ Crash

Spec == Init /\ [][Next]_vars

----------------------------------------------------------------------------
\* Copies of i that the graph has and child-parent knows.
LinkedCopies(i) == {n \in graph \cap Copies : childParent[n] = i}

(***************************************************************************)
(* An image stays a non-leaf while a copy of it that child-parent records  *)
(* is in the graph, "should not make the parent a leaf when removing the   *)
(* first child" of two (aufs_test.go 649-669): even after failures and     *)
(* crashes, unless the rewriting of this image's own parent-child file has *)
(* been cut off (aufs.go 184-192).                                         *)
(***************************************************************************)
SiblingsKeepParent == step = "idle" =>
    \A i \in Images \ broken : LinkedCopies(i) # {} => ~IsLeaf(i)

(***************************************************************************)
(* A copy that child-parent records holds the whole image, even after a    *)
(* failure or a crash: the file is written once cp is through              *)
(* (aufs.go 60-71).                                                        *)
(***************************************************************************)
LinkedCopiesAreWhole == \A i \in Images : \A n \in LinkedCopies(i) :
    content[n] \in {"copied", "translated"}

(***************************************************************************)
(* Between operations graph and files agree on every id on which no        *)
(* operation has broken off, whatever has happened to other ids: a copy is *)
(* in the graph just if child-parent and parent-child record it, and an    *)
(* id that was removed can be created again (aufs.go 34-38 refuses one     *)
(* that still has a child-parent file).                                    *)
(***************************************************************************)
FilesMatchGraph == step = "idle" =>
    /\ \A n \in Copies \ broken :
         childParent[n] = IF n \in graph THEN Source[n] ELSE NoFile
    /\ \A i \in Images \ broken : (\A n \in broken \cap Copies : Source[n] # i) =>
         parentChild[i] = IF LinkedCopies(i) = {} THEN NoFile ELSE LinkedCopies(i)

(***************************************************************************)
(* What namespace() returns is a translated copy, whether it made the copy *)
(* or found it: "and the image has already been translated ... reuses the  *)
(* translated layer" (layer_creator_test.go 281-299).                      *)
(***************************************************************************)
AnswerIsTranslated == answer # NoCopy => content[answer] = "translated"

(***************************************************************************)
(* The same as long as no operation on that very copy has broken off: what *)
(* fails on one copy never spoils another (layer_creator.go 73-94), and a  *)
(* walk on which no call fails gives every file its new owner exactly once *)
(* and keeps the setuid bits, hard links included (namespace.go 26-40).    *)
(***************************************************************************)
UnbrokenAnswers == answer \notin broken => AnswerIsTranslated
=============================================================================
