------------------------ MODULE CakeOrdinatorProofs ------------------------
(***************************************************************************)
(* Proofs about CakeOrdinator, for any images, any number of containers,   *)
(* any threshold and any faults.                                           *)
(*                                                                         *)
(* Five layers of invariants:                                              *)
(*   - CallInv: types, and what a Create in progress knows of its          *)
(*     arguments;                                                          *)
(*   - LockInv: the read lock, the write lock and the namespacing mutex    *)
(*     mean what they should, so GC and Create exclude one another;        *)
(*   - WalkInv: what the cleaner has found out about the graph so far is   *)
(*     still true of the graph.  It holds only if no container is          *)
(*     destroyed while GC runs (SerialDestroy);                            *)
(*   - CopyInv: the info files record every copy before they link it, so   *)
(*     that the cleaner knows the images it must not take;                 *)
(*   - CollectInv: the cleaner's walks miss nothing, so that at any moment *)
(*     the garbage is in its hands.                                        *)
(***************************************************************************)
EXTENDS CakeOrdinator, TLAPS

NamespaceSteps == {"nsLock", "nsGet", "nsRegister", "nsCopy", "nsLink"}

\* A Create past its call has a manifest, and a position in it while fetching.
CallInv ==
    /\ TypeOK
    /\ \A c \in Containers :
        /\ pc[c] # "idle" => manifest[c] \in Manifests
        /\ pc[c] \in {"idle", "rlock"} => next[c] = 1
        /\ pc[c] = "fetch" => next[c] <= Len(manifest[c]) /\ next[c] > 0
        /\ pc[c] \in NamespaceSteps => namespaced[c]

LockInv ==
    /\ \A c \in Containers : c \in readers <=> pc[c] \notin {"idle", "rlock"}
    /\ writer = "held" <=> GCRunning
    /\ writer = "pending" <=> gc = "lock"
    /\ GCRunning => readers = {}
    /\ \A c \in Containers : InNamespace(c) => nsMutex = c

\* Only images are retained, and what GC is about to remove was not retained
\* when it began.
KeptInv ==
    /\ retained \cap Containers = {}
    /\ GCRunning => kept \subseteq images /\ kept \subseteq retained
    /\ gc \in {"get", "remove"} => current \notin kept

\* The ids a walk has still to visit are in the graph; the parents it has
\* recorded are all the parents there are among the ids it has visited.
WalkInv ==
    /\ gc = "byParent" => \A y \in images \ todo :
         GraphParent(y) \in images => GraphParent(y) \in seen
    /\ gc \in WalkSteps => todo \subseteq images
    /\ gc = "heads" =>
        /\ \A y \in images : GraphParent(y) \in images => GraphParent(y) \in parents
        /\ seen \subseteq images \ parents
    /\ ~GCRunning => leaves = {}
    /\ \A x \in leaves : Children(x) = {}
    /\ LeavesHaveNoChildren

GraphInv == ParentsPresent /\ WalkInv

----------------------------------------------------------------------------
(***************************************************************************)
(* What the image a Create works on is.                                    *)
(***************************************************************************)
\* The image's id is a base layer, the namespaced id is one of its own kind.
LEMMA ImageIsLayer ==
    ASSUME NEW c \in Containers, manifest[c] \in Manifests
    PROVE  /\ Len(manifest[c]) \in Nat \ {0}
           /\ \A i \in 1..Len(manifest[c]) : manifest[c][i] \in BaseLayers
           /\ ImageID(c) \in BaseLayers
           /\ namespaced[c] => ParentID(c) \in NamespacedLayers
           /\ ~namespaced[c] => ParentID(c) \in BaseLayers
<1>1. manifest[c] \in Seq(BaseLayers) /\ Len(manifest[c]) > 0
  BY ManifestAssumption
<1>2. Len(manifest[c]) \in Nat \ {0} /\ \A i \in 1..Len(manifest[c]) : manifest[c][i] \in BaseLayers
  BY <1>1
<1>3. ImageID(c) \in BaseLayers
  BY <1>2 DEF ImageID
<1>4. QED
  BY <1>2, <1>3, IdAssumption DEF ParentID

(***************************************************************************)
(* Frames: what each kind of step leaves alone.                            *)
(***************************************************************************)
\* A Create's steps touch neither GC, the retainer nor a Destroy.
LEMMA CreateFrame ==
    ASSUME NEW c \in Containers, CreateStep(c)
    PROVE  UNCHANGED <<retained, retaining, destroying, writer, gc, current,
                       leaves, todo, seen, parents, kept>>
  BY DEF CreateStep, RLock, FetchLayer, FetchFails, NamespaceLock, NamespaceGet,
         NamespaceRegister, NamespaceCopy, NamespaceLink, NamespaceFails, UnmountPanics,
         CreateLayer, CreateLayerFails, Path, RUnlock, retainVars, muVars, gcVars, walkVars

\* GC's steps leave the Creates, the retainer and the Destroys alone.
LEMMA GCFrame ==
    ASSUME GCStep
    PROVE  UNCHANGED <<base, retained, retaining, readers, nsMutex, pc, manifest,
                       next, namespaced, destroying>>
  BY DEF GCStep, GCLock, SumLayer, IndexByParent, CollectHead, NextLeaf, ThresholdChecked,
         IndexDone, HeadsDone, LeavesDone, CheckRetained, GetImage, RemoveLayer, RemoveFails,
         GCUnlock, OutsideGC, graphVars, retainVars, muVars, createVars, walkVars

\* GC removes a layer only at its remove step, and only the current one.
LEMMA GCImages ==
    ASSUME GCStep
    PROVE  \/ images' = images
           \/ gc = "remove" /\ images' = images \ {current}
  BY DEF GCStep, GCLock, SumLayer, IndexByParent, CollectHead, NextLeaf, ThresholdChecked,
         IndexDone, HeadsDone, LeavesDone, CheckRetained, GetImage, RemoveLayer, RemoveFails,
         GCUnlock, OutsideGC, graphVars, retainVars, muVars, createVars, walkVars

----------------------------------------------------------------------------
(***************************************************************************)
(* CallInv.                                                                *)
(***************************************************************************)
\* No call has been made in the initial state.
LEMMA InitCallInv == Init => CallInv
  BY IdAssumption, ManifestAssumption
     DEF Init, CallInv, TypeOK, CreateSteps, GCSteps, WalkSteps, NamespaceSteps, Layers

\* The steps of a Create preserve the types and the facts about its call.
LEMMA CreateCallInv ==
    ASSUME CallInv, NEW c \in Containers, CreateStep(c)
    PROVE  CallInv'
<1>1. manifest[c] \in Manifests
  BY DEF CallInv, CreateStep, RLock, FetchLayer, FetchFails, NamespaceLock, NamespaceGet,
         NamespaceRegister, NamespaceCopy, NamespaceLink, NamespaceFails, UnmountPanics,
         CreateLayer, CreateLayerFails, Path, RUnlock
<1>2. /\ Len(manifest[c]) \in Nat \ {0}
      /\ \A i \in 1..Len(manifest[c]) : manifest[c][i] \in BaseLayers
      /\ ImageID(c) \in BaseLayers
      /\ namespaced[c] => ParentID(c) \in NamespacedLayers
      /\ ~namespaced[c] => ParentID(c) \in BaseLayers
  BY <1>1, ImageIsLayer
<1> USE <1>1, <1>2, CreateFrame DEF CallInv, TypeOK, CreateSteps, NamespaceSteps, Layers, Goto
<1>3. CASE RLock(c)
  BY <1>3 DEF RLock, graphVars
<1>4. CASE FetchLayer(c)
  BY <1>4 DEF FetchLayer, muVars
<1>5. CASE FetchFails(c) \/ Path(c) \/ CreateLayerFails(c)
  BY <1>5 DEF FetchFails, Path, CreateLayerFails, graphVars, muVars
<1>6. CASE NamespaceLock(c) \/ NamespaceGet(c)
  BY <1>6 DEF NamespaceLock, NamespaceGet, graphVars, muVars
<1>7. CASE NamespaceRegister(c)
  <2>1. images' \subseteq Layers
    BY <1>7 DEF NamespaceRegister
  <2>2. nsMutex' \in Containers \cup {NoLayer}
    BY <1>7 DEF NamespaceRegister
  <2>3. pc' = [pc EXCEPT ![c] = "runlock"] \/ pc' = [pc EXCEPT ![c] = "nsCopy"]
    BY <1>7 DEF NamespaceRegister
  <2>4. UNCHANGED <<base, parentChild, childParent, readers, manifest, next, namespaced>>
    BY <1>7 DEF NamespaceRegister, muVars
  <2>5. pc[c] = "nsRegister"
    BY <1>7 DEF NamespaceRegister
  <2>6. QED
    BY <2>1, <2>2, <2>3, <2>4, <2>5
<1>8. CASE NamespaceCopy(c)
  BY <1>8 DEF NamespaceCopy, muVars
<1>9. CASE NamespaceLink(c)
  BY <1>9 DEF NamespaceLink, muVars
<1>10. CASE NamespaceFails(c)
  BY <1>10 DEF NamespaceFails, muVars
<1>11. CASE UnmountPanics(c)
  BY <1>11 DEF UnmountPanics, muVars
<1>12. CASE CreateLayer(c)
  BY <1>12 DEF CreateLayer, muVars
<1>13. CASE RUnlock(c)
  BY <1>13 DEF RUnlock, graphVars
<1>14. QED
  BY <1>3, <1>4, <1>5, <1>6, <1>7, <1>8, <1>9, <1>10, <1>11, <1>12, <1>13 DEF CreateStep

\* The steps of GC preserve the types.
LEMMA GCCallInv ==
    ASSUME CallInv, GCStep
    PROVE  CallInv'
<1> USE GCFrame, IdAssumption DEF CallInv, TypeOK, GCSteps, WalkSteps, Layers
<1>1. CASE GCLock \/ GCUnlock
  BY <1>1 DEF GCLock, GCUnlock, graphVars
<1>2. ASSUME NEW x \in Layers, SumLayer(x) \/ CollectHead(x)
      PROVE  CallInv'
  BY <1>2 DEF SumLayer, CollectHead, graphVars, muVars, Visited
<1>3. ASSUME NEW x \in Layers, IndexByParent(x)
      PROVE  CallInv'
  BY <1>3 DEF IndexByParent, graphVars, muVars, Visited
<1>4. ASSUME NEW x \in Layers, NextLeaf(x)
      PROVE  CallInv'
  BY <1>4 DEF NextLeaf, graphVars, muVars, walkVars
<1>5. CASE ThresholdChecked \/ IndexDone \/ LeavesDone
  BY <1>5 DEF ThresholdChecked, IndexDone, LeavesDone, graphVars, muVars, walkVars
<1>6. CASE HeadsDone
  BY <1>6 DEF HeadsDone, graphVars, muVars
<1>7. CASE CheckRetained \/ GetImage \/ RemoveFails
  BY <1>7 DEF CheckRetained, GetImage, RemoveFails, SkipCurrent, graphVars, muVars, walkVars
<1>8. CASE RemoveLayer
  <2>1. CakeParent(current) \in BaseLayers \cup NamespacedLayers \cup {NoLayer}
    BY <1>8, ManifestAssumption DEF RemoveLayer, CakeParent, GraphParent
  <2>2. QED
    BY <1>8, <2>1 DEF RemoveLayer, SkipCurrent, muVars
<1>9. QED
  BY <1>1, <1>2, <1>3, <1>4, <1>5, <1>6, <1>7, <1>8 DEF GCStep

\* Every step preserves CallInv.
LEMMA NextCallInv == CallInv /\ [Next]_vars => CallInv'
<1> SUFFICES ASSUME CallInv, [Next]_vars
             PROVE  CallInv'
  OBVIOUS
<1> USE DEF graphVars, retainVars, muVars, createVars, gcVars, walkVars
<1>1. ASSUME NEW c \in Containers, NEW m \in Manifests, NEW n \in BOOLEAN, CreateCall(c, m, n)
      PROVE  CallInv'
  BY <1>1 DEF CreateCall, Goto, CallInv, TypeOK, CreateSteps, NamespaceSteps
<1>2. ASSUME NEW c \in Containers, DestroyGet(c) \/ DestroyRemove(c)
      PROVE  CallInv'
  BY <1>2 DEF DestroyGet, DestroyRemove, CallInv, TypeOK
<1>3. ASSUME NEW b \in PersistentImages, RetainImage(b)
      PROVE  CallInv'
  <2>1. b \in BaseLayers
    BY ParameterAssumption
  <2>2. QED
    BY <1>3, <2>1 DEF RetainImage, CallInv, TypeOK, Layers
<1>4. CASE RetainNamespaced
  BY <1>4, IdAssumption DEF RetainNamespaced, CallInv, TypeOK, Layers
<1>5. CASE GCCall
  BY <1>5 DEF GCCall, OutsideGC, CallInv, TypeOK, GCSteps
<1>6. CASE UNCHANGED vars
  BY <1>6 DEF vars, CallInv, TypeOK
<1>7. QED
  BY <1>1, <1>2, <1>3, <1>4, <1>5, <1>6, CreateCallInv, GCCallInv DEF Next

(***************************************************************************)
(* The types of the whole state (the domains of cakeordinator.go's,        *)
(* cleaner.go's and graph.go's variables), for every image and container.  *)
(***************************************************************************)
THEOREM TypeCorrect == SafetySpec => []TypeOK
<1>1. CallInv => TypeOK
  BY DEF CallInv
<1>2. QED
  BY <1>1, InitCallInv, NextCallInv, PTL DEF SafetySpec

----------------------------------------------------------------------------
(***************************************************************************)
(* LockInv: GC and the Creates exclude one another.                        *)
(***************************************************************************)
\* Nobody holds a lock initially.
LEMMA InitLockInv == Init => LockInv
  BY DEF Init, LockInv, GCRunning, InNamespace

\* The steps of a Create preserve LockInv: a Create enters only while GC is
\* neither running nor waiting, and namespaces only while it owns the mutex.
LEMMA CreateLockInv ==
    ASSUME CallInv, LockInv, NEW c \in Containers, CreateStep(c)
    PROVE  LockInv'
<1> USE CreateFrame DEF CallInv, TypeOK, LockInv, GCRunning, InNamespace, CreateSteps, Goto
<1>1. CASE RLock(c)
  BY <1>1 DEF RLock
<1>2. CASE FetchLayer(c) \/ FetchFails(c) \/ CreateLayer(c) \/ CreateLayerFails(c) \/ Path(c)
  BY <1>2 DEF FetchLayer, FetchFails, CreateLayer, CreateLayerFails, Path, muVars
<1>3. CASE NamespaceLock(c)
  BY <1>3, IdAssumption DEF NamespaceLock, muVars, Layers
<1>4. CASE NamespaceGet(c) \/ NamespaceRegister(c)
  <2>1. InNamespace(c) /\ readers' = readers
    BY <1>4 DEF NamespaceGet, NamespaceRegister, muVars
  <2>2. \A d \in Containers : InNamespace(d) => d = c
    BY <2>1
  <2>3. \/ nsMutex' = nsMutex /\ (pc' = [pc EXCEPT ![c] = "nsRegister"] \/ pc' = [pc EXCEPT ![c] = "nsCopy"])
        \/ pc' = [pc EXCEPT ![c] = "create"] \/ pc' = [pc EXCEPT ![c] = "runlock"]
    BY <1>4 DEF NamespaceGet, NamespaceRegister
  <2>4. CASE nsMutex' = nsMutex /\ pc' = [pc EXCEPT ![c] = "nsRegister"]
    BY <2>1, <2>2, <2>4
  <2>5. CASE nsMutex' = nsMutex /\ pc' = [pc EXCEPT ![c] = "nsCopy"]
    BY <2>1, <2>2, <2>5
  <2>6. CASE pc' = [pc EXCEPT ![c] = "create"]
    BY <2>1, <2>2, <2>6
  <2>7. CASE pc' = [pc EXCEPT ![c] = "runlock"]
    BY <2>1, <2>2, <2>7
  <2>8. QED
    BY <2>3, <2>4, <2>5, <2>6, <2>7
<1>5. CASE NamespaceCopy(c) \/ NamespaceLink(c) \/ NamespaceFails(c) \/ UnmountPanics(c)
  BY <1>5 DEF NamespaceCopy, NamespaceLink, NamespaceFails, UnmountPanics, muVars
<1>6. CASE RUnlock(c)
  BY <1>6 DEF RUnlock
<1>7. QED
  BY <1>1, <1>2, <1>3, <1>4, <1>5, <1>6 DEF CreateStep

\* The steps of GC preserve LockInv: it takes the lock once no Create is left.
LEMMA GCLockInv ==
    ASSUME LockInv, GCStep
    PROVE  LockInv'
<1> USE GCFrame DEF LockInv, GCRunning, InNamespace
<1>1. CASE GCLock \/ GCUnlock
  BY <1>1 DEF GCLock, GCUnlock
<1>2. CASE ~GCLock /\ ~GCUnlock
  <2>1. GCRunning /\ GCRunning' /\ writer' = writer
    BY <1>2 DEF GCStep, SumLayer, IndexByParent, CollectHead, NextLeaf, ThresholdChecked,
         IndexDone, HeadsDone, LeavesDone, CheckRetained, GetImage, RemoveLayer, RemoveFails,
         SkipCurrent, muVars
  <2>2. QED
    BY <2>1
<1>3. QED
  BY <1>1, <1>2

\* Every step preserves LockInv.
LEMMA NextLockInv == CallInv /\ LockInv /\ [Next]_vars => LockInv'
<1> SUFFICES ASSUME CallInv, LockInv, [Next]_vars
             PROVE  LockInv'
  OBVIOUS
<1> USE DEF graphVars, retainVars, muVars, createVars, gcVars, walkVars,
            LockInv, GCRunning, InNamespace
<1>1. ASSUME NEW c \in Containers, NEW m \in Manifests, NEW n \in BOOLEAN, CreateCall(c, m, n)
      PROVE  LockInv'
  BY <1>1 DEF CreateCall, Goto, CallInv, TypeOK
<1>2. ASSUME NEW c \in Containers, DestroyGet(c) \/ DestroyRemove(c)
      PROVE  LockInv'
  BY <1>2 DEF DestroyGet, DestroyRemove
<1>3. ASSUME NEW b \in PersistentImages, RetainImage(b)
      PROVE  LockInv'
  BY <1>3 DEF RetainImage
<1>4. CASE RetainNamespaced
  BY <1>4 DEF RetainNamespaced
<1>5. CASE GCCall
  BY <1>5 DEF GCCall, OutsideGC
<1>6. CASE UNCHANGED vars
  BY <1>6 DEF vars
<1>7. QED
  BY <1>1, <1>2, <1>3, <1>4, <1>5, <1>6, CreateLockInv, GCLockInv DEF Next

(***************************************************************************)
(* Two Creates never namespace at once, and none does while GC runs        *)
(* (layer_creator.go 37-41, cakeordinator.go 62, 115).                     *)
(***************************************************************************)
THEOREM OneNamespacerHolds == SafetySpec => []OneNamespacer
<1>1. CallInv /\ LockInv => OneNamespacer
  BY DEF LockInv, OneNamespacer, InNamespace
<1>2. QED
  BY <1>1, InitCallInv, NextCallInv, InitLockInv, NextLockInv, PTL DEF SafetySpec

----------------------------------------------------------------------------
(***************************************************************************)
(* Fetched layers stay, whatever else happens.                             *)
(***************************************************************************)
\* No step outside the Creates removes an image layer while a Create runs.
LEMMA OthersKeepLayers ==
    ASSUME CallInv, LockInv, Next,
           NEW c \in Containers, pc[c] \notin {"idle", "rlock"},
           NEW x \in BaseLayers \cup NamespacedLayers, x \in images
    PROVE  x \in images'
<1>1. ~GCRunning
  BY DEF LockInv
<1>2. ASSUME GCStep
      PROVE  x \in images'
  BY <1>1, <1>2, GCImages DEF GCRunning
<1>3. ASSUME NEW d \in Containers, CreateStep(d)
      PROVE  x \in images'
  BY <1>3 DEF CreateStep, RLock, FetchLayer, FetchFails, NamespaceLock, NamespaceGet,
         NamespaceRegister, NamespaceCopy, NamespaceLink, NamespaceFails, UnmountPanics,
         CreateLayer, CreateLayerFails, Path, RUnlock, graphVars
<1>4. ASSUME NEW d \in Containers, DestroyGet(d) \/ DestroyRemove(d)
      PROVE  x \in images'
  BY <1>4, IdAssumption DEF DestroyGet, DestroyRemove, graphVars
<1>5. ASSUME NEW d \in Containers, NEW m \in Manifests, NEW n \in BOOLEAN, CreateCall(d, m, n)
      PROVE  x \in images'
  BY <1>5 DEF CreateCall, graphVars
<1>6. ASSUME NEW b \in PersistentImages, RetainImage(b)
      PROVE  x \in images'
  BY <1>6 DEF RetainImage, graphVars
<1>7. CASE RetainNamespaced \/ GCCall
  BY <1>7 DEF RetainNamespaced, GCCall, graphVars
<1>8. QED
  BY <1>2, <1>3, <1>4, <1>5, <1>6, <1>7 DEF Next

\* What FetchedLayersStay says of one Create.
FetchedOf(c) ==
    /\ pc[c] = "fetch" =>
        \A i \in 1..Len(manifest[c]) : i < next[c] => manifest[c][i] \in images
    /\ pc[c] \in {"nsLock", "nsGet", "nsRegister", "nsCopy", "nsLink", "create"} =>
        \A i \in 1..Len(manifest[c]) : manifest[c][i] \in images
    /\ pc[c] = "create" => ParentID(c) \in images

\* Between registering the copy and linking it, the copy is in the graph.
CopyingOf(c) == pc[c] \in {"nsCopy", "nsLink"} => ParentID(c) \in images

FetchInv == \A c \in Containers : FetchedOf(c) /\ CopyingOf(c)

\* A Create's own steps keep what it fetched.
LEMMA OwnFetchInv ==
    ASSUME CallInv, NEW c \in Containers, FetchedOf(c), CopyingOf(c), CreateStep(c)
    PROVE  FetchedOf(c)' /\ CopyingOf(c)'
<1>1. manifest[c] \in Manifests
  BY DEF CallInv, CreateStep, RLock, FetchLayer, FetchFails, NamespaceLock, NamespaceGet,
         NamespaceRegister, NamespaceCopy, NamespaceLink, NamespaceFails, UnmountPanics,
         CreateLayer, CreateLayerFails, Path, RUnlock
<1>2. /\ Len(manifest[c]) \in Nat \ {0}
      /\ ImageID(c) \in BaseLayers
  BY <1>1, ImageIsLayer
<1> USE <1>1, <1>2 DEF CallInv, TypeOK, FetchedOf, CopyingOf, Goto
<1>3. CASE RLock(c)
  BY <1>3 DEF RLock
<1>4. CASE FetchLayer(c)
  <2>1. /\ pc[c] = "fetch" /\ next[c] \in 1..Len(manifest[c])
        /\ images' = images \cup {manifest[c][next[c]]}
        /\ next'[c] = next[c] + 1
        /\ UNCHANGED <<manifest, namespaced>>
    BY <1>4 DEF FetchLayer
  <2>2. \A i \in 1..Len(manifest[c]) : i < next[c] + 1 => manifest[c][i] \in images'
    BY <2>1
  <2>3. pc'[c] = "fetch" \/ (next[c] = Len(manifest[c]) /\ pc'[c] \in {"nsLock", "create"})
    <3>1. pc'[c] = IF next[c] < Len(manifest[c]) THEN "fetch"
                   ELSE IF namespaced[c] THEN "nsLock" ELSE "create"
      BY <1>4 DEF FetchLayer
    <3>2. next[c] < Len(manifest[c]) \/ next[c] = Len(manifest[c])
      BY <2>1
    <3>3. QED
      BY <2>1, <3>1, <3>2
  <2>4. pc'[c] = "create" => ~namespaced[c]
    <3>1. SUFFICES ASSUME namespaced[c]
                   PROVE  pc'[c] # "create"
      OBVIOUS
    <3>2. pc'[c] = IF next[c] < Len(manifest[c]) THEN "fetch" ELSE "nsLock"
      BY <1>4, <3>1 DEF FetchLayer
    <3>3. QED
      BY <3>2
  <2>5. pc'[c] = "create" => ParentID(c)' \in images'
    <3>1. SUFFICES ASSUME pc'[c] = "create"
                   PROVE  ParentID(c)' \in images'
      OBVIOUS
    <3>2. next[c] = Len(manifest[c]) /\ ~namespaced[c]
      BY <2>3, <2>4, <3>1
    <3>3. ParentID(c)' = manifest[c][Len(manifest[c])]
      BY <2>1, <3>2 DEF ParentID, ImageID
    <3>4. QED
      BY <2>1, <3>2, <3>3
  <2>6. CASE pc'[c] = "fetch"
    BY <2>1, <2>2, <2>6
  <2>7. CASE next[c] = Len(manifest[c]) /\ pc'[c] \in {"nsLock", "create"}
    <3>1. \A i \in 1..Len(manifest[c]) : manifest[c][i] \in images'
      BY <2>2, <2>7
    <3>2. QED
      BY <2>1, <2>5, <2>7, <3>1
  <2>8. QED
    BY <2>3, <2>6, <2>7
<1>5. CASE FetchFails(c) \/ CreateLayerFails(c) \/ Path(c) \/ RUnlock(c) \/ CreateLayer(c)
           \/ NamespaceFails(c) \/ UnmountPanics(c)
  BY <1>5 DEF FetchFails, CreateLayerFails, Path, RUnlock, CreateLayer, NamespaceFails,
              UnmountPanics
<1>6. CASE NamespaceLock(c)
  BY <1>6 DEF NamespaceLock, graphVars
<1>7. CASE NamespaceGet(c)
  BY <1>7 DEF NamespaceGet, graphVars, ParentID, ImageID
<1>8. CASE NamespaceRegister(c)
  BY <1>8 DEF NamespaceRegister, ParentID, ImageID
<1>9. CASE NamespaceCopy(c)
  BY <1>9 DEF NamespaceCopy, ParentID, ImageID
<1>10. CASE NamespaceLink(c)
  BY <1>10 DEF NamespaceLink, ParentID, ImageID
<1>11. QED
  BY <1>3, <1>4, <1>5, <1>6, <1>7, <1>8, <1>9, <1>10 DEF CreateStep

\* Steps of everybody else leave a Create's own variables alone.
LEMMA OthersFrame ==
    ASSUME Next, CallInv, NEW c \in Containers,
           ~CreateStep(c), \A m \in Manifests, n \in BOOLEAN : ~CreateCall(c, m, n)
    PROVE  /\ pc'[c] = pc[c] /\ manifest'[c] = manifest[c]
           /\ next'[c] = next[c] /\ namespaced'[c] = namespaced[c]
<1> USE DEF CallInv, TypeOK, createVars
<1>1. ASSUME NEW d \in Containers, d # c, CreateStep(d)
      PROVE  /\ pc'[c] = pc[c] /\ manifest'[c] = manifest[c]
             /\ next'[c] = next[c] /\ namespaced'[c] = namespaced[c]
  BY <1>1 DEF CreateStep, RLock, FetchLayer, FetchFails, NamespaceLock, NamespaceGet,
         NamespaceRegister, NamespaceCopy, NamespaceLink, NamespaceFails, UnmountPanics,
         CreateLayer, CreateLayerFails, Path, RUnlock, Goto
<1>2. ASSUME NEW d \in Containers, d # c, NEW m \in Manifests, NEW n \in BOOLEAN,
             CreateCall(d, m, n)
      PROVE  /\ pc'[c] = pc[c] /\ manifest'[c] = manifest[c]
             /\ next'[c] = next[c] /\ namespaced'[c] = namespaced[c]
  BY <1>2 DEF CreateCall, Goto
<1>3. ASSUME NEW d \in Containers, DestroyGet(d) \/ DestroyRemove(d)
      PROVE  UNCHANGED <<pc, manifest, next, namespaced>>
  BY <1>3 DEF DestroyGet, DestroyRemove
<1>4. ASSUME NEW b \in PersistentImages, RetainImage(b)
      PROVE  UNCHANGED <<pc, manifest, next, namespaced>>
  BY <1>4 DEF RetainImage
<1>5. CASE RetainNamespaced \/ GCCall
  BY <1>5 DEF RetainNamespaced, GCCall, OutsideGC
<1>6. CASE GCStep
  BY <1>6, GCFrame
<1>7. QED
  BY <1>1, <1>2, <1>3, <1>4, <1>5, <1>6 DEF Next

\* Every step preserves FetchInv.
LEMMA NextFetchInv == CallInv /\ LockInv /\ FetchInv /\ [Next]_vars => FetchInv'
<1> SUFFICES ASSUME CallInv, LockInv, FetchInv, [Next]_vars, NEW c \in Containers
             PROVE  FetchedOf(c)' /\ CopyingOf(c)'
  BY DEF FetchInv
<1>1. CASE CreateStep(c)
  BY <1>1, OwnFetchInv DEF FetchInv
<1>2. ASSUME NEW m \in Manifests, NEW n \in BOOLEAN, CreateCall(c, m, n)
      PROVE  FetchedOf(c)' /\ CopyingOf(c)'
  BY <1>2 DEF CreateCall, Goto, CallInv, TypeOK, FetchedOf, CopyingOf
<1>3. CASE Next /\ ~CreateStep(c) /\ \A m \in Manifests, n \in BOOLEAN : ~CreateCall(c, m, n)
  <2>1. /\ pc'[c] = pc[c] /\ manifest'[c] = manifest[c]
        /\ next'[c] = next[c] /\ namespaced'[c] = namespaced[c]
    BY <1>3, OthersFrame
  <2>2. CASE pc[c] \in {"idle", "rlock"}
    BY <2>1, <2>2 DEF FetchedOf, CopyingOf
  <2>3. CASE pc[c] \notin {"idle", "rlock"}
    <3>1. manifest[c] \in Manifests
      BY <2>3 DEF CallInv
    <3>2. \A i \in 1..Len(manifest[c]) : manifest[c][i] \in BaseLayers
      BY <3>1, ImageIsLayer
    <3>3. ParentID(c) \in BaseLayers \cup NamespacedLayers /\ ParentID(c)' = ParentID(c)
      BY <2>1, <3>1, ImageIsLayer DEF ParentID, ImageID, CallInv, TypeOK
    <3>4. \A x \in BaseLayers \cup NamespacedLayers : x \in images => x \in images'
      BY <1>3, <2>3, OthersKeepLayers
    <3>5. FetchedOf(c) /\ CopyingOf(c)
      BY DEF FetchInv
    <3>6. QED
      BY <2>1, <3>2, <3>3, <3>4, <3>5 DEF FetchedOf, CopyingOf
  <2>4. QED
    BY <2>2, <2>3
<1>4. CASE UNCHANGED vars
  BY <1>4 DEF vars, FetchInv, FetchedOf, CopyingOf, ParentID, ImageID
<1>5. QED
  BY <1>1, <1>2, <1>3, <1>4

(***************************************************************************)
(* What a running Create has fetched or namespaced is in the graph until   *)
(* its container's layer is registered, with any faults, and with Destroy  *)
(* at any moment (cakeordinator.go 59-123).                                *)
(***************************************************************************)
THEOREM FetchedLayersStayHolds == SafetySpec => []FetchedLayersStay
<1>1. Init => FetchInv
  BY DEF Init, FetchInv, FetchedOf, CopyingOf
<1>2. FetchInv => FetchedLayersStay
  BY DEF FetchInv, FetchedOf, FetchedLayersStay
<1>3. QED
  BY <1>1, <1>2, InitCallInv, NextCallInv, InitLockInv, NextLockInv, NextFetchInv, PTL
     DEF SafetySpec

----------------------------------------------------------------------------
(***************************************************************************)
(* Retained layers survive.                                                *)
(***************************************************************************)
\* Every step preserves KeptInv.
LEMMA NextKeptInv == CallInv /\ LockInv /\ KeptInv /\ [Next]_vars => KeptInv'
<1> SUFFICES ASSUME CallInv, LockInv, KeptInv, [Next]_vars
             PROVE  KeptInv'
  OBVIOUS
<1> USE IdAssumption DEF KeptInv, GCRunning
<1>1. ASSUME NEW c \in Containers, CreateStep(c)
      PROVE  KeptInv'
  <2>1. images \subseteq images'
    BY <1>1 DEF CreateStep, RLock, FetchLayer, FetchFails, NamespaceLock, NamespaceGet,
         NamespaceRegister, NamespaceCopy, NamespaceLink, NamespaceFails, UnmountPanics,
         CreateLayer, CreateLayerFails, Path, RUnlock, graphVars
  <2>2. QED
    BY <1>1, <2>1, CreateFrame
<1>2. ASSUME NEW c \in Containers, NEW m \in Manifests, NEW n \in BOOLEAN, CreateCall(c, m, n)
      PROVE  KeptInv'
  BY <1>2 DEF CreateCall, graphVars, retainVars, gcVars
<1>3. ASSUME NEW c \in Containers, DestroyGet(c) \/ DestroyRemove(c)
      PROVE  KeptInv'
  BY <1>3 DEF DestroyGet, DestroyRemove, graphVars, retainVars, gcVars
<1>4. ASSUME NEW b \in PersistentImages, RetainImage(b)
      PROVE  KeptInv'
  <2>1. b \in BaseLayers
    BY ParameterAssumption
  <2>2. QED
    BY <1>4, <2>1 DEF RetainImage, graphVars, gcVars
<1>5. CASE RetainNamespaced
  <2>1. NamespacedID[retaining] \notin Containers
    BY <1>5 DEF RetainNamespaced, CallInv, TypeOK
  <2>2. QED
    BY <1>5, <2>1 DEF RetainNamespaced, graphVars, gcVars
<1>6. CASE GCCall
  BY <1>6 DEF GCCall, OutsideGC, graphVars, retainVars, walkVars
<1>7. CASE GCStep
  <2>1. CASE GCLock \/ GCUnlock
    BY <2>1, <1>7, GCFrame DEF GCLock, GCUnlock, graphVars
  <2>2. CASE CheckRetained
    BY <2>2, <1>7, GCFrame DEF CheckRetained, SkipCurrent, graphVars
  <2>3. CASE GetImage \/ RemoveFails
    BY <2>3, <1>7, GCFrame DEF GetImage, RemoveFails, SkipCurrent, graphVars
  <2>4. CASE RemoveLayer
    BY <2>4, <1>7, GCFrame DEF RemoveLayer, SkipCurrent
  <2>5. CASE \E x \in Layers : SumLayer(x) \/ IndexByParent(x) \/ CollectHead(x) \/ NextLeaf(x)
    BY <2>5, <1>7, GCFrame DEF SumLayer, IndexByParent, CollectHead, NextLeaf, graphVars
  <2>6. CASE ThresholdChecked \/ IndexDone \/ HeadsDone \/ LeavesDone
    BY <2>6, <1>7, GCFrame DEF ThresholdChecked, IndexDone, HeadsDone, LeavesDone, graphVars
  <2>7. QED
    BY <1>7, <2>1, <2>2, <2>3, <2>4, <2>5, <2>6 DEF GCStep
<1>8. CASE UNCHANGED vars
  BY <1>8 DEF vars
<1>9. QED
  BY <1>1, <1>2, <1>3, <1>4, <1>5, <1>6, <1>7, <1>8 DEF Next

(***************************************************************************)
(* GC removes nothing that was retained when it took the lock, whoever     *)
(* retains, creates or destroys meanwhile (cleaner.go 67-70).              *)
(***************************************************************************)
THEOREM RetainedSurviveHolds == SafetySpec => []RetainedSurvive
<1>1. Init => KeptInv
  BY DEF Init, KeptInv, GCRunning
<1>2. KeptInv => RetainedSurvive
  BY DEF KeptInv, RetainedSurvive
<1>3. QED
  BY <1>1, <1>2, InitCallInv, NextCallInv, InitLockInv, NextLockInv, NextKeptInv, PTL
     DEF SafetySpec

----------------------------------------------------------------------------
(***************************************************************************)
(* The graph stays closed under parents, if Destroy keeps out of GC.       *)
(***************************************************************************)
\* No layer's parent is a container, and a parent is a layer.
LEMMA ParentIsNoContainer ==
    ASSUME CallInv, NEW x \in Layers
    PROVE  GraphParent(x) \in BaseLayers \cup NamespacedLayers \cup {NoLayer}
  BY ManifestAssumption, IdAssumption DEF CallInv, TypeOK, GraphParent, Layers

\* A step that leaves base alone leaves every parent alone.
LEMMA SameParents ==
    ASSUME base' = base, NEW x
    PROVE  GraphParent(x)' = GraphParent(x)
  BY DEF GraphParent

\* A Create adds a layer only on top of a parent that is in the graph.
LEMMA CreateKeepsParents ==
    ASSUME CallInv, FetchInv, ParentsPresent, NEW c \in Containers, CreateStep(c)
    PROVE  ParentsPresent'
<1> USE DEF ParentsPresent
<1>1. manifest[c] \in Manifests
  BY DEF CallInv, CreateStep, RLock, FetchLayer, FetchFails, NamespaceLock, NamespaceGet,
         NamespaceRegister, NamespaceCopy, NamespaceLink, NamespaceFails, UnmountPanics,
         CreateLayer, CreateLayerFails, Path, RUnlock
<1>2. CASE FetchLayer(c)
  <2> DEFINE x == manifest[c][next[c]]
  <2>1. base' = base /\ images' = images \cup {x} /\ pc[c] = "fetch"
    BY <1>2 DEF FetchLayer
  <2>2. next[c] \in 1..Len(manifest[c])
    BY <1>1, <2>1, ImageIsLayer DEF CallInv, TypeOK
  <2>3. x \in BaseLayers /\ BaseParent[x] = IF next[c] = 1 THEN NoLayer ELSE manifest[c][next[c] - 1]
    BY <1>1, <2>2, ImageIsLayer, ManifestAssumption
  <2>4. next[c] # 1 => manifest[c][next[c] - 1] \in images
    BY <1>1, <2>1, <2>2, ImageIsLayer DEF FetchInv, FetchedOf
  <2>5. GraphParent(x) \in images \cup {NoLayer}
    BY <2>3, <2>4, IdAssumption DEF GraphParent
  <2>6. QED
    BY <2>1, <2>5, SameParents
<1>3. CASE NamespaceRegister(c)
  <2>1. base' = base /\ (images' = images \/ images' = images \cup {ParentID(c)}) /\ pc[c] = "nsRegister"
    BY <1>3 DEF NamespaceRegister
  <2>2. ParentID(c) \in NamespacedLayers
    BY <1>1, <2>1, ImageIsLayer DEF CallInv, NamespaceSteps
  <2>3. GraphParent(ParentID(c)) = NoLayer
    BY <2>2, IdAssumption DEF GraphParent
  <2>4. QED
    BY <2>1, <2>3, SameParents
<1>4. CASE CreateLayer(c)
  <2>1. images' = images \cup {c} /\ ParentID(c) \in images
    BY <1>4 DEF CreateLayer, FetchInv, FetchedOf
  <2>2. ASSUME NEW y \in images', y # c
        PROVE  GraphParent(y)' \in images' \cup {NoLayer}
    <3>1. GraphParent(y)' = GraphParent(y) /\ y \in images
      BY <1>4, <2>1, <2>2 DEF CreateLayer, GraphParent, CallInv, TypeOK
    <3>2. QED
      BY <2>1, <3>1
  <2>3. GraphParent(c)' \in images' \cup {NoLayer}
    <3>1. GraphParent(c)' = base'[c]
      BY IdAssumption DEF GraphParent
    <3>2. CASE c \in images
      <4>1. base' = base /\ GraphParent(c) = base[c]
        BY <1>4, <3>2, IdAssumption DEF CreateLayer, GraphParent
      <4>2. QED
        BY <2>1, <3>1, <3>2, <4>1
    <3>3. CASE c \notin images
      <4>1. base'[c] = ParentID(c)
        BY <1>4, <3>3 DEF CreateLayer, CallInv, TypeOK
      <4>2. QED
        BY <2>1, <3>1, <4>1
    <3>4. QED
      BY <3>2, <3>3
  <2>4. QED
    BY <2>2, <2>3
<1>5. CASE UNCHANGED <<images, base>>
  BY <1>5, SameParents
<1>6. QED
  BY <1>2, <1>3, <1>4, <1>5 DEF CreateStep, RLock, FetchFails, NamespaceLock, NamespaceGet,
         NamespaceCopy, NamespaceLink, NamespaceFails, UnmountPanics,
         CreateLayerFails, Path, RUnlock, graphVars

\* While GC runs, no Create takes a step.
LEMMA CreateExcludesGC ==
    ASSUME LockInv, NEW c \in Containers, CreateStep(c)
    PROVE  ~GCRunning
  BY DEF LockInv, CreateStep, RLock, FetchLayer, FetchFails, NamespaceLock, NamespaceGet,
         NamespaceRegister, NamespaceCopy, NamespaceLink, NamespaceFails, UnmountPanics,
         CreateLayer, CreateLayerFails, Path, RUnlock

\* Removing a container never takes a parent away.
LEMMA DestroyKeepsParents ==
    ASSUME CallInv, ParentsPresent, NEW c \in Containers, images' = images \ {c}, base' = base
    PROVE  ParentsPresent'
<1> SUFFICES ASSUME NEW x \in images'
             PROVE  GraphParent(x)' \in images' \cup {NoLayer}
  BY DEF ParentsPresent
<1>1. x \in Layers /\ x \in images /\ GraphParent(x)' = GraphParent(x)
  BY SameParents DEF CallInv, TypeOK
<1>2. GraphParent(x) # c
  BY <1>1, ParentIsNoContainer, IdAssumption DEF Layers
<1>3. QED
  BY <1>1, <1>2 DEF ParentsPresent

\* Fewer images have fewer children.
LEMMA ChildrenShrink ==
    ASSUME base' = base, images' \subseteq images, NEW x
    PROVE  Children(x)' \subseteq Children(x)
  BY SameParents DEF Children

\* Without a Destroy in between, the cleaner's knowledge of the graph stays
\* true, so it only removes layers that have no child.
LEMMA GCGraphInv ==
    ASSUME CallInv, GraphInv, GCStep
    PROVE  GraphInv'
<1>1. base' = base
  BY GCFrame
<1>2. \A x : GraphParent(x)' = GraphParent(x)
  BY <1>1, SameParents
<1> USE DEF GraphInv, WalkInv, GCRunning, WalkSteps, LeavesHaveNoChildren
<1>3. CASE images' = images
  <2>1. ParentsPresent'
    BY <1>2, <1>3 DEF ParentsPresent
  <2>2. \A x : Children(x)' = Children(x)
    BY <1>2, <1>3 DEF Children
  <2>3. CASE GCLock \/ GCUnlock
    BY <2>1, <2>2, <2>3, <1>3 DEF GCLock, GCUnlock
  <2>4. ASSUME NEW x \in Layers, SumLayer(x)
        PROVE  WalkInv'
    BY <2>2, <2>4, <1>3 DEF SumLayer, Visited
  <2>5. ASSUME NEW x \in Layers, IndexByParent(x)
        PROVE  WalkInv'
    <3>1. /\ gc = "byParent" /\ gc' = gc /\ leaves' = leaves /\ x \in images
          /\ todo' = todo \ {x}
          /\ seen' = seen \cup ({GraphParent(x)} \cap images)
      BY <2>5 DEF IndexByParent, Visited
    <3>2. \A y \in images \ todo' : GraphParent(y) \in images => GraphParent(y) \in seen'
      BY <3>1
    <3>3. QED
      BY <1>2, <1>3, <2>2, <3>1, <3>2
  <2>6. ASSUME NEW x \in Layers, CollectHead(x)
        PROVE  WalkInv'
    <3>1. /\ gc = "heads" /\ gc' = gc /\ leaves' = leaves /\ x \in images
          /\ todo' = todo \ {x} /\ parents' = parents
          /\ seen' = seen \cup (({x} \cap images) \ parents)
      BY <2>6 DEF CollectHead, Visited
    <3>2. seen' \subseteq images \ parents
      BY <3>1
    <3>3. QED
      BY <1>2, <1>3, <2>2, <3>1, <3>2
  <2>7. ASSUME NEW x \in Layers, NextLeaf(x)
        PROVE  WalkInv'
    BY <2>2, <2>7 DEF NextLeaf
  <2>8. CASE ThresholdChecked
    BY <1>2, <1>3, <2>1, <2>2, <2>8 DEF ThresholdChecked
  <2>9. CASE IndexDone
    <3>1. \A y \in images : GraphParent(y) \in images => GraphParent(y) \in seen
      BY <2>9 DEF IndexDone
    <3>2. QED
      BY <1>2, <1>3, <2>1, <2>2, <2>9, <3>1 DEF IndexDone
  <2>10. CASE HeadsDone
    <3>1. \A x \in seen : Children(x) = {}
      BY <2>10 DEF HeadsDone, Children
    <3>2. leaves' = leaves \/ leaves' \subseteq seen
      BY <2>10 DEF HeadsDone
    <3>3. gc' = "loop" \/ (gc' = "check" /\ current' \in seen)
      BY <2>10 DEF HeadsDone
    <3>4. \A x \in leaves' : Children(x)' = {}
      BY <2>2, <3>1, <3>2
    <3>5. LeavesHaveNoChildren'
      BY <2>2, <3>1, <3>3
    <3>6. QED
      BY <2>1, <3>3, <3>4, <3>5
  <2>11. CASE LeavesDone \/ CheckRetained \/ GetImage \/ RemoveFails
    BY <2>1, <2>2, <2>11 DEF LeavesDone, CheckRetained, GetImage, RemoveFails, SkipCurrent
  <2>12. CASE RemoveLayer
    BY <1>3, <2>1, <2>2, <2>12 DEF RemoveLayer, SkipCurrent
  <2>13. QED
    BY <2>1, <2>3, <2>4, <2>5, <2>6, <2>7, <2>8, <2>9, <2>10, <2>11, <2>12 DEF GCStep
<1>4. CASE gc = "remove" /\ images' = images \ {current}
  <2>1. RemoveLayer \/ images' = images
    BY <1>4 DEF GCStep, GCLock, SumLayer, IndexByParent, CollectHead, NextLeaf,
         ThresholdChecked, IndexDone, HeadsDone, LeavesDone, CheckRetained, GetImage,
         RemoveFails, GCUnlock, graphVars
  <2>2. CASE RemoveLayer
    <3>1. \A x : Children(x)' \subseteq Children(x)
      BY <1>1, <1>4, ChildrenShrink
    <3>2. ParentsPresent'
      BY <1>2, <1>4 DEF ParentsPresent, Children
    <3>3. gc' = "loop" \/ (gc' = "byParent" /\ todo' = images')
      BY <2>2 DEF RemoveLayer, SkipCurrent
    <3>4. leaves' = leaves
      BY <2>2 DEF RemoveLayer
    <3>5. \A x \in leaves' : Children(x)' = {}
      BY <3>1, <3>4
    <3>6. QED
      BY <3>2, <3>3, <3>5
  <2>3. QED
    BY <1>3, <2>1, <2>2
<1>5. QED
  BY <1>3, <1>4, GCImages

\* Every step preserves GraphInv, if callers serialise Destroy with GC.
LEMMA NextGraphInv ==
    SerialDestroy /\ CallInv /\ LockInv /\ FetchInv /\ GraphInv /\ [Next]_vars => GraphInv'
<1> SUFFICES ASSUME SerialDestroy, CallInv, LockInv, FetchInv, GraphInv, [Next]_vars
             PROVE  GraphInv'
  OBVIOUS
<1>1. ASSUME NEW c \in Containers, CreateStep(c)
      PROVE  GraphInv'
  <2>1. ParentsPresent'
    BY <1>1, CreateKeepsParents DEF GraphInv
  <2>2. ~GCRunning
    BY <1>1, CreateExcludesGC
  <2>3. gc' = gc /\ leaves' = leaves
    BY <1>1, CreateFrame
  <2>4. WalkInv'
    BY <2>2, <2>3 DEF GraphInv, WalkInv, GCRunning, WalkSteps, LeavesHaveNoChildren
  <2>5. QED
    BY <2>1, <2>4 DEF GraphInv
<1>2. ASSUME NEW c \in Containers, DestroyRemove(c)
      PROVE  GraphInv'
  <2>1. images' = images \ {c} /\ base' = base /\ gc' = gc /\ leaves' = leaves
    BY <1>2 DEF DestroyRemove, gcVars
  <2>2. ParentsPresent'
    BY <2>1, DestroyKeepsParents DEF GraphInv
  <2>3. ~GCRunning
    BY <1>2 DEF DestroyRemove, LockInv
  <2>4. WalkInv'
    BY <2>1, <2>3 DEF GraphInv, WalkInv, GCRunning, WalkSteps, LeavesHaveNoChildren
  <2>5. QED
    BY <2>2, <2>4 DEF GraphInv
<1>3. ASSUME UNCHANGED <<images, base, gc, current, leaves, todo, seen, parents>>
      PROVE  GraphInv'
  <2>1. \A x : GraphParent(x)' = GraphParent(x)
    BY <1>3, SameParents
  <2>2. \A x : Children(x)' = Children(x)
    BY <1>3, <2>1 DEF Children
  <2>3. QED
    BY <1>3, <2>1, <2>2
       DEF GraphInv, WalkInv, ParentsPresent, GCRunning, WalkSteps, LeavesHaveNoChildren
<1>4. CASE GCCall
  <2>1. UNCHANGED <<images, base, leaves>> /\ gc = "idle" /\ gc' = "lock"
    BY <1>4 DEF GCCall, graphVars
  <2>2. \A x : GraphParent(x)' = GraphParent(x)
    BY <2>1, SameParents
  <2>3. QED
    BY <2>1, <2>2 DEF GraphInv, WalkInv, ParentsPresent, GCRunning, WalkSteps,
                      LeavesHaveNoChildren
<1>5. ASSUME NEW c \in Containers, NEW m \in Manifests, NEW n \in BOOLEAN, CreateCall(c, m, n)
      PROVE  GraphInv'
  BY <1>3, <1>5 DEF CreateCall, graphVars, gcVars
<1>6. ASSUME NEW c \in Containers, DestroyGet(c)
      PROVE  GraphInv'
  BY <1>3, <1>6 DEF DestroyGet, graphVars, gcVars
<1>7. ASSUME NEW b \in PersistentImages, RetainImage(b)
      PROVE  GraphInv'
  BY <1>3, <1>7 DEF RetainImage, graphVars, gcVars
<1>8. CASE RetainNamespaced
  BY <1>3, <1>8 DEF RetainNamespaced, graphVars, gcVars
<1>9. CASE UNCHANGED vars
  BY <1>3, <1>9 DEF vars
<1>10. QED
  BY <1>1, <1>2, <1>4, <1>5, <1>6, <1>7, <1>8, <1>9, GCGraphInv DEF Next

\* The graph is empty initially.
LEMMA InitGraphInv == Init => GraphInv
  BY DEF Init, GraphInv, ParentsPresent, WalkInv, GCRunning, WalkSteps, LeavesHaveNoChildren

(***************************************************************************)
(* If no container is destroyed while GC runs, no layer ever loses its     *)
(* parent: GC removes nothing that a container or an image sits on         *)
(* (cleaner.go 61-99, graph.go 449-508).                                   *)
(***************************************************************************)
THEOREM ParentsPresentHolds ==
    ASSUME SerialDestroy
    PROVE  SafetySpec => []ParentsPresent
<1>1. CallInv /\ LockInv /\ FetchInv /\ GraphInv /\ [Next]_vars => GraphInv'
  BY NextGraphInv
<1>2. Init => FetchInv
  BY DEF Init, FetchInv, FetchedOf, CopyingOf
<1>3. GraphInv => ParentsPresent
  BY DEF GraphInv
<1>4. QED
  BY <1>1, <1>2, <1>3, InitCallInv, NextCallInv, InitLockInv, NextLockInv, NextFetchInv,
     InitGraphInv, PTL DEF SafetySpec

(***************************************************************************)
(* If no container is destroyed while GC runs, what the cleaner takes for  *)
(* a leaf has no child ("a head is an image which is not the parent of     *)
(* another image in the graph", graph.go 496).                             *)
(***************************************************************************)
THEOREM LeavesHaveNoChildrenHolds ==
    ASSUME SerialDestroy
    PROVE  SafetySpec => []LeavesHaveNoChildren
<1>1. CallInv /\ LockInv /\ FetchInv /\ GraphInv /\ [Next]_vars => GraphInv'
  BY NextGraphInv
<1>2. Init => FetchInv
  BY DEF Init, FetchInv, FetchedOf, CopyingOf
<1>3. GraphInv => LeavesHaveNoChildren
  BY DEF GraphInv, WalkInv
<1>4. QED
  BY <1>1, <1>2, <1>3, InitCallInv, NextCallInv, InitLockInv, NextLockInv, NextFetchInv,
     InitGraphInv, PTL DEF SafetySpec
----------------------------------------------------------------------------
(***************************************************************************)
(* The info files, and the copies the cleaner must not take away from      *)
(* under: with Destroy at any moment.                                      *)
(***************************************************************************)
\* What the info files say of a copy: child-parent is written after
\* parent-child, and its copy is in parent-child from then on.
FilesInv ==
    /\ \A n \in NamespacedLayers : childParent[n] # NoLayer =>
         n = NamespacedID[childParent[n]] /\ n \in parentChild[childParent[n]]
    /\ \A c \in Containers : pc[c] = "nsLink" => ParentID(c) \in parentChild[ImageID(c)]

\* Nothing that the cleaner has set out to remove is the source of a copy, and
\* what it is about to remove is no container.
SourceInv ==
    /\ ~GCRunning => leaves = {}
    /\ \A x \in leaves : ~HasChildInfo(x)
    /\ gc \in {"check", "get", "remove"} => ~HasChildInfo(current)
    /\ gc = "remove" => current \notin Containers

CopyInv == FilesInv /\ SourceInv /\ CopiedImagesStay

\* A step that unlinks nothing and adds no copy keeps what the files say.
LEMMA FilesFrame ==
    ASSUME FilesInv, UNCHANGED <<parentChild, childParent>>,
           \A c \in Containers : pc'[c] = "nsLink" =>
               pc[c] = "nsLink" /\ manifest'[c] = manifest[c] /\ namespaced'[c] = namespaced[c]
    PROVE  FilesInv'
<1>1. ASSUME NEW c \in Containers, pc'[c] = "nsLink"
      PROVE  ParentID(c)' = ParentID(c) /\ ImageID(c)' = ImageID(c) /\ pc[c] = "nsLink"
  BY <1>1 DEF ParentID, ImageID
<1> QED
  BY <1>1 DEF FilesInv

\* A Create's steps: the copy is recorded first, linked then, and its image is
\* in the graph all the time.
LEMMA CreateCopyInv ==
    ASSUME CallInv, LockInv, FetchInv, CopyInv, NEW c \in Containers, CreateStep(c)
    PROVE  CopyInv'
<1> USE DEF CallInv, TypeOK, Goto
<1>1. ~GCRunning /\ SourceInv'
  <2>1. ~GCRunning /\ gc' = gc /\ leaves' = leaves
    BY CreateExcludesGC, CreateFrame
  <2> QED
    BY <2>1 DEF CopyInv, SourceInv, GCRunning
<1>2. manifest[c] \in Manifests
  BY DEF CreateStep, RLock, FetchLayer, FetchFails, NamespaceLock, NamespaceGet,
         NamespaceRegister, NamespaceCopy, NamespaceLink, NamespaceFails, UnmountPanics,
         CreateLayer, CreateLayerFails, Path, RUnlock
<1>3. ImageID(c) \in BaseLayers
  BY <1>2, ImageIsLayer
<1>4. pc[c] \in NamespaceSteps =>
        ParentID(c) = NamespacedID[ImageID(c)] /\ ParentID(c) \in NamespacedLayers
  BY <1>2, ImageIsLayer DEF ParentID
<1>5. CASE NamespaceCopy(c)
  <2>1. /\ UNCHANGED <<images, childParent, manifest, namespaced>>
        /\ pc' = [pc EXCEPT ![c] = "nsLink"]
        /\ \A b \in BaseLayers : parentChild[b] \subseteq parentChild'[b]
        /\ ParentID(c) \in parentChild'[ImageID(c)]
    BY <1>3, <1>4, <1>5 DEF NamespaceCopy
  <2>2. \A d \in Containers : ParentID(d)' = ParentID(d) /\ ImageID(d)' = ImageID(d)
    BY <2>1 DEF ParentID, ImageID
  <2>3. ASSUME NEW d \in Containers, pc'[d] = "nsLink"
        PROVE  ParentID(d)' \in parentChild'[ImageID(d)']
    <3>1. CASE d = c
      BY <2>1, <2>2, <3>1
    <3>2. CASE d # c
      <4>1. pc[d] = "nsLink" /\ ImageID(d) \in BaseLayers
        BY <2>1, <2>3, <3>2, ImageIsLayer
      <4> QED
        BY <2>1, <2>2, <4>1 DEF CopyInv, FilesInv
    <3> QED
      BY <3>1, <3>2
  <2>4. FilesInv'
    BY <2>1, <2>3 DEF CopyInv, FilesInv
  <2> QED
    BY <1>1, <2>1, <2>4 DEF CopyInv, CopiedImagesStay
<1>6. CASE \/ NamespaceLink(c) \/ UnmountPanics(c)
           \/ NamespaceFails(c) /\ pc[c] = "nsLink" /\ childParent' # childParent
  <2>1. /\ UNCHANGED <<images, parentChild, manifest, namespaced>>
        /\ pc[c] = "nsLink"
        /\ pc'[c] # "nsLink" /\ \A d \in Containers \ {c} : pc'[d] = pc[d]
        /\ childParent' = [childParent EXCEPT ![ParentID(c)] = ImageID(c)]
    BY <1>6 DEF NamespaceLink, UnmountPanics, NamespaceFails
  <2>2. ImageID(c) \in images
    <3>1. Len(manifest[c]) \in 1..Len(manifest[c])
      BY <1>2, ImageIsLayer
    <3> QED
      BY <2>1, <3>1 DEF FetchInv, FetchedOf, ImageID
  <2>3. \A d \in Containers : ParentID(d)' = ParentID(d) /\ ImageID(d)' = ImageID(d)
    BY <2>1 DEF ParentID, ImageID
  <2>4. FilesInv'
    BY <1>3, <1>4, <2>1, <2>3 DEF CopyInv, FilesInv, NamespaceSteps
  <2>5. CopiedImagesStay'
    BY <1>3, <1>4, <2>1, <2>2 DEF CopyInv, CopiedImagesStay, NamespaceSteps
  <2> QED
    BY <1>1, <2>4, <2>5 DEF CopyInv
<1>7. CASE UNCHANGED <<parentChild, childParent>> /\ ~NamespaceCopy(c)
  <2>1. FilesInv'
    BY <1>7, FilesFrame
    DEF CopyInv, CreateStep, RLock, FetchLayer, FetchFails, NamespaceLock, NamespaceGet,
        NamespaceRegister, NamespaceLink, NamespaceFails, UnmountPanics,
        CreateLayer, CreateLayerFails, Path, RUnlock
  <2>2. \/ images' = images
        \/ FetchLayer(c) /\ images' = images \cup {manifest[c][next[c]]}
        \/ pc[c] = "nsRegister" /\ childParent[ParentID(c)] = NoLayer
             /\ images' = images \cup {ParentID(c)}
        \/ images' = images \cup {c}
    BY <1>7 DEF CreateStep, RLock, FetchLayer, FetchFails, NamespaceLock, NamespaceGet,
        NamespaceRegister, NamespaceLink, NamespaceFails, UnmountPanics,
        CreateLayer, CreateLayerFails, Path, RUnlock, graphVars
  <2>3. ASSUME FetchLayer(c) PROVE manifest[c][next[c]] \in BaseLayers
    <3>1. next[c] \in 1..Len(manifest[c])
      BY <1>2, <2>3, ImageIsLayer DEF FetchLayer
    <3> QED
      BY <1>2, <3>1, ImageIsLayer
  <2>4. CopiedImagesStay'
    BY <1>7, <2>2, <2>3, IdAssumption DEF CopyInv, CopiedImagesStay
  <2> QED
    BY <1>1, <2>1, <2>4 DEF CopyInv
<1> QED
  BY <1>5, <1>6, <1>7
  DEF CreateStep, RLock, FetchLayer, FetchFails, NamespaceLock, NamespaceGet,
      NamespaceRegister, NamespaceLink, NamespaceFails, UnmountPanics,
      CreateLayer, CreateLayerFails, Path, RUnlock, graphVars

\* GC's steps: it removes an image only when no copy is recorded of it, and a
\* copy together with its records.
LEMMA GCCopyInv ==
    ASSUME CallInv, LockInv, CopyInv, GCStep
    PROVE  CopyInv'
<1> USE DEF CallInv, TypeOK
<1>1. UNCHANGED <<pc, manifest, namespaced>>
  BY GCFrame
<1>2. ASSUME graphVars' = graphVars
      PROVE  CopyInv'
  <2>1. UNCHANGED <<images, parentChild, childParent>>
    BY <1>2 DEF graphVars
  <2>2. FilesInv' /\ CopiedImagesStay'
    BY <1>1, <2>1, FilesFrame DEF CopyInv, CopiedImagesStay
  <2>3. \A x : HasChildInfo(x)' = HasChildInfo(x)
    BY <2>1 DEF HasChildInfo
  <2> USE DEF CopyInv, SourceInv, GCRunning
  <2>4. CASE GCLock \/ GCUnlock \/ LeavesDone \/ ThresholdChecked \/ IndexDone \/ RemoveFails
    BY <2>2, <2>3, <2>4 DEF GCLock, GCUnlock, LeavesDone, ThresholdChecked, IndexDone, RemoveFails
  <2>5. CASE \E x \in Layers : SumLayer(x) \/ IndexByParent(x) \/ CollectHead(x)
    BY <2>2, <2>3, <2>5 DEF SumLayer, IndexByParent, CollectHead
  <2>6. CASE \E x \in Layers : NextLeaf(x)
    BY <2>2, <2>3, <2>6 DEF NextLeaf
  <2>7. CASE HeadsDone
    <3>1. \A x \in leaves' : ~HasChildInfo(x)
      BY <2>7 DEF HeadsDone
    <3>2. gc' = "loop" \/ (gc' = "check" /\ ~HasChildInfo(current'))
      BY <2>7 DEF HeadsDone
    <3> QED
      BY <2>2, <2>3, <3>1, <3>2
  <2>8. CASE CheckRetained
    BY <2>2, <2>3, <2>8 DEF CheckRetained, SkipCurrent
  <2>9. CASE GetImage
    BY <2>2, <2>3, <2>9 DEF GetImage, SkipCurrent, IsContainer
  <2>10. CASE RemoveLayer
    BY <2>2, <2>3, <2>10 DEF RemoveLayer, SkipCurrent
  <2> QED
    BY <2>4, <2>5, <2>6, <2>7, <2>8, <2>9, <2>10 DEF GCStep
<1>3. CASE RemoveLayer
  <2> DEFINE up == CakeParent(current)
  <2>1. /\ gc = "remove" /\ images' = images \ {current} /\ leaves' = leaves
        /\ gc' \in {"loop", "byParent"}
        /\ parentChild' = [b \in BaseLayers |->
             IF current \in NamespacedLayers /\ b = up
               THEN parentChild[b] \ {current} ELSE parentChild[b]]
        /\ childParent' = [n \in NamespacedLayers |->
             IF n = current THEN NoLayer ELSE childParent[n]]
    BY <1>3 DEF RemoveLayer, SkipCurrent
  <2>2. \A c \in Containers : pc[c] # "nsLink"
    BY <2>1 DEF LockInv, GCRunning
  <2>3. \A n \in NamespacedLayers : childParent'[n] # NoLayer =>
          n # current /\ childParent'[n] = childParent[n] /\ childParent[n] \in BaseLayers
    BY <2>1
  <2>4. \A b \in BaseLayers : parentChild[b] \ {current} \subseteq parentChild'[b]
                              /\ parentChild'[b] \subseteq parentChild[b]
    BY <2>1
  <2>5. FilesInv'
    BY <1>1, <2>2, <2>3, <2>4 DEF CopyInv, FilesInv
  <2>6. CopiedImagesStay'
    <3> SUFFICES ASSUME NEW n \in images' \cap NamespacedLayers, childParent'[n] # NoLayer
                 PROVE  childParent'[n] \in images'
      BY DEF CopiedImagesStay
    <3>1. /\ n # current /\ n \in images /\ childParent'[n] = childParent[n]
          /\ childParent[n] \in BaseLayers /\ childParent[n] \in images
      BY <2>1, <2>3 DEF CopyInv, CopiedImagesStay
    <3>2. childParent[n] # current
      BY <2>1, <3>1 DEF CopyInv, FilesInv, SourceInv, HasChildInfo
    <3> QED
      BY <2>1, <3>1, <3>2
  <2>7. SourceInv'
    <3>1. \A x : HasChildInfo(x)' => HasChildInfo(x)
      BY <2>4 DEF HasChildInfo
    <3> QED
      BY <2>1, <3>1 DEF CopyInv, SourceInv, GCRunning
  <2> QED
    BY <2>5, <2>6, <2>7 DEF CopyInv
<1> QED
  BY <1>2, <1>3
  DEF GCStep, GCLock, SumLayer, IndexByParent, CollectHead, NextLeaf, ThresholdChecked,
      IndexDone, HeadsDone, LeavesDone, CheckRetained, GetImage, RemoveFails, GCUnlock

\* Every step preserves CopyInv.
LEMMA NextCopyInv == CallInv /\ LockInv /\ FetchInv /\ CopyInv /\ [Next]_vars => CopyInv'
<1> SUFFICES ASSUME CallInv, LockInv, FetchInv, CopyInv, [Next]_vars
             PROVE  CopyInv'
  OBVIOUS
<1>1. ASSUME UNCHANGED <<parentChild, childParent, gc, leaves, current>>,
             \A c \in Containers : pc'[c] = "nsLink" =>
               pc[c] = "nsLink" /\ manifest'[c] = manifest[c] /\ namespaced'[c] = namespaced[c],
             images' = images \/ \E c \in Containers : images' = images \ {c}
      PROVE  CopyInv'
  <2>1. FilesInv'
    BY <1>1, FilesFrame DEF CopyInv
  <2>2. SourceInv'
    BY <1>1 DEF CopyInv, SourceInv, GCRunning, HasChildInfo
  <2>3. CopiedImagesStay'
    BY <1>1, IdAssumption DEF CopyInv, CopiedImagesStay, CallInv, TypeOK
  <2> QED
    BY <2>1, <2>2, <2>3 DEF CopyInv
<1>2. ASSUME NEW c \in Containers, NEW m \in Manifests, NEW n \in BOOLEAN, CreateCall(c, m, n)
      PROVE  CopyInv'
  BY <1>1, <1>2 DEF CreateCall, Goto, graphVars, gcVars, CallInv, TypeOK
<1>3. ASSUME NEW c \in Containers, DestroyGet(c) \/ DestroyRemove(c)
      PROVE  CopyInv'
  BY <1>1, <1>3 DEF DestroyGet, DestroyRemove, graphVars, createVars, gcVars
<1>4. ASSUME NEW b \in PersistentImages, RetainImage(b)
      PROVE  CopyInv'
  BY <1>1, <1>4 DEF RetainImage, graphVars, createVars, gcVars
<1>5. CASE RetainNamespaced
  BY <1>1, <1>5 DEF RetainNamespaced, graphVars, createVars, gcVars
<1>6. CASE GCCall
  <2>1. /\ UNCHANGED <<images, parentChild, childParent, pc, manifest, namespaced, leaves, current>>
        /\ gc = "idle" /\ gc' = "lock"
    BY <1>6 DEF GCCall, OutsideGC, graphVars, createVars
  <2>2. FilesInv'
    BY <2>1, FilesFrame DEF CopyInv
  <2> QED
    BY <2>1, <2>2 DEF CopyInv, SourceInv, CopiedImagesStay, GCRunning, HasChildInfo
<1>7. CASE UNCHANGED vars
  BY <1>1, <1>7 DEF vars
<1> QED
  BY <1>2, <1>3, <1>4, <1>5, <1>6, <1>7, CreateCopyInv, GCCopyInv DEF Next

\* No file and no leaf initially.
LEMMA InitCopyInv == Init => CopyInv
  BY DEF Init, CopyInv, FilesInv, SourceInv, CopiedImagesStay, GCRunning

(***************************************************************************)
(* The cleaner never removes the image of a copy that is recorded and in   *)
(* the graph, whoever creates, retains and destroys meanwhile, whatever    *)
(* failed before (aufs.go 76-111, cleaner.go 61-99).                       *)
(***************************************************************************)
THEOREM CopiedImagesStayHolds == SafetySpec => []CopiedImagesStay
<1>1. Init => FetchInv
  BY DEF Init, FetchInv, FetchedOf, CopyingOf
<1>2. CopyInv => CopiedImagesStay
  BY DEF CopyInv
<1> QED
  BY <1>1, <1>2, InitCallInv, NextCallInv, InitLockInv, NextLockInv, NextFetchInv,
     InitCopyInv, NextCopyInv, PTL DEF SafetySpec

(***************************************************************************)
(* No step of GC removes a container's layer: between reading the image    *)
(* and removing it the cleaner has seen that it is none (cleaner.go        *)
(* 72-81).                                                                 *)
(***************************************************************************)
THEOREM ContainersSurviveGCHolds == SafetySpec => ContainersSurviveGC
<1>1. Init => FetchInv
  BY DEF Init, FetchInv, FetchedOf, CopyingOf
<1>2. CopyInv /\ [Next]_vars => [GCStep => \A c \in Containers : c \in images => c \in images']_vars
  BY GCImages DEF CopyInv, SourceInv
<1> QED
  BY <1>1, <1>2, InitCallInv, NextCallInv, InitLockInv, NextLockInv, NextFetchInv,
     InitCopyInv, NextCopyInv, PTL DEF SafetySpec, ContainersSurviveGC

----------------------------------------------------------------------------
(***************************************************************************)
(* What GC leaves behind, if no container is destroyed meanwhile and no    *)
(* namespacing has been cut off.                                           *)
(***************************************************************************)
\* A layer nothing holds: no container's, not retained, under no layer.
Garbage(x) ==
    /\ x \in images \ (Containers \cup retained)
    /\ Children(x) \cup Copies(x) = {}

\* What parent-child records is a copy in the graph, linked or about to be.
RecordInv == \A b \in BaseLayers : \A n \in parentChild[b] :
    /\ n = NamespacedID[b]
    /\ \/ n \in images /\ childParent[n] = b
       \/ \E c \in Containers : pc[c] = "nsLink" /\ ImageID(c) = b

\* The walks miss nothing: what they have visited they have taken in.
CoverInv ==
    /\ gc \notin WalkSteps => seen = {}
    /\ gc = "all" => seen = images \ todo
    /\ gc = "byParent" => \A p \in seen : Children(p) # {}
    /\ gc = "heads" =>
        /\ \A p \in parents : Children(p) # {}
        /\ images \ (todo \cup parents) \subseteq seen
    /\ gc = "skipped" => ~Exceeded(images)

\* Once it has the leaves, GC is left with no garbage but those and the parent
\* of the layer it removed last.
GarbageInv ==
    /\ gc \notin {"byParent", "heads", "check", "get", "remove", "failed"} => current = NoLayer
    /\ gc \in {"check", "get", "remove"} => current # NoLayer
    /\ gc \in {"loop", "check", "get", "remove", "done"}
         \/ (gc \in {"byParent", "heads"} /\ current # NoLayer)
         => \A x : Garbage(x) => x \in leaves \cup {current}
    /\ gc = "done" => leaves = {}

CollectInv == RecordInv /\ CoverInv /\ GarbageInv

\* Copies are recorded before they are linked, and unlinked with their record.
LEMMA NextRecordInv ==
    "namespace" \notin Faults /\ CallInv /\ LockInv /\ FetchInv /\ CopyInv /\ RecordInv
      /\ [Next]_vars => RecordInv'
<1> SUFFICES ASSUME "namespace" \notin Faults, CallInv, LockInv, FetchInv, CopyInv, RecordInv,
                    [Next]_vars
             PROVE  RecordInv'
  OBVIOUS
<1> USE IdAssumption DEF CallInv, TypeOK, RecordInv
<1>1. ASSUME UNCHANGED <<parentChild, childParent>>,
             \A n \in NamespacedLayers : n \in images => n \in images',
             \A c \in Containers : pc[c] = "nsLink" => pc'[c] = "nsLink" /\ manifest'[c] = manifest[c]
      PROVE  RecordInv'
  BY <1>1 DEF ImageID
<1>2. ASSUME NEW c \in Containers, CreateStep(c)
      PROVE  RecordInv'
  <2>1. manifest[c] \in Manifests
    BY <1>2 DEF CreateStep, RLock, FetchLayer, FetchFails, NamespaceLock, NamespaceGet,
         NamespaceRegister, NamespaceCopy, NamespaceLink, NamespaceFails, UnmountPanics,
         CreateLayer, CreateLayerFails, Path, RUnlock
  <2>2. /\ ImageID(c) \in BaseLayers
        /\ pc[c] \in NamespaceSteps =>
             ParentID(c) = NamespacedID[ImageID(c)] /\ ParentID(c) \in NamespacedLayers
    BY <2>1, ImageIsLayer DEF ParentID
  <2>3. CASE NamespaceCopy(c)
    <3>1. /\ UNCHANGED <<images, childParent, manifest>>
          /\ pc[c] = "nsCopy" /\ pc' = [pc EXCEPT ![c] = "nsLink"]
          /\ \A b \in BaseLayers : b # ImageID(c) => parentChild'[b] = parentChild[b]
          /\ parentChild'[ImageID(c)] = parentChild[ImageID(c)] \cup {ParentID(c)}
      BY <2>2, <2>3 DEF NamespaceCopy, Goto
    <3>2. \A d \in Containers : ImageID(d)' = ImageID(d)
      BY <3>1 DEF ImageID
    <3>3. \A d \in Containers : pc[d] = "nsLink" => pc'[d] = "nsLink"
      BY <3>1
    <3>4. pc'[c] = "nsLink"
      BY <3>1
    <3> QED
      BY <2>2, <3>1, <3>2, <3>3, <3>4 DEF NamespaceSteps
  <2>4. CASE NamespaceLink(c) \/ UnmountPanics(c)
    <3>1. /\ UNCHANGED <<images, parentChild, manifest>>
          /\ pc[c] = "nsLink" /\ \A d \in Containers \ {c} : pc'[d] = pc[d]
          /\ childParent' = [childParent EXCEPT ![ParentID(c)] = ImageID(c)]
      BY <2>4 DEF NamespaceLink, UnmountPanics, Goto
    <3>2. \A d \in Containers : ImageID(d)' = ImageID(d)
      BY <3>1 DEF ImageID
    <3>3. ParentID(c) = NamespacedID[ImageID(c)] /\ ParentID(c) \in images
      BY <2>2, <3>1 DEF NamespaceSteps, FetchInv, CopyingOf
    <3> SUFFICES ASSUME NEW b \in BaseLayers, NEW n \in parentChild[b]
                 PROVE  /\ n = NamespacedID[b]
                        /\ \/ n \in images /\ childParent'[n] = b
                           \/ \E d \in Containers : pc'[d] = "nsLink" /\ ImageID(d) = b
      BY <3>1, <3>2
    <3>4. n = NamespacedID[b] /\ n \in NamespacedLayers
      OBVIOUS
    <3>5. CASE b = ImageID(c)
      BY <3>1, <3>3, <3>4, <3>5
    <3>6. CASE b # ImageID(c)
      <4>1. n # ParentID(c)
        BY <2>2, <3>3, <3>4, <3>6
      <4>2. childParent'[n] = childParent[n]
        BY <3>1, <3>4, <4>1
      <4> QED
        BY <3>1, <3>4, <3>6, <4>2
    <3> QED
      BY <3>5, <3>6
  <2>5. CASE ~NamespaceCopy(c) /\ ~NamespaceLink(c) /\ ~UnmountPanics(c)
    BY <1>1, <1>2, <2>5
    DEF CreateStep, RLock, FetchLayer, FetchFails, NamespaceLock, NamespaceGet,
        NamespaceRegister, NamespaceFails, CreateLayer, CreateLayerFails, Path, RUnlock,
        Goto, graphVars
  <2> QED
    BY <2>3, <2>4, <2>5
<1>3. CASE GCStep
  <2>1. UNCHANGED <<pc, manifest>>
    BY <1>3, GCFrame
  <2>2. CASE RemoveLayer
    <3> DEFINE up == CakeParent(current)
    <3>1. /\ gc = "remove" /\ images' = images \ {current}
          /\ parentChild' = [b \in BaseLayers |->
               IF current \in NamespacedLayers /\ b = up
                 THEN parentChild[b] \ {current} ELSE parentChild[b]]
          /\ childParent' = [n \in NamespacedLayers |->
               IF n = current THEN NoLayer ELSE childParent[n]]
      BY <2>2 DEF RemoveLayer
    <3>2. \A c \in Containers : pc[c] # "nsLink"
      BY <3>1 DEF LockInv, GCRunning
    <3> SUFFICES ASSUME NEW b \in BaseLayers, NEW n \in parentChild'[b]
                 PROVE  n = NamespacedID[b] /\ n \in images' /\ childParent'[n] = b
      OBVIOUS
    <3>3. n \in parentChild[b] /\ n \in NamespacedLayers
      BY <3>1
    <3>4. n = NamespacedID[b] /\ n \in images /\ childParent[n] = b
      BY <3>2, <3>3
    <3>5. n # current
      BY <3>1, <3>3, <3>4 DEF CakeParent
    <3> QED
      BY <3>1, <3>3, <3>4, <3>5
  <2>3. CASE graphVars' = graphVars
    BY <1>1, <2>1, <2>3 DEF graphVars
  <2> QED
    BY <1>3, <2>2, <2>3
    DEF GCStep, GCLock, SumLayer, IndexByParent, CollectHead, NextLeaf, ThresholdChecked,
        IndexDone, HeadsDone, LeavesDone, CheckRetained, GetImage, RemoveFails, GCUnlock
<1>4. ASSUME NEW c \in Containers, NEW m \in Manifests, NEW n \in BOOLEAN, CreateCall(c, m, n)
      PROVE  RecordInv'
  BY <1>1, <1>4 DEF CreateCall, Goto, graphVars
<1>5. ASSUME NEW c \in Containers, DestroyGet(c) \/ DestroyRemove(c)
      PROVE  RecordInv'
  BY <1>1, <1>5 DEF DestroyGet, DestroyRemove, graphVars, createVars
<1>6. ASSUME NEW b \in PersistentImages, RetainImage(b)
      PROVE  RecordInv'
  BY <1>1, <1>6 DEF RetainImage, graphVars, createVars
<1>7. CASE RetainNamespaced \/ GCCall
  BY <1>1, <1>7 DEF RetainNamespaced, GCCall, OutsideGC, graphVars, createVars
<1>8. CASE UNCHANGED vars
  BY <1>1, <1>8 DEF vars
<1> QED
  BY <1>2, <1>3, <1>4, <1>5, <1>6, <1>7, <1>8 DEF Next

\* While GC runs, an image that parent-child knows has a copy in the graph.
LEMMA SourcesHaveCopies ==
    ASSUME CallInv, LockInv, RecordInv, GCRunning, NEW x, HasChildInfo(x)
    PROVE  Copies(x) # {}
<1>1. PICK n \in parentChild[x] : TRUE
  BY DEF HasChildInfo
<1>2. x \in BaseLayers /\ n \in NamespacedLayers
  BY <1>1 DEF HasChildInfo, CallInv, TypeOK
<1>3. \A c \in Containers : pc[c] # "nsLink"
  BY DEF LockInv
<1>4. n \in images /\ childParent[n] = x
  BY <1>1, <1>2, <1>3 DEF RecordInv
<1> QED
  BY <1>2, <1>4 DEF Copies

\* As long as the graph stays, no layer becomes garbage.
LEMMA NoNewGarbage ==
    ASSUME UNCHANGED <<images, base, childParent>>, retained \subseteq retained', NEW x, Garbage(x)'
    PROVE  Garbage(x)
<1>1. Children(x)' = Children(x)
  BY SameParents DEF Children
<1>2. Copies(x)' = Copies(x)
  BY DEF Copies
<1> QED
  BY <1>1, <1>2 DEF Garbage

\* Removing a layer makes garbage of nothing but the layer it sat on.
LEMMA GarbageOfRemoval ==
    ASSUME CallInv, RemoveLayer, base' = base, retained' = retained, NEW x, Garbage(x)'
    PROVE  x # current /\ (Garbage(x) \/ x = CakeParent(current))
<1>1. /\ images' = images \ {current}
      /\ childParent' = [n \in NamespacedLayers |-> IF n = current THEN NoLayer ELSE childParent[n]]
  BY DEF RemoveLayer
<1>2. x \in images /\ x # current /\ x \notin Containers \cup retained /\ x # NoLayer
  BY <1>1, IdAssumption DEF Garbage, CallInv, TypeOK
<1>3. Children(x) \ {current} \subseteq Children(x)'
  BY <1>1, SameParents DEF Children
<1>4. Copies(x) \ {current} \subseteq Copies(x)'
  BY <1>1 DEF Copies
<1>5. current \in Children(x) => x = CakeParent(current)
  BY <1>2, IdAssumption DEF Children, CakeParent, GraphParent
<1>6. current \in Copies(x) => x = CakeParent(current)
  BY DEF Copies, CakeParent
<1> QED
  BY <1>2, <1>3, <1>4, <1>5, <1>6 DEF Garbage

\* The steps of GC.
LEMMA GCCollectInv ==
    ASSUME CallInv, LockInv, WalkInv, RecordInv, CoverInv, GarbageInv, GCStep
    PROVE  CoverInv' /\ GarbageInv'
<1>1. base' = base /\ retained' = retained
  BY GCFrame
<1>2. \A x : GraphParent(x)' = GraphParent(x)
  BY <1>1, SameParents
<1> USE IdAssumption DEF CoverInv, GarbageInv, WalkSteps
<1>3. ASSUME graphVars' = graphVars, ~RemoveLayer
      PROVE  CoverInv' /\ GarbageInv'
  <2>1. UNCHANGED <<images, base, parentChild, childParent>>
    BY <1>3 DEF graphVars
  <2>2. \A x : Children(x)' = Children(x)
    BY <1>2, <2>1 DEF Children
  <2>3. \A x : Garbage(x)' => Garbage(x)
    BY <1>1, <2>1, NoNewGarbage
  <2>4. CASE GCLock
    BY <2>1, <2>4 DEF GCLock
  <2>5. CASE GCUnlock
    BY <2>1, <2>5 DEF GCUnlock
  <2>6. ASSUME NEW x \in Layers, SumLayer(x) PROVE CoverInv' /\ GarbageInv'
    <3>1. x \in images /\ todo \subseteq images
      BY <2>6 DEF SumLayer, WalkInv
    <3> QED
      BY <2>1, <2>6, <3>1 DEF SumLayer, Visited
  <2>7. CASE ThresholdChecked
    <3>1. seen = images /\ gc = "all" /\ current' = current
      BY <2>7 DEF ThresholdChecked
    <3>2. \/ gc' = "byParent" /\ seen' = {}
          \/ gc' = "skipped" /\ seen' = {} /\ ~Exceeded(images)
      BY <2>7, <3>1 DEF ThresholdChecked
    <3> QED
      BY <2>1, <3>1, <3>2
  <2>8. ASSUME NEW x \in Layers, IndexByParent(x) PROVE CoverInv' /\ GarbageInv'
    <3>1. x \in images
      BY <2>8 DEF IndexByParent, WalkInv
    <3>2. gc = "byParent" /\ UNCHANGED <<gc, current, leaves>>
          /\ seen' \subseteq seen \cup {GraphParent(x)}
      BY <2>8 DEF IndexByParent
    <3>3. \A p \in seen' : Children(p) # {}
      BY <3>1, <3>2 DEF Children
    <3> QED
      BY <2>2, <2>3, <3>2, <3>3
  <2>9. CASE IndexDone
    <3>1. /\ gc = "byParent" /\ gc' = "heads" /\ parents' = seen /\ seen' = {} /\ todo' = images
          /\ UNCHANGED <<current, leaves>>
      BY <2>9 DEF IndexDone
    <3> QED
      BY <2>1, <2>2, <2>3, <3>1
  <2>10. ASSUME NEW x \in Layers, CollectHead(x) PROVE CoverInv' /\ GarbageInv'
    <3>1. x \in images /\ todo \subseteq images
      BY <2>10 DEF CollectHead, WalkInv
    <3>2. /\ gc = "heads" /\ UNCHANGED <<gc, current, leaves, parents>>
          /\ todo' = todo \ {x} /\ seen' = seen \cup ({x} \ parents)
      BY <2>10, <3>1 DEF CollectHead, Visited
    <3> QED
      BY <2>1, <2>2, <2>3, <3>1, <3>2
  <2>11. CASE HeadsDone
    <3> DEFINE found == {x \in seen : ~HasChildInfo(x)}
    <3>1. gc = "heads" /\ todo = {} /\ seen' = {}
      BY <2>11 DEF HeadsDone
    <3>2. ASSUME NEW x, Garbage(x) PROVE x \in found
      <4>1. x \in images /\ Children(x) = {} /\ Copies(x) = {}
        BY <3>2 DEF Garbage
      <4>2. x \in seen
        BY <3>1, <4>1
      <4>3. ~HasChildInfo(x)
        BY <3>1, <4>1, SourcesHaveCopies DEF GCRunning
      <4> QED
        BY <4>2, <4>3
    <3>3. \/ current = NoLayer /\ leaves' = found /\ gc' = "loop" /\ current' = current
          \/ current # NoLayer /\ current \in found /\ gc' = "check" /\ UNCHANGED <<current, leaves>>
          \/ current # NoLayer /\ current \notin found /\ gc' = "loop" /\ current' = NoLayer /\ leaves' = leaves
      BY <2>11 DEF HeadsDone
    <3> HIDE DEF found
    <3> QED
      BY <2>3, <3>1, <3>2, <3>3
  <2>12. ASSUME NEW x \in Layers, NextLeaf(x) PROVE CoverInv' /\ GarbageInv'
    <3>1. x # NoLayer
      OBVIOUS
    <3>2. gc = "loop" /\ gc' = "check" /\ current' = x /\ leaves' = leaves \ {x} /\ seen' = seen
      BY <2>12 DEF NextLeaf, walkVars
    <3>3. \A y : Garbage(y) => y \in leaves
      <4>1. ~Garbage(NoLayer)
        BY DEF Garbage, CallInv, TypeOK
      <4> QED
        BY <3>2, <4>1
    <3> QED
      BY <2>3, <3>1, <3>2, <3>3
  <2>13. CASE LeavesDone
    BY <2>3, <2>13 DEF LeavesDone, walkVars
  <2>14. CASE CheckRetained
    <3>1. current \in retained => ~Garbage(current)
      BY DEF Garbage
    <3> QED
      BY <2>3, <2>14, <3>1 DEF CheckRetained, SkipCurrent, walkVars
  <2>15. CASE GetImage
    <3>1. current \notin images \/ IsContainer(current) => ~Garbage(current)
      BY DEF Garbage, IsContainer
    <3> QED
      BY <2>3, <2>15, <3>1 DEF GetImage, SkipCurrent, walkVars
  <2>16. CASE RemoveFails
    BY <2>3, <2>16 DEF RemoveFails, walkVars
  <2> QED
    BY <1>3, <2>4, <2>5, <2>6, <2>7, <2>8, <2>9, <2>10, <2>11, <2>12, <2>13, <2>14, <2>15, <2>16
    DEF GCStep
<1>4. CASE RemoveLayer
  <2> DEFINE up == CakeParent(current)
  <2>1. /\ gc = "remove" /\ UNCHANGED <<leaves, seen>>
        /\ \/ up = NoLayer /\ gc' = "loop" /\ current' = NoLayer
           \/ up # NoLayer /\ gc' = "byParent" /\ current' = up
    BY <1>4 DEF RemoveLayer, SkipCurrent
  <2>2. \A x : Garbage(x)' => x # current /\ (Garbage(x) \/ x = up)
    BY <1>1, <1>4, GarbageOfRemoval
  <2>3. ~Garbage(NoLayer)'
    BY <1>4 DEF Garbage, CallInv, TypeOK, RemoveLayer
  <2> HIDE DEF up
  <2> QED
    BY <2>1, <2>2, <2>3
<1> QED
  BY <1>3, <1>4
  DEF GCStep, GCLock, SumLayer, IndexByParent, CollectHead, NextLeaf, ThresholdChecked,
      IndexDone, HeadsDone, LeavesDone, CheckRetained, GetImage, RemoveFails, GCUnlock

\* The steps of everybody else: while GC runs they only retain more.
LEMMA NextCollectInv ==
    SerialDestroy /\ "namespace" \notin Faults /\ CallInv /\ LockInv /\ FetchInv /\ GraphInv
      /\ CopyInv /\ CollectInv /\ [Next]_vars => CollectInv'
<1> SUFFICES ASSUME SerialDestroy, "namespace" \notin Faults, CallInv, LockInv, FetchInv,
                    GraphInv, CopyInv, CollectInv, [Next]_vars
             PROVE  CoverInv' /\ GarbageInv'
  BY NextRecordInv DEF CollectInv
<1> USE DEF CollectInv
<1>1. ASSUME ~GCRunning, UNCHANGED <<gc, seen, current>>
      PROVE  CoverInv' /\ GarbageInv'
  BY <1>1 DEF CoverInv, GarbageInv, GCRunning, WalkSteps
<1>2. ASSUME UNCHANGED <<images, base, childParent, gc, current, leaves, todo, seen, parents>>,
             retained \subseteq retained'
      PROVE  CoverInv' /\ GarbageInv'
  <2>1. \A x : Garbage(x)' => Garbage(x)
    BY <1>2, NoNewGarbage
  <2>2. \A x : Children(x)' = Children(x)
    BY <1>2, SameParents DEF Children
  <2> QED
    BY <1>2, <2>1, <2>2 DEF CoverInv, GarbageInv
<1>3. ASSUME NEW c \in Containers, CreateStep(c)
      PROVE  CoverInv' /\ GarbageInv'
  BY <1>1, <1>3, CreateExcludesGC, CreateFrame
<1>4. ASSUME NEW c \in Containers, DestroyRemove(c)
      PROVE  CoverInv' /\ GarbageInv'
  BY <1>1, <1>4 DEF DestroyRemove, LockInv, gcVars
<1>5. ASSUME NEW c \in Containers, NEW m \in Manifests, NEW n \in BOOLEAN, CreateCall(c, m, n)
      PROVE  CoverInv' /\ GarbageInv'
  BY <1>2, <1>5 DEF CreateCall, graphVars, retainVars, gcVars
<1>6. ASSUME NEW c \in Containers, DestroyGet(c)
      PROVE  CoverInv' /\ GarbageInv'
  BY <1>2, <1>6 DEF DestroyGet, graphVars, retainVars, gcVars
<1>7. ASSUME NEW b \in PersistentImages, RetainImage(b)
      PROVE  CoverInv' /\ GarbageInv'
  BY <1>2, <1>7 DEF RetainImage, graphVars, gcVars
<1>8. CASE RetainNamespaced
  BY <1>2, <1>8 DEF RetainNamespaced, graphVars, gcVars
<1>9. CASE GCCall
  BY <1>9 DEF GCCall, CoverInv, GarbageInv, WalkSteps, walkVars
<1>10. CASE GCStep
  BY <1>10, GCCollectInv DEF GraphInv
<1>11. CASE UNCHANGED vars
  BY <1>2, <1>11 DEF vars
<1> QED
  BY <1>3, <1>4, <1>5, <1>6, <1>7, <1>8, <1>9, <1>10, <1>11 DEF Next

\* Nothing has been walked, and there is nothing to collect, initially.
LEMMA InitCollectInv == Init => CollectInv
  BY DEF Init, CollectInv, RecordInv, CoverInv, GarbageInv, WalkSteps

(***************************************************************************)
(* If no container is destroyed while GC runs and no namespacing fails     *)
(* half-way, a GC that returns without error has left no garbage: each     *)
(* layer that remains is a container's, is retained or carries another     *)
(* one; and it skipped only if the graph was within the threshold          *)
(* (threshold.go 19-36, cleaner.go 36-99).                                 *)
(***************************************************************************)
THEOREM GCLeavesNoGarbageHolds ==
    ASSUME SerialDestroy, "namespace" \notin Faults
    PROVE  SafetySpec => []GCLeavesNoGarbage
<1>1. CallInv /\ LockInv /\ FetchInv /\ GraphInv /\ [Next]_vars => GraphInv'
  BY NextGraphInv
<1>2. CallInv /\ LockInv /\ FetchInv /\ GraphInv /\ CopyInv /\ CollectInv /\ [Next]_vars
        => CollectInv'
  BY NextCollectInv
<1>3. Init => FetchInv
  BY DEF Init, FetchInv, FetchedOf, CopyingOf
<1>4. CallInv /\ CollectInv => GCLeavesNoGarbage
  <2> SUFFICES ASSUME CallInv, CollectInv, gc = "done" \/ (gc = "skipped" /\ OverLimit),
                      NEW x \in images \ (Containers \cup retained), Children(x) \cup Copies(x) = {}
               PROVE  FALSE
    BY DEF GCLeavesNoGarbage
  <2>1. gc = "done" /\ leaves = {} /\ current = NoLayer
    BY DEF CollectInv, CoverInv, GarbageInv, OverLimit, Exceeded
  <2>2. Garbage(x)
    BY DEF Garbage
  <2>3. x = NoLayer
    BY <2>1, <2>2 DEF CollectInv, GarbageInv
  <2> QED
    BY <2>3, IdAssumption DEF CallInv, TypeOK
<1> QED
  BY <1>1, <1>2, <1>3, <1>4, InitCallInv, NextCallInv, InitLockInv, NextLockInv, NextFetchInv,
     InitGraphInv, InitCopyInv, NextCopyInv, InitCollectInv, PTL DEF SafetySpec
=============================================================================
