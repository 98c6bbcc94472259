--------------------------- MODULE CakeOrdinator ---------------------------
(***************************************************************************)
(* The layers of the graph and everybody who adds and removes them:        *)
(*   - CakeOrdinator.Create, one goroutine per container, which fetches an *)
(*     image's layers, namespaces the image if asked to, and registers the *)
(*     container's layer, all under the read lock of CakeOrdinator.mu;     *)
(*   - CakeOrdinator.GC, which runs OvenCleaner.GC under the write lock;   *)
(*   - CakeOrdinator.Destroy, which removes the container's layer and      *)
(*     takes no lock;                                                      *)
(*   - ImageRetainer.Retain, a goroutine of its own that marks images the  *)
(*     cleaner has to keep.                                                *)
(* The cake is layercake.AufsCake over docker's graph.  The graph is a set *)
(* of registered images, each with the parent it was registered with; the  *)
(* garden-info files relate namespaced layers to the images they copy.     *)
(* The cleaner finds the leaves by walking the graph image by image, and   *)
(* every image it looks up is a step of its own: Destroy runs between any  *)
(* two of them.                                                            *)
(***************************************************************************)
EXTENDS Integers, Sequences, FiniteSetsExt

CONSTANTS
    BaseLayers,        \* graph ids of image layers (DockerImageID, LocalImageID)
    NamespacedLayers,  \* graph ids of uid-translated copies (NamespacedLayerID)
    Containers,        \* graph ids of container layers (ContainerID)
    NoLayer,           \* the empty graph id
    Manifests,         \* the images: sequences of base layers, bottom first
    BaseParent,        \* the parent each base layer is registered with
    NamespacedID,      \* the namespaced copy of each base layer
    PersistentImages,  \* the ids of the images ImageRetainer is given
    Size,              \* bytes each base layer was unpacked to
    Limit,             \* the graph cleanup threshold; negative disables it
    Faults,            \* which operations may fail
    SerialDestroy      \* callers keep Destroy out of a running GC

Layers == BaseLayers \cup NamespacedLayers \cup Containers

FaultKinds == {"fetch", "namespace", "layer", "remove", "panic"}

\* Graph ids are SHA-256 digests, so the three kinds never collide and two
\* images have different namespaced ids.
ASSUME IdAssumption ==
    /\ BaseLayers \cap NamespacedLayers = {}
    /\ BaseLayers \cap Containers = {}
    /\ NamespacedLayers \cap Containers = {}
    /\ NoLayer \notin Layers
    /\ NamespacedID \in [BaseLayers -> NamespacedLayers]
    /\ \A a, b \in BaseLayers : NamespacedID[a] = NamespacedID[b] => a = b

\* A manifest lists at least one layer, each above its parent.
ASSUME ManifestAssumption ==
    /\ BaseParent \in [BaseLayers -> BaseLayers \cup {NoLayer}]
    /\ Manifests \subseteq Seq(BaseLayers)
    /\ \A m \in Manifests :
        /\ Len(m) > 0
        /\ \A i \in 1..Len(m) :
            BaseParent[m[i]] = IF i = 1 THEN NoLayer ELSE m[i - 1]

ASSUME ParameterAssumption ==
    /\ PersistentImages \subseteq BaseLayers
    /\ Size \in [BaseLayers -> Nat]
    /\ Limit \in Int
    /\ Faults \subseteq FaultKinds
    /\ SerialDestroy \in BOOLEAN

VARIABLES
    images,       \* the ids in graph.idIndex
    base,         \* the parent each container layer was registered with
    parentChild,  \* garden-info/parent-child: the namespaced copies of an image
    childParent,  \* garden-info/child-parent: the image a copy was made of
    retained,     \* retainer.retainedImages
    retaining,    \* the image ImageRetainer is half-way through, or NoLayer
    readers,      \* CakeOrdinator.mu: the Creates that hold the read lock
    writer,       \* CakeOrdinator.mu: "none", "pending" or "held" by GC
    nsMutex,      \* ContainerLayerCreator.mutex: the Create that owns it
    pc,           \* where each Create is
    manifest,     \* the image each Create is for
    next,         \* the next layer of the manifest to fetch
    namespaced,   \* spec.Namespaced of each Create
    destroying,   \* the Destroys between their Get and their Remove
    gc,           \* where GC is
    current,      \* the layer removeRecursively is working on
    leaves,       \* the ids GC has still to remove
    todo,         \* walkAll: the ids still to visit
    seen,         \* walkAll: the images, parents or heads found so far
    parents,      \* Heads: the byParent table of this walk
    kept          \* history: layers retained and registered when GC began

graphVars == <<images, base, parentChild, childParent>>
retainVars == <<retained, retaining>>
muVars == <<readers, writer>>
createVars == <<nsMutex, pc, manifest, next, namespaced>>
walkVars == <<todo, seen, parents>>
gcVars == <<gc, current, leaves, todo, seen, parents, kept>>

vars == <<images, base, parentChild, childParent, retained, retaining,
          readers, writer, nsMutex, pc, manifest, next, namespaced,
          destroying, gc, current, leaves, todo, seen, parents, kept>>

CreateSteps == {"idle", "rlock", "fetch", "nsLock", "nsGet", "nsRegister",
                "nsCopy", "nsLink", "create", "path", "runlock"}

WalkSteps == {"all", "byParent", "heads"}

GCSteps == {"idle", "lock", "loop", "check", "get", "remove",
            "done", "failed", "skipped"} \cup WalkSteps

TypeOK ==
    /\ images \subseteq Layers
    /\ base \in [Containers -> BaseLayers \cup NamespacedLayers \cup {NoLayer}]
    /\ parentChild \in [BaseLayers -> SUBSET NamespacedLayers]
    /\ childParent \in [NamespacedLayers -> BaseLayers \cup {NoLayer}]
    /\ retained \subseteq Layers
    /\ retaining \in BaseLayers \cup {NoLayer}
    /\ readers \subseteq Containers
    /\ writer \in {"none", "pending", "held"}
    /\ nsMutex \in Containers \cup {NoLayer}
    /\ pc \in [Containers -> CreateSteps]
    /\ manifest \in [Containers -> Manifests \cup {<<>>}]
    /\ next \in [Containers -> Nat]
    /\ namespaced \in [Containers -> BOOLEAN]
    /\ destroying \subseteq Containers
    /\ gc \in GCSteps
    /\ current \in Layers \cup {NoLayer}
    /\ leaves \subseteq Layers
    /\ todo \subseteq Layers
    /\ seen \subseteq Layers
    /\ parents \subseteq Layers
    /\ kept \subseteq Layers

Init ==
    /\ images = {}
    /\ base = [c \in Containers |-> NoLayer]
    /\ parentChild = [b \in BaseLayers |-> {}]
    /\ childParent = [n \in NamespacedLayers |-> NoLayer]
    /\ retained = {}
    /\ retaining = NoLayer
    /\ readers = {}
    /\ writer = "none"
    /\ nsMutex = NoLayer
    /\ pc = [c \in Containers |-> "idle"]
    /\ manifest = [c \in Containers |-> <<>>]
    /\ next = [c \in Containers |-> 1]
    /\ namespaced = [c \in Containers |-> FALSE]
    /\ destroying = {}
    /\ gc = "idle"
    /\ current = NoLayer
    /\ leaves = {}
    /\ todo = {}
    /\ seen = {}
    /\ parents = {}
    /\ kept = {}

----------------------------------------------------------------------------
(***************************************************************************)
(* The cake.                                                               *)
(***************************************************************************)
\* image.Parent as the graph stores it.  AufsCake registers a namespaced
\* layer without a parent, since it is a copy.
GraphParent(x) ==
    CASE x \in BaseLayers -> BaseParent[x]
      [] x \in Containers -> base[x]
      [] OTHER -> NoLayer

\* AufsCake.Get: a layer without a parent has the one in child-parent.
CakeParent(x) ==
    IF x \in NamespacedLayers THEN childParent[x] ELSE GraphParent(x)

\* AufsCake.hasInfo on parent-child.
HasChildInfo(x) == x \in BaseLayers /\ parentChild[x] # {}

\* image.Container # "": the layer was created for a container.
IsContainer(x) == x \in Containers

\* The layers that sit on x: in the graph, or as a namespaced copy of it.
Children(x) == {y \in images : GraphParent(y) = x}
Copies(x) == {n \in images \cap NamespacedLayers : childParent[n] = x}

\* image.Size: a layer registered without a tar, as containers and copies are,
\* has size zero, whatever is written into it later.
LayerSize(x) == IF x \in BaseLayers THEN Size[x] ELSE 0

\* Mutant: the comparison is off by one.
ExceededByMore(S) == Limit >= 0 /\ MapThenSumSet(LayerSize, S) > Limit + 1

\* threshold.Exceeded on what Graph.Map returned.
Exceeded(S) == Limit >= 0 /\ MapThenSumSet(LayerSize, S) > Limit

----------------------------------------------------------------------------
(***************************************************************************)
(* CakeOrdinator.Create and ContainerLayerCreator.Create.                  *)
(***************************************************************************)
\* The layer the container is to sit on.
ImageID(c) == manifest[c][Len(manifest[c])]
ParentID(c) == IF namespaced[c] THEN NamespacedID[ImageID(c)] ELSE ImageID(c)

Goto(c, step) == pc' = [pc EXCEPT ![c] = step]

CreateCall(c, m, n) ==
    /\ pc[c] = "idle"
    /\ Goto(c, "rlock")
    /\ manifest' = [manifest EXCEPT ![c] = m]
    /\ namespaced' = [namespaced EXCEPT ![c] = n]
    /\ UNCHANGED <<graphVars, retainVars, muVars, nsMutex, next, destroying, gcVars>>

\* sync.RWMutex: a pending writer keeps new readers out.
RLock(c) ==
    /\ pc[c] = "rlock"
    /\ writer = "none"
    /\ readers' = readers \cup {c}
    /\ Goto(c, "fetch")
    /\ UNCHANGED <<graphVars, retainVars, writer, nsMutex, manifest, next,
                   namespaced, destroying, gcVars>>

\* One layer of the manifest: cached, or downloaded and registered.
FetchLayer(c) ==
    /\ pc[c] = "fetch"
    /\ images' = images \cup {manifest[c][next[c]]}
    /\ next' = [next EXCEPT ![c] = next[c] + 1]
    /\ Goto(c, IF next[c] < Len(manifest[c]) THEN "fetch"
               ELSE IF namespaced[c] THEN "nsLock" ELSE "create")
    /\ UNCHANGED <<base, parentChild, childParent, retainVars, muVars, nsMutex,
                   manifest, namespaced, destroying, gcVars>>

FetchFails(c) ==
    /\ "fetch" \in Faults
    /\ pc[c] = "fetch"
    /\ Goto(c, "runlock")
    /\ UNCHANGED <<graphVars, retainVars, muVars, nsMutex, manifest, next,
                   namespaced, destroying, gcVars>>

----------------------------------------------------------------------------
(***************************************************************************)
(* ContainerLayerCreator.namespace, under its mutex, and AufsCake.Create   *)
(* for a namespaced layer.                                                 *)
(***************************************************************************)
\* Mutant: every Create has a mutex of its own.
NamespaceLockUnshared(c) ==
    /\ pc[c] = "nsLock"
    /\ nsMutex' = c
    /\ Goto(c, "nsGet")
    /\ UNCHANGED <<graphVars, retainVars, muVars, manifest, next, namespaced,
                   destroying, gcVars>>

NamespaceLock(c) ==
    /\ pc[c] = "nsLock"
    /\ nsMutex = NoLayer
    /\ nsMutex' = c
    /\ Goto(c, "nsGet")
    /\ UNCHANGED <<graphVars, retainVars, muVars, manifest, next, namespaced,
                   destroying, gcVars>>

NamespaceGet(c) ==
    /\ pc[c] = "nsGet"
    /\ IF ParentID(c) \in images
         THEN Goto(c, "create") /\ nsMutex' = NoLayer
         ELSE Goto(c, "nsRegister") /\ UNCHANGED nsMutex
    /\ UNCHANGED <<graphVars, retainVars, muVars, manifest, next, namespaced,
                   destroying, gcVars>>

\* hasInfo(child-parent) is an error; otherwise the layer is registered.
NamespaceRegister(c) ==
    /\ pc[c] = "nsRegister"
    /\ IF childParent[ParentID(c)] # NoLayer
         THEN /\ Goto(c, "runlock")
              /\ nsMutex' = NoLayer
              /\ UNCHANGED images
         ELSE /\ Goto(c, "nsCopy")
              /\ images' = images \cup {ParentID(c)}
              /\ UNCHANGED nsMutex
    /\ UNCHANGED <<base, parentChild, childParent, retainVars, muVars, manifest,
                   next, namespaced, destroying, gcVars>>

\* The image is copied, then the copy is noted in parent-child.
NamespaceCopy(c) ==
    /\ pc[c] = "nsCopy"
    /\ parentChild' = [parentChild EXCEPT ![ImageID(c)] = @ \cup {ParentID(c)}]
    /\ Goto(c, "nsLink")
    /\ UNCHANGED <<images, base, childParent, retainVars, muVars, nsMutex,
                   manifest, next, namespaced, destroying, gcVars>>

\* Then in child-parent; the copy is translated and unmounted.
NamespaceLink(c) ==
    /\ pc[c] = "nsLink"
    /\ childParent' = [childParent EXCEPT ![ParentID(c)] = ImageID(c)]
    /\ nsMutex' = NoLayer
    /\ Goto(c, "create")
    /\ UNCHANGED <<images, base, parentChild, retainVars, muVars, manifest, next,
                   namespaced, destroying, gcVars>>

\* Any of those steps may fail; what was done before stays.
NamespaceFails(c) ==
    /\ "namespace" \in Faults
    /\ pc[c] \in {"nsRegister", "nsCopy", "nsLink"}
    /\ nsMutex' = NoLayer
    /\ Goto(c, "runlock")
    /\ \/ UNCHANGED childParent
       \/ /\ pc[c] = "nsLink"
          /\ childParent' = [childParent EXCEPT ![ParentID(c)] = ImageID(c)]
    /\ UNCHANGED <<images, base, parentChild, retainVars, muVars, manifest, next,
                   namespaced, destroying, gcVars>>

\* unmountTranslationLayer panics: the deferred RUnlock of Create runs, the
\* mutex of the layer creator stays locked.
UnmountPanics(c) ==
    /\ "panic" \in Faults
    /\ pc[c] = "nsLink"
    /\ childParent' = [childParent EXCEPT ![ParentID(c)] = ImageID(c)]
    /\ Goto(c, "runlock")
    /\ UNCHANGED <<images, base, parentChild, retainVars, muVars, nsMutex,
                   manifest, next, namespaced, destroying, gcVars>>

----------------------------------------------------------------------------
\* graph.Create of the container's layer; registering an id again is a no-op.
CreateLayer(c) ==
    /\ pc[c] = "create"
    /\ images' = images \cup {c}
    /\ base' = IF c \in images THEN base ELSE [base EXCEPT ![c] = ParentID(c)]
    /\ Goto(c, "path")
    /\ UNCHANGED <<parentChild, childParent, retainVars, muVars, nsMutex, manifest,
                   next, namespaced, destroying, gcVars>>

CreateLayerFails(c) ==
    /\ "layer" \in Faults
    /\ pc[c] = "create"
    /\ Goto(c, "runlock")
    /\ UNCHANGED <<graphVars, retainVars, muVars, nsMutex, manifest, next,
                   namespaced, destroying, gcVars>>

\* Path or QuotaedPath and the volumes.  Whether they fail or not, the layer
\* stays registered.
Path(c) ==
    /\ pc[c] = "path"
    /\ Goto(c, "runlock")
    /\ UNCHANGED <<graphVars, retainVars, muVars, nsMutex, manifest, next,
                   namespaced, destroying, gcVars>>

RUnlock(c) ==
    /\ pc[c] = "runlock"
    /\ readers' = readers \ {c}
    /\ Goto(c, "idle")
    /\ manifest' = [manifest EXCEPT ![c] = <<>>]
    /\ next' = [next EXCEPT ![c] = 1]
    /\ namespaced' = [namespaced EXCEPT ![c] = FALSE]
    /\ UNCHANGED <<graphVars, retainVars, writer, nsMutex, destroying, gcVars>>

----------------------------------------------------------------------------
(***************************************************************************)
(* CakeOrdinator.Destroy.  It takes no lock; SerialDestroy is the          *)
(* discipline of callers that never destroy a container while GC runs.     *)
(***************************************************************************)
DestroyGet(c) ==
    /\ c \notin destroying
    /\ c \in images
    /\ destroying' = destroying \cup {c}
    /\ UNCHANGED <<graphVars, retainVars, muVars, createVars, gcVars>>

\* A second Destroy of the container may have been faster: Delete then fails.
DestroyRemove(c) ==
    /\ c \in destroying
    /\ SerialDestroy => writer # "held"
    /\ images' = images \ {c}
    /\ destroying' = destroying \ {c}
    /\ UNCHANGED <<base, parentChild, childParent, retainVars, muVars, createVars, gcVars>>

----------------------------------------------------------------------------
(***************************************************************************)
(* ImageRetainer.Retain: the image's id first, then its namespaced id.     *)
(***************************************************************************)
RetainImage(b) ==
    /\ retaining = NoLayer
    /\ b \notin retained
    /\ retained' = retained \cup {b}
    /\ retaining' = b
    /\ UNCHANGED <<graphVars, muVars, createVars, destroying, gcVars>>

RetainNamespaced ==
    /\ retaining # NoLayer
    /\ retained' = retained \cup {NamespacedID[retaining]}
    /\ retaining' = NoLayer
    /\ UNCHANGED <<graphVars, muVars, createVars, destroying, gcVars>>

----------------------------------------------------------------------------
(***************************************************************************)
(* CakeOrdinator.GC and OvenCleaner.GC.  Calls exclude one another by      *)
(* mu.Lock, so one caller stands for all.                                  *)
(***************************************************************************)
\* Everything GC does leaves these alone.
OutsideGC == <<retainVars, createVars, destroying>>

GCCall ==
    /\ gc = "idle"
    /\ writer = "none"
    /\ writer' = "pending"
    /\ gc' = "lock"
    /\ UNCHANGED <<OutsideGC, graphVars, readers, current, leaves, walkVars, kept>>

\* Mutant: GC does not wait for the Creates that hold the read lock.
GCLockIgnoringReaders ==
    /\ gc = "lock"
    /\ writer' = "held"
    /\ gc' = "all"
    /\ todo' = images
    /\ kept' = retained \cap images
    /\ UNCHANGED <<OutsideGC, graphVars, readers, current, leaves, seen, parents>>

\* mu.Lock returns; Exceeded starts to walk the graph.
GCLock ==
    /\ gc = "lock"
    /\ readers = {}
    /\ writer' = "held"
    /\ gc' = "all"
    /\ todo' = images
    /\ kept' = retained \cap images
    /\ UNCHANGED <<OutsideGC, graphVars, readers, current, leaves, seen, parents>>

GCUnlock ==
    /\ gc \in {"done", "failed", "skipped"}
    /\ writer' = "none"
    /\ gc' = "idle"
    /\ current' = NoLayer
    /\ leaves' = {}
    /\ todo' = {}
    /\ seen' = {}
    /\ parents' = {}
    /\ kept' = {}
    /\ UNCHANGED <<OutsideGC, graphVars, readers>>

\* Graph.walkAll visits the ids it listed in any order, and gives up at the
\* first one that is not in the graph any more.
Visited(x) == IF x \in images THEN todo \ {x} ELSE {}

SumLayer(x) ==
    /\ gc = "all"
    /\ x \in todo
    /\ seen' = seen \cup ({x} \cap images)
    /\ todo' = Visited(x)
    /\ UNCHANGED <<OutsideGC, graphVars, muVars, gc, current, leaves, parents, kept>>

\* Below the threshold GC returns; above it GetAllLeaves asks for the heads.
ThresholdChecked ==
    /\ gc = "all"
    /\ todo = {}
    /\ IF Exceeded(seen)
         THEN gc' = "byParent" /\ todo' = images
         ELSE gc' = "skipped" /\ UNCHANGED todo
    /\ seen' = {}
    /\ UNCHANGED <<OutsideGC, graphVars, muVars, current, leaves, parents, kept>>

\* Mutant: only the layers of containers count as children.
IndexContainersOnly(x) ==
    /\ gc = "byParent"
    /\ x \in todo
    /\ seen' = IF x \in images \cap Containers
                 THEN seen \cup ({GraphParent(x)} \cap images) ELSE seen
    /\ todo' = Visited(x)
    /\ UNCHANGED <<OutsideGC, graphVars, muVars, gc, current, leaves, parents, kept>>

\* Mutant: the parent is not looked up in the graph.
IndexUnknownParents(x) ==
    /\ gc = "byParent"
    /\ x \in todo
    /\ seen' = IF x \in images THEN seen \cup {GraphParent(x)} ELSE seen
    /\ todo' = Visited(x)
    /\ UNCHANGED <<OutsideGC, graphVars, muVars, gc, current, leaves, parents, kept>>

\* Graph.ByParent: the parent of each image, if it is in the graph.
IndexByParent(x) ==
    /\ gc = "byParent"
    /\ x \in todo
    /\ seen' = IF x \in images THEN seen \cup ({GraphParent(x)} \cap images) ELSE seen
    /\ todo' = Visited(x)
    /\ UNCHANGED <<OutsideGC, graphVars, muVars, gc, current, leaves, parents, kept>>

IndexDone ==
    /\ gc = "byParent"
    /\ todo = {}
    /\ gc' = "heads"
    /\ parents' = seen
    /\ seen' = {}
    /\ todo' = images
    /\ UNCHANGED <<OutsideGC, graphVars, muVars, current, leaves, kept>>

\* Graph.Heads: the images that are nobody's parent in that table.
CollectHead(x) ==
    /\ gc = "heads"
    /\ x \in todo
    /\ seen' = seen \cup (({x} \cap images) \ parents)
    /\ todo' = Visited(x)
    /\ UNCHANGED <<OutsideGC, graphVars, muVars, gc, current, leaves, parents, kept>>

\* Mutant: parent-child is not consulted.
HeadsAreLeaves ==
    /\ gc = "heads"
    /\ todo = {}
    /\ IF current = NoLayer
         THEN leaves' = seen /\ gc' = "loop" /\ UNCHANGED current
         ELSE IF current \in seen
           THEN gc' = "check" /\ UNCHANGED <<current, leaves>>
           ELSE gc' = "loop" /\ current' = NoLayer /\ UNCHANGED leaves
    /\ seen' = {}
    /\ parents' = {}
    /\ UNCHANGED <<OutsideGC, graphVars, muVars, todo, kept>>

\* AufsCake.GetAllLeaves, or AufsCake.IsLeaf(current) in removeRecursively: a
\* head that parent-child knows as the source of a copy is not a leaf.
HeadsDone ==
    /\ gc = "heads"
    /\ todo = {}
    /\ LET found == {x \in seen : ~HasChildInfo(x)}
       IN  IF current = NoLayer
             THEN leaves' = found /\ gc' = "loop" /\ UNCHANGED current
             ELSE IF current \in found
               THEN gc' = "check" /\ UNCHANGED <<current, leaves>>
               ELSE gc' = "loop" /\ current' = NoLayer /\ UNCHANGED leaves
    /\ seen' = {}
    /\ parents' = {}
    /\ UNCHANGED <<OutsideGC, graphVars, muVars, todo, kept>>

\* Mutant: the leaf is not taken off the list.
NextLeafStays(x) ==
    /\ gc = "loop"
    /\ x \in leaves
    /\ current' = x
    /\ gc' = "check"
    /\ UNCHANGED <<OutsideGC, graphVars, muVars, leaves, walkVars, kept>>

NextLeaf(x) ==
    /\ gc = "loop"
    /\ x \in leaves
    /\ leaves' = leaves \ {x}
    /\ current' = x
    /\ gc' = "check"
    /\ UNCHANGED <<OutsideGC, graphVars, muVars, walkVars, kept>>

LeavesDone ==
    /\ gc = "loop"
    /\ leaves = {}
    /\ gc' = "done"
    /\ UNCHANGED <<OutsideGC, graphVars, muVars, current, leaves, walkVars, kept>>

----------------------------------------------------------------------------
(***************************************************************************)
(* OvenCleaner.removeRecursively(current).                                 *)
(***************************************************************************)
SkipCurrent == gc' = "loop" /\ current' = NoLayer

\* Mutant: only images are held, not their namespaced copies.
CheckRetainedImages ==
    /\ gc = "check"
    /\ IF current \in retained \cap BaseLayers
         THEN SkipCurrent
         ELSE gc' = "get" /\ UNCHANGED current
    /\ UNCHANGED <<OutsideGC, graphVars, muVars, leaves, walkVars, kept>>

CheckRetained ==
    /\ gc = "check"
    /\ IF current \in retained
         THEN SkipCurrent
         ELSE gc' = "get" /\ UNCHANGED current
    /\ UNCHANGED <<OutsideGC, graphVars, muVars, leaves, walkVars, kept>>

\* Mutant: the layers of containers are removed like any other.
GetAnyImage ==
    /\ gc = "get"
    /\ IF current \notin images
         THEN SkipCurrent
         ELSE gc' = "remove" /\ UNCHANGED current
    /\ UNCHANGED <<OutsideGC, graphVars, muVars, leaves, walkVars, kept>>

GetImage ==
    /\ gc = "get"
    /\ IF current \notin images \/ IsContainer(current)
         THEN SkipCurrent
         ELSE gc' = "remove" /\ UNCHANGED current
    /\ UNCHANGED <<OutsideGC, graphVars, muVars, leaves, walkVars, kept>>

\* Mutant: the recursion goes on without asking whether the parent is a leaf.
RemoveWithParent ==
    /\ gc = "remove"
    /\ LET up == CakeParent(current) IN
        /\ images' = images \ {current}
        /\ parentChild' = [b \in BaseLayers |->
             IF b = up THEN parentChild[b] \ {current} ELSE parentChild[b]]
        /\ childParent' = [n \in NamespacedLayers |->
             IF n = current THEN NoLayer ELSE childParent[n]]
        /\ IF up = NoLayer THEN SkipCurrent ELSE gc' = "check" /\ current' = up
    /\ UNCHANGED <<OutsideGC, base, muVars, leaves, walkVars, kept>>

\* AufsCake.Remove deletes the layer from the graph and from the info files.
\* The parent is the one GetImage read: info changes only under this lock.
RemoveLayer ==
    /\ gc = "remove"
    /\ LET up == CakeParent(current) IN
        /\ images' = images \ {current}
        /\ parentChild' = [b \in BaseLayers |->
             IF current \in NamespacedLayers /\ b = up
               THEN parentChild[b] \ {current} ELSE parentChild[b]]
        /\ childParent' = [n \in NamespacedLayers |->
             IF n = current THEN NoLayer ELSE childParent[n]]
        /\ IF up = NoLayer
             THEN SkipCurrent /\ UNCHANGED todo
             ELSE gc' = "byParent" /\ current' = up /\ todo' = images'
    /\ UNCHANGED <<OutsideGC, base, muVars, leaves, seen, parents, kept>>

\* Unmounting the layer fails: GC returns the error.
RemoveFails ==
    /\ "remove" \in Faults
    /\ gc = "remove"
    /\ gc' = "failed"
    /\ UNCHANGED <<OutsideGC, graphVars, muVars, current, leaves, walkVars, kept>>

----------------------------------------------------------------------------
CreateStep(c) ==
    \/ RLock(c)
    \/ FetchLayer(c)
    \/ FetchFails(c)
    \/ NamespaceLock(c)
    \/ NamespaceGet(c)
    \/ NamespaceRegister(c)
    \/ NamespaceCopy(c)
    \/ NamespaceLink(c)
    \/ NamespaceFails(c)
    \/ UnmountPanics(c)
    \/ CreateLayer(c)
    \/ CreateLayerFails(c)
    \/ Path(c)
    \/ RUnlock(c)

GCStep ==
    \/ GCLock
    \/ \E x \in Layers : SumLayer(x) \/ IndexByParent(x) \/ CollectHead(x) \/ NextLeaf(x)
    \/ ThresholdChecked
    \/ IndexDone
    \/ HeadsDone
    \/ LeavesDone
    \/ CheckRetained
    \/ GetImage
    \/ RemoveLayer
    \/ RemoveFails
    \/ GCUnlock

Next ==
    \/ \E c \in Containers :
        \/ \E m \in Manifests, n \in BOOLEAN : CreateCall(c, m, n)
        \/ CreateStep(c)
        \/ DestroyGet(c)
        \/ DestroyRemove(c)
    \/ \E b \in PersistentImages : RetainImage(b)
    \/ RetainNamespaced
    \/ GCCall
    \/ GCStep

SafetySpec == Init /\ [][Next]_vars

(***************************************************************************)
(* A goroutine that can take a step takes it.  RWMutex admits the readers  *)
(* it kept out as soon as the writer is gone, and Mutex hands over to a    *)
(* waiter, so the two locking steps of a Create are strongly fair; GC's    *)
(* needs no more than weak fairness, because new readers wait for it.      *)
(* Nobody is obliged to call Create, Destroy, GC or Retain.                *)
(***************************************************************************)
Fairness ==
    /\ \A c \in Containers :
        /\ WF_vars(CreateStep(c))
        /\ SF_vars(RLock(c))
        /\ SF_vars(NamespaceLock(c))
    /\ WF_vars(GCStep)

Spec == SafetySpec /\ Fairness

----------------------------------------------------------------------------
(***************************************************************************)
(* Properties.                                                             *)
(***************************************************************************)
\* The Creates that are between their RLock and their RUnlock.
Creating == {c \in Containers : pc[c] \notin {"idle", "rlock"}}

GCRunning == gc \notin {"idle", "lock"}

(***************************************************************************)
(* A layer that a running Create has fetched, or a namespaced layer it has *)
(* found or made, stays in the graph until the Create's own container      *)
(* layer protects it: GC never gets between the steps of a Create          *)
(* (cakeordinator.go 62-66, 115-119), and what other Creates and Destroys  *)
(* do does not remove image layers.                                        *)
(***************************************************************************)
FetchedLayersStay == \A c \in Containers :
    /\ pc[c] = "fetch" =>
        \A i \in 1..Len(manifest[c]) : i < next[c] => manifest[c][i] \in images
    /\ pc[c] \in {"nsLock", "nsGet", "nsRegister", "nsCopy", "nsLink", "create"} =>
        \A i \in 1..Len(manifest[c]) : manifest[c][i] \in images
    /\ pc[c] = "create" => ParentID(c) \in images

(***************************************************************************)
(* Every layer in the graph has its whole chain of parents in the graph:   *)
(* no container and no image loses a layer under it, whatever the cleaner  *)
(* removed (cleaner.go 50-99).                                             *)
(***************************************************************************)
ParentsPresent == \A x \in images : GraphParent(x) \in images \cup {NoLayer}

(***************************************************************************)
(* A layer the cleaner takes for a leaf has no child in the graph.  "A     *)
(* head is an image which is not the parent of another image in the graph" *)
(* (vendor/github.com/docker/docker/graph/graph.go 496).                   *)
(***************************************************************************)
LeavesHaveNoChildren ==
    gc \in {"check", "get", "remove"} => Children(current) = {}

(***************************************************************************)
(* The cleaner keeps an image while a namespaced copy of it that the info  *)
(* files record is in the graph (aufs.go 76-111).                          *)
(***************************************************************************)
CopiedImagesStay == \A n \in images \cap NamespacedLayers :
    childParent[n] # NoLayer => childParent[n] \in images

(***************************************************************************)
(* GC removes neither a layer that was retained when it took the lock, nor *)
(* a container's layer: only Destroy removes those (cleaner.go 67-81).     *)
(***************************************************************************)
RetainedSurvive == GCRunning => kept \subseteq images

ContainersSurviveGC == [][GCStep => \A c \in Containers : c \in images => c \in images']_vars

(***************************************************************************)
(* When GC returns without an error, and did not skip because the layers   *)
(* in the graph are within the limit, nothing that could be removed is     *)
(* left: every remaining layer is a container's, is retained, or is under  *)
(* a layer that remains.  A sum that misses layers, or a comparison that   *)
(* is off by one, counts as a failure to collect: the property adds the    *)
(* sizes up again.  A Destroy may cut the walks short, so this is for      *)
(* callers that keep it out of GC (threshold.go 19-36, cleaner.go 36-99).  *)
(***************************************************************************)
OverLimit == Limit >= 0 /\ MapThenSumSet(LayerSize, images) > Limit

GCLeavesNoGarbage == (gc = "done" \/ (gc = "skipped" /\ OverLimit)) =>
    \A x \in images \ (Containers \cup retained) : Children(x) \cup Copies(x) # {}

(***************************************************************************)
(* Two Creates are never in the middle of making the same namespaced       *)
(* layer, and GC never runs while one is (layer_creator.go 37-41).         *)
(***************************************************************************)
InNamespace(c) == pc[c] \in {"nsGet", "nsRegister", "nsCopy", "nsLink"}

OneNamespacer == \A c, d \in Containers :
    (InNamespace(c) /\ InNamespace(d)) => (c = d /\ ~GCRunning)

(***************************************************************************)
(* Every Create and every GC returns: the read lock, the write lock and    *)
(* the namespacing mutex never make everybody wait for everybody.          *)
(***************************************************************************)
AllReturn ==
    /\ \A c \in Containers : pc[c] = "rlock" ~> pc[c] = "idle"
    /\ gc = "lock" ~> gc = "idle"
=============================================================================
