# Garden Shed in TLA+

Garden Shed manages the root filesystems of containers: it fetches images into
docker's graph of layers, translates their file owners for user namespaces,
puts a layer on top for each container, and garbage-collects what nobody uses.
This directory holds TLA+ models of that code, the TLC configurations that
check them, and theorems about them with proofs for TLAPS. `PROJECT.json` maps
every definition to the lines it models and lists runs, mutants, findings,
hazards and theorems.

## 1. Inventory

| Component | State | Operations | Interacts with | What is hard | Correct means |
|---|---|---|---|---|---|
| `rootfs_provider.CakeOrdinator` | `mu` (RWMutex) | Create (read lock), GC (write lock), Destroy (no lock), Metrics (no lock) | fetcher, layer creator, cleaner, cake | Destroy runs during everything | what Create found stays until its layer is made; everything returns |
| `rootfs_provider.ContainerLayerCreator` | `mutex` | Create, namespace | cake, namespacer, volume creator | lock order, a panic under the mutex, half-made layers | one translation at a time; a returned layer is translated |
| `layercake/cleaner` | set of retained ids | GC, removeRecursively, Retain, Check, Exceeded | cake | works on snapshots of a changing graph | removes leaves only, no retained layer, no container, and all garbage |
| `layercake.AufsCake` | two directories of files | Create, Get, IsLeaf, GetAllLeaves, Remove | docker cake, `cp` | files and graph are written one after the other | files agree with the graph, or err on the side of keeping |
| `layercake.Docker` and docker's `Graph` | id index, image directories, driver layers | Register, Get, Delete, Map, Heads | graph driver | walks that break off, crash between steps | an image is there entirely or not at all |
| `repository_fetcher.FetchLock` | map of mutexes | Acquire, Release | `Remote` | look-up and lock are two critical sections | one holder per key, nobody waits for ever |
| `repository_fetcher.Remote`, `Retryable`, `Verify`, `quotaedreader` | none of their own, temporary files | Fetch, fetchLayer, FetchID | registry, FetchLock, cake | concurrent fetches, failing registry, retries, quotas | each layer once, verified, parents first; what is added fits what is left of the quota |
| `repository_fetcher.Local`, `CompositeFetcher` | `mu` | Fetch, FetchID | cake | the id depends on a file time, and is worked out before the directory is read | an answer was true of its directory during the call |
| `repository_fetcher.ImageRetainer` | none | Retain | fetcher, retainer | runs in its own goroutine, two ids per image | the ids a Fetch uses are held |
| `rootfs_provider.UidNamespacer`, `UidTranslator`, `chown` | file owners | Namespace, Translate | file system | swallowed errors | every file translated |
| `docker_drivers/aufs` (`QuotaedDriver`, `BackingStore`, `Loop`, `Unmount`) | backing files, loop mounts, aufs mounts | GetQuotaed, Put, Create, Delete, MountFile, Unmount | kernel | partial failure, busy mounts, crash and reboot | files and mounts belong to something a Destroy finds; a container has the disk it asked for |
| `quota_manager`, metrics | none | GetUsage, BaseSize, DiffSize | cake, `df` | reads without a lock | the container's own disk is measured while somebody has it |
| `distclient` | none | Dial, GetManifest, GetBlobReader | registry | choice of http/https | layers bottom first, linked to their parents; plain http only where it is allowed |
| `rootfs_provider.Wire`, `SimpleVolumeCreator` | none | build everything, make volumes | all of the above | starts over what an earlier process left | the graph's index is what is on disk |
| the counterfeiter doubles of all packages | recorded calls, set-up results | the methods, XReturns, XCallCount, Invocations | tests | called concurrently while a test looks | records agree; a call returns what was set up for it |
| `pkg/retrier`, `layercake.GraphPath` | none | Run; HealthCheck | | | |

Calls go `CakeOrdinator` -> fetcher -> `FetchLock`, cake; `CakeOrdinator` ->
layer creator -> `AufsCake` -> `Docker` -> graph and driver; `CakeOrdinator` ->
cleaner -> cake. The graph is the state they all share.

## 2. Modules

| Module | Models | Kind |
|---|---|---|
| `KeyedMutex` | what users of `FetchLock` rely on | abstract specification |
| `FetchLock` | `fetch_lock.go`, statement by statement | component, implements `KeyedMutex` |
| `FetchLockProofs` | | theorems |
| `CakeOrdinator` | `cakeordinator.go`, `layer_creator.go`, `cleaner.go`, `threshold.go`, `image_retainer.go`, the walks of docker's graph | composition |
| `CakeOrdinatorProofs` | | theorems |
| `AufsCake` | `aufs.go` and `namespace()` on disk, with failures and crashes | component |
| `AufsCakeProofs` | | theorems; extends `UidTranslatorProofs` |
| `UidTranslator` | `namespace.go`, `uid_translator.go`, `pkg/chown` | pure; `AufsCake` extends it |
| `UidTranslatorProofs` | | theorems |
| `QuotaedDriver` | `docker_drivers/aufs` and docker's aufs driver, one relation per call | pure, on the host's state |
| `ContainerDisk` | the steps of Create, Destroy and Metrics on a container's disk, Register and Delete of docker's graph, crash, reboot and `Wire` | composition; extends `QuotaedDriver` |
| `ContainerDiskProofs` | | theorems |
| `ImageSource` | `local.go`, `composite.go`, `retryable.go`, `image_retainer.go`, `distclient`, the ids of `docker.go` | composition |
| `ImageSourceProofs` | | theorems |
| `TestDouble` | the generated test doubles | component |
| `TestDoubleProofs` | | theorems |
| `RemoteFetch` | `remote.go`, `retryable.go`, `verify.go`, `quotaed_reader.go`; uses `KeyedMutex` for the lock | component |
| `RemoteFetchProofs` | | theorems |
| `MC...` | constants for TLC | |

### FetchLock
Each goroutine has a program counter over the statements of `Acquire` and
`Release`; `mutex` of the map, the map and the mutexes in it are variables.
`KeyedMutex` has the states idle, waiting and holding per goroutine; the
refinement mapping reads them off the program counter. The type invariant says that
only mutexes that were created are in the map or locked.

### CakeOrdinator
`images` is the id index of the graph; `base` is the parent a container was
registered with (parents of images are constants, namespaced layers have none
in the graph); `parentChild` and `childParent` are the garden-info files.
`readers` and `writer` are the RWMutex: a writer that waits keeps new readers
out. Create is one action per call that touches shared state: `RLock`,
`FetchLayer` per layer, `NamespaceLock`, `NamespaceGet`, `NamespaceRegister`,
`NamespaceCopy`, `NamespaceLink`, `CreateLayer`, `Path`, `RUnlock`, and the ways
each of them fails. Destroy is `DestroyGet` and `DestroyRemove`. GC is `GCLock`,
then three kinds of walk over the graph, of which each `Graph.Get` is a step of
its own (`SumLayer`, `IndexByParent`, `CollectHead`), because Destroy may run
between any two; `Visited` is the early return of `walkAll`. `NextLeaf`,
`CheckRetained`, `GetImage` and `RemoveLayer` are `removeRecursively`; `current`
is its argument, and its recursion goes back to the walks for `IsLeaf`.
A threshold that is disabled is modelled by a negative limit; the walk it would
not make has no effect. Layers that are registered without a tar have size 0,
as in the graph, so the threshold counts image layers only; `GCLeavesNoGarbage` adds
the sizes up again, so that a comparison that is off by one shows. `PersistentImages`
are the images the retainer goroutine is told to keep.

`SerialDestroy` states the discipline of callers that never run Destroy while GC
holds the lock. Nothing in the code enforces it; properties that need it say so.

The graph's own critical sections (per-id mutex, index lock) make Get, Register
and Delete of one id atomic here. That the read lock, the namespacing mutex and
the retainer's mutex are released by `defer` or on every path is what the
failure actions show.

### AufsCake
One operation at a time (the locks of `CakeOrdinator` see to that), but every
write to the graph or to a file is a step, any step may fail (`MakeFails`,
`UnmakeFails`) and the process may die after any (`Crash`). `content` says what
is in the directory of a copy. A parent-child file is the set of its lines; a
child-parent file that was opened and not written is `EmptyFile`. `broken` is a
history variable: the copies on which an operation has failed or died, and the
images whose parent-child file was being rewritten at that moment. Properties
speak of the other ids, so they say that damage stays where it happened.
Whether a copy counts as translated is decided by `UidTranslator`: the walk over
names, file by file, in which each chown goes through, fails, or loses its chmod.

### QuotaedDriver and ContainerDisk
`QuotaedDriver` has one operator per call to the host: `BackingStoreCreate` and
`BackingStoreDelete`, `MountFile` and `LoopUnmountOnce`, `AufsGet` and `AufsPut`
of docker's driver with its count `active`, `UnmountOnce`, `AufsCreate` and
`AufsRemove`. Each is a relation with a parameter that says if the call returns
an error, and leaves on the host what the code leaves then.

`ContainerDisk` puts them into the order of the callers. Create of a container is
`Create`, `CleanDriver`, `CreateInDriver`, `StoreImage` (docker's
`Graph.register`), `ChoosePath`, `CreateBackingStore`, `MountLoop`, `GetMount`,
the undoing in `UndoLoop` and `UndoFile`, and `CreateVolumes`. Destroy is
`PutMount`, `RetryUnmount`, `RetryLoopUnmount`, `DeleteBackingStore`,
`DeleteFromGraph`, `RemoveFromDriver` and `RemoveTrash` (docker's `Graph.Delete`: the
directory is moved away before the driver is asked or, if that fails, removed after).
Each step of `register` and `Delete` may fail. `ChoosePath` stands for the five tries
of `Docker.Path`, of which a failing one changes nothing. `CollectImage` may take the
image from under a container, as the cleaner can when a Destroy cuts its walk short.
Metrics is `Meter`, `BaseSize`,
`StatMount` and `DiffSize`, and takes no lock. `Crash` forgets what is in memory,
`Reboot` the mounts too, and `Wire` restores the index. `dirs` are the
directories of the graph, `index` its ids in memory, and `orphans` is a history variable:
whose driver layer was left without a directory by a process that died between the
driver's step and the graph's. What callers keep to is
stated at the top of the module: a handle is created only when it has no layer,
and one call at a time is made for it. Containers share nothing but the parent
image, so one handle is the instance; two were checked once for safety
(one crash, about two million states, no error).

### ImageSource
`call[a]` is the call a goroutine is making, from `Retryable` down to `Local` or
to `distclient`. Directories have a modification time, tags a manifest; `Edit`,
`Unlink` and `Push` change them at any time. The content of a layer is the set of
states its source was in while it was read, so that a layer under the wrong id
shows. `seen` is the history of what a source held during a call and `held` that
of what Retain has looked at. `Dial` is the choice of transport: https, verified
or not, and http for hosts that are listed as insecure, where no challenge and
so no credentials are used. A URL with a scheme other than docker's is a registry to `CompositeFetcher` and a
directory to `ImageRetainer` (`RetainNext`), as in the code. Hashes are injective. `NanoOf` is what
`ModifiedTime.Nanosecond()` keeps of a time: in `image_source` it tells times
apart, in `local_stale` it does not.

### TestDouble
The doubles are one pattern; a table says how many methods of each kind the struct of
each of the 29 has. A test sets results before the code under test runs, because those fields
have no mutex, and looks at any time. `Invocations()` read-locks
`invocationsMutex` and then each method's mutex, one step per lock; a call locks
its method's mutex and then `invocationsMutex`.

### RemoteFetch
A fetch goes through the manifest, and for each layer through the lock, the
cache, the download into a temporary file, the check of the digest and the
registration, each in a step. `files` counts the temporary files of `Verify` that
the current attempt has left. `remaining` is `remainingQuota`, negative for
none, and `spent` the history of what the attempt has counted against its quota. Blobs
have a declared size, a length and an unpacked length, which the
code uses in different places. `Evict` is the cleaner, which does not run while
a Create holds the read lock; it may remove any layer, also one under another, since
a Destroy can make the cleaner do so. `Lock` is an instance of `KeyedMutex`: the
refinement theorem of `FetchLock` is what allows that.

## 3. Runs

All runs finish in under five minutes with two workers.

| Run | Checks | Instance |
|---|---|---|
| `fetch_lock` | `TypeOK`, `MutualExclusion`, `ReleaseIsSafe`, `AcquireReturns`, `ImplementsKeyedMutex` | 2 goroutines, 2 keys |
| `cake_gc` | `ParentsPresent`, `LeavesHaveNoChildren`, `GCLeavesNoGarbage` | 2 containers, one image of 2 layers and the copies of both, limit 1, fetches, registrations and removals fail; `SerialDestroy` |
| `cake_concurrent` | `TypeOK`, `FetchedLayersStay`, `CopiedImagesStay`, `RetainedSurvive`, `OneNamespacer`, `ContainersSurviveGC` | the same, limit 0, Destroy at any time, namespacing and removals fail, the unmount panics |
| `cake_live` | `AllReturn` | 2 containers, image of 1 layer, fetches fail, nothing is retained |
| `cake_leaf_race` | `LeavesHaveNoChildren` is violated | Destroy at any time |
| `aufs_files` | `TypeOK`, `SiblingsKeepParent`, `LinkedCopiesAreWhole`, `FilesMatchGraph`, `UnbrokenAnswers` | 2 images, 3 copies of which 2 belong to one image, every step fails, crashes |
| `aufs_reuse` | `AnswerIsTranslated` is violated | failing steps |
| `remote_fetch` | `TypeOK`, `NeverTwice`, `ParentsFirst`, `ImageComplete`, `OnlyFailuresLitter`, `QuotaIsKept`, `FetchReturns` | 2 goroutines, 2 images with a common layer and a common blob, of which two layers unpack to more than they weigh and one has no declared size; quotas none, 2 and 4; all faults, 2 attempts |
| `container_disk` | `TypeOK`, `NothingLeaks`, `LiveHasItsDisk`, `StartsEmpty`, `MetersItsDisk`, `Reclaimed` | 1 handle, 5 limits (none, exclusive, total above, at and below the image), every step fails, 2 attempts to unmount, 2 crashes or reboots |
| `image_source` | `AnswersAreFresh`, `RetainedIsFetched`, `FailuresHaveCauses`, `CallsReturn` | 2 fetching goroutines and the retainer, a directory and a link to it, 3 registries, a URL of another scheme, 2 manifests, 3 changes, 2 attempts, network and disk fail |
| `local_stale` | `AnswersAreFresh` is violated | the same, times whole seconds apart |
| `test_doubles` | `CopyIsOfOneInstant`, `AnswersAsSetUp`, `CallsReturn` | all doubles, 2 methods of each, 2 goroutines with 2 calls and 1, a result for the second call |

What the passing runs show, property by property, is the comment above each
property in its module; the mutants of `PROJECT.json` are the plausible bugs
that make each of them fail.

**Bounds.** Three bounds cut behaviours short: `MaxCrashes` (2: one in the middle
of an operation, one in the middle of repairing it), `MaxTime` (3 changes of
directories and tags: a state, a changed one, and one more while a call runs) and
`MaxCalls` of `TestDouble` (2 and 1: a call before, beside and after another).
Otherwise the instances are small in their sets only. Two containers are
enough for two Creates to meet at each lock while a third party (GC, Destroy,
Retain) interferes; two layers are enough for the recursion to climb and for a
layer to lose its parent; two goroutines, one shared layer and one shared blob
meet at every point of a fetch; three copies of which two belong to one image
make removeInfo write lines back. `MaxAttempts` is 3 in the code; 2 attempts
have a first one that is repeated and a last one that is not. Symmetry (over
containers) is used in `cake_gc`, `cake_concurrent` and `cake_leaf_race`, which
check no liveness.

**Deadlock** is checked in every run but `cake_concurrent`, where a panic leaves
the namespacing mutex locked and the system may really stop, and `image_source`,
`local_stale` and `test_doubles`, where the calls of the instance come to an end
(in the last also by the crossing described below); there the liveness
properties say that they end as they should.

**Fairness.** A goroutine that can go on goes on (weak fairness of its steps).
Go's `sync.Mutex` hands a lock to a waiter that has waited too long, and
`sync.RWMutex` lets the readers that a writer kept out go first when the writer
is done; this is strong fairness of the steps that take those locks. Nothing
obliges anyone to call an operation, and failures are never obliged to happen or
to stop happening, with one exception: `Reclaimed` assumes that the caller repeats
Destroy for containers it does not have, and that what is busy or cannot be
deleted is not so at every attempt (strong fairness of the attempts that
succeed). The code retries 200 times, half a second apart, on the same belief.

## 4. What the runs found

* `cake_leaf_race`: Destroy between two look-ups of `walkAll` ends the walk, and
  the cleaner takes an image for a head that has a child. With `SerialDestroy`
  it does not happen, and that is proved.
* `aufs_reuse`: a namespaced layer whose making failed stays in the graph and is
  returned as translated the next time.
* `local_stale`: the id of a local image keeps only the nanoseconds within the
  second of the modification time. Two times a whole number of seconds apart, as
  an unpacked archive has them, give one id, and a Fetch of the changed directory
  answers with the old layer. `image_source` passes because its times differ in
  their nanoseconds.

Seen while modelling, and not runs of their own. In `remote.go` a cached layer
larger than the rest of the quota makes `remainingQuota` negative (75), which
`applyQuota` (180) and the graph take for no quota, so the layers above are read
without limit. The manifest's sizes do not prevent it, because they are packed and
a cached layer counts unpacked. `QuotaIsKept` says how far the quota is kept: a layer
that is added fits into what is left, packed and unpacked, so no added layer brings the
remainder below zero; only a cached one can, and what is read above it is excepted.
And two of the
three quota errors, the one for declared sizes (56) and the one from unpacking,
wrapped (171), are not of the type that `retryable.go:26` recognises, so they are
retried, where `retryable_test.go` 81-91 says "does not retry".

In `local.go` a link that points nowhere passes `resolve`, its id is that of the
empty path without a time (107-111), which all such links share, and what
becomes of it is left to the tar. An empty path is replaced by the default in
Fetch but not in FetchID, and a link to a link is resolved once by FetchID and
twice by Fetch, and a scheme other than docker's is a path to ImageRetainer only, so in
these cases Retain holds an id nobody uses. `remote.go` indexes the last layer of the
manifest (79) and the path without its first character (107) unchecked: a manifest
without layers, or a URL without a repository, panics. The models hand in neither.
`SimpleVolumeCreator` says that an existing directory "is emptied" (13-15) and
leaves it as it is. `deleteCloser` removes the temporary file of `Verify` and does
not close its descriptor (`verify.go` 56-58). In the doubles, `Invocations()` and a
call take two mutexes in opposite orders and can wait for each other; no test
calls `Invocations()`, and `CallsReturn` excepts that crossing only.

Not findings, but worth knowing. A process that dies between the driver's step and the
graph's, in `register` or in `Delete`, leaves a driver layer without a directory: start-up
does not index it, and no Destroy finds it. It stays until its handle is used again.
`NothingLeaks` says that this is the only way to get one, and that it has no backing file and
no mount. `removeInfo` deletes the parent-child file and
writes the other lines back one by one (`aufs.go` 184-192); a crash in between
forgets the other copies of the image, which becomes a leaf. `SiblingsKeepParent`
excepts just these images. And if the unmount of a translated layer panics
and the panic is recovered, `ContainerLayerCreator.mutex` stays locked and every
later namespaced Create hangs.

## 5. Proofs

`tlapm` checks the modules whose names end in `Proofs`. Their theorems hold for all
values of the constants that satisfy the `ASSUME`s of the modules they extend: ids
of different kinds do not collide, manifests list layers above their parents, a
file that is not there is told from one that is empty, and the like. Of the
specifications they use Init and Next only, so they hold with and without
fairness.

**FetchLock.** The inductive invariant says, on top of the types, that a mutex
of the map is locked just by the goroutine whose program counter is between its
lock and its unlock, and that whoever has read a mutex from the map has read the
one that is still there. `MutualExclusionHolds`, `ReleaseIsSafeHolds` and
`MutexIsForeverHolds` follow, and so does `Refinement`: every step is a step of
`KeyedMutex` or leaves its variables alone.

**CakeOrdinator.** The invariants are layered, each proved with the help of the
ones before it:

* `CallInv`: the manifest and the position of a running Create are valid.
* `LockInv`: who is in the middle of a Create holds the read lock, who is in the
  middle of namespacing owns the mutex, and GC runs only without readers. It
  gives `OneNamespacerHolds`.
* `FetchInv`: adds that a Create's layers are in the graph; only GC removes image
  layers, and `LockInv` keeps it out. It gives `FetchedLayersStayHolds`.
* `KeptInv`: a layer that was retained when GC began is not between
  `CheckRetained` and `RemoveLayer`. It gives `RetainedSurviveHolds`.
* `CopyInv`: a copy is a line of parent-child before child-parent names its image
  (`FilesInv`), and nothing that GC has listed as a leaf or is about to remove is
  the image of a copy, or a container (`SourceInv`). GC looks at the files when it
  lists the leaves and acts on it later; the lock keeps new copies out in between,
  and a Destroy only removes. It gives `CopiedImagesStayHolds` and
  `ContainersSurviveGCHolds`, with Destroy at any time.
* `WalkInv` and `GraphInv`, under `SerialDestroy`: nobody but GC changes the graph
  while it walks, so the table of parents is complete when the walk ends, and a
  head has no child; removing such a layer keeps every chain whole. They give
  `LeavesHaveNoChildrenHolds` and `ParentsPresentHolds`.
* `CollectInv`, under `SerialDestroy` and without failures of namespacing: what the
  walks have visited they have taken in (`CoverInv`), and once GC has the leaves,
  the only garbage is in its list or is the parent of what it removed last
  (`GarbageInv`), since removing one layer makes at most one other garbage. It gives
  `GCLeavesNoGarbageHolds`. Both hypotheses are needed: a Destroy can cut a walk
  short, and a namespacing that fails between the two files leaves a line in
  parent-child that keeps its image from being a leaf for ever (`RecordInv` says
  that there is no such line). These are the hypotheses of the run `CakeGC`.

**RemoteFetch.** Cake.Get says that a layer is missing and the layer is registered
many steps later, so `NeverTwice` is not inductive. `RemoteInv` ties the program
counter to the lock of the blob the goroutine is at (`HoldInv`), says that a blob has
one holder (`OneHolder`) and that what Get said is still so (`StillMissing`). It has
the loop invariant of `Remote.Fetch`, that the layers before the current one are in
the graph (`LoopInv`), for `ParentsFirst` and `ImageComplete`; that what is
registered was verified and nothing in the graph is corrupt; the open files of an
attempt, for `OnlyFailuresLitter`; and, under a quota, that `remaining` is the quota less
what was `spent` and a blob that was read fits it (`QuotaInv`), for the action
property `QuotaIsKept`. `LocksAreGivenBack` is `HoldInv` by itself: a goroutine
has a lock just while it is in `fetchLayer`, on every way through it. A step of one
goroutine keeps the invariant of the others because of the lock alone; that is the
lemma `OthersKeep`.

**ContainerDisk.** A crash can come after any statement, so each must leave a state
that the next Destroy can clean up. `DiskInv` says for every statement of a creation
and of a destruction what of the container is on the host: the directory in the
graph (`PlaceInv`, `LeakInv`), the users of the mount, which docker counts in memory
(`UseInv`), the driver's layer (`LayerInv`) and who may have one without a directory (`OrphanInv`), file, loop mount and mount in the order
they are made (`MadeInv`) and taken down (`TakenInv`), and that a container the caller
has is complete (`LiveInv`). A crash forgets the program counter: that it keeps
`DiskInv` is the point of the proof. The four invariants of the run follow, and the action
property `MetersItsDisk`: of a df that runs once a Destroy of its container has begun it
says nothing, because that may measure the host's filesystem or none.

**AufsCake.** Graph, child-parent and parent-child agree between operations and
disagree in the middle of one. `AufsInv` says by how much at each statement: for the
copy an operation works on (`CopyInv`, `MatchInv`), for the file of its image,
counting the lines that are still to be rewritten (`LineInv`, `FileInv`), and for the
content of the copies (`ContentInv`). `broken` are the ids on which an operation broke
off; on all others everything agrees, which is what makes one failure's damage local.
All five invariants of the two runs follow.

**UidTranslator.** `CleanWalkTranslates`: if every chown goes through, every inode of
the tree belongs to the ids its owner is mapped to, once, with its mode, for any
tree and however many names an inode has, if the mapping is stable on the inodes
with more than one name (`StableAssumption`; translating them twice is otherwise
wrong in the code as well). The walk is a recursive function; the proof gives a
closed form of what is translated after n names and shows it is the function by the
least n at which they would differ. `UnbrokenAnswersAreTranslated` rests on it.

**TestDouble.** `DoubleInv`: a call that has locked its method knows its place among
the arguments (`PlaceInv`), the invocations recorded are exactly the calls entered so
far (`RecordInv`), and while they are copied none is entered (`LookInv`). It gives
`CopiesAreOfOneInstant` and the action property `CallsAnswerAsSetUp`.

**ImageSource.** A Fetch works out an id, looks for it in the graph and reads the
source, all in different steps, while the source changes. Four invariants, each
proved with the help of the ones before it:

* `TypeInv`: types, as far as the proofs need them.
* `CauseInv`: a call has seen what its source holds now (`SeenInv`), and unless the
  source could not be had, every attempt before the present one was lost
  (`LostInv`). With what is known once the source has been reached (`ReachInv`: that
  a ping over http was allowed, and why it was made), it gives
  `FailuresAreJustified`, without hypotheses.
* `LinkInv`: Local and ImageRetainer come to the same directory on their two ways
  (`PathInv`), and a call that saw one state of its source has the id of that state
  (`IdInv`); so what Retain has looked at is held (`HeldInv`). It gives
  `RetainedImagesAreFetched`.
* `ContentInv`: a layer with the id of a directory's present time holds its present
  state (`DatedInv`), since ids of past times never come back, and a call past its
  stat has seen whatever is, or is being, registered under its id (`FreshInv`). That
  a tar still being made is included is the point: it picks up changes, but only
  those that every call with the same id sees too. It gives `FetchedImagesAreFresh`.

Two of these theorems have hypotheses, and each is needed. `LinksEnd`: links lead to
directories; a link to a link is resolved twice by Local and once by ImageRetainer,
so their ids differ, and its tar holds a link only. `NamedImages`, for
`RetainedImagesAreFetched` only: every persistent image is a docker image or a path
without a scheme. One without a name is the default rootfs to Local and nothing to
ImageRetainer, and one with another scheme a registry to Fetch and a directory to
ImageRetainer. `TimesDiffer`, for
`FetchedImagesAreFresh` only: nanoseconds that are not zero tell times apart; the run
`local_stale` shows what happens otherwise. The instance of `image_source` satisfies
`LinksEnd` and `TimesDiffer`; it also retains an image of another scheme, of which
`RetainedIsFetched` says nothing.

The inductive invariants were checked with TLC on the instances of section 3 before
they were proved.

**Only model-checked**: liveness, because the prover does neither fairness nor
ENABLED (`AcquireReturns`, `AllReturn`, `FetchReturns`, `Reclaimed`, both `CallsReturn`,
and the fairness part of the refinement `ImplementsKeyedMutex`). Every invariant
and every other action property that a passing run checks is proved.

## 6. Plan

The modelling is complete as far as section 7 allows, and so are the proofs of what
the runs check for safety. Worth adding:

1. the safety parts behind the liveness properties, as theorems: who waits for a lock
   waits for somebody who will release it, and in which order locks are taken
   (`CakeOrdinator`: the RWMutex before `ContainerLayerCreator.mutex`); `LocksAreGivenBack`
   is that of `RemoteFetch`;
2. for `AufsCake`, that a namespace() which is repeated after its copy was broken and
   removed is translated;
3. for `ContainerDisk`, that a Destroy which goes through leaves nothing of its
   container, step by step, which is the safety half of `Reclaimed`.

## 7. Not modelled

HTTP, tokens, tar, `mount`, `mkfs`, `df` and `cp` are external; only whether they
succeed, and what they leave when they do not, matters. So are guardian, which
calls `CakeOrdinator`, idmapper and the retrier of go-resiliency, whose code is not
in the repository: they are modelled from how it is used. Logging, environment
variables and URL defaults are data no property tells apart, and so are the
numbers that `df` prints and `AUFSBaseSizer` adds up. `pkg/retrier` is used by
nothing but its own tests. `layercake.GraphPath.HealthCheck` creates and removes a
file. The builds for systems other than Linux are stubs. Edits below the top of a
local directory, which leave its modification time alone, are not in
`ImageSource`: the code does not see them either.
