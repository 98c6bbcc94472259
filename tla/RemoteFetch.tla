---------------------------- MODULE RemoteFetch ----------------------------
(***************************************************************************)
(* repository_fetcher.Retryable around repository_fetcher.Remote: fetching *)
(* an image from a registry, layer by layer, with up to MaxAttempts        *)
(* attempts.  Goroutines that fetch at the same time share the graph and   *)
(* the FetchLock, which is used here by its abstract specification,        *)
(* KeyedMutex (module FetchLock implements it).  A registry may fail, and  *)
(* may deliver data that does not match its digest; the sizes it declares  *)
(* are not checked.                                                        *)
(***************************************************************************)
EXTENDS Integers, Sequences, Functions

CONSTANTS
    Fetchers,     \* the goroutines
    Layers,       \* StrongIDs of layers
    Blobs,        \* digests of their contents
    BlobOf,       \* layer.BlobSum
    ParentOf,     \* layer.ParentStrongID, or NoLayer
    NoLayer,
    Images,       \* manifests: sequences of layers, bottom first
    Quotas,       \* the disk quotas Fetch is called with; 0 is none
    Declared,     \* layer.Image.Size, from the manifest
    Bytes,        \* the length of the blob
    Inflated,     \* the length of the tar in it
    MaxAttempts,  \* MAX_ATTEMPTS
    Faults        \* subset of {"network", "digest", "disk"}

FaultKinds == {"network", "digest", "disk"}

ASSUME FetchAssumption ==
    /\ NoLayer \notin Layers
    /\ Blobs # {}
    /\ BlobOf \in [Layers -> Blobs]
    /\ ParentOf \in [Layers -> Layers \cup {NoLayer}]
    /\ {Declared, Bytes, Inflated} \subseteq [Layers -> Nat]
    /\ Quotas \subseteq Int
    /\ MaxAttempts \in Nat \ {0}
    /\ Faults \subseteq FaultKinds

\* toLayers links every layer of a manifest to the one before it.
ASSUME ImageAssumption ==
    /\ Images \subseteq Seq(Layers)
    /\ \A m \in Images :
        /\ Len(m) > 0
        /\ \A i \in 1..Len(m) : ParentOf[m[i]] = IF i = 1 THEN NoLayer ELSE m[i - 1]

VARIABLES
    graph,      \* the layers in the graph
    corrupt,    \* history: the layers registered with data of another digest
    status,     \* FetchLock: what each goroutine has to do with it
    wants,      \* FetchLock: the blob it asked for last
    pc,         \* where each Fetch is
    image,      \* the image it is for
    quota,      \* its diskQuota
    attempt,    \* the loop variable of Retryable.Fetch
    why,        \* the error this attempt has failed with
    next,       \* the layer of the manifest Remote.Fetch is at
    remaining,  \* remainingQuota; negative is no quota
    intact,     \* the blob in the temporary file matches its digest
    files,      \* the temporary files of this attempt that are on disk
    spent       \* history: what this attempt has spent of its quota so far

lockVars == <<status, wants>>
callVars == <<image, quota, attempt>>
layerVars == <<next, remaining, intact, files, spent>>
vars == <<graph, corrupt, status, wants, pc, image, quota, attempt, why,
          next, remaining, intact, files, spent>>

Lock == INSTANCE KeyedMutex WITH Threads <- Fetchers, Keys <- Blobs

\* The errors that are about quotas: from the check of the manifest, from the
\* reader of the blob, and from the reader of the unpacked blob.  Only the
\* second is a QuotaExceededErr when it reaches Retryable.
QuotaErrors == {"manifestQuota", "blobQuota", "tarQuota"}
Errors == QuotaErrors \cup {"network", "digest", "disk"}

Steps == {"idle", "manifest", "lock", "wait", "get", "download", "verify",
          "register", "failed", "ok", "error"}

TypeOK ==
    /\ graph \subseteq Layers
    /\ corrupt \subseteq graph
    /\ Lock!TypeOK
    /\ pc \in [Fetchers -> Steps]
    /\ image \in [Fetchers -> Images \cup {<<>>}]
    /\ quota \in [Fetchers -> Quotas \cup {0}]
    /\ attempt \in [Fetchers -> 1..MaxAttempts]
    /\ why \in [Fetchers -> Errors \cup {"none"}]
    /\ next \in [Fetchers -> Nat]
    /\ remaining \in [Fetchers -> Int]
    /\ intact \in [Fetchers -> BOOLEAN]
    /\ files \in [Fetchers -> Nat]
    /\ spent \in [Fetchers -> Nat]

Init ==
    /\ graph = {}
    /\ corrupt = {}
    /\ status = [f \in Fetchers |-> "idle"]
    /\ wants = [f \in Fetchers |-> CHOOSE b \in Blobs : TRUE]
    /\ pc = [f \in Fetchers |-> "idle"]
    /\ image = [f \in Fetchers |-> <<>>]
    /\ quota = [f \in Fetchers |-> 0]
    /\ attempt = [f \in Fetchers |-> 1]
    /\ why = [f \in Fetchers |-> "none"]
    /\ next = [f \in Fetchers |-> 1]
    /\ remaining = [f \in Fetchers |-> 0]
    /\ intact = [f \in Fetchers |-> FALSE]
    /\ files = [f \in Fetchers |-> 0]
    /\ spent = [f \in Fetchers |-> 0]

\* Mutant: the layers are fetched in the manifest's order, top first.
LayerFromTop(f) == image[f][Len(image[f]) + 1 - next[f]]

Layer(f) == image[f][next[f]]

TotalImageSize(m) == SumFunction([i \in 1..Len(m) |-> Declared[m[i]]])

\* A QuotaedReader, or the reader itself when the quota is negative, reads n
\* bytes to the end.
Fits(n, left) == left < 0 \/ n <= left

Goto(f, step) == pc' = [pc EXCEPT ![f] = step]

----------------------------------------------------------------------------
(***************************************************************************)
(* A Create calls Retryable.Fetch, under the read lock of CakeOrdinator.   *)
(***************************************************************************)
FetchCall(f, m, q) ==
    /\ pc[f] = "idle"
    /\ Goto(f, "manifest")
    /\ image' = [image EXCEPT ![f] = m]
    /\ quota' = [quota EXCEPT ![f] = q]
    /\ attempt' = [attempt EXCEPT ![f] = 1]
    /\ why' = [why EXCEPT ![f] = "none"]
    /\ UNCHANGED <<graph, corrupt, lockVars, layerVars>>

GetManifest(f) ==
    /\ pc[f] = "manifest"
    /\ IF quota[f] > 0 /\ TotalImageSize(image[f]) > quota[f]
         THEN /\ Goto(f, "failed")
              /\ why' = [why EXCEPT ![f] = "manifestQuota"]
              /\ UNCHANGED <<next, remaining>>
         ELSE /\ Goto(f, "lock")
              /\ next' = [next EXCEPT ![f] = 1]
              /\ remaining' = [remaining EXCEPT ![f] =
                                 IF quota[f] <= 0 THEN -1 ELSE quota[f]]
              /\ UNCHANGED why
    /\ spent' = [spent EXCEPT ![f] = 0]
    /\ UNCHANGED <<graph, corrupt, lockVars, callVars, intact, files>>

ManifestFails(f) ==
    /\ "network" \in Faults
    /\ pc[f] = "manifest"
    /\ Goto(f, "failed")
    /\ why' = [why EXCEPT ![f] = "network"]
    /\ UNCHANGED <<graph, corrupt, lockVars, callVars, layerVars>>

----------------------------------------------------------------------------
(***************************************************************************)
(* Remote.fetchLayer: everything after the Acquire ends with the deferred  *)
(* Release.                                                                *)
(***************************************************************************)
Acquire(f) ==
    /\ pc[f] = "lock"
    /\ Lock!Request(f, BlobOf[Layer(f)])
    /\ Goto(f, "wait")
    /\ UNCHANGED <<graph, corrupt, callVars, why, layerVars>>

\* Mutant: the lock is taken without waiting for it.
AcquiredAtOnce(f) ==
    /\ pc[f] = "wait"
    /\ status' = [status EXCEPT ![f] = "holding"]
    /\ Goto(f, "get")
    /\ UNCHANGED <<graph, corrupt, wants, callVars, why, layerVars>>

Acquired(f) ==
    /\ pc[f] = "wait"
    /\ Lock!Grant(f)
    /\ Goto(f, "get")
    /\ UNCHANGED <<graph, corrupt, callVars, why, layerVars>>

\* Mutant: what a layer takes up is not subtracted.
LayerFetchedUncounted(f, size) ==
    /\ Lock!Free(f)
    /\ intact' = [intact EXCEPT ![f] = FALSE]
    /\ IF next[f] < Len(image[f])
         THEN Goto(f, "lock") /\ next' = [next EXCEPT ![f] = @ + 1]
         ELSE Goto(f, "ok") /\ UNCHANGED next
    /\ UNCHANGED <<callVars, remaining>>

\* fetchLayer returns a size, and the loop of Fetch goes on.
LayerFetched(f, size) ==
    /\ Lock!Free(f)
    /\ remaining' = [remaining EXCEPT ![f] = @ - size]
    /\ intact' = [intact EXCEPT ![f] = FALSE]
    /\ IF next[f] < Len(image[f])
         THEN Goto(f, "lock") /\ next' = [next EXCEPT ![f] = @ + 1]
         ELSE Goto(f, "ok") /\ UNCHANGED next
    /\ UNCHANGED callVars

\* fetchLayer returns an error, and so does Fetch, whose variables are gone.
LayerFails(f, err) ==
    /\ Lock!Free(f)
    /\ Goto(f, "failed")
    /\ why' = [why EXCEPT ![f] = err]
    /\ intact' = [intact EXCEPT ![f] = FALSE]
    /\ next' = [next EXCEPT ![f] = 1]
    /\ remaining' = [remaining EXCEPT ![f] = 0]
    /\ spent' = [spent EXCEPT ![f] = 0]
    /\ UNCHANGED <<graph, corrupt, callVars>>

\* The deferred Close of the verified blob deletes its file.
\* Mutant: nobody closes it.
CloseNothing(f) == UNCHANGED files

Close(f) == files' = [files EXCEPT ![f] = @ - 1]

Spend(f, n) == spent' = [spent EXCEPT ![f] = @ + n]

\* A cached layer counts with the size it was unpacked to.
GetLayer(f) ==
    /\ pc[f] = "get"
    /\ IF Layer(f) \in graph
         THEN /\ LayerFetched(f, Inflated[Layer(f)])
              /\ Spend(f, Inflated[Layer(f)])
              /\ UNCHANGED files
         ELSE Goto(f, "download") /\ UNCHANGED <<lockVars, callVars, layerVars>>
    /\ UNCHANGED <<graph, corrupt, why>>

\* GetBlobReader, and the copy into Verify's temporary file, which stays there
\* when the copy breaks off.
TempFile(f) == files' = [files EXCEPT ![f] = @ + 1]

Download(f) ==
    /\ pc[f] = "download"
    /\ TempFile(f)
    /\ Fits(Bytes[Layer(f)], remaining[f])
    /\ \E good \in IF "digest" \in Faults THEN BOOLEAN ELSE {TRUE} :
         intact' = [intact EXCEPT ![f] = good]
    /\ Goto(f, "verify")
    /\ UNCHANGED <<graph, corrupt, lockVars, callVars, why, next, remaining, spent>>

DownloadOverQuota(f) ==
    /\ pc[f] = "download"
    /\ ~Fits(Bytes[Layer(f)], remaining[f])
    /\ TempFile(f)
    /\ LayerFails(f, "blobQuota")

DownloadFails(f) ==
    /\ "network" \in Faults
    /\ pc[f] = "download"
    /\ TempFile(f) \/ UNCHANGED files
    /\ LayerFails(f, "network")

\* Mutant: the digest is not looked at.
VerifyNothing(f) ==
    /\ pc[f] = "verify"
    /\ Goto(f, "register")
    /\ UNCHANGED <<graph, corrupt, lockVars, callVars, why, layerVars>>

Verify(f) ==
    /\ pc[f] = "verify"
    /\ \/ /\ intact[f]
          /\ Goto(f, "register")
          /\ UNCHANGED <<graph, corrupt, lockVars, callVars, why, layerVars>>
       \/ ~intact[f] /\ LayerFails(f, "digest") /\ UNCHANGED files

\* Cake.RegisterWithQuota; a fresh layer counts with the size of its blob.
Register(f) ==
    /\ pc[f] = "register"
    /\ Fits(Inflated[Layer(f)], remaining[f])
    /\ graph' = graph \cup {Layer(f)}
    /\ corrupt' = IF intact[f] THEN corrupt ELSE corrupt \cup {Layer(f)}
    /\ LayerFetched(f, Bytes[Layer(f)])
    /\ Spend(f, Bytes[Layer(f)])
    /\ Close(f)
    /\ UNCHANGED why

RegisterOverQuota(f) ==
    /\ pc[f] = "register"
    /\ ~Fits(Inflated[Layer(f)], remaining[f])
    /\ LayerFails(f, "tarQuota")
    /\ Close(f)

RegisterFails(f) ==
    /\ "disk" \in Faults
    /\ pc[f] = "register"
    /\ LayerFails(f, "disk")
    /\ Close(f)

----------------------------------------------------------------------------
(***************************************************************************)
(* Retryable.Fetch: a QuotaExceededErr, or the last attempt, is the end.   *)
(***************************************************************************)
\* Mutant: the attempts are not counted.
RetryForever(f) ==
    /\ pc[f] = "failed"
    /\ Goto(f, IF why[f] = "blobQuota" THEN "error" ELSE "manifest")
    /\ files' = [files EXCEPT ![f] = 0]
    /\ UNCHANGED <<graph, corrupt, lockVars, callVars, why, next, remaining, intact,
                   spent>>

\* Mutant: one attempt more than MAX_ATTEMPTS.
RetryOnceMore(f) ==
    /\ pc[f] = "failed"
    /\ IF why[f] = "blobQuota" \/ attempt[f] > MaxAttempts
         THEN Goto(f, "error") /\ UNCHANGED <<attempt, why>>
         ELSE /\ Goto(f, "manifest")
              /\ attempt' = [attempt EXCEPT ![f] = @ + 1]
              /\ why' = [why EXCEPT ![f] = "none"]
    /\ files' = [files EXCEPT ![f] = 0]
    /\ UNCHANGED <<graph, corrupt, lockVars, image, quota, next, remaining,
                   intact, spent>>

Retry(f) ==
    /\ pc[f] = "failed"
    /\ IF why[f] = "blobQuota" \/ attempt[f] = MaxAttempts
         THEN Goto(f, "error") /\ UNCHANGED <<attempt, why>>
         ELSE /\ Goto(f, "manifest")
              /\ attempt' = [attempt EXCEPT ![f] = @ + 1]
              /\ why' = [why EXCEPT ![f] = "none"]
    /\ files' = [files EXCEPT ![f] = 0]
    /\ UNCHANGED <<graph, corrupt, lockVars, image, quota, next, remaining,
                   intact, spent>>

\* The Create that called Fetch gives up its read lock.
Leave(f) ==
    /\ pc[f] \in {"ok", "error"}
    /\ Goto(f, "idle")
    /\ image' = [image EXCEPT ![f] = <<>>]
    /\ quota' = [quota EXCEPT ![f] = 0]
    /\ attempt' = [attempt EXCEPT ![f] = 1]
    /\ why' = [why EXCEPT ![f] = "none"]
    /\ next' = [next EXCEPT ![f] = 1]
    /\ remaining' = [remaining EXCEPT ![f] = 0]
    /\ spent' = [spent EXCEPT ![f] = 0]
    /\ UNCHANGED <<graph, corrupt, lockVars, intact, files>>

\* The cleaner removes an image.  It runs under the write lock (module
\* CakeOrdinator), so no Create is under way; but a Destroy can cut its walk
\* short, and what it takes for a leaf may be the parent of a layer that stays
\* (run cake_leaf_race).
Evict(x) ==
    /\ \A f \in Fetchers : pc[f] = "idle"
    /\ x \in graph
    /\ graph' = graph \ {x}
    /\ corrupt' = corrupt \ {x}
    /\ UNCHANGED <<lockVars, pc, callVars, why, layerVars>>

FetchStep(f) ==
    \/ GetManifest(f)
    \/ ManifestFails(f)
    \/ Acquire(f)
    \/ Acquired(f)
    \/ GetLayer(f)
    \/ Download(f)
    \/ DownloadOverQuota(f)
    \/ DownloadFails(f)
    \/ Verify(f)
    \/ Register(f)
    \/ RegisterOverQuota(f)
    \/ RegisterFails(f)
    \/ Retry(f)

Next ==
    \/ \E f \in Fetchers :
        \/ \E m \in Images, q \in Quotas : FetchCall(f, m, q)
        \/ FetchStep(f)
        \/ Leave(f)
    \/ \E x \in Layers : Evict(x)

SafetySpec == Init /\ [][Next]_vars

(***************************************************************************)
(* A goroutine that can take a step takes it, and the lock of a blob is    *)
(* granted to a waiter that finds it free again and again (KeyedMutex).    *)
(***************************************************************************)
Fairness == \A f \in Fetchers :
    /\ WF_vars(FetchStep(f))
    /\ SF_vars(Acquired(f))

Spec == SafetySpec /\ Fairness

----------------------------------------------------------------------------
(***************************************************************************)
(* Properties.                                                             *)
(***************************************************************************)
Fetching(f) == pc[f] \in {"download", "verify", "register"}

(***************************************************************************)
(* A layer is downloaded by one goroutine at a time and never while it is  *)
(* in the graph: what Cake.Get said is still so when the layer is          *)
(* registered, because the lock is held from one to the other              *)
(* (remote.go 138-168), and layers of one blob share a lock.               *)
(***************************************************************************)
NeverTwice == \A f \in Fetchers : Fetching(f) =>
    /\ Layer(f) \notin graph
    /\ \A g \in Fetchers \ {f} : Fetching(g) => BlobOf[Layer(g)] # BlobOf[Layer(f)]

(***************************************************************************)
(* A layer is registered when its parent is in the graph and not before,   *)
(* although several goroutines add layers of the same chain, attempts      *)
(* break off and start again, and the cleaner removes layers, and parents  *)
(* of others among them, in between (remote.go 65-76).                     *)
(***************************************************************************)
ParentsFirst ==
    [][\A x \in graph' \ graph : ParentOf[x] \in graph \cup {NoLayer}]_vars

(***************************************************************************)
(* When Fetch returns an image, every layer of it is in the graph, and     *)
(* with data that matches its digest, whoever fetched it and in whichever  *)
(* attempt (remote.go 65-84, verify.go 24-50).                             *)
(***************************************************************************)
ImageComplete == \A f \in Fetchers : pc[f] = "ok" =>
    \A i \in 1..Len(image[f]) : image[f][i] \in graph \ corrupt

(***************************************************************************)
(* Temporary files are left by downloads that failed, one per attempt at   *)
(* most; the file of a verified blob is gone when fetchLayer returns,      *)
(* registered or not (verify.go 30-58, remote.go 161).                     *)
(***************************************************************************)
OnlyFailuresLitter == \A f \in Fetchers :
    files[f] <= IF pc[f] \in {"verify", "register", "failed", "error"} THEN 1 ELSE 0

(***************************************************************************)
(* A Fetch under a quota adds a layer only if the layer fits, packed and   *)
(* unpacked, into what this attempt has left of its quota.  The exception  *)
(* is an attempt that has spent more than its quota already, where a       *)
(* negative remainder means no quota at all; no layer that is added brings *)
(* it there, but a layer found in the graph may, as it counts unpacked     *)
(* (remote.go 59-76, quotaed_reader.go 27-40).                             *)
(***************************************************************************)
QuotaIsKept == [][\A f \in Fetchers :
    (quota[f] > 0 /\ pc[f] = "register" /\ Layer(f) \in graph' \ graph) =>
        \/ spent[f] > quota[f]
        \/ /\ spent[f] + Bytes[Layer(f)] <= quota[f]
           /\ spent[f] + Inflated[Layer(f)] <= quota[f]]_vars

(***************************************************************************)
(* Every Fetch returns, whatever fails and whoever holds the locks: an     *)
(* attempt that fails gives its lock back, and attempts run out            *)
(* (remote.go 138-139, retryable.go 20-34).                                *)
(***************************************************************************)
FetchReturns == \A f \in Fetchers : pc[f] = "manifest" ~> pc[f] \in {"ok", "error"}
=============================================================================
