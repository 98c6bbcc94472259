------------------------- MODULE RemoteFetchProofs -------------------------
(***************************************************************************)
(* Proofs about RemoteFetch, for any number of goroutines, layers, images  *)
(* and attempts.                                                           *)
(*                                                                         *)
(* That a layer is never registered twice rests on what the goroutine      *)
(* that looked in the graph still knows when it registers: RemoteInv ties  *)
(* the lock of the layer's blob to the program counter, so that no other   *)
(* goroutine can have registered the layer in between.  That a parent is   *)
(* there before its child, and every layer when Fetch returns, rests on    *)
(* the loop invariant: the layers below the current one are in the graph,  *)
(* and stay there because the cleaner waits until nobody fetches.          *)
(* Under a quota the same loop keeps what remains equal to what has not    *)
(* been spent.                                                             *)
(***************************************************************************)
EXTENDS RemoteFetch, TLAPS

\* Between the Acquire and the deferred Release of fetchLayer.
Holding(f) == pc[f] \in {"get", "download", "verify", "register"}

\* In the loop of Remote.Fetch.
InLoop(f) == pc[f] \in {"lock", "wait"} \/ Holding(f)

\* A call is for one of the images.
CallInv(f) == pc[f] # "idle" => image[f] \in Images

\* The layers before the current one, all of them in the end, are in the graph.
LoopInv(f) ==
    /\ InLoop(f) => /\ next[f] \in 1..Len(image[f])
                    /\ \A i \in 1..(next[f] - 1) : image[f][i] \in graph
    /\ pc[f] = "ok" => \A i \in 1..Len(image[f]) : image[f][i] \in graph

\* A goroutine waits for, and holds, the lock of the layer it is at.
HoldInv(f) ==
    /\ status[f] = "waiting" <=> pc[f] = "wait"
    /\ status[f] = "holding" <=> Holding(f)
    /\ (pc[f] = "wait" \/ Holding(f)) => wants[f] = BlobOf[Layer(f)]

\* What Cake.Get said of the layer is still so.
StillMissing(f) == Fetching(f) => Layer(f) \notin graph

\* A blob that is registered was verified.
IntactInv(f) == pc[f] = "register" => intact[f]

\* The files of the attempt's downloads that are not closed yet.
FilesInv(f) ==
    /\ pc[f] \in {"verify", "register"} => files[f] = 1
    /\ pc[f] = "failed" => files[f] <= 1
    /\ pc[f] \notin {"verify", "register", "failed"} => files[f] = 0

\* Under a quota, what remains is what has not been spent, and a blob that was
\* read is not longer than that, unless it is negative.
QuotaInv(f) ==
    /\ (InLoop(f) /\ quota[f] > 0) => remaining[f] = quota[f] - spent[f]
    /\ pc[f] \in {"verify", "register"} => Fits(Bytes[Layer(f)], remaining[f])

OwnInv(f) ==
    /\ CallInv(f)
    /\ LoopInv(f)
    /\ HoldInv(f)
    /\ StillMissing(f)
    /\ IntactInv(f)
    /\ FilesInv(f)
    /\ QuotaInv(f)

\* No blob has two holders.
OneHolder == \A f, g \in Fetchers :
    (status[f] = "holding" /\ status[g] = "holding" /\ wants[f] = wants[g]) => f = g

RemoteInv ==
    /\ TypeOK
    /\ corrupt = {}
    /\ OneHolder
    /\ \A f \in Fetchers : OwnInv(f)

----------------------------------------------------------------------------
(***************************************************************************)
(* What a step of f does to the others: their variables stay as they are,  *)
(* at most the layer that f holds the lock of is added to the graph, and a *)
(* lock that f gets is held by nobody else.                                *)
(***************************************************************************)
OnlyOf(f) ==
    /\ status' = [status EXCEPT ![f] = status'[f]]
    /\ wants' = [wants EXCEPT ![f] = wants'[f]]
    /\ pc' = [pc EXCEPT ![f] = pc'[f]]
    /\ image' = [image EXCEPT ![f] = image'[f]]
    /\ quota' = [quota EXCEPT ![f] = quota'[f]]
    /\ attempt' = [attempt EXCEPT ![f] = attempt'[f]]
    /\ why' = [why EXCEPT ![f] = why'[f]]
    /\ next' = [next EXCEPT ![f] = next'[f]]
    /\ remaining' = [remaining EXCEPT ![f] = remaining'[f]]
    /\ intact' = [intact EXCEPT ![f] = intact'[f]]
    /\ files' = [files EXCEPT ![f] = files'[f]]
    /\ spent' = [spent EXCEPT ![f] = spent'[f]]

Grows(f) ==
    \/ graph' = graph
    \/ /\ graph' = graph \cup {Layer(f)}
       /\ Holding(f)
       /\ Layer(f) \in Layers

Excludes(f) == \A g \in Fetchers \ {f} :
    (status'[f] = "holding" /\ status[g] = "holding") => wants'[f] # wants[g]

StepOf(f) == OnlyOf(f) /\ Grows(f) /\ Excludes(f) /\ corrupt' = corrupt

\* TypeOK for the variables of f.
OwnSteps(f) ==
    /\ status[f] \in {"idle", "waiting", "holding"}
    /\ wants[f] \in Blobs
    /\ pc[f] \in Steps
    /\ image[f] \in Images \cup {<<>>}
    /\ why[f] \in Errors \cup {"none"}
    /\ intact[f] \in BOOLEAN

OwnNumbers(f) ==
    /\ quota[f] \in Quotas \cup {0}
    /\ attempt[f] \in 1..MaxAttempts
    /\ next[f] \in Nat
    /\ remaining[f] \in Int
    /\ files[f] \in Nat
    /\ spent[f] \in Nat

OwnType(f) == OwnSteps(f) /\ OwnNumbers(f)

\* What is known of the layer a goroutine in the loop is at.
LayerOK(f) ==
    /\ image[f] \in Images
    /\ image[f] \in Seq(Layers)
    /\ Len(image[f]) \in Nat
    /\ next[f] \in 1..Len(image[f])
    /\ Layer(f) \in Layers
    /\ BlobOf[Layer(f)] \in Blobs
    /\ Inflated[Layer(f)] \in Nat
    /\ Bytes[Layer(f)] \in Nat

\* The layer a goroutine in the loop is at is a layer of its image.
LEMMA LayerType ==
    ASSUME NEW f \in Fetchers, CallInv(f), LoopInv(f), InLoop(f)
    PROVE  LayerOK(f)
<1> USE DEF LayerOK
<1>1. image[f] \in Images /\ next[f] \in 1..Len(image[f])
  BY DEF CallInv, LoopInv, InLoop, Holding
<1>2. image[f] \in Seq(Layers)
  BY <1>1, ImageAssumption
<1>3. Layer(f) \in Layers
  BY <1>1, <1>2 DEF Layer
<1> QED
  BY <1>1, <1>2, <1>3, FetchAssumption

\* The parent of the layer it is at, if any, is in the graph.
LEMMA ParentThere ==
    ASSUME NEW f \in Fetchers, CallInv(f), LoopInv(f), InLoop(f)
    PROVE  ParentOf[Layer(f)] \in graph \cup {NoLayer}
<1>1. /\ image[f] \in Images
      /\ image[f] \in Seq(Layers)
      /\ next[f] \in 1..Len(image[f])
  BY LayerType DEF LayerOK
<1>2. ParentOf[image[f][next[f]]] = IF next[f] = 1 THEN NoLayer ELSE image[f][next[f] - 1]
  BY <1>1, ImageAssumption
<1>3. CASE next[f] = 1
  BY <1>2, <1>3 DEF Layer
<1>4. CASE next[f] # 1
  <2>1. next[f] - 1 \in 1..(next[f] - 1)
    BY <1>1, <1>4
  <2> QED
    BY <2>1, <1>2, <1>4 DEF Layer, LoopInv
<1> QED
  BY <1>3, <1>4

\* Quotas are integers.
LEMMA QuotaInt == ASSUME TypeOK, NEW f \in Fetchers PROVE quota[f] \in Int
<1>1. quota[f] = 0 \/ quota[f] \in Quotas
  BY DEF TypeOK
<1>2. ASSUME NEW q \in Quotas PROVE q \in Int
  BY FetchAssumption
<1>3. 0 \in Int
  OBVIOUS
<1> QED
  BY <1>1, <1>2, <1>3

\* The strengthened invariant holds initially.
LEMMA InitRemoteInv == Init => RemoteInv
<1> SUFFICES ASSUME Init PROVE RemoteInv
  OBVIOUS
<1>1. (CHOOSE b \in Blobs : TRUE) \in Blobs
  BY FetchAssumption
<1>2. TypeOK
  BY <1>1, FetchAssumption DEF Init, TypeOK, Lock!TypeOK, Steps
<1> QED
  BY <1>2 DEF Init, RemoteInv, OwnInv, CallInv, LoopInv, HoldInv, OneHolder, StillMissing,
     IntactInv, FilesInv, QuotaInv, InLoop, Holding, Fetching

(***************************************************************************)
(* The invariants of the others survive a step of f: if it registers a     *)
(* layer, none of them is fetching that layer, as they hold other locks.   *)
(***************************************************************************)
LEMMA OthersKeep ==
    ASSUME RemoteInv, NEW f \in Fetchers, StepOf(f), OwnType(f)', OwnInv(f)'
    PROVE  RemoteInv'
<1> USE DEF RemoteInv, StepOf, Grows
<1>0. TypeOK'
  <2> USE DEF TypeOK, OnlyOf, OwnType, OwnSteps, OwnNumbers
  <2>1. Lock!TypeOK'
    BY DEF Lock!TypeOK
  <2>2. /\ pc' \in [Fetchers -> Steps]
        /\ image' \in [Fetchers -> Images \cup {<<>>}]
        /\ quota' \in [Fetchers -> Quotas \cup {0}]
    OBVIOUS
  <2>3. /\ attempt' \in [Fetchers -> 1..MaxAttempts]
        /\ why' \in [Fetchers -> Errors \cup {"none"}]
        /\ next' \in [Fetchers -> Nat]
    OBVIOUS
  <2>4. /\ remaining' \in [Fetchers -> Int]
        /\ intact' \in [Fetchers -> BOOLEAN]
        /\ files' \in [Fetchers -> Nat]
        /\ spent' \in [Fetchers -> Nat]
    OBVIOUS
  <2> QED
    BY <2>1, <2>2, <2>3, <2>4
<1>1. ASSUME NEW g \in Fetchers \ {f}
      PROVE  OwnInv(g)'
  <2>0. /\ status'[g] = status[g] /\ wants'[g] = wants[g] /\ pc'[g] = pc[g]
        /\ image'[g] = image[g] /\ quota'[g] = quota[g] /\ next'[g] = next[g]
        /\ intact'[g] = intact[g] /\ files'[g] = files[g]
        /\ remaining'[g] = remaining[g] /\ spent'[g] = spent[g]
    BY <1>1 DEF OnlyOf, TypeOK, Lock!TypeOK
  <2> USE <1>1, <2>0
  <2>1. graph \subseteq graph'
    OBVIOUS
  <2>2. CallInv(g)' /\ IntactInv(g)' /\ FilesInv(g)' /\ QuotaInv(g)'
    BY DEF OwnInv, CallInv, IntactInv, FilesInv, QuotaInv, InLoop, Holding, Layer
  <2>3. LoopInv(g)'
    BY <2>1 DEF OwnInv, LoopInv, InLoop, Holding
  <2>4. HoldInv(g)'
    BY DEF OwnInv, HoldInv, Holding, Layer
  <2>5. StillMissing(g)'
    <3>1. SUFFICES ASSUME Fetching(g)
                   PROVE  Layer(g) \notin graph'
      BY DEF StillMissing, Fetching, Layer
    <3>2. Layer(g) \notin graph
      BY <3>1 DEF OwnInv, StillMissing
    <3>3. CASE graph' = graph
      BY <3>2, <3>3
    <3>4. CASE graph' = graph \cup {Layer(f)} /\ Holding(f)
      <4>1. status[f] = "holding" /\ wants[f] = BlobOf[Layer(f)]
        BY <3>4 DEF OwnInv, HoldInv
      <4>2. status[g] = "holding" /\ wants[g] = BlobOf[Layer(g)]
        BY <3>1 DEF OwnInv, HoldInv, Holding, Fetching
      <4> QED
        BY <3>2, <3>4, <4>1, <4>2 DEF OneHolder
    <3> QED
      BY <3>3, <3>4
  <2> QED
    BY <2>2, <2>3, <2>4, <2>5 DEF OwnInv
<1>2. OneHolder'
  <2>1. ASSUME NEW g \in Fetchers \ {f}
        PROVE  status'[g] = status[g] /\ wants'[g] = wants[g]
    BY <2>1 DEF OnlyOf, TypeOK, Lock!TypeOK
  <2> QED
    BY <2>1 DEF OneHolder, Excludes
<1> QED
  BY <1>0, <1>1, <1>2

\* fetchLayer returns an error, with or without a temporary file left behind.
LEMMA FailKeeps ==
    ASSUME RemoteInv, NEW f \in Fetchers, Holding(f),
           NEW err \in Errors, LayerFails(f, err),
           NEW n \in {0, 1}, files' = [files EXCEPT ![f] = n]
    PROVE  RemoteInv'
<1> USE DEF RemoteInv, TypeOK, Lock!TypeOK, callVars, lockVars, layerVars, Goto,
        OwnNumbers, OwnSteps, InLoop, Holding, Fetching, Layer
<1>1. OwnInv(f)
  OBVIOUS
<1>3. OwnNumbers(f)'
  BY <1>1 DEF LayerFails, Lock!Free
<1>4. OwnSteps(f)'
  BY <1>1 DEF LayerFails, Lock!Free, Steps, Errors, QuotaErrors
<1>5. StepOf(f)
  BY <1>1 DEF LayerFails, Lock!Free, StepOf, OnlyOf, Grows, Excludes, OneHolder,
     OwnInv, HoldInv
<1>6. OwnInv(f)'
  BY <1>1 DEF LayerFails, Lock!Free, OwnInv, CallInv, LoopInv, HoldInv,
     StillMissing, IntactInv, FilesInv, QuotaInv
<1> QED
  BY <1>3, <1>4, <1>5, <1>6, OthersKeep DEF OwnType

\* fetchLayer returns with the layer in the graph.
LEMMA FetchedKeeps ==
    ASSUME RemoteInv, NEW f \in Fetchers, Holding(f), Grows(f), Layer(f) \in graph',
           NEW size \in Nat, LayerFetched(f, size), UNCHANGED <<corrupt, why>>,
           files' = [files EXCEPT ![f] = 0], Spend(f, size)
    PROVE  RemoteInv'
<1> USE DEF RemoteInv, TypeOK, Lock!TypeOK, callVars, lockVars, layerVars, Goto,
        OwnNumbers, OwnSteps, InLoop, Holding, Fetching, Layer
<1>1. OwnInv(f) /\ graph \subseteq graph'
  BY DEF Grows
<1>2. LayerOK(f)
  BY <1>1, LayerType DEF OwnInv
<1>7. CASE next[f] < Len(image[f])
  <2>3. OwnNumbers(f)'
    BY <1>1, <1>2, <1>7 DEF LayerFetched, Spend, Lock!Free, LayerOK
  <2>4. OwnSteps(f)'
    BY <1>1, <1>2, <1>7 DEF LayerFetched, Spend, Lock!Free, Steps, Errors, QuotaErrors, LayerOK
  <2>5. StepOf(f)
    BY <1>1, <1>2, <1>7 DEF LayerFetched, Spend, Lock!Free, StepOf, OnlyOf, Excludes,
       OneHolder, OwnInv, HoldInv
  <2>1. pc'[f] = "lock" /\ quota'[f] = quota[f]
    BY <1>7 DEF LayerFetched
  <2>2. quota[f] > 0 => remaining'[f] = quota[f] - spent'[f]
    <3>1. remaining'[f] = remaining[f] - size /\ spent'[f] = spent[f] + size
      BY DEF LayerFetched, Spend
    <3>2. quota[f] > 0 => remaining[f] = quota[f] - spent[f]
      BY <1>1 DEF OwnInv, QuotaInv
    <3>3. remaining[f] \in Int /\ spent[f] \in Nat /\ quota[f] \in Int
      BY QuotaInt
    <3> QED
      BY <3>1, <3>2, <3>3
  <2>6. QuotaInv(f)'
    BY <2>1, <2>2 DEF QuotaInv
  <2>7. (CallInv(f) /\ LoopInv(f))'
    BY <1>1, <1>2, <1>7 DEF LayerFetched, Lock!Free, LayerOK, OwnInv, CallInv, LoopInv
  <2>8. (HoldInv(f) /\ StillMissing(f) /\ IntactInv(f) /\ FilesInv(f))'
    BY <1>1, <1>7 DEF LayerFetched, Lock!Free, OwnInv, HoldInv, StillMissing, IntactInv,
       FilesInv
  <2>9. OwnInv(f)'
    BY <2>6, <2>7, <2>8 DEF OwnInv
  <2> QED
    BY <2>3, <2>4, <2>5, <2>9, OthersKeep DEF OwnType
<1>8. CASE ~(next[f] < Len(image[f]))
  <2>3. OwnNumbers(f)'
    BY <1>1, <1>2, <1>8 DEF LayerFetched, Spend, Lock!Free, LayerOK
  <2>4. OwnSteps(f)'
    BY <1>1, <1>2, <1>8 DEF LayerFetched, Spend, Lock!Free, Steps, Errors, QuotaErrors, LayerOK
  <2>5. StepOf(f)
    BY <1>1, <1>2, <1>8 DEF LayerFetched, Spend, Lock!Free, StepOf, OnlyOf, Excludes,
       OneHolder, OwnInv, HoldInv
  <2>6. OwnInv(f)'
    BY <1>1, <1>2, <1>8 DEF LayerFetched, Spend, Lock!Free, LayerOK, OwnInv, CallInv,
       LoopInv, HoldInv, StillMissing, IntactInv, FilesInv, QuotaInv
  <2> QED
    BY <2>3, <2>4, <2>5, <2>6, OthersKeep DEF OwnType
<1> QED
  BY <1>7, <1>8

\* Every step preserves the strengthened invariant.
LEMMA NextRemoteInv == RemoteInv /\ [Next]_vars => RemoteInv'
<1> SUFFICES ASSUME RemoteInv, [Next]_vars
             PROVE  RemoteInv'
  OBVIOUS
<1> USE DEF RemoteInv, TypeOK, Lock!TypeOK, callVars, lockVars, layerVars, Goto,
        OwnNumbers, OwnSteps, InLoop, Holding, Fetching, Layer
<1>1. ASSUME NEW f \in Fetchers, NEW m \in Images, NEW q \in Quotas, FetchCall(f, m, q)
      PROVE  RemoteInv'
  <2>1. OwnInv(f)
    OBVIOUS
  <2>3. OwnNumbers(f)'
    BY <1>1, <2>1, FetchAssumption DEF FetchCall
  <2>4. OwnSteps(f)'
    BY <1>1, <2>1, FetchAssumption DEF FetchCall, Steps, Errors, QuotaErrors
  <2>5. StepOf(f)
    BY <1>1, <2>1, FetchAssumption DEF FetchCall, StepOf, OnlyOf, Grows,
       Excludes, OneHolder, OwnInv, HoldInv
  <2>6. OwnInv(f)'
    BY <1>1, <2>1, FetchAssumption DEF FetchCall, OwnInv, CallInv, LoopInv,
       HoldInv, StillMissing, IntactInv, FilesInv, QuotaInv
  <2> QED
    BY <2>3, <2>4, <2>5, <2>6, OthersKeep DEF OwnType
<1>2. ASSUME NEW f \in Fetchers, GetManifest(f)
      PROVE  RemoteInv'
  <2>1. OwnInv(f)
    OBVIOUS
  <2>2. /\ pc[f] = "manifest"
        /\ spent' = [spent EXCEPT ![f] = 0]
        /\ UNCHANGED <<graph, corrupt, lockVars, callVars, intact, files>>
    BY <1>2 DEF GetManifest
  <2>7. CASE /\ Goto(f, "failed")
             /\ why' = [why EXCEPT ![f] = "manifestQuota"]
             /\ UNCHANGED <<next, remaining>>
    <3>3. OwnNumbers(f)'
      BY <2>1, <2>2, <2>7
    <3>4. OwnSteps(f)'
      BY <2>1, <2>2, <2>7 DEF Steps, Errors, QuotaErrors
    <3>5. StepOf(f)
      BY <2>1, <2>2, <2>7 DEF StepOf, OnlyOf, Grows, Excludes, OneHolder, OwnInv,
         HoldInv
    <3>6. OwnInv(f)'
      BY <2>1, <2>2, <2>7 DEF OwnInv, CallInv, LoopInv, HoldInv, StillMissing,
         IntactInv, FilesInv, QuotaInv
    <3> QED
      BY <3>3, <3>4, <3>5, <3>6, OthersKeep DEF OwnType
  <2>8. CASE /\ ~(quota[f] > 0 /\ TotalImageSize(image[f]) > quota[f])
             /\ Goto(f, "lock")
             /\ next' = [next EXCEPT ![f] = 1]
             /\ remaining' = [remaining EXCEPT ![f] = IF quota[f] <= 0 THEN -1 ELSE quota[f]]
             /\ UNCHANGED why
    <3> DEFINE left == IF quota[f] <= 0 THEN -1 ELSE quota[f]
    <3>1. left \in Int
      BY QuotaInt
    <3>2. /\ Goto(f, "lock")
          /\ next' = [next EXCEPT ![f] = 1]
          /\ remaining' = [remaining EXCEPT ![f] = left]
          /\ UNCHANGED why
      BY <2>8
    <3>8. 1 \in 1..Len(image[f])
      BY <2>1, <2>2, ImageAssumption DEF OwnInv, CallInv
    <3>7. quota[f] > 0 => remaining'[f] = quota[f] - spent'[f]
      BY <2>1, <2>2, <3>1, <3>2, QuotaInt DEF left
    <3>9. QuotaInv(f)'
      BY <2>1, <2>2, <3>2, <3>7 DEF QuotaInv
    <3> HIDE DEF left
    <3>3. OwnNumbers(f)'
      BY <2>1, <2>2, <3>1, <3>2, <3>8, <3>9
    <3>4. OwnSteps(f)'
      BY <2>1, <2>2, <3>1, <3>2, <3>8, <3>9 DEF Steps, Errors, QuotaErrors
    <3>5. StepOf(f)
      BY <2>1, <2>2, <3>1, <3>2, <3>8, <3>9 DEF StepOf, OnlyOf, Grows, Excludes,
         OneHolder, OwnInv, HoldInv
    <3>6. OwnInv(f)'
      BY <2>1, <2>2, <3>1, <3>2, <3>8, <3>9 DEF OwnInv, CallInv, LoopInv,
         HoldInv, StillMissing, IntactInv, FilesInv, QuotaInv
    <3> QED
      BY <3>3, <3>4, <3>5, <3>6, OthersKeep DEF OwnType
  <2> QED
    BY <1>2, <2>7, <2>8 DEF GetManifest
<1>3. ASSUME NEW f \in Fetchers, ManifestFails(f)
      PROVE  RemoteInv'
  <2>1. OwnInv(f)
    OBVIOUS
  <2>3. OwnNumbers(f)'
    BY <1>3, <2>1 DEF ManifestFails
  <2>4. OwnSteps(f)'
    BY <1>3, <2>1 DEF ManifestFails, Steps, Errors, QuotaErrors
  <2>5. StepOf(f)
    BY <1>3, <2>1 DEF ManifestFails, StepOf, OnlyOf, Grows, Excludes, OneHolder,
       OwnInv, HoldInv
  <2>6. OwnInv(f)'
    BY <1>3, <2>1 DEF ManifestFails, OwnInv, CallInv, LoopInv, HoldInv,
       StillMissing, IntactInv, FilesInv, QuotaInv
  <2> QED
    BY <2>3, <2>4, <2>5, <2>6, OthersKeep DEF OwnType
<1>4. ASSUME NEW f \in Fetchers, Acquire(f)
      PROVE  RemoteInv'
  <2>1. OwnInv(f)
    OBVIOUS
  <2>2. LayerOK(f)
    BY <1>4, <2>1, LayerType DEF Acquire, OwnInv
  <2>3. OwnNumbers(f)'
    BY <1>4, <2>1, <2>2 DEF Acquire, Lock!Request, LayerOK
  <2>4. OwnSteps(f)'
    BY <1>4, <2>1, <2>2 DEF Acquire, Lock!Request, Steps, Errors, QuotaErrors, LayerOK
  <2>5. StepOf(f)
    BY <1>4, <2>1, <2>2 DEF Acquire, Lock!Request, StepOf, OnlyOf, Grows,
       Excludes, OneHolder, OwnInv, HoldInv
  <2>6. OwnInv(f)'
    BY <1>4, <2>1, <2>2 DEF Acquire, Lock!Request, LayerOK, OwnInv, CallInv,
       LoopInv, HoldInv, StillMissing, IntactInv, FilesInv, QuotaInv
  <2> QED
    BY <2>3, <2>4, <2>5, <2>6, OthersKeep DEF OwnType
<1>5. ASSUME NEW f \in Fetchers, Acquired(f)
      PROVE  RemoteInv'
  <2>1. OwnInv(f)
    OBVIOUS
  <2>2. LayerOK(f)
    BY <1>5, <2>1, LayerType DEF Acquired, OwnInv
  <2>3. OwnNumbers(f)'
    BY <1>5, <2>1, <2>2 DEF Acquired, Lock!Grant, LayerOK
  <2>4. OwnSteps(f)'
    BY <1>5, <2>1, <2>2 DEF Acquired, Lock!Grant, Steps, Errors, QuotaErrors, LayerOK
  <2>5. StepOf(f)
    BY <1>5, <2>1, <2>2 DEF Acquired, Lock!Grant, StepOf, OnlyOf, Grows,
       Excludes, OneHolder, OwnInv, HoldInv
  <2>6. OwnInv(f)'
    BY <1>5, <2>1, <2>2 DEF Acquired, Lock!Grant, LayerOK, OwnInv, CallInv,
       LoopInv, HoldInv, StillMissing, IntactInv, FilesInv, QuotaInv
  <2> QED
    BY <2>3, <2>4, <2>5, <2>6, OthersKeep DEF OwnType
<1>6. ASSUME NEW f \in Fetchers, GetLayer(f)
      PROVE  RemoteInv'
  <2>1. OwnInv(f)
    OBVIOUS
  <2>2. LayerOK(f)
    BY <1>6, <2>1, LayerType DEF GetLayer, OwnInv
  <2>7. CASE Layer(f) \in graph
    <3>1. LayerFetched(f, Inflated[Layer(f)]) /\ UNCHANGED <<graph, corrupt, why, files>>
      BY <1>6, <2>7 DEF GetLayer
    <3>2. files' = [files EXCEPT ![f] = 0]
      BY <1>6, <2>1, <3>1 DEF GetLayer, OwnInv, FilesInv
    <3> QED
      BY <1>6, <2>2, <2>7, <3>1, <3>2, FetchedKeeps DEF GetLayer, LayerOK, Grows
  <2>8. CASE Layer(f) \notin graph
    <3>3. OwnNumbers(f)'
      BY <1>6, <2>1, <2>2, <2>8 DEF GetLayer
    <3>4. OwnSteps(f)'
      BY <1>6, <2>1, <2>2, <2>8 DEF GetLayer, Steps, Errors, QuotaErrors
    <3>5. StepOf(f)
      BY <1>6, <2>1, <2>2, <2>8 DEF GetLayer, StepOf, OnlyOf, Grows, Excludes,
         OneHolder, OwnInv, HoldInv
    <3>6. OwnInv(f)'
      BY <1>6, <2>1, <2>2, <2>8 DEF GetLayer, OwnInv, CallInv, LoopInv, HoldInv,
         StillMissing, IntactInv, FilesInv, QuotaInv
    <3> QED
      BY <3>3, <3>4, <3>5, <3>6, OthersKeep DEF OwnType
  <2> QED
    BY <2>7, <2>8
<1>7. ASSUME NEW f \in Fetchers, Download(f)
      PROVE  RemoteInv'
  <2>1. OwnInv(f)
    OBVIOUS
  <2>3. OwnNumbers(f)'
    BY <1>7, <2>1 DEF Download, TempFile
  <2>4. OwnSteps(f)'
    BY <1>7, <2>1 DEF Download, TempFile, Steps, Errors, QuotaErrors
  <2>5. StepOf(f)
    BY <1>7, <2>1 DEF Download, TempFile, StepOf, OnlyOf, Grows, Excludes,
       OneHolder, OwnInv, HoldInv
  <2>6. OwnInv(f)'
    BY <1>7, <2>1 DEF Download, TempFile, OwnInv, CallInv, LoopInv, HoldInv,
       StillMissing, IntactInv, FilesInv, QuotaInv
  <2> QED
    BY <2>3, <2>4, <2>5, <2>6, OthersKeep DEF OwnType
<1>8. ASSUME NEW f \in Fetchers, DownloadOverQuota(f)
      PROVE  RemoteInv'
  <2>1. OwnInv(f)
    OBVIOUS
  <2>2. pc[f] = "download" /\ LayerFails(f, "blobQuota") /\ TempFile(f)
    BY <1>8 DEF DownloadOverQuota
  <2>3. files' = [files EXCEPT ![f] = 1]
    BY <2>1, <2>2 DEF TempFile, OwnInv, FilesInv
  <2> QED
    BY <2>2, <2>3, FailKeeps DEF Errors, QuotaErrors
<1>9. ASSUME NEW f \in Fetchers, DownloadFails(f)
      PROVE  RemoteInv'
  <2>1. OwnInv(f)
    OBVIOUS
  <2>2. pc[f] = "download" /\ LayerFails(f, "network")
    BY <1>9 DEF DownloadFails
  <2>3. files' = [files EXCEPT ![f] = 0] \/ files' = [files EXCEPT ![f] = 1]
    BY <1>9, <2>1, <2>2 DEF DownloadFails, TempFile, OwnInv, FilesInv
  <2> QED
    BY <2>2, <2>3, FailKeeps DEF Errors
<1>10. ASSUME NEW f \in Fetchers, Verify(f)
       PROVE  RemoteInv'
  <2>1. OwnInv(f)
    OBVIOUS
  <2>7. CASE intact[f]
    <3>3. OwnNumbers(f)'
      BY <1>10, <2>1, <2>7 DEF Verify, LayerFails
    <3>4. OwnSteps(f)'
      BY <1>10, <2>1, <2>7 DEF Verify, LayerFails, Steps, Errors, QuotaErrors
    <3>5. StepOf(f)
      BY <1>10, <2>1, <2>7 DEF Verify, LayerFails, StepOf, OnlyOf, Grows,
         Excludes, OneHolder, OwnInv, HoldInv
    <3>6. OwnInv(f)'
      BY <1>10, <2>1, <2>7 DEF Verify, LayerFails, OwnInv, CallInv, LoopInv,
         HoldInv, StillMissing, IntactInv, FilesInv, QuotaInv
    <3> QED
      BY <3>3, <3>4, <3>5, <3>6, OthersKeep DEF OwnType
  <2>8. CASE ~intact[f]
    <3>1. pc[f] = "verify" /\ LayerFails(f, "digest") /\ UNCHANGED files
      BY <1>10, <2>8 DEF Verify
    <3>2. files' = [files EXCEPT ![f] = 1]
      BY <2>1, <3>1 DEF OwnInv, FilesInv
    <3> QED
      BY <3>1, <3>2, FailKeeps DEF Errors
  <2> QED
    BY <2>7, <2>8
<1>11. ASSUME NEW f \in Fetchers, Register(f)
       PROVE  RemoteInv'
  <2>1. OwnInv(f)
    OBVIOUS
  <2>2. LayerOK(f)
    BY <1>11, <2>1, LayerType DEF Register, OwnInv
  <2>3. pc[f] = "register" /\ LayerFetched(f, Bytes[Layer(f)]) /\ UNCHANGED why
    BY <1>11 DEF Register
  <2>4. files' = [files EXCEPT ![f] = 0]
    BY <1>11, <2>1, <2>3 DEF Register, Close, OwnInv, FilesInv
  <2>5. graph' = graph \cup {Layer(f)} /\ corrupt' = corrupt
    BY <1>11, <2>1, <2>3 DEF Register, OwnInv, IntactInv
  <2>6. Grows(f)
    BY <2>1, <2>2, <2>3, <2>5 DEF Grows, LayerOK
  <2>7. Spend(f, Bytes[Layer(f)])
    BY <1>11 DEF Register
  <2> QED
    BY <2>2, <2>3, <2>4, <2>5, <2>6, <2>7, FetchedKeeps DEF LayerOK
<1>12. ASSUME NEW f \in Fetchers, RegisterOverQuota(f)
       PROVE  RemoteInv'
  <2>1. OwnInv(f)
    OBVIOUS
  <2>2. pc[f] = "register" /\ LayerFails(f, "tarQuota") /\ Close(f)
    BY <1>12 DEF RegisterOverQuota
  <2>3. files' = [files EXCEPT ![f] = 0]
    BY <2>1, <2>2 DEF Close, OwnInv, FilesInv
  <2> QED
    BY <2>2, <2>3, FailKeeps DEF Errors, QuotaErrors
<1>13. ASSUME NEW f \in Fetchers, RegisterFails(f)
       PROVE  RemoteInv'
  <2>1. OwnInv(f)
    OBVIOUS
  <2>2. pc[f] = "register" /\ LayerFails(f, "disk") /\ Close(f)
    BY <1>13 DEF RegisterFails
  <2>3. files' = [files EXCEPT ![f] = 0]
    BY <2>1, <2>2 DEF Close, OwnInv, FilesInv
  <2> QED
    BY <2>2, <2>3, FailKeeps DEF Errors, QuotaErrors
<1>14. ASSUME NEW f \in Fetchers, Retry(f)
       PROVE  RemoteInv'
  <2>1. OwnInv(f)
    OBVIOUS
  <2>2. /\ pc[f] = "failed"
        /\ files' = [files EXCEPT ![f] = 0]
        /\ UNCHANGED <<graph, corrupt, lockVars, image, quota, next, remaining,
                       intact, spent>>
    BY <1>14 DEF Retry
  <2>7. CASE Goto(f, "error") /\ UNCHANGED <<attempt, why>>
    <3>3. OwnNumbers(f)'
      BY <2>1, <2>2, <2>7
    <3>4. OwnSteps(f)'
      BY <2>1, <2>2, <2>7 DEF Steps, Errors, QuotaErrors
    <3>5. StepOf(f)
      BY <2>1, <2>2, <2>7 DEF StepOf, OnlyOf, Grows, Excludes, OneHolder, OwnInv,
         HoldInv
    <3>6. OwnInv(f)'
      BY <2>1, <2>2, <2>7 DEF OwnInv, CallInv, LoopInv, HoldInv, StillMissing,
         IntactInv, FilesInv, QuotaInv
    <3> QED
      BY <3>3, <3>4, <3>5, <3>6, OthersKeep DEF OwnType
  <2>8. CASE /\ attempt[f] # MaxAttempts
             /\ Goto(f, "manifest")
             /\ attempt' = [attempt EXCEPT ![f] = @ + 1]
             /\ why' = [why EXCEPT ![f] = "none"]
    <3>1. attempt[f] + 1 \in 1..MaxAttempts
      BY <2>8, FetchAssumption
    <3>2. /\ Goto(f, "manifest")
          /\ attempt' = [attempt EXCEPT ![f] = attempt[f] + 1]
          /\ why' = [why EXCEPT ![f] = "none"]
      BY <2>8
    <3>3. OwnNumbers(f)'
      BY <2>1, <2>2, <3>1, <3>2
    <3>4. OwnSteps(f)'
      BY <2>1, <2>2, <3>1, <3>2 DEF Steps, Errors, QuotaErrors
    <3>5. StepOf(f)
      BY <2>1, <2>2, <3>1, <3>2 DEF StepOf, OnlyOf, Grows, Excludes, OneHolder,
         OwnInv, HoldInv
    <3>6. OwnInv(f)'
      BY <2>1, <2>2, <3>1, <3>2 DEF OwnInv, CallInv, LoopInv, HoldInv,
         StillMissing, IntactInv, FilesInv, QuotaInv
    <3> QED
      BY <3>3, <3>4, <3>5, <3>6, OthersKeep DEF OwnType
  <2> QED
    BY <1>14, <2>7, <2>8 DEF Retry
<1>15. ASSUME NEW f \in Fetchers, Leave(f)
       PROVE  RemoteInv'
  <2>1. OwnInv(f)
    OBVIOUS
  <2>3. OwnNumbers(f)'
    BY <1>15, <2>1, FetchAssumption DEF Leave
  <2>4. OwnSteps(f)'
    BY <1>15, <2>1, FetchAssumption DEF Leave, Steps, Errors, QuotaErrors
  <2>5. StepOf(f)
    BY <1>15, <2>1, FetchAssumption DEF Leave, StepOf, OnlyOf, Grows, Excludes,
       OneHolder, OwnInv, HoldInv
  <2>6. OwnInv(f)'
    BY <1>15, <2>1, FetchAssumption DEF Leave, OwnInv, CallInv, LoopInv, HoldInv,
       StillMissing, IntactInv, FilesInv, QuotaInv
  <2> QED
    BY <2>3, <2>4, <2>5, <2>6, OthersKeep DEF OwnType
<1>16. ASSUME NEW x \in Layers, Evict(x)
       PROVE  RemoteInv'
  BY <1>16 DEF Evict, OneHolder, OwnInv, CallInv, LoopInv, HoldInv,
     StillMissing, IntactInv, FilesInv, QuotaInv
<1>17. CASE UNCHANGED vars
  BY <1>17 DEF vars, OneHolder, OwnInv, CallInv, LoopInv, HoldInv,
     StillMissing, IntactInv, FilesInv, QuotaInv
<1> QED
  BY <1>1, <1>2, <1>3, <1>4, <1>5, <1>6, <1>7, <1>8, <1>9, <1>10, <1>11, <1>12,
     <1>13, <1>14, <1>15, <1>16, <1>17 DEF Next, FetchStep

----------------------------------------------------------------------------
\* Only Register adds a layer to the graph.
LEMMA RegisterAdds ==
    ASSUME Next, NEW x \in graph' \ graph
    PROVE  \E f \in Fetchers : Register(f) /\ x = Layer(f)
<1>1. ASSUME NEW f \in Fetchers, FetchStep(f), ~Register(f)
      PROVE  graph' = graph
  BY <1>1 DEF FetchStep, GetManifest, ManifestFails, Acquire, Acquired, GetLayer, Download,
     DownloadOverQuota, DownloadFails, Verify, RegisterOverQuota, RegisterFails, Retry,
     LayerFails
<1>2. ASSUME NEW f \in Fetchers,
             Leave(f) \/ \E m \in Images, q \in Quotas : FetchCall(f, m, q)
      PROVE  graph' = graph
  BY <1>2 DEF Leave, FetchCall
<1>3. ASSUME NEW y \in Layers, Evict(y)
      PROVE  graph' \subseteq graph
  BY <1>3 DEF Evict
<1>4. PICK f \in Fetchers : Register(f)
  BY <1>1, <1>2, <1>3 DEF Next
<1> QED
  BY <1>4 DEF Register

(***************************************************************************)
(* RemoteInv holds throughout.  The argument is about single steps: it     *)
(* needs none of the fairness in Spec.                                     *)
(***************************************************************************)
THEOREM RemoteInvHolds == SafetySpec => []RemoteInv
  BY InitRemoteInv, NextRemoteInv, PTL DEF SafetySpec

(***************************************************************************)
(* The variables of every fetch keep their types; in particular the        *)
(* attempts stay within MAX_ATTEMPTS (retryable.go 20-34).                 *)
(***************************************************************************)
THEOREM TypesHold == Spec => []TypeOK
<1>1. RemoteInv => TypeOK
  BY DEF RemoteInv
<1> QED
  BY <1>1, RemoteInvHolds, PTL DEF Spec

(***************************************************************************)
(* No layer is downloaded twice at a time or while it is in the graph, by  *)
(* any number of goroutines that fetch images with layers in common        *)
(* (remote.go 138-168).                                                    *)
(***************************************************************************)
THEOREM LayersAreFetchedOnce == Spec => []NeverTwice
<1>1. RemoteInv => NeverTwice
  BY DEF RemoteInv, NeverTwice, OneHolder, OwnInv, HoldInv, StillMissing, Holding, Fetching
<1> QED
  BY <1>1, RemoteInvHolds, PTL DEF Spec

(***************************************************************************)
(* A layer is registered above its parent, whatever attempts break off and *)
(* whatever the cleaner removes (remote.go 65-76).                         *)
(***************************************************************************)
THEOREM ParentsComeFirst == Spec => ParentsFirst
<1>1. RemoteInv /\ [Next]_vars =>
        [\A x \in graph' \ graph : ParentOf[x] \in graph \cup {NoLayer}]_vars
  <2> SUFFICES ASSUME RemoteInv, Next, NEW x \in graph' \ graph
               PROVE  ParentOf[x] \in graph \cup {NoLayer}
    OBVIOUS
  <2>1. PICK f \in Fetchers : Register(f)
    BY RegisterAdds
  <2> QED
    BY <2>1, ParentThere DEF Register, RemoteInv, OwnInv, InLoop, Holding
<1> QED
  BY <1>1, RemoteInvHolds, PTL DEF Spec, SafetySpec, ParentsFirst

(***************************************************************************)
(* An image that Fetch returns has all its layers in the graph, and with   *)
(* the data of their digests (remote.go 65-84, verify.go 24-50).           *)
(***************************************************************************)
THEOREM ReturnedImagesAreComplete == Spec => []ImageComplete
<1>1. RemoteInv => ImageComplete
  BY DEF RemoteInv, ImageComplete, OwnInv, LoopInv
<1> QED
  BY <1>1, RemoteInvHolds, PTL DEF Spec

(***************************************************************************)
(* Only a download that failed leaves a temporary file, and an attempt at  *)
(* most one (verify.go 30-58, remote.go 161).                              *)
(***************************************************************************)
THEOREM LitterIsBounded == Spec => []OnlyFailuresLitter
<1>1. RemoteInv => OnlyFailuresLitter
  <2> SUFFICES ASSUME RemoteInv, NEW f \in Fetchers
               PROVE  files[f] <= IF pc[f] \in {"verify", "register", "failed", "error"}
                                    THEN 1 ELSE 0
    BY DEF OnlyFailuresLitter
  <2>1. FilesInv(f) /\ files[f] \in Nat
    BY DEF RemoteInv, OwnInv, TypeOK
  <2> QED
    BY <2>1 DEF FilesInv
<1> QED
  BY <1>1, RemoteInvHolds, PTL DEF Spec

(***************************************************************************)
(* A layer that a Fetch under a quota adds fits into what is left of it,   *)
(* packed and unpacked, unless the layers below it passed the quota; what  *)
(* was read of the blob under the limit of the remaining quota is the      *)
(* reason that an added layer never does (remote.go 59-76).                *)
(***************************************************************************)
THEOREM QuotaIsKeptHolds == Spec => QuotaIsKept
<1>1. RemoteInv /\ [Next]_vars => [\A f \in Fetchers :
        (quota[f] > 0 /\ pc[f] = "register" /\ Layer(f) \in graph' \ graph) =>
            \/ spent[f] > quota[f]
            \/ /\ spent[f] + Bytes[Layer(f)] <= quota[f]
               /\ spent[f] + Inflated[Layer(f)] <= quota[f]]_vars
  <2> SUFFICES ASSUME RemoteInv, Next, NEW f \in Fetchers,
                      quota[f] > 0, pc[f] = "register", Layer(f) \in graph' \ graph,
                      ~(spent[f] > quota[f])
               PROVE  /\ spent[f] + Bytes[Layer(f)] <= quota[f]
                      /\ spent[f] + Inflated[Layer(f)] <= quota[f]
    OBVIOUS
  <2>1. PICK g \in Fetchers : Register(g) /\ graph' = graph \cup {Layer(g)}
    BY RegisterAdds DEF Register
  <2>2. Layer(f) = Layer(g)
    BY <2>1
  <2>3. f = g
    BY <2>1, <2>2 DEF RemoteInv, OwnInv, HoldInv, OneHolder, Holding, Register
  <2>4. /\ Fits(Inflated[Layer(f)], remaining[f])
        /\ Fits(Bytes[Layer(f)], remaining[f])
        /\ remaining[f] = quota[f] - spent[f]
    BY <2>1, <2>3 DEF Register, RemoteInv, OwnInv, QuotaInv, InLoop, Holding
  <2>5. LayerOK(f) /\ quota[f] \in Int /\ spent[f] \in Nat
    BY LayerType, QuotaInt DEF RemoteInv, OwnInv, InLoop, Holding, TypeOK
  <2> QED
    BY <2>4, <2>5 DEF Fits, LayerOK
<1> QED
  BY <1>1, RemoteInvHolds, PTL DEF Spec, SafetySpec, QuotaIsKept

(***************************************************************************)
(* The lock of a blob is held from the Acquire of fetchLayer to its        *)
(* deferred Release on every way out, and only then: a Fetch that has      *)
(* returned, or is between attempts or between layers, holds none, and a   *)
(* goroutine holds or waits for the lock of the layer it is at             *)
(* (remote.go 132-177).                                                    *)
(***************************************************************************)
THEOREM LocksAreGivenBack == Spec => [](\A f \in Fetchers : HoldInv(f))
<1>1. RemoteInv => \A f \in Fetchers : HoldInv(f)
  BY DEF RemoteInv, OwnInv
<1> QED
  BY <1>1, RemoteInvHolds, PTL DEF Spec
=============================================================================
