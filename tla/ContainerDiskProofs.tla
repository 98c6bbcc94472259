------------------------ MODULE ContainerDiskProofs ------------------------
(***************************************************************************)
(* Proofs about ContainerDisk, for any number of containers, disk limits,  *)
(* faults, attempts and crashes.                                           *)
(*                                                                         *)
(* That nothing leaks depends on where the call of a container is: the     *)
(* directory in the graph is there before anything is made on the host and *)
(* goes after everything is taken down.  DiskInv says, for every point of  *)
(* a creation and of a destruction, what of the container is on the host;  *)
(* a crash forgets the point, and must leave a state that is in order for  *)
(* a container nobody works on.                                            *)
(***************************************************************************)
EXTENDS ContainerDisk, TLAPS

\* The index has the container between its registration and its removal, and
\* between two calls just if both the graph and the driver have it.
PlaceInv(c) ==
    /\ pc[c] \in {"clean", "create", "store"} => c \notin dirs
    /\ pc[c] \in {"clean", "create", "store", "driver", "trash"} => c \notin index
    /\ pc[c] \notin {"idle", "clean", "create", "store", "driver", "trash"} => c \in index
    /\ c \in index => c \in dirs \cap layers
    /\ (up /\ pc[c] = "idle" /\ c \in dirs \cap layers) => c \in index

\* Unless the graph and the driver both have it, there is nothing on the host but,
\* at most, directories.
LeakInv(c) == c \notin dirs \cap layers => file[c] = NoFile /\ ~loop[c] /\ ~mnt[c]

\* The mount is in use from the end of a creation to the start of a destruction.
UseInv(c) ==
    (c \notin dirs \cap layers \/ pc[c] \notin {"idle", "volumes", "put"}) => active[c] = 0

\* The driver has the layer with its directory, which is new when it is made.
LayerInv(c) ==
    /\ c \in layers <=> diff[c] # "absent"
    /\ pc[c] = "create" => diff[c] = "absent"
    /\ pc[c] \in {"store", "path", "backing", "loop", "get", "volumes"} => diff[c] = "empty"

\* A layer without a directory is one a call is about to put right, or one that a
\* process has died over.
OrphanInv(c) == c \in layers \ dirs => pc[c] \in {"store", "driver"} \/ c \in orphans

\* A container's own disk, if it has one.
HasDisk(c) ==
    /\ loop[c] <=> HasLimit(spec[c])
    /\ HasLimit(spec[c]) => file[c] = DiskLimit(spec[c])

\* Creating: file, loop mount and mount are made in this order.
MadeInv(c) ==
    /\ pc[c] \in {"path", "backing", "loop"} => ~loop[c]
    /\ pc[c] \in {"path", "backing", "loop", "get"} => ~mnt[c]
    /\ pc[c] = "backing" => HasLimit(spec[c])
    /\ pc[c] \in {"loop", "get"} => HasLimit(spec[c]) /\ file[c] = DiskLimit(spec[c])
    /\ pc[c] = "get" => loop[c]
    /\ pc[c] = "volumes" => mnt[c] /\ HasDisk(c)

\* Destroying: mount, loop mount, file and layer go in this order.
TakenInv(c) ==
    /\ pc[c] \in {"unloop", "file", "graph", "driver", "trash"} => ~mnt[c]
    /\ pc[c] \in {"file", "graph", "driver", "trash"} => ~loop[c]
    /\ pc[c] \in {"graph", "driver", "trash"} => file[c] = NoFile
    /\ pc[c] = "trash" => c \notin layers

\* A container the caller has is complete, and no call is under way for it.
LiveInv(c) == live[c] => pc[c] = "idle" /\ c \in dirs \cap layers /\ mnt[c] /\ HasDisk(c)

OwnInv(c) ==
    /\ PlaceInv(c)
    /\ LeakInv(c)
    /\ UseInv(c)
    /\ LayerInv(c)
    /\ OrphanInv(c)
    /\ MadeInv(c)
    /\ TakenInv(c)
    /\ LiveInv(c)

\* A process that is down does nothing and knows nothing.
UpInv ==
    ~up => /\ index = {} /\ \A c \in Containers : pc[c] = "idle"
           /\ meter.pc = "idle" /\ ~meter.steady

\* A container that has been there since the call of Metrics began is there.
MeterInv == meter.steady => live[meter.of]

DiskInv ==
    /\ TypeOK
    /\ UpInv
    /\ MeterInv
    /\ \A c \in Containers : OwnInv(c)

----------------------------------------------------------------------------
(***************************************************************************)
(* A call made for c changes what is on the host of c only.                *)
(***************************************************************************)
OnlyOf(c) ==
    /\ file' = [file EXCEPT ![c] = file'[c]]
    /\ loop' = [loop EXCEPT ![c] = loop'[c]]
    /\ mnt' = [mnt EXCEPT ![c] = mnt'[c]]
    /\ active' = [active EXCEPT ![c] = active'[c]]
    /\ diff' = [diff EXCEPT ![c] = diff'[c]]
    /\ pc' = [pc EXCEPT ![c] = pc'[c]]
    /\ spec' = [spec EXCEPT ![c] = spec'[c]]
    /\ tries' = [tries EXCEPT ![c] = tries'[c]]
    /\ live' = [live EXCEPT ![c] = live'[c]]
    /\ layers' \in {layers, layers \cup {c}, layers \ {c}}
    /\ dirs' \in {dirs, dirs \cup {c}, dirs \ {c}}
    /\ index' \in {index, index \cup {c}, index \ {c}}
    /\ orphans' \in {orphans, orphans \ {c}}
    /\ up /\ up' /\ UNCHANGED crashes

\* TypeOK for what is c's, numbers and the rest.
OwnNumbers(c) ==
    /\ file'[c] \in Nat \cup {NoFile}
    /\ active'[c] \in 0..1
    /\ tries'[c] \in 0..(MaxTries - 1)

OwnSteps(c) ==
    /\ loop'[c] \in BOOLEAN /\ mnt'[c] \in BOOLEAN /\ live'[c] \in BOOLEAN
    /\ diff'[c] \in {"absent", "empty", "written"}
    /\ pc'[c] \in {"idle"} \cup Creating \cup Destroying
    /\ spec'[c] \in Specs
    /\ image' \in BOOLEAN

StepOf(c) == OnlyOf(c) /\ OwnNumbers(c) /\ OwnSteps(c)

\* A limit is a size, and what the image leaves of it an integer.
LEMMA SpecType ==
    ASSUME NEW s \in Specs
    PROVE  /\ s \in [size : Nat, scope : {"exclusive", "total"}, image : Nat]
           /\ DiskLimit(s) \in Int
           /\ s.size \in Nat
  BY SpecsAssumption DEF DiskLimit

\* The strengthened invariant holds initially.
LEMMA InitDiskInv == Init => DiskInv
<1> SUFFICES ASSUME Init PROVE DiskInv
  OBVIOUS
<1>1. (CHOOSE s \in Specs : TRUE) \in Specs /\ (CHOOSE c \in Containers : TRUE) \in Containers
  BY SpecsAssumption
<1>2. spec \in [Containers -> Specs]
  BY <1>1 DEF Init
<1>3. DriverTypeOK
  BY DEF Init, DriverInit, DriverTypeOK, NoFile
<1>4. TypeOK
  BY <1>1, <1>2, <1>3, TriesAssumption DEF Init, TypeOK, Creating, Destroying, Metering
<1> QED
  BY <1>4 DEF Init, DriverInit, DiskInv, UpInv, MeterInv, OwnInv, PlaceInv, LeakInv, UseInv,
     LayerInv, OrphanInv, MadeInv, TakenInv, LiveInv

(***************************************************************************)
(* A call made for c leaves the other containers in order.                 *)
(***************************************************************************)
LEMMA OthersKeep ==
    ASSUME DiskInv, NEW c \in Containers, StepOf(c), OwnInv(c)',
           MeterInv', meter' \in [pc : {"idle"} \cup Metering, of : Containers,
               steady : BOOLEAN, answer : {"none", "error", "own", "host", "zero"}]
    PROVE  DiskInv'
<1> USE DEF DiskInv, StepOf
<1>1. TypeOK'
  <2> USE DEF TypeOK, DriverTypeOK, OnlyOf, OwnNumbers, OwnSteps
  <2>1. /\ file' \in [Containers -> Nat \cup {NoFile}]
        /\ active' \in [Containers -> 0..1]
        /\ tries' \in [Containers -> 0..(MaxTries - 1)]
    OBVIOUS
  <2>2. /\ loop' \in [Containers -> BOOLEAN]
        /\ mnt' \in [Containers -> BOOLEAN]
        /\ live' \in [Containers -> BOOLEAN]
    OBVIOUS
  <2>3. /\ diff' \in [Containers -> {"absent", "empty", "written"}]
        /\ pc' \in [Containers -> {"idle"} \cup Creating \cup Destroying]
        /\ spec' \in [Containers -> Specs]
    OBVIOUS
  <2>4. /\ layers' \subseteq Containers /\ dirs' \subseteq Containers
        /\ index' \subseteq Containers /\ orphans' \subseteq Containers
    OBVIOUS
  <2>5. image' \in BOOLEAN /\ up' \in BOOLEAN /\ crashes' \in 0..MaxCrashes
    OBVIOUS
  <2> QED
    BY <2>1, <2>2, <2>3, <2>4, <2>5
<1>2. ASSUME NEW d \in Containers \ {c}
      PROVE  OwnInv(d)'
  <2>1. /\ file'[d] = file[d] /\ active'[d] = active[d] /\ diff'[d] = diff[d]
        /\ pc'[d] = pc[d] /\ spec'[d] = spec[d]
    BY <1>2 DEF OnlyOf, TypeOK, DriverTypeOK
  <2>2. loop'[d] = loop[d] /\ mnt'[d] = mnt[d] /\ live'[d] = live[d]
    BY <1>2 DEF OnlyOf, TypeOK, DriverTypeOK
  <2>3. /\ d \in dirs' <=> d \in dirs
        /\ d \in layers' <=> d \in layers
        /\ d \in index' <=> d \in index
        /\ d \in orphans' <=> d \in orphans
        /\ up' <=> up
    BY <1>2 DEF OnlyOf
  <2>4. OwnInv(d)
    BY <1>2
  <2> QED
    BY <2>1, <2>2, <2>3, <2>4 DEF OwnInv, PlaceInv, LeakInv, UseInv, LayerInv, OrphanInv,
       MadeInv, TakenInv, LiveInv, HasDisk
<1>3. UpInv'
  BY DEF UpInv, OnlyOf
<1> QED
  BY <1>1, <1>2, <1>3

\* Metrics does not see a call made for a container nobody has.
LEMMA MeterKeeps ==
    ASSUME DiskInv, NEW c \in Containers, OnlyOf(c), ~live[c], UNCHANGED meter
    PROVE  MeterInv' /\ meter' \in [pc : {"idle"} \cup Metering, of : Containers,
               steady : BOOLEAN, answer : {"none", "error", "own", "host", "zero"}]
<1>1. meter' \in [pc : {"idle"} \cup Metering, of : Containers,
               steady : BOOLEAN, answer : {"none", "error", "own", "host", "zero"}]
  BY DEF DiskInv, TypeOK
<1>2. meter.steady => meter.of # c /\ live[meter.of]
  BY DEF DiskInv, MeterInv
<1>3. meter.steady => live'[meter.of]
  BY <1>1, <1>2 DEF OnlyOf, DiskInv, TypeOK
<1> QED
  BY <1>1, <1>3 DEF MeterInv

\* Every step preserves the strengthened invariant.
LEMMA NextDiskInv == DiskInv /\ [Next]_vars => DiskInv'
<1> SUFFICES ASSUME DiskInv, [Next]_vars
             PROVE  DiskInv'
  OBVIOUS
<1> USE DEF DiskInv, TypeOK, DriverTypeOK, driverVars, hostVars, callVars, lifeVars, At, Goto
<1>1. ASSUME NEW c \in Containers, NEW s \in Specs, Create(c, s)
      PROVE  DiskInv'
  <2>1. OwnInv(c) /\ up
    BY <1>1 DEF Create, At
  <2>2. ~live[c] /\ UNCHANGED meter
    BY <1>1, <2>1 DEF Create, At, OwnInv, LiveInv, PlaceInv
  <2>3. OnlyOf(c)
    BY <1>1, <2>1 DEF Create, AufsRemove, Unmounted, OnlyOf
  <2>4. OwnNumbers(c)
    BY <1>1, <2>1 DEF Create, AufsRemove, Unmounted, OwnNumbers, OwnInv, UseInv,
       MadeInv, PlaceInv
  <2>5. OwnSteps(c)
    BY <1>1, <2>1 DEF Create, AufsRemove, Unmounted, OwnSteps, Creating, Destroying
  <2>6. OwnInv(c)'
    BY <1>1, <2>1 DEF Create, AufsRemove, Unmounted, OwnInv, PlaceInv, LeakInv,
       UseInv, LayerInv, OrphanInv, MadeInv, TakenInv, LiveInv, HasDisk
  <2> QED
    BY <2>2, <2>3, <2>4, <2>5, <2>6, OthersKeep, MeterKeeps DEF StepOf
<1>2. ASSUME NEW c \in Containers, CleanDriver(c)
      PROVE  DiskInv'
  <2>1. OwnInv(c) /\ up
    BY <1>2 DEF CleanDriver, At
  <2>2. ~live[c] /\ UNCHANGED meter
    BY <1>2, <2>1 DEF CleanDriver, At, OwnInv, LiveInv
  <2>3. OnlyOf(c)
    BY <1>2, <2>1 DEF CleanDriver, AufsRemove, Unmounted, OnlyOf
  <2>4. OwnNumbers(c)
    BY <1>2, <2>1 DEF CleanDriver, AufsRemove, Unmounted, OwnNumbers, OwnInv, UseInv,
       MadeInv, PlaceInv
  <2>5. OwnSteps(c)
    BY <1>2, <2>1 DEF CleanDriver, AufsRemove, Unmounted, OwnSteps, Creating,
       Destroying
  <2>6. OwnInv(c)'
    BY <1>2, <2>1 DEF CleanDriver, AufsRemove, Unmounted, OwnInv, PlaceInv, LeakInv,
       UseInv, LayerInv, OrphanInv, MadeInv, TakenInv, LiveInv, HasDisk
  <2> QED
    BY <2>2, <2>3, <2>4, <2>5, <2>6, OthersKeep, MeterKeeps DEF StepOf
<1>3. ASSUME NEW c \in Containers, CreateInDriver(c)
      PROVE  DiskInv'
  <2>1. OwnInv(c) /\ up
    BY <1>3 DEF CreateInDriver, At
  <2>2. ~live[c] /\ UNCHANGED meter
    BY <1>3, <2>1 DEF CreateInDriver, At, OwnInv, LiveInv
  <2>3. OnlyOf(c)
    BY <1>3, <2>1 DEF CreateInDriver, AufsCreate, AufsRemove, Unmounted, OnlyOf
  <2>4. OwnNumbers(c)
    BY <1>3, <2>1 DEF CreateInDriver, AufsCreate, AufsRemove, Unmounted, OwnNumbers,
       OwnInv, UseInv, MadeInv, PlaceInv
  <2>5. OwnSteps(c)
    <3>1. CASE AufsCreate(c) /\ Goto(c, "store")
      BY <1>3, <2>1, <3>1 DEF CreateInDriver, AufsCreate, OwnSteps, Creating, Destroying
    <3>2. CASE AufsRemove(c) /\ Goto(c, "idle")
      BY <1>3, <2>1, <3>2 DEF CreateInDriver, AufsRemove, Unmounted, OwnSteps, Creating,
         Destroying
    <3> QED
      BY <1>3, <3>1, <3>2 DEF CreateInDriver
  <2>6. OwnInv(c)'
    BY <1>3, <2>1 DEF CreateInDriver, AufsCreate, AufsRemove, Unmounted, OwnInv,
       PlaceInv, LeakInv, UseInv, LayerInv, OrphanInv, MadeInv, TakenInv, LiveInv,
       HasDisk
  <2> QED
    BY <2>2, <2>3, <2>4, <2>5, <2>6, OthersKeep, MeterKeeps DEF StepOf
<1>4. ASSUME NEW c \in Containers, StoreImage(c)
      PROVE  DiskInv'
  <2>1. OwnInv(c) /\ up
    BY <1>4 DEF StoreImage, At
  <2>2. ~live[c] /\ UNCHANGED meter
    BY <1>4, <2>1 DEF StoreImage, At, OwnInv, LiveInv
  <2>3. OnlyOf(c)
    BY <1>4, <2>1 DEF StoreImage, AufsRemove, Unmounted, OnlyOf
  <2>4. OwnNumbers(c)
    BY <1>4, <2>1 DEF StoreImage, AufsRemove, Unmounted, OwnNumbers, OwnInv, UseInv,
       MadeInv, PlaceInv
  <2>5. OwnSteps(c)
    <3>1. CASE Goto(c, "path") /\ UNCHANGED driverVars
      BY <1>4, <2>1, <3>1 DEF StoreImage, OwnSteps, Creating, Destroying
    <3>2. CASE AufsRemove(c) /\ Goto(c, "idle")
      BY <1>4, <2>1, <3>2 DEF StoreImage, AufsRemove, Unmounted, OwnSteps, Creating,
         Destroying
    <3> QED
      BY <1>4, <3>1, <3>2 DEF StoreImage
  <2>6. OwnInv(c)'
    BY <1>4, <2>1 DEF StoreImage, AufsRemove, Unmounted, OwnInv, PlaceInv, LeakInv,
       UseInv, LayerInv, OrphanInv, MadeInv, TakenInv, LiveInv, HasDisk
  <2> QED
    BY <2>2, <2>3, <2>4, <2>5, <2>6, OthersKeep, MeterKeeps DEF StepOf
<1>5. ASSUME NEW c \in Containers, ChoosePath(c)
      PROVE  DiskInv'
  <2>1. OwnInv(c) /\ up
    BY <1>5 DEF ChoosePath, At
  <2>2. ~live[c] /\ UNCHANGED meter
    BY <1>5, <2>1 DEF ChoosePath, At, OwnInv, LiveInv
  <2>3. OnlyOf(c)
    BY <1>5, <2>1 DEF ChoosePath, AufsGet, OnlyOf
  <2>4. OwnNumbers(c)
    BY <1>5, <2>1 DEF ChoosePath, AufsGet, OwnNumbers, OwnInv, UseInv, MadeInv,
       PlaceInv
  <2>5. OwnSteps(c)
    BY <1>5, <2>1 DEF ChoosePath, AufsGet, OwnSteps, Creating, Destroying
  <2>6. OwnInv(c)'
    BY <1>5, <2>1 DEF ChoosePath, AufsGet, OwnInv, PlaceInv, LeakInv, UseInv,
       LayerInv, OrphanInv, MadeInv, TakenInv, LiveInv, HasDisk
  <2> QED
    BY <2>2, <2>3, <2>4, <2>5, <2>6, OthersKeep, MeterKeeps DEF StepOf
<1>6. ASSUME NEW c \in Containers, CreateBackingStore(c)
      PROVE  DiskInv'
  <2>1. OwnInv(c) /\ up
    BY <1>6 DEF CreateBackingStore, At
  <2>2. ~live[c] /\ UNCHANGED meter
    BY <1>6, <2>1 DEF CreateBackingStore, At, OwnInv, LiveInv
  <2>3. OnlyOf(c)
    BY <1>6, <2>1 DEF CreateBackingStore, BackingStoreCreate, NoFile, Unformatted,
       OnlyOf
  <2>4. OwnNumbers(c)
    BY <1>6, <2>1, SpecType DEF CreateBackingStore, BackingStoreCreate, NoFile,
       Unformatted, OwnNumbers, OwnInv, UseInv, MadeInv, PlaceInv
  <2>5. OwnSteps(c)
    BY <1>6, <2>1 DEF CreateBackingStore, BackingStoreCreate, NoFile, Unformatted,
       OwnSteps, Creating, Destroying
  <2>6. OwnInv(c)'
    BY <1>6, <2>1 DEF CreateBackingStore, BackingStoreCreate, NoFile, Unformatted,
       OwnInv, PlaceInv, LeakInv, UseInv, LayerInv, OrphanInv, MadeInv, TakenInv,
       LiveInv, HasDisk
  <2> QED
    BY <2>2, <2>3, <2>4, <2>5, <2>6, OthersKeep, MeterKeeps DEF StepOf
<1>7. ASSUME NEW c \in Containers, MountLoop(c)
      PROVE  DiskInv'
  <2>1. OwnInv(c) /\ up
    BY <1>7 DEF MountLoop, At
  <2>2. ~live[c] /\ UNCHANGED meter
    BY <1>7, <2>1 DEF MountLoop, At, OwnInv, LiveInv
  <2>3. OnlyOf(c)
    BY <1>7, <2>1 DEF MountLoop, MountFile, OnlyOf
  <2>4. OwnNumbers(c)
    BY <1>7, <2>1 DEF MountLoop, MountFile, OwnNumbers, OwnInv, UseInv, MadeInv,
       PlaceInv
  <2>5. OwnSteps(c)
    BY <1>7, <2>1 DEF MountLoop, MountFile, OwnSteps, Creating, Destroying
  <2>6. OwnInv(c)'
    BY <1>7, <2>1 DEF MountLoop, MountFile, OwnInv, PlaceInv, LeakInv, UseInv,
       LayerInv, OrphanInv, MadeInv, TakenInv, LiveInv, HasDisk
  <2> QED
    BY <2>2, <2>3, <2>4, <2>5, <2>6, OthersKeep, MeterKeeps DEF StepOf
<1>8. ASSUME NEW c \in Containers, GetMount(c)
      PROVE  DiskInv'
  <2>1. OwnInv(c) /\ up
    BY <1>8 DEF GetMount, At
  <2>2. ~live[c] /\ UNCHANGED meter
    BY <1>8, <2>1 DEF GetMount, At, OwnInv, LiveInv
  <2>3. OnlyOf(c)
    BY <1>8, <2>1 DEF GetMount, AufsGet, OnlyOf
  <2>4. OwnNumbers(c)
    BY <1>8, <2>1 DEF GetMount, AufsGet, OwnNumbers, OwnInv, UseInv, MadeInv, PlaceInv
  <2>5. OwnSteps(c)
    BY <1>8, <2>1 DEF GetMount, AufsGet, OwnSteps, Creating, Destroying
  <2>6. OwnInv(c)'
    BY <1>8, <2>1 DEF GetMount, AufsGet, OwnInv, PlaceInv, LeakInv, UseInv, LayerInv,
       OrphanInv, MadeInv, TakenInv, LiveInv, HasDisk
  <2> QED
    BY <2>2, <2>3, <2>4, <2>5, <2>6, OthersKeep, MeterKeeps DEF StepOf
<1>9. ASSUME NEW c \in Containers, UndoLoop(c)
      PROVE  DiskInv'
  <2>1. OwnInv(c) /\ up
    BY <1>9 DEF UndoLoop, At
  <2>2. ~live[c] /\ UNCHANGED meter
    BY <1>9, <2>1 DEF UndoLoop, At, OwnInv, LiveInv
  <2>3. OnlyOf(c)
    BY <1>9, <2>1 DEF UndoLoop, LoopUnmountOnce, Retried, OnlyOf
  <2>4. OwnNumbers(c)
    BY <1>9, <2>1, TriesAssumption DEF UndoLoop, LoopUnmountOnce, Retried, OwnNumbers,
       OwnInv, UseInv, MadeInv, PlaceInv
  <2>5. OwnSteps(c)
    BY <1>9, <2>1 DEF UndoLoop, LoopUnmountOnce, Retried, OwnSteps, Creating,
       Destroying
  <2>6. OwnInv(c)'
    BY <1>9, <2>1 DEF UndoLoop, LoopUnmountOnce, Retried, OwnInv, PlaceInv, LeakInv,
       UseInv, LayerInv, OrphanInv, MadeInv, TakenInv, LiveInv, HasDisk
  <2> QED
    BY <2>2, <2>3, <2>4, <2>5, <2>6, OthersKeep, MeterKeeps DEF StepOf
<1>10. ASSUME NEW c \in Containers, UndoFile(c)
       PROVE  DiskInv'
  <2>1. OwnInv(c) /\ up
    BY <1>10 DEF UndoFile, At
  <2>2. ~live[c] /\ UNCHANGED meter
    BY <1>10, <2>1 DEF UndoFile, At, OwnInv, LiveInv
  <2>3. OnlyOf(c)
    BY <1>10, <2>1 DEF UndoFile, BackingStoreDelete, NoFile, OnlyOf
  <2>4. OwnNumbers(c)
    BY <1>10, <2>1 DEF UndoFile, BackingStoreDelete, NoFile, OwnNumbers, OwnInv,
       UseInv, MadeInv, PlaceInv
  <2>5. OwnSteps(c)
    BY <1>10, <2>1 DEF UndoFile, BackingStoreDelete, NoFile, OwnSteps, Creating,
       Destroying
  <2>6. OwnInv(c)'
    BY <1>10, <2>1 DEF UndoFile, BackingStoreDelete, NoFile, OwnInv, PlaceInv,
       LeakInv, UseInv, LayerInv, OrphanInv, MadeInv, TakenInv, LiveInv, HasDisk
  <2> QED
    BY <2>2, <2>3, <2>4, <2>5, <2>6, OthersKeep, MeterKeeps DEF StepOf
<1>11. ASSUME NEW c \in Containers, CreateVolumes(c)
       PROVE  DiskInv'
  <2>1. OwnInv(c) /\ up
    BY <1>11 DEF CreateVolumes, At
  <2>2. ~live[c] /\ UNCHANGED meter
    BY <1>11, <2>1 DEF CreateVolumes, At, OwnInv, LiveInv
  <2>3. OnlyOf(c)
    BY <1>11, <2>1 DEF CreateVolumes, OnlyOf
  <2>4. OwnNumbers(c)
    BY <1>11, <2>1 DEF CreateVolumes, OwnNumbers, OwnInv, UseInv, MadeInv, PlaceInv
  <2>5. OwnSteps(c)
    BY <1>11, <2>1 DEF CreateVolumes, OwnSteps, Creating, Destroying
  <2>6. OwnInv(c)'
    BY <1>11, <2>1 DEF CreateVolumes, OwnInv, PlaceInv, LeakInv, UseInv, LayerInv,
       OrphanInv, MadeInv, TakenInv, LiveInv, HasDisk
  <2> QED
    BY <2>2, <2>3, <2>4, <2>5, <2>6, OthersKeep, MeterKeeps DEF StepOf
<1>12. ASSUME NEW c \in Containers, PutMount(c)
       PROVE  DiskInv'
  <2>1. OwnInv(c) /\ up
    BY <1>12 DEF PutMount, At
  <2>2. ~live[c] /\ UNCHANGED meter
    BY <1>12, <2>1 DEF PutMount, At, OwnInv, LiveInv
  <2>3. OnlyOf(c)
    BY <1>12, <2>1 DEF PutMount, AufsPut, Unmounted, OnlyOf
  <2>4. OwnNumbers(c)
    BY <1>12, <2>1 DEF PutMount, AufsPut, Unmounted, OwnNumbers, OwnInv, UseInv,
       MadeInv, PlaceInv
  <2>5. OwnSteps(c)
    BY <1>12, <2>1 DEF PutMount, AufsPut, Unmounted, OwnSteps, Creating, Destroying
  <2>6. OwnInv(c)'
    BY <1>12, <2>1 DEF PutMount, AufsPut, Unmounted, OwnInv, PlaceInv, LeakInv,
       UseInv, LayerInv, OrphanInv, MadeInv, TakenInv, LiveInv, HasDisk
  <2> QED
    BY <2>2, <2>3, <2>4, <2>5, <2>6, OthersKeep, MeterKeeps DEF StepOf
<1>13. ASSUME NEW c \in Containers, RetryUnmount(c)
       PROVE  DiskInv'
  <2>1. OwnInv(c) /\ up
    BY <1>13 DEF RetryUnmount, At
  <2>2. ~live[c] /\ UNCHANGED meter
    BY <1>13, <2>1 DEF RetryUnmount, At, OwnInv, LiveInv
  <2>3. OnlyOf(c)
    BY <1>13, <2>1 DEF RetryUnmount, UnmountOnce, Unmounted, Retried, OnlyOf
  <2>4. OwnNumbers(c)
    BY <1>13, <2>1, TriesAssumption DEF RetryUnmount, UnmountOnce, Unmounted, Retried,
       OwnNumbers, OwnInv, UseInv, MadeInv, PlaceInv
  <2>5. OwnSteps(c)
    BY <1>13, <2>1 DEF RetryUnmount, UnmountOnce, Unmounted, Retried, OwnSteps,
       Creating, Destroying
  <2>6. OwnInv(c)'
    BY <1>13, <2>1 DEF RetryUnmount, UnmountOnce, Unmounted, Retried, OwnInv,
       PlaceInv, LeakInv, UseInv, LayerInv, OrphanInv, MadeInv, TakenInv, LiveInv,
       HasDisk
  <2> QED
    BY <2>2, <2>3, <2>4, <2>5, <2>6, OthersKeep, MeterKeeps DEF StepOf
<1>14. ASSUME NEW c \in Containers, RetryLoopUnmount(c)
       PROVE  DiskInv'
  <2>1. OwnInv(c) /\ up
    BY <1>14 DEF RetryLoopUnmount, At
  <2>2. ~live[c] /\ UNCHANGED meter
    BY <1>14, <2>1 DEF RetryLoopUnmount, At, OwnInv, LiveInv
  <2>3. OnlyOf(c)
    BY <1>14, <2>1 DEF RetryLoopUnmount, LoopUnmountOnce, Retried, OnlyOf
  <2>4. OwnNumbers(c)
    BY <1>14, <2>1, TriesAssumption DEF RetryLoopUnmount, LoopUnmountOnce, Retried,
       OwnNumbers, OwnInv, UseInv, MadeInv, PlaceInv
  <2>5. OwnSteps(c)
    BY <1>14, <2>1 DEF RetryLoopUnmount, LoopUnmountOnce, Retried, OwnSteps, Creating,
       Destroying
  <2>6. OwnInv(c)'
    BY <1>14, <2>1 DEF RetryLoopUnmount, LoopUnmountOnce, Retried, OwnInv, PlaceInv,
       LeakInv, UseInv, LayerInv, OrphanInv, MadeInv, TakenInv, LiveInv, HasDisk
  <2> QED
    BY <2>2, <2>3, <2>4, <2>5, <2>6, OthersKeep, MeterKeeps DEF StepOf
<1>15. ASSUME NEW c \in Containers, DeleteBackingStore(c)
       PROVE  DiskInv'
  <2>1. OwnInv(c) /\ up
    BY <1>15 DEF DeleteBackingStore, At
  <2>2. ~live[c] /\ UNCHANGED meter
    BY <1>15, <2>1 DEF DeleteBackingStore, At, OwnInv, LiveInv
  <2>3. OnlyOf(c)
    BY <1>15, <2>1 DEF DeleteBackingStore, BackingStoreDelete, NoFile, OnlyOf
  <2>4. OwnNumbers(c)
    BY <1>15, <2>1 DEF DeleteBackingStore, BackingStoreDelete, NoFile, OwnNumbers,
       OwnInv, UseInv, MadeInv, PlaceInv
  <2>5. OwnSteps(c)
    BY <1>15, <2>1 DEF DeleteBackingStore, BackingStoreDelete, NoFile, OwnSteps,
       Creating, Destroying
  <2>6. OwnInv(c)'
    BY <1>15, <2>1 DEF DeleteBackingStore, BackingStoreDelete, NoFile, OwnInv,
       PlaceInv, LeakInv, UseInv, LayerInv, OrphanInv, MadeInv, TakenInv, LiveInv,
       HasDisk
  <2> QED
    BY <2>2, <2>3, <2>4, <2>5, <2>6, OthersKeep, MeterKeeps DEF StepOf
<1>16. ASSUME NEW c \in Containers, DeleteFromGraph(c)
       PROVE  DiskInv'
  <2>1. OwnInv(c) /\ up
    BY <1>16 DEF DeleteFromGraph, At
  <2>2. ~live[c] /\ UNCHANGED meter
    BY <1>16, <2>1 DEF DeleteFromGraph, At, OwnInv, LiveInv
  <2>3. OnlyOf(c)
    BY <1>16, <2>1 DEF DeleteFromGraph, OnlyOf
  <2>4. OwnNumbers(c)
    BY <1>16, <2>1 DEF DeleteFromGraph, OwnNumbers, OwnInv, UseInv, MadeInv, PlaceInv
  <2>5. OwnSteps(c)
    BY <1>16, <2>1 DEF DeleteFromGraph, OwnSteps, Creating, Destroying
  <2>6. OwnInv(c)'
    BY <1>16, <2>1 DEF DeleteFromGraph, OwnInv, PlaceInv, LeakInv, UseInv, LayerInv,
       OrphanInv, MadeInv, TakenInv, LiveInv, HasDisk
  <2> QED
    BY <2>2, <2>3, <2>4, <2>5, <2>6, OthersKeep, MeterKeeps DEF StepOf
<1>17. ASSUME NEW c \in Containers, RemoveFromDriver(c)
       PROVE  DiskInv'
  <2>1. OwnInv(c) /\ up
    BY <1>17 DEF RemoveFromDriver, At
  <2>2. ~live[c] /\ UNCHANGED meter
    BY <1>17, <2>1 DEF RemoveFromDriver, At, OwnInv, LiveInv
  <2>3. OnlyOf(c)
    BY <1>17, <2>1 DEF RemoveFromDriver, AufsRemove, Unmounted, OnlyOf
  <2>4. OwnNumbers(c)
    BY <1>17, <2>1 DEF RemoveFromDriver, AufsRemove, Unmounted, OwnNumbers, OwnInv,
       UseInv, MadeInv, PlaceInv
  <2>5. OwnSteps(c)
    BY <1>17, <2>1 DEF RemoveFromDriver, AufsRemove, Unmounted, OwnSteps, Creating,
       Destroying
  <2>6. OwnInv(c)'
    BY <1>17, <2>1 DEF RemoveFromDriver, AufsRemove, Unmounted, OwnInv, PlaceInv,
       LeakInv, UseInv, LayerInv, OrphanInv, MadeInv, TakenInv, LiveInv, HasDisk
  <2> QED
    BY <2>2, <2>3, <2>4, <2>5, <2>6, OthersKeep, MeterKeeps DEF StepOf
<1>18. ASSUME NEW c \in Containers, RemoveTrash(c)
       PROVE  DiskInv'
  <2>1. OwnInv(c) /\ up
    BY <1>18 DEF RemoveTrash, At
  <2>2. ~live[c] /\ UNCHANGED meter
    BY <1>18, <2>1 DEF RemoveTrash, At, OwnInv, LiveInv
  <2>3. OnlyOf(c)
    BY <1>18, <2>1 DEF RemoveTrash, OnlyOf
  <2>4. OwnNumbers(c)
    BY <1>18, <2>1 DEF RemoveTrash, OwnNumbers, OwnInv, UseInv, MadeInv, PlaceInv
  <2>5. OwnSteps(c)
    BY <1>18, <2>1 DEF RemoveTrash, OwnSteps, Creating, Destroying
  <2>6. OwnInv(c)'
    BY <1>18, <2>1 DEF RemoveTrash, OwnInv, PlaceInv, LeakInv, UseInv, LayerInv,
       OrphanInv, MadeInv, TakenInv, LiveInv, HasDisk
  <2> QED
    BY <2>2, <2>3, <2>4, <2>5, <2>6, OthersKeep, MeterKeeps DEF StepOf
<1>19. ASSUME NEW c \in Containers, Destroy(c)
       PROVE  DiskInv'
  <2>1. OwnInv(c) /\ up
    BY <1>19 DEF Destroy
  <2>2. /\ meter' \in [pc : {"idle"} \cup Metering, of : Containers, steady : BOOLEAN,
                       answer : {"none", "error", "own", "host", "zero"}]
        /\ meter'.of = meter.of
        /\ meter'.steady => meter.steady /\ meter.of # c
    BY <1>19 DEF Destroy
  <2>3. MeterInv'
    BY <1>19, <2>2 DEF Destroy, MeterInv
  <2>4. OnlyOf(c)
    BY <1>19, <2>1 DEF Destroy, OnlyOf
  <2>5. OwnNumbers(c) /\ OwnSteps(c)
    BY <1>19, <2>1 DEF Destroy, OwnNumbers, OwnSteps, Creating, Destroying
  <2>6. OwnInv(c)'
    BY <1>19, <2>1 DEF Destroy, OwnInv, PlaceInv, LeakInv, UseInv, LayerInv, OrphanInv,
       MadeInv, TakenInv, LiveInv, HasDisk
  <2> QED
    BY <2>2, <2>3, <2>4, <2>5, <2>6, OthersKeep DEF StepOf
<1>20. ASSUME NEW c \in Containers, Write(c)
       PROVE  DiskInv'
  <2>1. OwnInv(c)
    OBVIOUS
  <2>2. DriverTypeOK' /\ TypeOK'
    BY <1>20 DEF Write
  <2>3. UpInv' /\ MeterInv'
    BY <1>20 DEF Write, UpInv, MeterInv
  <2>4. OwnInv(c)'
    BY <1>20, <2>1 DEF Write, OwnInv, PlaceInv, LeakInv, UseInv, LayerInv, OrphanInv,
       MadeInv, TakenInv, LiveInv, HasDisk
  <2>5. ASSUME NEW d \in Containers \ {c}
        PROVE  OwnInv(d)'
    BY <1>20, <2>5 DEF Write, OwnInv, PlaceInv, LeakInv, UseInv, LayerInv, OrphanInv,
       MadeInv, TakenInv, LiveInv, HasDisk
  <2> QED
    BY <2>2, <2>3, <2>4, <2>5
<1>21. ASSUME NEW c \in Containers, Meter(c)
       PROVE  DiskInv'
  <2>1. MeterInv'
    BY <1>21 DEF Meter, MeterInv
  <2>2. TypeOK'
    BY <1>21 DEF Meter, Metering
  <2>3. UpInv'
    BY <1>21 DEF Meter, UpInv
  <2>4. ASSUME NEW d \in Containers PROVE OwnInv(d)'
    BY <1>21, <2>4 DEF Meter, OwnInv, PlaceInv, LeakInv, UseInv, LayerInv, OrphanInv,
       MadeInv, TakenInv, LiveInv, HasDisk
  <2> QED
    BY <2>1, <2>2, <2>3, <2>4
<1>22. CASE BaseSize \/ StatMount \/ DiffSize
  <2>1. UNCHANGED <<driverVars, callVars, dirs, index, image, lifeVars>>
    BY <1>22 DEF BaseSize, StatMount, DiffSize
  <2>2. /\ up
        /\ meter' \in [pc : {"idle"} \cup Metering, of : Containers, steady : BOOLEAN,
                       answer : {"none", "error", "own", "host", "zero"}]
        /\ meter'.of = meter.of /\ meter'.steady = meter.steady
    <3>1. CASE BaseSize
      BY <3>1 DEF BaseSize, Metering
    <3>2. CASE StatMount
      BY <3>2 DEF StatMount, Metering
    <3>3. CASE DiffSize
      <4>1. DiffSizeOf(meter.of) \in {"zero", "own", "host"}
        BY DEF DiffSizeOf
      <4> QED
        BY <3>3, <4>1 DEF DiffSize
    <3> QED
      BY <1>22, <3>1, <3>2, <3>3
  <2>3. MeterInv' /\ UpInv'
    BY <2>1, <2>2 DEF MeterInv, UpInv
  <2>4. TypeOK'
    BY <2>1, <2>2
  <2>5. ASSUME NEW d \in Containers PROVE OwnInv(d)'
    BY <2>1, <2>5 DEF OwnInv, PlaceInv, LeakInv, UseInv, LayerInv, OrphanInv, MadeInv,
       TakenInv, LiveInv, HasDisk
  <2> QED
    BY <2>3, <2>4, <2>5
<1>23. CASE CollectImage
  <2>1. TypeOK' /\ UpInv' /\ MeterInv'
    BY <1>23 DEF CollectImage, UpInv, MeterInv
  <2>2. ASSUME NEW d \in Containers PROVE OwnInv(d)'
    BY <1>23, <2>2 DEF CollectImage, OwnInv, PlaceInv, LeakInv, UseInv, LayerInv,
       OrphanInv, MadeInv, TakenInv, LiveInv, HasDisk
  <2> QED
    BY <2>1, <2>2
<1>24. CASE Crash \/ Reboot
  <2>1. Forget /\ (UNCHANGED <<loop, mnt, live>>
                   \/ /\ loop' = [c \in Containers |-> FALSE]
                      /\ mnt' = [c \in Containers |-> FALSE]
                      /\ live' = [c \in Containers |-> FALSE])
    BY <1>24 DEF Crash, Reboot
  <2>2. TypeOK'
    <3>1. loop' \in [Containers -> BOOLEAN] /\ mnt' \in [Containers -> BOOLEAN]
            /\ live' \in [Containers -> BOOLEAN]
      BY <2>1
    <3>2. /\ meter' \in [pc : {"idle"} \cup Metering, of : Containers, steady : BOOLEAN,
                         answer : {"none", "error", "own", "host", "zero"}]
          /\ up' \in BOOLEAN /\ orphans' \subseteq Containers
      BY <2>1 DEF Forget
    <3>3. active' \in [Containers -> 0..1] /\ crashes' \in 0..MaxCrashes
            /\ tries' \in [Containers -> 0..(MaxTries - 1)]
      BY <2>1, TriesAssumption DEF Forget
    <3> QED
      BY <2>1, <3>1, <3>2, <3>3 DEF Forget
  <2>3. UpInv' /\ MeterInv'
    BY <2>1 DEF Forget, UpInv, MeterInv
  <2>4. ASSUME NEW d \in Containers PROVE OwnInv(d)'
    BY <2>1, <2>4 DEF Forget, OwnInv, PlaceInv, LeakInv, UseInv, LayerInv, OrphanInv,
       MadeInv, TakenInv, LiveInv, HasDisk
  <2> QED
    BY <2>2, <2>3, <2>4
<1>25. CASE Wire
  <2>1. TypeOK' /\ UpInv' /\ MeterInv'
    BY <1>25 DEF Wire, UpInv, MeterInv
  <2>2. ASSUME NEW d \in Containers PROVE OwnInv(d)'
    <3>1. pc[d] = "idle" /\ OwnInv(d)
      BY <1>25, <2>2 DEF Wire, UpInv
    <3> QED
      BY <1>25, <2>2, <3>1 DEF Wire, OwnInv, PlaceInv, LeakInv, UseInv, LayerInv,
         OrphanInv, MadeInv, TakenInv, LiveInv, HasDisk
  <2> QED
    BY <2>1, <2>2
<1>26. CASE UNCHANGED vars
    BY <1>26 DEF vars, UpInv, MeterInv, OwnInv, PlaceInv, LeakInv, UseInv, LayerInv,
       OrphanInv, MadeInv, TakenInv, LiveInv, HasDisk
<1> QED
  BY <1>1, <1>2, <1>3, <1>4, <1>5, <1>6, <1>7, <1>8, <1>9, <1>10, <1>11, <1>12,
       <1>13, <1>14, <1>15, <1>16, <1>17, <1>18, <1>19, <1>20, <1>21, <1>22, <1>23,
       <1>24, <1>25, <1>26 DEF Next, Step

----------------------------------------------------------------------------
(***************************************************************************)
(* DiskInv holds throughout, crashes and reboots included.                 *)
(***************************************************************************)
THEOREM DiskInvHolds == Spec => []DiskInv
  BY InitDiskInv, NextDiskInv, PTL DEF Spec

(***************************************************************************)
(* The state keeps its types: a mount has at most one user, which docker   *)
(* counts in memory, although a crash forgets the count and leaves the     *)
(* mount, and the retrier stays below its limit (aufs.go 79-100).          *)
(***************************************************************************)
THEOREM TypesHold == Spec => []TypeOK
<1>1. DiskInv => TypeOK
  BY DEF DiskInv
<1> QED
  BY <1>1, DiskInvHolds, PTL

(***************************************************************************)
(* A container with a backing file, a loop mount or an aufs mount has both *)
(* what leads Destroy to it, now or after a restart: a directory in the    *)
(* graph and a layer in the driver.  Between two calls the index has just  *)
(* the containers that have both.  A layer or diff directory without a     *)
(* directory in the graph is only what a call in its step between the two  *)
(* is about to put right, or what a process has died over in that step     *)
(* (docker_drivers/aufs/aufs.go 47-100, docker's graph.go 280-436).        *)
(***************************************************************************)
THEOREM NothingEverLeaks == Spec => []NothingLeaks
<1>1. DiskInv => NothingLeaks
  BY DEF DiskInv, NothingLeaks, OwnInv, LeakInv, PlaceInv, LayerInv, OrphanInv
<1> QED
  BY <1>1, DiskInvHolds, PTL

(***************************************************************************)
(* A container the caller has is mounted, and its limit is the size of its *)
(* own disk (rootfs_provider/layer_creator.go, docker_drivers/aufs/aufs.go *)
(* 47-77).                                                                 *)
(***************************************************************************)
THEOREM LiveContainersHaveTheirDisk == Spec => []LiveHasItsDisk
<1>1. DiskInv => LiveHasItsDisk
  <2> SUFFICES ASSUME DiskInv, NEW c \in Containers, live[c]
               PROVE  /\ c \in dirs \cap layers /\ mnt[c]
                      /\ HasLimit(spec[c]) =>
                          /\ loop[c]
                          /\ file[c] + (IF spec[c].scope = "total" THEN spec[c].image ELSE 0)
                               = spec[c].size
    BY DEF LiveHasItsDisk
  <2>1. c \in dirs /\ c \in layers /\ mnt[c] /\ HasDisk(c)
    BY DEF DiskInv, OwnInv, LiveInv
  <2>2. spec[c] \in [size : Nat, scope : {"exclusive", "total"}, image : Nat]
    BY SpecType DEF DiskInv, TypeOK
  <2>3. DiskLimit(spec[c]) + (IF spec[c].scope = "total" THEN spec[c].image ELSE 0)
          = spec[c].size
    BY <2>2 DEF DiskLimit
  <2> QED
    BY <2>1, <2>3 DEF HasDisk
<1> QED
  BY <1>1, DiskInvHolds, PTL

(***************************************************************************)
(* A container starts with an empty layer, whatever an earlier container   *)
(* of the same handle left (docker's graph.go and aufs.go).                *)
(***************************************************************************)
THEOREM ContainersStartEmpty == Spec => []StartsEmpty
<1>1. DiskInv => StartsEmpty
  BY DEF DiskInv, StartsEmpty, OwnInv, LayerInv
<1> QED
  BY <1>1, DiskInvHolds, PTL

(***************************************************************************)
(* Metrics, which takes no lock, answers with a number for a container the *)
(* caller has when df runs only if it is that of the container's own disk  *)
(* (of the host's filesystem if it has none), Destroys and Creates of its  *)
(* handle since the call began included; and with an error for a container *)
(* that has been there throughout only if its image has been collected.    *)
(* It says nothing of a df that runs once a Destroy has begun, which may   *)
(* measure the host's filesystem (aufs_quota_manager.go 39-54,             *)
(* aufs_base_sizer.go 23-45).                                              *)
(***************************************************************************)
THEOREM MetricsAreOfTheDisk == Spec => MetersItsDisk
<1> DEFINE Answers ==
       (meter.answer = "none" /\ meter'.answer # "none") =>
         /\ (live[meter.of] /\ meter'.answer # "error") =>
               meter'.answer = IF HasLimit(spec[meter.of]) THEN "own" ELSE "host"
         /\ (meter.steady /\ meter'.answer = "error") => ~image
<1>1. DiskInv /\ [Next]_vars => [Answers]_vars
  <2> SUFFICES ASSUME DiskInv, Next, meter.answer = "none", meter'.answer # "none"
               PROVE  /\ (live[meter.of] /\ meter'.answer # "error") =>
                            meter'.answer = IF HasLimit(spec[meter.of]) THEN "own" ELSE "host"
                      /\ (meter.steady /\ meter'.answer = "error") => ~image
    BY DEF Answers
  <2>1. meter \in [pc : {"idle"} \cup Metering, of : Containers, steady : BOOLEAN,
                   answer : {"none", "error", "own", "host", "zero"}]
    BY DEF DiskInv, TypeOK
  <2>2. BaseSize \/ StatMount \/ DiffSize
    <3>1. ASSUME NEW c \in Containers, NEW s \in Specs, Create(c, s)
          PROVE  FALSE
      BY <3>1 DEF Create
    <3>2. ASSUME NEW c \in Containers, Destroy(c) \/ Step(c) \/ Meter(c) \/ Write(c)
          PROVE  FALSE
      <4>1. CASE Destroy(c)
        BY <2>1, <4>1 DEF Destroy
      <4>2. CASE Step(c)
        BY <4>2 DEF Step, CleanDriver, CreateInDriver, StoreImage, ChoosePath, CreateBackingStore,
           MountLoop, GetMount, UndoLoop, UndoFile, CreateVolumes, PutMount, RetryUnmount,
           RetryLoopUnmount, DeleteBackingStore, DeleteFromGraph, RemoveFromDriver, RemoveTrash
      <4>3. CASE Meter(c)
        BY <4>3 DEF Meter
      <4>4. CASE Write(c)
        BY <4>4 DEF Write
      <4> QED
        BY <3>2, <4>1, <4>2, <4>3, <4>4
    <3>3. ~CollectImage /\ ~Wire
      BY DEF CollectImage, Wire
    <3>4. ~Crash /\ ~Reboot
      BY <2>1 DEF Crash, Reboot, Forget
    <3> QED
      BY <3>1, <3>2, <3>3, <3>4 DEF Next
  <2>3. OwnInv(meter.of) /\ (meter.steady => live[meter.of])
    BY <2>1 DEF DiskInv, MeterInv
  <2>4. live[meter.of] => /\ diff[meter.of] # "absent"
                          /\ loop[meter.of] <=> HasLimit(spec[meter.of])
                          /\ up => meter.of \in index
    BY <2>3 DEF OwnInv, LiveInv, HasDisk, LayerInv, PlaceInv
  <2>5. CASE BaseSize
    BY <2>1, <2>3, <2>4, <2>5 DEF BaseSize
  <2>6. CASE StatMount
    BY <2>1, <2>3, <2>4, <2>6 DEF StatMount
  <2>7. CASE DiffSize
    <3>1. meter'.answer = DiffSizeOf(meter.of)
      BY <2>1, <2>7 DEF DiffSize
    <3> QED
      BY <3>1, <2>3, <2>4 DEF DiffSizeOf
  <2> QED
    BY <2>2, <2>5, <2>6, <2>7
<1> QED
  BY <1>1, DiskInvHolds, PTL DEF Spec, MetersItsDisk
=============================================================================
