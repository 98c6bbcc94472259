--------------------------- MODULE ContainerDisk ---------------------------
(***************************************************************************)
(* The life of a container's disk: ContainerLayerCreator.Create registers  *)
(* its layer in docker's graph and asks the quotaed driver for a path,     *)
(* CakeOrdinator.Destroy takes everything down again, and Metrics measures *)
(* it at any time, without a lock.  The process may die between any two    *)
(* steps and be wired again over what it left on the host; the host may    *)
(* reboot, which also takes the mounts away.                               *)
(*                                                                         *)
(* What the caller (guardian) keeps to: a handle is created only when it   *)
(* has no layer, destroyed only after its creation has returned, and one   *)
(* call at a time is made for it.                                          *)
(***************************************************************************)
EXTENDS QuotaedDriver

CONSTANTS
    Specs,        \* the disk limits containers are made with, and their images' sizes
    MaxTries,     \* attempts of the retrier before it gives up
    MaxCrashes    \* bound: how often the process dies

ASSUME SpecsAssumption ==
    /\ Specs # {} /\ Containers # {}
    /\ Specs \subseteq [size : Nat, scope : {"exclusive", "total"}, image : Nat]
ASSUME TriesAssumption == MaxTries \in Nat \ {0} /\ MaxCrashes \in Nat

VARIABLES
    dirs,      \* graph/<id> directories, on disk
    index,     \* the graph's idIndex, in memory
    image,     \* the parent image is in the graph
    pc,        \* where the call made for the container is
    spec,      \* the disk limit it was created with
    tries,     \* attempts the retrier has made
    live,      \* the caller has the rootfs of the container
    up,        \* the process is running
    crashes,
    orphans,   \* history: whose driver layer a process that died has left
               \* without a directory in the graph
    meter      \* the call of Metrics under way, and its answer

callVars == <<pc, spec, tries, live>>
lifeVars == <<up, crashes, orphans>>
vars == <<driverVars, callVars, dirs, index, image, lifeVars, meter>>

Creating == {"clean", "create", "store", "path", "backing", "loop", "get",
             "undoLoop", "undoFile", "volumes"}
Destroying == {"put", "unmount", "unloop", "file", "graph", "driver", "trash"}
Metering == {"base", "parent", "stat", "df"}

TypeOK ==
    /\ DriverTypeOK
    /\ dirs \subseteq Containers
    /\ index \subseteq Containers
    /\ image \in BOOLEAN
    /\ pc \in [Containers -> {"idle"} \cup Creating \cup Destroying]
    /\ spec \in [Containers -> Specs]
    /\ tries \in [Containers -> 0..(MaxTries - 1)]
    /\ live \in [Containers -> BOOLEAN]
    /\ up \in BOOLEAN
    /\ crashes \in 0..MaxCrashes
    /\ orphans \subseteq Containers
    /\ meter \in [pc : {"idle"} \cup Metering, of : Containers, steady : BOOLEAN,
                  answer : {"none", "error", "own", "host", "zero"}]

Init ==
    /\ DriverInit
    /\ dirs = {} /\ index = {} /\ image = TRUE
    /\ pc = [c \in Containers |-> "idle"]
    /\ spec \in [Containers -> {CHOOSE s \in Specs : TRUE}]
    /\ tries = [c \in Containers |-> 0]
    /\ live = [c \in Containers |-> FALSE]
    /\ up = TRUE /\ crashes = 0 /\ orphans = {}
    /\ meter = [pc |-> "idle", of |-> CHOOSE c \in Containers : TRUE,
                steady |-> FALSE, answer |-> "none"]

At(c, here) == up /\ pc[c] = here
Goto(c, there) == pc' = [pc EXCEPT ![c] = there]

----------------------------------------------------------------------------
(* Creating: docker's Graph.Register, then the path. *)

\* The image has been fetched.  register has seen that the graph does not have
\* the id, and removes what an earlier process may have left of it, on disk and
\* in the driver; if the directory cannot be removed, that is all it does.
Create(c, s) ==
    /\ up /\ pc[c] = "idle" /\ c \notin index
    /\ spec' = [spec EXCEPT ![c] = s]
    /\ image' = TRUE
    /\ \/ dirs' = dirs \ {c} /\ Goto(c, "clean") /\ UNCHANGED driverVars
       \/ "rm" \in Faults /\ c \in dirs /\ AufsRemove(c) /\ UNCHANGED <<dirs, pc>>
    /\ UNCHANGED <<index, tries, live, lifeVars, meter>>

\* Mutant: register trusts that the driver has nothing of the id.
CleanNothing(c) ==
    /\ At(c, "clean") /\ Goto(c, "create")
    /\ UNCHANGED <<driverVars, spec, tries, live, dirs, index, image, lifeVars, meter>>

CleanDriver(c) ==
    /\ At(c, "clean") /\ AufsRemove(c) /\ Goto(c, "create")
    /\ orphans' = orphans \ {c}
    /\ UNCHANGED <<spec, tries, live, dirs, index, image, up, crashes, meter>>

\* An error here, or in making the directory for the metadata, removes from the
\* driver what is there.
CreateInDriver(c) ==
    /\ At(c, "create")
    /\ \/ AufsCreate(c) /\ Goto(c, "store")
       \/ "store" \in Faults /\ AufsRemove(c) /\ Goto(c, "idle")
    /\ UNCHANGED <<spec, tries, live, dirs, index, image, lifeVars, meter>>

\* The metadata is written beside and renamed into place; an error removes the
\* layer from the driver.
StoreImage(c) ==
    /\ At(c, "store")
    /\ \/ /\ dirs' = dirs \cup {c} /\ index' = index \cup {c}
          /\ Goto(c, "path") /\ UNCHANGED driverVars
       \/ /\ "store" \in Faults
          /\ AufsRemove(c) /\ Goto(c, "idle") /\ UNCHANGED <<dirs, index>>
    /\ UNCHANGED <<spec, tries, live, image, lifeVars, meter>>

\* The size of the container's own disk; with none it is mounted without one.
HasLimit(s) == s.size > 0

\* Mutant: the size of the image is forgotten.
WholeLimit(s) == s.size

DiskLimit(s) == IF s.scope = "exclusive" THEN s.size ELSE s.size - s.image

\* Docker.Path tries the plain mount five times; a try that fails changes nothing.
ChoosePath(c) ==
    /\ At(c, "path")
    /\ \/ HasLimit(spec[c]) /\ Goto(c, "backing") /\ UNCHANGED driverVars
       \/ /\ ~HasLimit(spec[c])
          /\ \E ok \in BOOLEAN :
                AufsGet(c, ok) /\ Goto(c, IF ok THEN "volumes" ELSE "idle")
    /\ UNCHANGED <<spec, tries, live, dirs, index, image, lifeVars, meter>>

CreateBackingStore(c) ==
    /\ At(c, "backing")
    /\ \E ok \in BOOLEAN :
        BackingStoreCreate(c, DiskLimit(spec[c]), ok) /\ Goto(c, IF ok THEN "loop" ELSE "idle")
    /\ UNCHANGED <<spec, tries, live, dirs, index, image, lifeVars, meter>>

MountLoop(c) ==
    /\ At(c, "loop")
    /\ \E ok \in BOOLEAN : MountFile(c, ok) /\ Goto(c, IF ok THEN "get" ELSE "undoFile")
    /\ UNCHANGED <<spec, tries, live, dirs, index, image, lifeVars, meter>>

GetMount(c) ==
    /\ At(c, "get")
    /\ \E ok \in BOOLEAN : AufsGet(c, ok) /\ Goto(c, IF ok THEN "volumes" ELSE "undoLoop")
    /\ UNCHANGED <<spec, tries, live, dirs, index, image, lifeVars, meter>>

\* Mutant: one attempt too many.
RetriedOnceMore(c, ok, success, failure) ==
    IF ok \/ tries[c] = MaxTries
    THEN /\ tries' = [tries EXCEPT ![c] = 0]
         /\ Goto(c, IF ok THEN success ELSE failure)
    ELSE /\ tries' = [tries EXCEPT ![c] = @ + 1]
         /\ UNCHANGED pc

\* The retrier: again after an error, until MaxTries.
Retried(c, ok, success, failure) ==
    IF ok \/ tries[c] + 1 = MaxTries
    THEN /\ tries' = [tries EXCEPT ![c] = 0]
         /\ Goto(c, IF ok THEN success ELSE failure)
    ELSE /\ tries' = [tries EXCEPT ![c] = @ + 1]
         /\ UNCHANGED pc

\* After a failed Get the loop mount is taken down; the file is deleted even if
\* that fails, and an error of either is only logged.
UndoLoop(c) ==
    /\ At(c, "undoLoop")
    /\ \E ok \in BOOLEAN : LoopUnmountOnce(c, ok) /\ Retried(c, ok, "undoFile", "undoFile")
    /\ UNCHANGED <<spec, live, dirs, index, image, lifeVars, meter>>

UndoFile(c) ==
    /\ At(c, "undoFile")
    /\ \E ok \in BOOLEAN : BackingStoreDelete(c, ok)
    /\ Goto(c, "idle")
    /\ UNCHANGED <<spec, tries, live, dirs, index, image, lifeVars, meter>>

\* A volume whose path is a file in the image, or cannot be made, is an error;
\* nothing is taken down then.
CreateVolumes(c) ==
    /\ At(c, "volumes")
    /\ live' \in {live, [live EXCEPT ![c] = TRUE]}
    /\ Goto(c, "idle")
    /\ UNCHANGED <<driverVars, spec, tries, dirs, index, image, lifeVars, meter>>

----------------------------------------------------------------------------
(* Destroying: Docker.Remove is QuotaedDriver.Put, then Graph.Delete. *)

\* A layer that is not in the graph is taken for deleted already.
Destroy(c) ==
    /\ up /\ pc[c] = "idle" /\ c \in index
    /\ Goto(c, "put")
    /\ live' = [live EXCEPT ![c] = FALSE]
    /\ meter' = [meter EXCEPT !.steady = @ /\ meter.of # c]
    /\ UNCHANGED <<driverVars, spec, tries, dirs, index, image, lifeVars>>

PutMount(c) ==
    /\ At(c, "put") /\ AufsPut(c) /\ Goto(c, "unmount")
    /\ UNCHANGED <<spec, tries, live, dirs, index, image, lifeVars, meter>>

RetryUnmount(c) ==
    /\ At(c, "unmount")
    /\ \E ok \in BOOLEAN : UnmountOnce(c, ok) /\ Retried(c, ok, "unloop", "idle")
    /\ UNCHANGED <<spec, live, dirs, index, image, lifeVars, meter>>

RetryLoopUnmount(c) ==
    /\ At(c, "unloop")
    /\ \E ok \in BOOLEAN : LoopUnmountOnce(c, ok) /\ Retried(c, ok, "file", "idle")
    /\ UNCHANGED <<spec, live, dirs, index, image, lifeVars, meter>>

\* Mutant: Remove goes on to the graph after a failed Put.
DeleteAndGoOn(c) ==
    /\ At(c, "file")
    /\ \E ok \in BOOLEAN : BackingStoreDelete(c, ok) /\ Goto(c, "graph")
    /\ UNCHANGED <<spec, tries, live, dirs, index, image, lifeVars, meter>>

DeleteBackingStore(c) ==
    /\ At(c, "file")
    /\ \E ok \in BOOLEAN : BackingStoreDelete(c, ok) /\ Goto(c, IF ok THEN "graph" ELSE "idle")
    /\ UNCHANGED <<spec, tries, live, dirs, index, image, lifeVars, meter>>

\* The directory is moved away before the driver is asked to remove the layer;
\* if it cannot be, it is removed where it is, and after that.
DeleteFromGraph(c) ==
    /\ At(c, "graph")
    /\ index' = index \ {c}
    /\ \/ dirs' = dirs \ {c}
       \/ "store" \in Faults /\ UNCHANGED dirs
    /\ Goto(c, "driver")
    /\ UNCHANGED <<driverVars, spec, tries, live, image, lifeVars, meter>>

RemoveFromDriver(c) ==
    /\ At(c, "driver") /\ AufsRemove(c) /\ Goto(c, "trash")
    /\ UNCHANGED <<spec, tries, live, dirs, index, image, lifeVars, meter>>

\* What has been moved away is trash, whether it can be removed or not.
RemoveTrash(c) ==
    /\ At(c, "trash")
    /\ \/ dirs' = dirs \ {c}
       \/ "rm" \in Faults /\ UNCHANGED dirs
    /\ Goto(c, "idle")
    /\ UNCHANGED <<driverVars, spec, tries, live, index, image, lifeVars, meter>>

----------------------------------------------------------------------------
(* Measuring: AUFSQuotaManager.GetUsage, which takes no lock. *)

Meter(c) ==
    /\ up /\ meter.pc = "idle"
    /\ meter' = [pc |-> "base", of |-> c, steady |-> live[c], answer |-> "none"]
    /\ UNCHANGED <<driverVars, callVars, dirs, index, image, lifeVars>>

\* BaseSize asks the graph for the container and then for its parents.
BaseSize ==
    /\ up /\ meter.pc \in {"base", "parent"}
    /\ LET found == IF meter.pc = "base" THEN meter.of \in index ELSE image
           next == IF meter.pc = "base" THEN "parent" ELSE "stat"
       IN  meter' = IF found THEN [meter EXCEPT !.pc = next]
                    ELSE [meter EXCEPT !.pc = "idle", !.answer = "error"]
    /\ UNCHANGED <<driverVars, callVars, dirs, index, image, lifeVars>>

\* The directory of the mount is there as long as the diff directory.
StatMount ==
    /\ up /\ meter.pc = "stat"
    /\ meter' = IF diff[meter.of] # "absent" THEN [meter EXCEPT !.pc = "df"]
                ELSE [meter EXCEPT !.pc = "idle", !.answer = "error"]
    /\ UNCHANGED <<driverVars, callVars, dirs, index, image, lifeVars>>

\* df of the diff path measures the filesystem the path is on; what it says of
\* a path that is not there is no number, which counts as zero.
\* Mutant: df of the host's directory of backing stores.
DiffSizeOfHost(c) == IF diff[c] = "absent" THEN "zero" ELSE "host"

DiffSizeOf(c) ==
    IF diff[c] = "absent" THEN "zero" ELSE IF loop[c] THEN "own" ELSE "host"

DiffSize ==
    /\ up /\ meter.pc = "df"
    /\ meter' = [meter EXCEPT !.pc = "idle", !.answer = DiffSizeOf(meter.of)]
    /\ UNCHANGED <<driverVars, callVars, dirs, index, image, lifeVars>>

----------------------------------------------------------------------------
(* The environment. *)

\* What the container writes goes into its own disk, or under it.
Write(c) ==
    /\ live[c] /\ ~loop[c] /\ mnt[c]
    /\ diff' = [diff EXCEPT ![c] = "written"]
    /\ UNCHANGED <<file, loop, mnt, active, layers, callVars, dirs, index, image, lifeVars, meter>>

\* A garbage collection waits for the creations under way.  It may take an image
\* for a leaf although a container is on it: the Destroy of another container
\* can cut its walk short (run cake_leaf_race).
CollectImage ==
    /\ up /\ image
    /\ \A c \in Containers : pc[c] \notin Creating
    /\ image' = FALSE
    /\ UNCHANGED <<driverVars, callVars, dirs, index, lifeVars, meter>>

\* The memory of the process: calls, counts, index.
Forget ==
    /\ up' = FALSE /\ index' = {}
    /\ active' = [c \in Containers |-> 0]
    /\ pc' = [c \in Containers |-> "idle"]
    /\ tries' = [c \in Containers |-> 0]
    /\ meter' = [meter EXCEPT !.pc = "idle", !.steady = FALSE, !.answer = "none"]
    /\ crashes < MaxCrashes /\ crashes' = crashes + 1
    /\ orphans' = orphans \cup ({c \in Containers : pc[c] \in {"store", "driver"}} \ dirs)
    /\ UNCHANGED <<file, layers, diff, dirs, image, spec>>

Crash == up /\ Forget /\ UNCHANGED <<loop, mnt, live>>

\* A reboot takes the mounts, and the containers running on them, away too.
Reboot ==
    /\ up /\ Forget
    /\ loop' = [c \in Containers |-> FALSE]
    /\ mnt' = [c \in Containers |-> FALSE]
    /\ live' = [c \in Containers |-> FALSE]

\* Wire builds the graph over the directory: restore indexes the directories
\* whose layer the driver knows.
Wire ==
    /\ ~up /\ up' = TRUE
    /\ index' = dirs \cap layers
    /\ UNCHANGED <<driverVars, callVars, dirs, image, crashes, orphans, meter>>

Step(c) ==
    \/ CleanDriver(c) \/ CreateInDriver(c) \/ StoreImage(c) \/ ChoosePath(c)
    \/ CreateBackingStore(c) \/ MountLoop(c) \/ GetMount(c) \/ UndoLoop(c)
    \/ UndoFile(c) \/ CreateVolumes(c)
    \/ PutMount(c) \/ RetryUnmount(c) \/ RetryLoopUnmount(c)
    \/ DeleteBackingStore(c) \/ DeleteFromGraph(c) \/ RemoveFromDriver(c) \/ RemoveTrash(c)

Next ==
    \/ \E c \in Containers :
        \/ \E s \in Specs : Create(c, s)
        \/ Destroy(c) \/ Step(c) \/ Meter(c) \/ Write(c)
    \/ BaseSize \/ StatMount \/ DiffSize
    \/ CollectImage \/ Crash \/ Reboot \/ Wire

\* Calls go on, the process is started again, and the caller destroys what it
\* does not have (a failed creation, a failed destruction, a reboot); what is
\* busy, or cannot be deleted, is not so for ever.
Fairness ==
    /\ WF_vars(Wire)
    /\ \A c \in Containers :
        /\ WF_vars(Step(c)) /\ WF_vars(~live[c] /\ Destroy(c))
        /\ SF_vars(RetryUnmount(c) /\ pc'[c] = "unloop")
        /\ SF_vars(RetryLoopUnmount(c) /\ pc'[c] = "file")
        /\ SF_vars(DeleteBackingStore(c) /\ pc'[c] = "graph")

Spec == Init /\ [][Next]_vars
FairSpec == Spec /\ Fairness

----------------------------------------------------------------------------
(* Properties. *)

\* A Destroy finds a container by the index, which the next process restores
\* from the containers that have both a directory and a layer in the driver.
\* A container it does not find has no backing file and no mount on the host:
\* nothing is made before the two are there, and they go only after what
\* GetQuotaed made is undone.  Nor has it a layer or a diff directory in the
\* driver without a directory in the graph, unless a process has died between
\* the driver's step and the graph's: those stay until the handle is used again.
NothingLeaks ==
    \A c \in Containers :
        /\ c \notin dirs \cap layers => file[c] = NoFile /\ ~loop[c] /\ ~mnt[c]
        /\ (up /\ pc[c] = "idle") => (c \in index <=> c \in dirs \cap layers)
        /\ (c \in layers \/ diff[c] # "absent") =>
              c \in dirs \cup orphans \/ pc[c] \in {"store", "driver"}

\* The rootfs the caller has been given is mounted, and if a limit was asked
\* for, on a filesystem of just that size, which in the "total" scope is what
\* the image leaves of it.
LiveHasItsDisk ==
    \A c \in Containers : live[c] =>
        /\ c \in dirs \cap layers /\ mnt[c]
        /\ HasLimit(spec[c]) =>
            /\ loop[c]
            /\ file[c] + (IF spec[c].scope = "total" THEN spec[c].image ELSE 0) = spec[c].size

\* A container starts with an empty layer: what an earlier container with the
\* same handle wrote is gone, although docker's driver keeps the directories it
\* finds, and the errors of its removals are ignored.
StartsEmpty ==
    \A c \in Containers : pc[c] = "volumes" => loop[c] \/ diff[c] = "empty"

\* Metrics, which takes no lock, answers with the usage of the container's own
\* disk, or of the host's filesystem if the container has none, whenever the
\* caller has the container at the moment of the df, whatever was destroyed or
\* created under its handle since the call began.  (Once a Destroy has begun, df
\* may measure the host's filesystem, or nothing.)  It fails for a container
\* that was there throughout only when the collector has taken its image.
MetersItsDisk ==
    [][(meter.answer = "none" /\ meter'.answer # "none") =>
        /\ (live[meter.of] /\ meter'.answer # "error") =>
              meter'.answer = IF HasLimit(spec[meter.of]) THEN "own" ELSE "host"
        /\ (meter.steady /\ meter'.answer = "error") => ~image]_vars

\* Of a container nobody has, nothing is left on the host in the end, whatever
\* its creation or an earlier Destroy left of it: Destroy can be repeated from
\* each of the points where Put gives up.  (See NothingLeaks for orphans.)
Reclaimed ==
    \A c \in Containers :
        (~live[c] /\ pc[c] = "idle" /\ c \in dirs \cap layers) ~>
            /\ file[c] = NoFile /\ ~loop[c] /\ ~mnt[c]
            /\ c \in orphans \/ (c \notin layers /\ diff[c] = "absent")
=============================================================================
