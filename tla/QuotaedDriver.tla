--------------------------- MODULE QuotaedDriver ---------------------------
(***************************************************************************)
(* The graph driver that gives a container a disk of its own              *)
(* (docker_drivers/aufs): a backing file of the size of the quota, with a  *)
(* filesystem in it, loop-mounted on the container's diff directory, under *)
(* the aufs mount of docker's driver.                                      *)
(*                                                                         *)
(* The driver keeps no state but docker's count of users of a mount: all   *)
(* the rest is on the host, survives the process, and is found again by    *)
(* path.  Every operator below is what one call does to the host, as a     *)
(* relation that holds with ok = TRUE for the calls that succeed and with  *)
(* ok = FALSE for the ones that return an error.                           *)
(***************************************************************************)
EXTENDS Integers, FiniteSets

CONSTANTS
    Containers,   \* handles of the containers
    Faults        \* what goes wrong on the host by itself

ASSUME FaultsAssumption == Faults \subseteq {"mkfs", "mount", "busy", "rm", "store"}

VARIABLES
    file,     \* file[c]: the backing file, and the size of the filesystem in it
    loop,     \* loop[c]: the backing file is mounted on the diff directory
    mnt,      \* mnt[c]: the aufs mount is there
    active,   \* active[c]: docker's in-memory count of users of the mount
    layers,   \* the containers the aufs driver has a "layers" file for
    diff      \* diff[c]: the directory under the loop mount, if any

hostVars == <<file, loop, mnt, layers, diff>>
driverVars == <<hostVars, active>>

NoFile == -1
Unformatted == 0    \* created, possibly truncated, without a filesystem

DriverTypeOK ==
    /\ file \in [Containers -> Nat \cup {NoFile}]
    /\ loop \in [Containers -> BOOLEAN]
    /\ mnt \in [Containers -> BOOLEAN]
    /\ active \in [Containers -> 0..1]
    /\ layers \subseteq Containers
    /\ diff \in [Containers -> {"absent", "empty", "written"}]

DriverInit ==
    /\ file = [c \in Containers |-> NoFile]
    /\ loop = [c \in Containers |-> FALSE]
    /\ mnt = [c \in Containers |-> FALSE]
    /\ active = [c \in Containers |-> 0]
    /\ layers = {}
    /\ diff = [c \in Containers |-> "absent"]

----------------------------------------------------------------------------
(* The backing store. *)

\* Create makes (or truncates) the file before it looks at the quota, so every
\* error but the first leaves a file without a filesystem behind.
BackingStoreCreate(c, quota, ok) ==
    /\ \/ ok /\ quota > 0 /\ file' = [file EXCEPT ![c] = quota]
       \/ ~ok /\ (quota <= 0 \/ "mkfs" \in Faults) /\ file' = [file EXCEPT ![c] = Unformatted]
       \/ ~ok /\ "mkfs" \in Faults /\ UNCHANGED file
    /\ UNCHANGED <<loop, mnt, active, layers, diff>>

\* RemoveAll of a file that is not there is no error.
BackingStoreDelete(c, ok) ==
    /\ \/ ok /\ file' = [file EXCEPT ![c] = NoFile]
       \/ ~ok /\ "rm" \in Faults /\ UNCHANGED file
    /\ UNCHANGED <<loop, mnt, active, layers, diff>>

(* The loop device. *)

MountFile(c, ok) ==
    /\ \/ ok /\ file[c] > 0 /\ loop' = [loop EXCEPT ![c] = TRUE]
       \/ ~ok /\ "mount" \in Faults /\ UNCHANGED loop
    /\ UNCHANGED <<file, mnt, active, layers, diff>>

\* Mutant: umount's error is returned without asking whether it is a mountpoint.
LoopUnmountOnlyMounted(c, ok) ==
    /\ \/ ok /\ loop[c] /\ ~mnt[c] /\ loop' = [loop EXCEPT ![c] = FALSE]
       \/ ~ok /\ (~loop[c] \/ mnt[c] \/ "busy" \in Faults) /\ UNCHANGED loop
    /\ UNCHANGED <<file, mnt, active, layers, diff>>

\* One attempt of Loop.Unmount: the loop mount is busy as long as the aufs
\* mount is on top of it; a path that is no mountpoint is fine.
LoopUnmountOnce(c, ok) ==
    /\ \/ ok /\ (loop[c] => ~mnt[c]) /\ loop' = [loop EXCEPT ![c] = FALSE]
       \/ ~ok /\ loop[c] /\ (mnt[c] \/ "busy" \in Faults) /\ UNCHANGED loop
    /\ UNCHANGED <<file, mnt, active, layers, diff>>

(* Docker's aufs driver. *)

\* Get mounts unless somebody already uses the mount or it is already there.
AufsGet(c, ok) ==
    /\ \/ /\ ok
          /\ mnt' = [mnt EXCEPT ![c] = @ \/ active[c] = 0]
          /\ active' = [active EXCEPT ![c] = @ + 1]
       \/ ~ok /\ active[c] = 0 /\ ~mnt[c] /\ "mount" \in Faults /\ UNCHANGED <<mnt, active>>
    /\ UNCHANGED <<file, loop, layers, diff>>

\* The outcomes of an attempt to unmount what is mounted or not.
Unmounted(c, ok) ==
    \/ ok /\ mnt' = [mnt EXCEPT ![c] = FALSE]
    \/ ~ok /\ mnt[c] /\ "busy" \in Faults /\ UNCHANGED mnt

\* Put unmounts for the last user (the error is lost); its caller ignores its
\* result as well.
AufsPut(c) ==
    /\ IF active[c] > 1
       THEN active' = [active EXCEPT ![c] = @ - 1] /\ UNCHANGED mnt
       ELSE /\ active' = [active EXCEPT ![c] = 0]
            /\ IF c \in layers THEN \E ok \in BOOLEAN : Unmounted(c, ok) ELSE UNCHANGED mnt
    /\ UNCHANGED <<file, loop, layers, diff>>

\* One attempt of Unmount(mntPath).
UnmountOnce(c, ok) ==
    /\ Unmounted(c, ok)
    /\ UNCHANGED <<file, loop, active, layers, diff>>

\* Create makes the missing directories and keeps the ones it finds.
AufsCreate(c) ==
    /\ layers' = layers \cup {c}
    /\ diff' = [diff EXCEPT ![c] = IF @ = "absent" THEN "empty" ELSE @]
    /\ UNCHANGED <<file, loop, mnt, active>>

\* Remove gives up when the mount is busy, or when the diff directory cannot be
\* renamed because something is mounted on it; its callers ignore the error.
AufsRemove(c) ==
    /\ \E ok \in BOOLEAN :
        /\ Unmounted(c, ok)
        /\ IF ok /\ ~loop[c]
           THEN layers' = layers \ {c} /\ diff' = [diff EXCEPT ![c] = "absent"]
           ELSE UNCHANGED <<layers, diff>>
    /\ UNCHANGED <<file, loop, active>>

=============================================================================
