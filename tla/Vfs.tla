-------------------------------- MODULE Vfs --------------------------------
(***************************************************************************)
(* Superblocks and mounts of vfs.c: mounting, references, operations on    *)
(* nodes and on open files, the clean unmount of one or several devices,   *)
(* and the physical removal of a device.                                   *)
(*                                                                         *)
(* On one CPU a system call is interrupted only where it sleeps: in the    *)
(* driver's mount, in a filesystem operation under operation_lock, in the  *)
(* wait for that lock and in the sync of an unmount.  vfs_mount_lock is    *)
(* held through a mount and an unmount.  A thread knows at most one node   *)
(* and has at most one open file; a device has one identity for ever.      *)
(***************************************************************************)
EXTENDS Naturals, FiniteSets

CONSTANTS
    VfsThread,
    Super,        \* superblocks that are ever allocated
    NoSuper,      \* NULL, and the dead_super sentinel of retargeted nodes
    VolumeDevice, \* block devices, one identity each
    VolumePath,   \* mount points of volumes
    MountSlots    \* VFS_MAX_MOUNTS without the root

ASSUME VfsAssumption == NoSuper \notin Super /\ MountSlots \in Nat \ {0}

VARIABLES
    sb,        \* [Super -> [state, refs, dev, at]]; at is the mount point or "" when detached
    devices,   \* [live, removing, dying]: removing is gone, but vfs_device_removed() is still to
               \* come; dying are the superblocks that function is about to dispose of
    op,        \* what a thread is doing: [pc, sb, set]
    known,     \* the superblock of the node a thread has looked up
    file,      \* the superblock of a thread's open file
    cwd,       \* working directory of a thread's process: "/" or below a mount point
    oplock     \* holder of a superblock's operation_lock

vfsVars == <<sb, devices, op, known, file, cwd, oplock>>

NoThreadV == "nobody"
Idle == [pc |-> "idle", sb |-> NoSuper, set |-> {}]
Mounted(s) == sb[s].at # ""

VfsInit ==
    /\ sb = [s \in Super |-> [state |-> "none", refs |-> 0, dev |-> "none", at |-> ""]]
    /\ devices = [live |-> VolumeDevice, removing |-> {}, dying |-> {}]
    /\ op = [t \in VfsThread |-> Idle]
    /\ known = [t \in VfsThread |-> NoSuper]
    /\ file = [t \in VfsThread |-> NoSuper]
    /\ cwd = [t \in VfsThread |-> "/"]
    /\ oplock = [s \in Super |-> NoThreadV]

-----------------------------------------------------------------------------
\* Lifetime of a superblock.

vfs_super_is_live(s) == s # NoSuper /\ sb[s].state = "ACTIVE" /\ sb[s].dev \in devices.live

\* A mutant: the superblock goes although somebody refers to it.
DisposeNow(T, s) == T[s].state # "ACTIVE"
vfs_super_mark_dispose(T, s) == T[s].state # "ACTIVE" /\ T[s].refs = 0

\* vfs_super_dispose(): the nodes are retargeted, then the memory is freed.
Disposed(T, S) ==
    [s \in Super |-> IF s \in S /\ vfs_super_mark_dispose(T, s)
                     THEN [T[s] EXCEPT !.state = "freed"] ELSE T[s]]
\* A mutant: the nodes keep their pointer.
KeepNodes(S) == known
vfs_retarget_nodes(S) == [t \in VfsThread |-> IF known[t] \in S THEN NoSuper ELSE known[t]]
FreedIn(T) == {s \in Super : T[s].state = "freed"}

Retained(s) == [sb EXCEPT ![s].refs = @ + 1]
\* vfs_super_release() of every member of S.
Released(T, S) ==
    Disposed([s \in Super |-> IF s \in S THEN [T[s] EXCEPT !.refs = @ - 1] ELSE T[s]], S)

\* The new table and what it does to the nodes.
SuperBecomes(T) == sb' = T /\ known' = vfs_retarget_nodes(FreedIn(T))

-----------------------------------------------------------------------------
\* Mounting.

MountLockFree == \A t \in VfsThread : op[t].pc \notin {"mounting", "syncing"}
SlotFree == Cardinality({s \in Super : Mounted(s)}) < MountSlots

\* vfs_mount_path(): the driver reads the device.
vfs_mount_begin(t, d, s, path) ==
    /\ op[t].pc = "idle" /\ MountLockFree
    /\ d \in devices.live /\ sb[s].state = "none"
    /\ \A x \in Super : sb[x].at # path
    /\ sb' = [sb EXCEPT ![s] = [state |-> "reading", refs |-> 0, dev |-> d, at |-> ""]]
    /\ op' = [op EXCEPT ![t] = [pc |-> "mounting", sb |-> s, set |-> {path}]]
    /\ UNCHANGED <<devices, known, file, cwd, oplock>>

\* A mutant: the device is not looked at again.
PublishAnyway(s) == SlotFree
CanPublish(s) == sb[s].dev \in devices.live /\ SlotFree

\* vfs_mount_instance() after the driver: published, or vfs_dispose_unpublished().
vfs_mount_instance(t, ok) ==
    LET s == op[t].sb IN
    /\ op[t].pc = "mounting"
    /\ sb' = IF ok /\ CanPublish(s)
             THEN [sb EXCEPT ![s].state = "ACTIVE", ![s].at = CHOOSE p \in op[t].set : TRUE]
             ELSE [sb EXCEPT ![s].state = "freed"]
    /\ op' = [op EXCEPT ![t] = Idle]
    /\ UNCHANGED <<devices, known, file, cwd, oplock>>

-----------------------------------------------------------------------------
\* Names.  A walk ends in vfs_resolve_mount() and vfs_node_is_live().

vfs_lookup(t, s) ==
    /\ op[t].pc = "idle" /\ Mounted(s) /\ vfs_super_is_live(s)
    /\ known' = [known EXCEPT ![t] = s]
    /\ UNCHANGED <<sb, devices, op, file, cwd, oplock>>

\* process_chdir()
vfs_chdir(t, path) ==
    /\ op[t].pc = "idle"
    /\ path = "/" \/ \E s \in Super : sb[s].at = path /\ vfs_super_is_live(s)
    /\ cwd' = [cwd EXCEPT ![t] = path]
    /\ UNCHANGED <<sb, devices, op, known, file, oplock>>

-----------------------------------------------------------------------------
\* Operations on a node: retained for the operation, one at a time.

Takes(t, s) == IF oplock[s] = NoThreadV THEN t ELSE oplock[s]
Enter(t, s, held, waits) ==
    /\ oplock' = [oplock EXCEPT ![s] = Takes(t, s)]
    /\ op' = [op EXCEPT ![t] = [pc |-> IF oplock[s] = NoThreadV THEN held ELSE waits, sb |-> s, set |-> {}]]

vfs_node_operation_begin(t) ==
    LET s == known[t] IN
    /\ op[t].pc = "idle" /\ vfs_super_is_live(s)
    /\ sb' = Retained(s)
    /\ Enter(t, s, "node", "nodewait")
    /\ UNCHANGED <<devices, known, file, cwd>>

\* mutex_lock() returns to a waiter; neither caller looks at the state again.
vfs_operation_locked(t) ==
    LET s == op[t].sb IN
    /\ op[t].pc \in {"nodewait", "filewait"} /\ oplock[s] = NoThreadV
    /\ oplock' = [oplock EXCEPT ![s] = t]
    /\ op' = [op EXCEPT ![t].pc = IF @ = "nodewait" THEN "node" ELSE "file"]
    /\ UNCHANGED <<sb, devices, known, file, cwd>>

\* A mutant: the reference of the operation is kept.
NotReleased(T, s) == T
OperationReleased(T, s) == Released(T, {s})

vfs_node_operation_end(t) ==
    LET s == op[t].sb IN
    /\ op[t].pc = "node"
    /\ oplock' = [oplock EXCEPT ![s] = NoThreadV]
    /\ op' = [op EXCEPT ![t] = Idle]
    /\ SuperBecomes(OperationReleased(sb, s))
    /\ UNCHANGED <<devices, file, cwd>>

-----------------------------------------------------------------------------
\* Open files: the handle holds the reference.

vfs_open_node(t) ==
    LET s == known[t] IN
    /\ op[t].pc = "idle" /\ file[t] = NoSuper /\ vfs_super_is_live(s)
    /\ sb' = Retained(s)
    /\ file' = [file EXCEPT ![t] = s]
    /\ UNCHANGED <<devices, op, known, cwd, oplock>>

\* vfs_file_read(), _write(), vfs_truncate_handle() and vfs_seek() to the end.
vfs_file_operation(t) ==
    /\ op[t].pc = "idle" /\ vfs_super_is_live(file[t])
    /\ Enter(t, file[t], "file", "filewait")
    /\ UNCHANGED <<sb, devices, known, file, cwd>>

vfs_file_operation_end(t) ==
    /\ op[t].pc = "file"
    /\ oplock' = [oplock EXCEPT ![op[t].sb] = NoThreadV]
    /\ op' = [op EXCEPT ![t] = Idle]
    /\ UNCHANGED <<sb, devices, known, file, cwd>>

vfs_close(t) ==
    /\ op[t].pc = "idle" /\ file[t] # NoSuper
    /\ SuperBecomes(Released(sb, {file[t]}))
    /\ file' = [file EXCEPT ![t] = NoSuper]
    /\ UNCHANGED <<devices, op, cwd, oplock>>

-----------------------------------------------------------------------------
\* Clean unmount.

\* A mutant: open files and operations do not count as busy.
PreflightCwdOnly(s) == sb[s].state = "ACTIVE" /\ \A t \in VfsThread : cwd[t] # sb[s].at
\* A mutant: the working directories of processes do not count as busy.
PreflightRefsOnly(s) == sb[s].state = "ACTIVE" /\ sb[s].refs = 0
vfs_unmount_preflight(s) ==
    sb[s].state = "ACTIVE" /\ sb[s].refs = 0 /\ \A t \in VfsThread : cwd[t] # sb[s].at

\* vfs_unmount_devices() up to the syncs, for the mounts of some devices.
vfs_unmount_begin(t, S) ==
    /\ op[t].pc = "idle" /\ MountLockFree
    /\ \A s \in S : Mounted(s) /\ vfs_unmount_preflight(s)
    /\ sb' = [s \in Super |-> IF s \in S THEN [sb[s] EXCEPT !.refs = @ + 1, !.state = "DETACHING"] ELSE sb[s]]
    /\ op' = [op EXCEPT ![t] = [pc |-> "syncing", sb |-> NoSuper, set |-> S]]
    /\ UNCHANGED <<devices, known, file, cwd, oplock>>

\* All syncs succeeded: detached, dead, retargeted, released.
vfs_unmount_devices(t) ==
    LET S == op[t].set
        T == [s \in Super |-> IF s \in S THEN [sb[s] EXCEPT !.at = "", !.state = "DEAD"] ELSE sb[s]] IN
    /\ op[t].pc = "syncing" /\ \A s \in S : sb[s].dev \in devices.live
    /\ sb' = Released(T, S)
    /\ known' = vfs_retarget_nodes(S)
    /\ op' = [op EXCEPT ![t] = Idle]
    /\ UNCHANGED <<devices, file, cwd, oplock>>

\* One sync failed: what is still detaching is active again.
vfs_unmount_failed(t) ==
    LET S == op[t].set
        T == [s \in Super |-> IF s \in S /\ sb[s].state = "DETACHING"
                              THEN [sb[s] EXCEPT !.state = "ACTIVE"] ELSE sb[s]] IN
    /\ op[t].pc = "syncing"
    /\ SuperBecomes(Released(T, S))
    /\ op' = [op EXCEPT ![t] = Idle]
    /\ UNCHANGED <<devices, file, cwd, oplock>>

-----------------------------------------------------------------------------
\* Physical removal: the block layer forgets the device, then tells the VFS.

device_gone(d) ==
    /\ d \in devices.live
    /\ devices' = [devices EXCEPT !.live = @ \ {d}, !.removing = @ \cup {d}]
    /\ UNCHANGED <<sb, op, known, file, cwd, oplock>>

\* vfs_device_removed() under the lock: dead and out of the namespace.
vfs_device_removed(d) ==
    LET S == {s \in Super : Mounted(s) /\ sb[s].dev = d} IN
    /\ d \in devices.removing
    /\ devices' = [devices EXCEPT !.removing = @ \ {d}, !.dying = @ \cup S]
    /\ sb' = [s \in Super |-> IF s \in S THEN [sb[s] EXCEPT !.at = "", !.state = "DEAD"] ELSE sb[s]]
    /\ UNCHANGED <<op, known, file, cwd, oplock>>

\* A mutant: an unreferenced superblock is forgotten.
RemovalForgets(s) == sb
RemovalDisposes(s) == Disposed(sb, {s})

\* The worker may be preempted before it disposes of what it collected.  (When the
\* superblock is freed by then this reads freed memory.)
vfs_removed_dispose(s) ==
    /\ s \in devices.dying
    /\ devices' = [devices EXCEPT !.dying = @ \ {s}]
    /\ SuperBecomes(RemovalDisposes(s))
    /\ UNCHANGED <<op, file, cwd, oplock>>

-----------------------------------------------------------------------------
VfsNext ==
    \/ \E t \in VfsThread :
         \/ \E d \in VolumeDevice, s \in Super, path \in VolumePath : vfs_mount_begin(t, d, s, path)
         \/ \E ok \in BOOLEAN : vfs_mount_instance(t, ok)
         \/ \E s \in Super : vfs_lookup(t, s)
         \/ \E path \in VolumePath \cup {"/"} : vfs_chdir(t, path)
         \/ vfs_node_operation_begin(t) \/ vfs_operation_locked(t) \/ vfs_node_operation_end(t)
         \/ vfs_open_node(t) \/ vfs_file_operation(t) \/ vfs_file_operation_end(t) \/ vfs_close(t)
         \/ \E S \in SUBSET Super \ {{}} : vfs_unmount_begin(t, S)
         \/ vfs_unmount_devices(t) \/ vfs_unmount_failed(t)
    \/ \E d \in VolumeDevice : device_gone(d) \/ vfs_device_removed(d)
    \/ \E s \in Super : vfs_removed_dispose(s)

-----------------------------------------------------------------------------
Users(s) == {t \in VfsThread : op[t].sb = s /\ op[t].pc \in {"node", "nodewait"}}
FileUsers(s) == {t \in VfsThread : file[t] = s}
Unmounters(s) == {t \in VfsThread : op[t].pc = "syncing" /\ s \in op[t].set}

VfsTypeOK ==
    /\ \A s \in Super : /\ sb[s].state \in {"none", "reading", "ACTIVE", "DETACHING", "DEAD", "freed"}
                        /\ sb[s].at \in VolumePath \cup {""} /\ sb[s].refs \in Nat
    /\ \A t \in VfsThread : op[t].sb \in Super \cup {NoSuper} /\ op[t].set \subseteq Super \cup VolumePath

\* The reference count of a superblock is the number of its open files, running
\* operations and unmounts: on every path what was retained is released once.
RefsExact ==
    \A s \in Super : sb[s].state \notin {"none", "freed"} =>
        sb[s].refs = Cardinality(Users(s)) + Cardinality(FileUsers(s)) + Cardinality(Unmounters(s))

\* No open file, operation, mount or stale node reaches a freed superblock
\* (vfs.c:52: a stale node "can only observe the inert dead-super sentinel").
NoDangling ==
    \A s \in Super : sb[s].state = "freed" =>
        /\ Users(s) \cup FileUsers(s) \cup Unmounters(s) = {}
        /\ sb[s].at = "" /\ oplock[s] = NoThreadV
        /\ \A t \in VfsThread : known[t] # s

\* While an unmount writes back, no operation runs or waits in that filesystem
\* and no file of it is open; so what was synced is all there is (docs/storage/
\* lifecycle.md: a clean unmount stops new filesystem I/O, flushes, detaches).
QuietSync == \A s \in Super : sb[s].state = "DETACHING" => Users(s) \cup FileUsers(s) = {}

\* After the removal of a device was processed nothing is mounted from it, also
\* when a mount or an unmount of it was under way.
GoneUnmounted == \A s \in Super : Mounted(s) => sb[s].dev \in devices.live \cup devices.removing

\* A superblock that is dead is freed by whoever drops the last reference.
NoDeadLeft == \A s \in Super : sb[s].state = "DEAD" => sb[s].refs > 0 \/ s \in devices.dying

\* A clean unmount never pulls a volume from under a working directory.
CwdKept ==
    \A s \in Super : sb[s].state = "DETACHING" /\ sb'[s].at = "" /\ sb[s].at # ""
          /\ sb[s].dev \in devices.live => \A t \in VfsThread : cwd[t] # sb[s].at
=============================================================================
