------------------------------ MODULE Volumes ------------------------------
(***************************************************************************)
(* volumed, the policy service for removable volumes, with the volume and  *)
(* storage system calls that it and diskutil use.  volumed keeps a table   *)
(* of the leaf volumes and, per instance, what it did with them; it mounts *)
(* what is eligible whenever it rebuilds the table, and serves the mount,  *)
(* unmount and eject commands one at a time.  Disks come and go, diskutil  *)
(* formats and labels, and volumed itself may die, between any two of its  *)
(* system calls.                                                           *)
(***************************************************************************)
EXTENDS Naturals, Sequences, FiniteSets

CONSTANTS Labels,         \* labels on media: sequences of kinds of code points
          LabelMax,       \* VOLUME_LABEL_BYTES
          MaxRecords,     \* MG_VOLUME_MAX_RECORDS, also the largest suffix
          MaxInstances,   \* bound: volumes ever registered
          MaxVolumeOps,   \* bound: commands, formats, labels and created names
          MaxVolumeFaults \* bound: failed calls and deaths of volumed

VARIABLES dev,            \* registered leaf volumes: id -> what the kernel knows
          mounts,         \* the VFS mount table: path -> id
          names,          \* other names somebody created in /vol
          event,          \* an event is queued at the "volume" endpoint
          vd,             \* volumed: its table, runtime records and position
          disk,           \* diskutil: session, consent and what it is doing
          born, vops, vfaults,
          quiet          \* ghost: volumes that were told to stay unmounted

volumeVars == <<dev, mounts, names, event, vd, disk, born, vops, vfaults,
                quiet>>

NoPath == <<>>
Root == <<<<"/">>, 1>>

With(f, k, v) == [ x \in DOMAIN f \cup {k} |-> IF x = k THEN v ELSE f[x] ]
Without(f, S) == [ x \in DOMAIN f \ S |-> f[x] ]

\* What volumed remembers of an instance it has not met (volume_runtime_t).
Unknown == [failed |-> FALSE, supp |-> FALSE, owned |-> FALSE, place |-> NoPath]

\* volumed before its first rebuild.
Started == [ok |-> FALSE, table |-> <<>>, rt |-> <<>>, at |-> "read", then |-> "idle",
            op |-> "none", id |-> 0, auto |-> 0, path |-> NoPath, todo |-> {}, next |-> <<>>, nrt |-> <<>>,
            suffix |-> 0, again |-> FALSE]


\* The system runs from partition 1 of a USB disk with a second partition.
VolumesInit ==
    /\ dev = [ i \in 1..2 |-> [disk |-> 1, part |-> TRUE, label |-> <<>>, fs |-> TRUE,
                               system |-> i = 1, sup |-> FALSE] ]
    /\ mounts = [ p \in {Root} |-> 1 ]
    /\ names = {}
    /\ event = FALSE
    /\ vd = Started
    /\ disk = [session |-> FALSE, consent |-> "none", at |-> "idle", id |-> 0]
    /\ born = 2 /\ vops = 0 /\ vfaults = 0
    /\ quiet = {}

-----------------------------------------------------------------------------
(* The kernel's side.                                                      *)

PlaceOf(id) == IF \E p \in DOMAIN mounts : mounts[p] = id
               THEN CHOOSE p \in DOMAIN mounts : mounts[p] = id ELSE NoPath

OnDisk(d) == { i \in DOMAIN dev : dev[i].disk = d }

\* A mutant: the kernel accepts any live volume.
AnyLive(id) == id \in DOMAIN dev

\* For one volume: a live partition of a USB disk, or a whole USB disk, that
\* is not one of the system's own.
syscall_volume_device_allowed(id) == id \in DOMAIN dev /\ ~dev[id].system

\* For a whole disk: none of its partitions is the system's.
syscall_volume_disk_allowed(d) ==
    OnDisk(d) # {} /\ \A i \in OnDisk(d) : ~dev[i].system

syscall_storage_system_managed(id) == \E o \in OnDisk(dev[id].disk) : dev[o].system

path_info(path) == path \in DOMAIN mounts \cup names

\* A disk with one whole-disk volume or with two partitions is plugged in.
Plug ==
    \E n \in {1, 2} :
      /\ born + n <= MaxInstances
      /\ \E label \in [1..n -> Labels], fs \in [1..n -> BOOLEAN] :
           dev' = [ i \in DOMAIN dev \cup ((born + 1)..(born + n)) |->
                      IF i \in DOMAIN dev THEN dev[i]
                      ELSE [disk |-> born + 1, part |-> n = 2,
                            label |-> IF fs[i - born] THEN label[i - born] ELSE <<>>,
                            fs |-> fs[i - born], system |-> FALSE, sup |-> FALSE] ]
      /\ born' = born + n
      /\ event' = TRUE
      /\ UNCHANGED <<mounts, names, vd, disk, vops, vfaults, quiet>>

\* A disk is pulled: its volumes and their mounts go at once.
Pull ==
    \E d \in { dev[i].disk : i \in DOMAIN dev } :
      /\ syscall_volume_disk_allowed(d)
      /\ dev' = Without(dev, OnDisk(d))
      /\ mounts' = Without(mounts, { p \in DOMAIN mounts : mounts[p] \in OnDisk(d) })
      /\ quiet' = quiet \ OnDisk(d)
      /\ event' = TRUE
      /\ UNCHANGED <<names, vd, disk, born, vops, vfaults>>

\* Somebody creates a name in /vol.
Create(path) ==
    /\ vops < MaxVolumeOps
    /\ ~path_info(path)
    /\ names' = names \cup {path}
    /\ vops' = vops + 1
    /\ UNCHANGED <<dev, mounts, event, vd, disk, born, vfaults, quiet>>

-----------------------------------------------------------------------------
(* Mount points.                                                           *)

label_codepoint_allowed(c) == c # "x"
label_whitespace(c) == c = "s"

label_is_usable(label) ==
    /\ Len(label) \in 1..LabelMax
    /\ \A i \in 1..Len(label) : label_codepoint_allowed(label[i])
    /\ ~label_whitespace(label[1]) /\ ~label_whitespace(label[Len(label)])

\* The display name: no two instances of a boot share one.
make_display_name(id) == [ i \in 1..id |-> "#" ]

mountpoint_component_safe(base) == base # <<>> /\ base # <<".">> /\ base # <<".", ".">>

mountpoint_base(id, label) ==
    LET base == IF label_is_usable(label) THEN label ELSE make_display_name(id)
    IN  IF mountpoint_component_safe(base) THEN base ELSE <<"volume">>

\* The first suffix from "from" on whose path is free, 0 if there is none.
choose_mountpoint(id, label, from) ==
    LET free == { n \in from..MaxRecords : ~path_info(<<mountpoint_base(id, label), n>>) }
    IN  IF free = {} THEN 0 ELSE CHOOSE n \in free : \A m \in free : n <= m
-----------------------------------------------------------------------------
(* volumed: rebuilding the table.                                          *)

\* The leaf volumes the table has room for.
Listed == { i \in DOMAIN dev : Cardinality({ o \in DOMAIN dev : o < i }) < MaxRecords }

Described(id) == [disk |-> dev[id].disk, label |-> dev[id].label, fs |-> dev[id].fs,
                  system |-> syscall_storage_system_managed(id), place |-> PlaceOf(id)]

\* What the last table says of the same instance with the same contents.
runtime_for(id) ==
    { vd.rt[o] : o \in { o \in DOMAIN vd.rt : /\ o = id
                                              /\ vd.table[o].fs = dev[id].fs
                                              /\ vd.table[o].label = dev[id].label } }

\* A mutant: only volumed's own memory of the suppression counts.
CarriedForgets(id) ==
    LET old == runtime_for(id)
    IN  IF old = {} THEN Unknown ELSE CHOOSE o \in old : TRUE

\* The runtime record of the next table.
Carried(id) ==
    LET old == runtime_for(id)
        r == IF old = {} THEN Unknown ELSE CHOOSE o \in old : TRUE
    IN  [r EXCEPT !.supp = dev[id].sup \/ @]

\* volumed is back in its loop with nothing to do.
Back == [vd EXCEPT !.at = "idle", !.then = "idle", !.op = "none", !.id = 0, !.auto = 0,
                   !.path = NoPath, !.todo = {}, !.suffix = 0, !.again = FALSE]

Step(v) ==
    /\ vd' = v
    /\ UNCHANGED <<dev, mounts, names, event, disk, born, vops, vfaults, quiet>>

\* The snapshot is taken; every volume in it is then looked at in turn.
rebuild_snapshot ==
    /\ vd.at = "read"
    /\ Step([vd EXCEPT !.at = "auto", !.todo = Listed,
                       !.next = [ i \in Listed |-> Described(i) ],
                       !.nrt = [ i \in Listed |-> Carried(i) ]])

\* The snapshot cannot be read: the old table stays, a command gets the error.
RebuildFails ==
    /\ vd.at = "read" /\ vfaults < MaxVolumeFaults
    /\ vfaults' = vfaults + 1
    /\ vd' = [Back EXCEPT !.ok = FALSE]
    /\ UNCHANGED <<dev, mounts, names, event, disk, born, vops, quiet>>

\* A mutant: a volume without a usable label is left alone.
MountableNamed(t) == t.place = NoPath /\ ~t.system /\ t.fs /\ label_is_usable(t.label)
Mountable(t) == t.place = NoPath /\ ~t.system /\ t.fs

Eligible(id) == /\ ~vd.nrt[id].failed /\ ~vd.nrt[id].supp
                /\ Mountable(vd.next[id])

\* The next eligible volume gets a mount point, or the failure mark if every
\* suffix is taken; when none is left the new table is in force.
automount_volume ==
    /\ vd.at = "auto"
    /\ LET wanted == { i \in vd.todo : Eligible(i) }
           id == CHOOSE i \in wanted : \A o \in wanted : i <= o
           n == choose_mountpoint(id, vd.next[id].label, 1)
       IN  Step(IF wanted = {}
                THEN [vd EXCEPT !.at = vd.then, !.then = "idle", !.ok = TRUE, !.table = vd.next,
                                !.rt = vd.nrt, !.todo = {}, !.next = <<>>, !.nrt = <<>>]
                ELSE IF n = 0
                THEN [vd EXCEPT !.todo = { i \in @ : i > id }, !.nrt[id].failed = TRUE]
                ELSE [vd EXCEPT !.at = "automount", !.auto = id, !.suffix = n,
                                !.again = FALSE, !.todo = { i \in @ : i > id }])

-----------------------------------------------------------------------------
(* volumed: the mount system call, for an automount and for a command.     *)

\* The volume the call is about.
Current == IF vd.at = "automount" THEN vd.auto ELSE vd.id

Attempted == LET t == IF vd.at = "automount" THEN vd.next ELSE vd.table
             IN  <<mountpoint_base(Current, t[Current].label), vd.suffix>>

\* The record of the volume after its mount.
MountedAt(path) == [failed |-> FALSE, supp |-> FALSE, owned |-> TRUE, place |-> path]

\* SYSCALL_VOLUME_MOUNT succeeds.
volume_mount(path) ==
    /\ mounts' = With(mounts, path, Current)
    /\ dev' = [dev EXCEPT ![Current].sup = FALSE]
    /\ quiet' = IF vd.at = "mount" THEN quiet \ {Current} ELSE quiet

\* The call is refused for good: an automount marks the instance, a command
\* is answered with the error.
Refused == IF vd.at = "automount"
           THEN [vd EXCEPT !.at = "auto", !.suffix = 0, !.again = FALSE, !.auto = 0,
                           !.nrt[Current].failed = TRUE]
           ELSE Back

mount_volume ==
    /\ vd.at \in {"automount", "mount"}
    /\ LET path == Attempted
           label == IF vd.at = "automount" THEN vd.next[Current].label ELSE vd.table[Current].label
           from == IF vd.again THEN vd.suffix + 1 ELSE 2
           n == choose_mountpoint(Current, label, from)
       IN  IF ~syscall_volume_device_allowed(Current) \/ ~dev[Current].fs
           THEN Step(Refused)
           ELSE IF PlaceOf(Current) # NoPath \/ path_info(path)
           THEN Step(IF n = 0 THEN Refused
                     ELSE [vd EXCEPT !.suffix = n, !.again = TRUE])
           ELSE /\ volume_mount(path)
                /\ vd' = IF vd.at = "automount"
                         THEN [vd EXCEPT !.at = "auto", !.suffix = 0, !.again = FALSE,
                                         !.auto = 0, !.next[Current].place = path,
                                         !.nrt[Current] = MountedAt(path)]
                         ELSE [vd EXCEPT !.at = "read", !.then = "done", !.suffix = 0,
                                         !.again = FALSE, !.table[Current].place = path,
                                         !.rt[Current] = MountedAt(path)]
                /\ UNCHANGED <<names, event, disk, born, vops, vfaults>>

\* The file system refuses the volume.
MountFails ==
    /\ vd.at \in {"automount", "mount"} /\ vfaults < MaxVolumeFaults
    /\ vfaults' = vfaults + 1
    /\ vd' = Refused
    /\ UNCHANGED <<dev, mounts, names, event, disk, born, vops, quiet>>
-----------------------------------------------------------------------------
(* volumed: the commands.                                                  *)

\* A mutant: an event is dropped once there is a table.
EventDropped ==
    /\ vd.at = "idle" /\ event
    /\ event' = FALSE
    /\ vd' = IF vd.ok THEN vd ELSE [vd EXCEPT !.at = "read"]
    /\ UNCHANGED <<dev, mounts, names, disk, born, vops, vfaults, quiet>>

handle_event ==
    /\ vd.at = "idle" /\ event
    /\ event' = FALSE
    /\ vd' = [vd EXCEPT !.at = "read", !.then = "idle"]
    /\ UNCHANGED <<dev, mounts, names, disk, born, vops, vfaults, quiet>>

\* A command names a volume, or for unmount and eject a mount point; every
\* handler first rebuilds the table.
handle_mutation_request(op, id, path) ==
    /\ vd.at = "idle" /\ vops < MaxVolumeOps
    /\ vops' = vops + 1
    /\ vd' = [vd EXCEPT !.at = "read", !.then = "resolve", !.op = op, !.id = id,
                        !.path = path]
    /\ UNCHANGED <<dev, mounts, names, event, disk, born, vfaults, quiet>>

resolve_target ==
    IF vd.path = NoPath THEN {vd.id} \cap DOMAIN vd.table
    ELSE { i \in DOMAIN vd.table : vd.table[i].place = vd.path }


Siblings(id) == { i \in DOMAIN vd.table : vd.table[i].disk = vd.table[id].disk }

\* The handlers' checks on the fresh table, before the user is asked.
Resolve ==
    /\ vd.at = "resolve"
    /\ IF Cardinality(resolve_target) # 1 THEN Step(Back)
       ELSE LET id == CHOOSE i \in resolve_target : TRUE
                t == vd.table[id]
                may == CASE vd.op = "mount" -> Mountable(t)
                         [] vd.op = "unmount" -> t.place # NoPath
                         [] OTHER -> \A i \in Siblings(id) : ~vd.table[i].system
            IN  Step(IF may THEN [vd EXCEPT !.at = "authorize", !.id = id] ELSE Back)

\* Without consent nothing is done.
Denied == vd.at = "authorize" /\ Step(Back)

\* volumed believes its own earlier mount while the name is still there.
OwnEntry == LET r == vd.rt[vd.id]
            IN  r.owned /\ r.place # NoPath /\ path_info(r.place)

handle_mount_request ==
    /\ vd.at = "authorize" /\ vd.op = "mount"
    /\ LET r == vd.rt[vd.id]
           n == choose_mountpoint(vd.id, vd.table[vd.id].label, 1)
       IN  /\ vd' = IF OwnEntry
                    THEN [vd EXCEPT !.at = "read", !.then = "done",
                                    !.table[vd.id].place = r.place,
                                    !.rt[vd.id].failed = FALSE]
                    ELSE [vd EXCEPT !.at = IF n = 0 THEN "idle" ELSE "mount",
                                    !.suffix = n, !.again = FALSE,
                                    !.rt[vd.id].failed = FALSE,
                                    !.rt[vd.id].owned = FALSE,
                                    !.rt[vd.id].place = NoPath]
    /\ UNCHANGED <<dev, mounts, names, event, disk, born, vops, vfaults, quiet>>

\* SYSCALL_VOLUME_UNMOUNT of one volume.
handle_unmount_request ==
    /\ vd.at = "authorize" /\ vd.op = "unmount"
    /\ IF ~syscall_volume_device_allowed(vd.id) \/ PlaceOf(vd.id) = NoPath
       THEN Step(Back)
       ELSE /\ mounts' = Without(mounts, {PlaceOf(vd.id)})
            /\ vd' = [vd EXCEPT !.at = "suppress", !.todo = {vd.id}]
            /\ UNCHANGED <<dev, names, event, disk, born, vops, vfaults, quiet>>

\* SYSCALL_VOLUME_UNMOUNT of a whole disk: all of its mounts or none.
handle_eject_request ==
    /\ vd.at = "authorize" /\ vd.op = "eject"
    /\ LET d == vd.table[vd.id].disk
           there == { p \in DOMAIN mounts : mounts[p] \in OnDisk(d) }
           thought == { i \in Siblings(vd.id) : vd.table[i].place # NoPath }
       IN  IF ~syscall_volume_disk_allowed(d) \/ (there = {} /\ thought # {})
           THEN Step(Back)
           ELSE /\ mounts' = Without(mounts, there)
                /\ vd' = [vd EXCEPT !.at = "suppress", !.todo = Siblings(vd.id)]
                /\ UNCHANGED <<dev, names, event, disk, born, vops, vfaults, quiet>>

\* A volume is busy or cannot be flushed: nothing is detached.
Busy ==
    /\ vd.at = "authorize" /\ vd.op \in {"unmount", "eject"}
    /\ vfaults < MaxVolumeFaults
    /\ vfaults' = vfaults + 1
    /\ vd' = Back
    /\ UNCHANGED <<dev, mounts, names, event, disk, born, vops, quiet>>

\* SYSCALL_VOLUME_SUPPRESS.
block_device_set_automount_suppressed(id) == dev' = [dev EXCEPT ![id].sup = TRUE]

set_volume_suppressed ==
    /\ vd.at = "suppress"
    /\ LET id == CHOOSE i \in vd.todo : \A o \in vd.todo : i <= o
           left == vd.todo \ {id}
       IN  IF ~syscall_volume_device_allowed(id) THEN Step(Back)
           ELSE /\ block_device_set_automount_suppressed(id)
                /\ vd' = [vd EXCEPT !.todo = left,
                                    !.at = IF left = {} THEN "read" ELSE @,
                                    !.then = IF left = {} THEN "done" ELSE @]
                /\ UNCHANGED <<mounts, names, event, disk, born, vops, vfaults, quiet>>

\* The command is answered with success.
send_operation_response ==
    /\ vd.at = "done"
    /\ vd' = Back
    /\ quiet' = CASE vd.op = "unmount" -> quiet \cup ({vd.id} \cap DOMAIN dev)
                  [] vd.op = "eject" ->
                       quiet \cup (IF vd.id \in DOMAIN dev THEN OnDisk(dev[vd.id].disk) ELSE {})
                  [] OTHER -> quiet
    /\ UNCHANGED <<dev, mounts, names, event, disk, born, vops, vfaults>>

\* volumed dies and its supervisor starts it again.
Death ==
    /\ vfaults < MaxVolumeFaults
    /\ vfaults' = vfaults + 1
    /\ vd' = Started
    /\ event' = FALSE
    /\ UNCHANGED <<dev, mounts, names, disk, born, vops, quiet>>
-----------------------------------------------------------------------------
(* diskutil: one consent for each destructive call.                        *)

DiskStep(d) ==
    /\ disk' = d
    /\ UNCHANGED <<dev, mounts, names, event, vd, born, vops, vfaults, quiet>>

SessionAuthorize == ~disk.session /\ DiskStep([disk EXCEPT !.session = TRUE])

StorageAuthorize(op) ==
    /\ disk.session /\ disk.at = "idle" /\ vops < MaxVolumeOps
    /\ disk' = [disk EXCEPT !.consent = op]
    /\ vops' = vops + 1
    /\ UNCHANGED <<dev, mounts, names, event, vd, born, vfaults, quiet>>

StorageCancel == disk.consent # "none" /\ DiskStep([disk EXCEPT !.consent = "none"])

Administrable(id) ==
    id \in DOMAIN dev /\ ~syscall_storage_system_managed(id) /\ PlaceOf(id) = NoPath

\* SYSCALL_STORAGE_FORMAT up to the first write, which ends the old contents.
StorageFormat(id) ==
    /\ disk.consent = "format" /\ disk.at = "idle"
    /\ IF ~Administrable(id) THEN DiskStep([disk EXCEPT !.consent = "none"])
       ELSE /\ disk' = [disk EXCEPT !.consent = "none", !.at = "formatting", !.id = id]
            /\ dev' = [dev EXCEPT ![id].fs = FALSE, ![id].label = <<>>]
            /\ UNCHANGED <<mounts, names, event, vd, born, vops, vfaults, quiet>>

\* The new file system is complete and verified, or the device is gone.
FormatWritten ==
    /\ disk.at = "formatting"
    /\ IF disk.id \notin DOMAIN dev THEN DiskStep([disk EXCEPT !.at = "idle"])
       ELSE /\ disk' = [disk EXCEPT !.at = "formatted"]
            /\ dev' = [dev EXCEPT ![disk.id].fs = TRUE]
            /\ UNCHANGED <<mounts, names, event, vd, born, vops, vfaults, quiet>>

\* The rest of the call: the instance is suppressed.
FormatSuppress ==
    /\ disk.at = "formatted"
    /\ disk' = [disk EXCEPT !.at = "idle"]
    /\ IF disk.id \notin DOMAIN dev THEN UNCHANGED <<dev, quiet>>
       ELSE /\ block_device_set_automount_suppressed(disk.id)
            /\ quiet' = IF PlaceOf(disk.id) = NoPath /\ vd.at = "idle"
                        THEN quiet \cup {disk.id} ELSE quiet
    /\ UNCHANGED <<mounts, names, event, vd, born, vops, vfaults>>

\* SYSCALL_STORAGE_LABEL.
StorageLabel(id, label) ==
    /\ disk.consent = "label" /\ disk.at = "idle"
    /\ disk' = [disk EXCEPT !.consent = "none"]
    /\ dev' = IF Administrable(id) /\ dev[id].fs
              THEN [dev EXCEPT ![id].label = label] ELSE dev
    /\ UNCHANGED <<mounts, names, event, vd, born, vops, vfaults, quiet>>

VolumesNext ==
    \/ Plug \/ Pull
    \/ \E label \in Labels : Create(<<label, 1>>)
    \/ rebuild_snapshot \/ RebuildFails \/ automount_volume \/ mount_volume \/ MountFails
    \/ handle_event
    \/ \E op \in {"mount", "unmount", "eject"}, id \in DOMAIN dev :
         handle_mutation_request(op, id, NoPath)
    \/ \E op \in {"unmount", "eject"}, path \in DOMAIN mounts :
         handle_mutation_request(op, 0, path)
    \/ Resolve \/ Denied \/ handle_mount_request \/ handle_unmount_request
    \/ handle_eject_request \/ Busy \/ set_volume_suppressed \/ send_operation_response
    \/ Death
    \/ SessionAuthorize \/ StorageCancel
    \/ \E op \in {"format", "label"} : StorageAuthorize(op)
    \/ \E id \in DOMAIN dev : StorageFormat(id)
    \/ FormatWritten \/ FormatSuppress
    \/ \E id \in DOMAIN dev, label \in Labels : StorageLabel(id, label)

VolumesSpec == VolumesInit /\ [][VolumesNext]_volumeVars

-----------------------------------------------------------------------------
(* Properties.                                                             *)

\* volumed has dealt with every event and its last rebuild went through.
Settled == vd.at = "idle" /\ vd.ok /\ ~event

\* A volume whose unmount or eject was answered with success, or that was
\* formatted while volumed was idle, stays unmounted until the user mounts it
\* or it is plugged in anew, also when volumed dies in between: the
\* suppression is the kernel's, and only a mount command lifts it.
SuppressionKept == \A p \in DOMAIN mounts : mounts[p] \notin quiet

\* Whenever volumed is settled its table has exactly the volumes there are,
\* each with the place the VFS has it mounted at.
TableTrue ==
    Settled => /\ DOMAIN vd.table = Listed
               /\ \A i \in Listed : vd.table[i].place = PlaceOf(i)

\* Whenever volumed is settled and no format is under way, every volume it
\* lists is mounted that is removable, recognised, not the system's, not
\* suppressed in the kernel and whose own automount did not fail.
EligibleMounted ==
    Settled /\ disk.at = "idle" =>
        \A i \in Listed : /\ dev[i].fs /\ ~dev[i].sup /\ ~vd.rt[i].failed
                          /\ ~syscall_storage_system_managed(i)
                          => PlaceOf(i) # NoPath

\* No command ever detaches the running system (volumed's unmount handler
\* does not look at the role, the system call does).
SystemKept == Root \in DOMAIN mounts
=============================================================================
