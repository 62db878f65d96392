----------------------------- MODULE MCStorage ------------------------------
(***************************************************************************)
(* Storage for TLC: the block layer, the VFS and its mounts, the drivers   *)
(* of the three file systems, the partition table, the formatters, names   *)
(* and permissions, paths and open files. The modules share no state, so a *)
(* behaviour follows one of them, the one in focus. The block layer and    *)
(* the VFS rest in their initial states meanwhile; the others are absent.  *)
(***************************************************************************)
EXTENDS Integers, Sequences, FiniteSets, TLC, Block, Vfs, Gpt, Mgfs, Fat32

CONSTANTS x1, x2, XName, XFold, XClusters, XUnits, XWrites, MaxXOps, MaxXFaults,
    DeviceSizes, BlockSectors, MinBlocks, TableDivisor, TableRecords,
    BitmapBits, FatReserved, FatEntries, MinClusters, MaxClusters, MaxSpc,
    FatRounds, HeapAlign, BootRegion, BitmapSectorBits, UpcaseSectors, XShift,
    Person, EntryName, ParentPaths, FirstTree, FirstAdmins, MaxObjects,
    MaxNameCalls, MaxRoleChanges, InputMax, RawMax, CwdMax, OutMax, StackMax,
    Width, BaseEntries, MountNames, MountTable, MaxMountOps

VARIABLES focus, xd, xm, xplan, xg, fm, obj, readOnly, role, call, hnd, ngh,
    dir_cwd, want, ask, pos, sought, table, dirObj, seen, ogh

Interchangeable == Permutations({x1, x2})

\* exFAT compares names without regard to case; writes as offset and length.
Fold == [n \in XName |-> IF n = "A" THEN "a" ELSE n]
Writes == {<<0, 4>>, <<4, 1>>, <<2, 5>>}

Sizes == 20..110

\* A directory that anyone may write and only owners may clear, and a file in it.
Entry(kind, owner, read, write, sticky, dir, name) ==
    [kind |-> kind, owner |-> owner, read |-> read, write |-> write,
     sticky |-> sticky, dir |-> dir, name |-> name]
Tree == << Entry("dir", "sys", TRUE, FALSE, FALSE, 0, ""),
           Entry("dir", "sys", TRUE, TRUE, TRUE, 1, "t"),
           Entry("file", "ann", FALSE, FALSE, FALSE, 2, "x") >>
Parents == {<<"t">>, <<"t", "x">>}

Listing == <<"a", "b">>

Exf == INSTANCE Exfat
Fmt == INSTANCE Formats
Nam == INSTANCE Names
Opn == INSTANCE OpenFiles WITH cwd <- dir_cwd

ASSUME Exf!ExfatAssumption /\ Fmt!FormatsAssumption

\* The state of a component that is not the one in focus.
Absent == "absent"

AbsentMgfs ==
    /\ disk = Absent /\ memory = Absent /\ plan = Absent /\ ghost = Absent
AbsentFat ==
    /\ vol = Absent /\ nodes = Absent /\ hint = Absent /\ job = Absent
    /\ fgh = Absent
exfatVars == <<xd, xm, xplan, xg>>
AbsentExfat == xd = Absent /\ xm = Absent /\ xplan = Absent /\ xg = Absent
AbsentGpt ==
    /\ gdisk = Absent /\ gbuf = Absent /\ gth = Absent /\ gdev = Absent
    /\ ggh = Absent
formatsVars == <<fm>>
AbsentFormats == fm = Absent
namesVars == <<obj, readOnly, role, call, hnd, ngh>>
AbsentNames ==
    /\ obj = Absent /\ readOnly = Absent /\ role = Absent /\ call = Absent
    /\ hnd = Absent /\ ngh = Absent
pathsVars == <<dir_cwd, want, ask>>
AbsentPaths == dir_cwd = Absent /\ want = Absent /\ ask = Absent
openVars == <<pos, sought, table, dirObj, seen, ogh>>
AbsentOpen ==
    /\ pos = Absent /\ sought = Absent /\ table = Absent /\ dirObj = Absent
    /\ seen = Absent /\ ogh = Absent

StorageInit ==
    /\ focus \in {"block", "vfs", "mgfs", "fat32", "exfat", "gpt", "format",
                 "names", "paths", "open"}
    /\ BlockInit
    /\ VfsInit
    /\ IF focus = "mgfs" THEN MgfsInit ELSE AbsentMgfs
    /\ IF focus = "fat32" THEN FatInit ELSE AbsentFat
    /\ IF focus = "exfat" THEN Exf!ExfatInit ELSE AbsentExfat
    /\ IF focus = "gpt" THEN GptInit ELSE AbsentGpt
    /\ IF focus = "format" THEN Fmt!FormatsInit ELSE AbsentFormats
    /\ IF focus = "names" THEN Nam!NamesInit ELSE AbsentNames
    /\ IF focus = "paths" THEN Opn!PathsInit ELSE AbsentPaths
    /\ IF focus = "open" THEN Opn!OpenInit ELSE AbsentOpen

StorageNext ==
    /\ UNCHANGED focus
    /\ \/ /\ focus = "block" /\ BlockNext
          /\ UNCHANGED <<vfsVars, mgfsVars, fatVars, exfatVars, gptVars,
                         formatsVars, namesVars, pathsVars, openVars>>
       \/ /\ focus = "vfs" /\ VfsNext
          /\ UNCHANGED <<blockVars, mgfsVars, fatVars, exfatVars, gptVars,
                         formatsVars, namesVars, pathsVars, openVars>>
       \/ /\ focus = "mgfs" /\ MgfsNext
          /\ UNCHANGED <<blockVars, vfsVars, fatVars, exfatVars, gptVars,
                         formatsVars, namesVars, pathsVars, openVars>>
       \/ /\ focus = "fat32" /\ FatNext
          /\ UNCHANGED <<blockVars, vfsVars, mgfsVars, exfatVars, gptVars,
                         formatsVars, namesVars, pathsVars, openVars>>
       \/ /\ focus = "exfat" /\ Exf!ExfatNext
          /\ UNCHANGED <<blockVars, vfsVars, mgfsVars, fatVars, gptVars,
                         formatsVars, namesVars, pathsVars, openVars>>
       \/ /\ focus = "gpt" /\ GptNext
          /\ UNCHANGED <<blockVars, vfsVars, mgfsVars, fatVars, exfatVars,
                         formatsVars, namesVars, pathsVars, openVars>>
       \/ /\ focus = "format" /\ Fmt!FormatsNext
          /\ UNCHANGED <<blockVars, vfsVars, mgfsVars, fatVars, exfatVars,
                         gptVars, namesVars, pathsVars, openVars>>
       \/ /\ focus = "names" /\ Nam!NamesNext
          /\ UNCHANGED <<blockVars, vfsVars, mgfsVars, fatVars, exfatVars,
                         gptVars, formatsVars, pathsVars, openVars>>
       \/ /\ focus = "paths" /\ Opn!PathsNext
          /\ UNCHANGED <<blockVars, vfsVars, mgfsVars, fatVars, exfatVars,
                         gptVars, formatsVars, namesVars, openVars>>
       \/ /\ focus = "open" /\ Opn!OpenNext
          /\ UNCHANGED <<blockVars, vfsVars, mgfsVars, fatVars, exfatVars,
                         gptVars, formatsVars, namesVars, pathsVars>>

storageVars == <<focus, blockVars, vfsVars, mgfsVars, fatVars, exfatVars,
                  gptVars, formatsVars, namesVars, pathsVars, openVars>>
StorageSpec == StorageInit /\ [][StorageNext]_storageVars

-----------------------------------------------------------------------------
\* One transfer at a time passes the gate of block.c, nobody waits at it
\* forgotten, and the cache never has an old sector; superblocks and mount
\* points of vfs.c live as long as what refers to them, through unmounts that
\* sleep and devices that go.
MountsSound ==
    /\ BlockTypeOK /\ OneTransfer /\ GateNotLost /\ CacheFresh
    /\ VfsTypeOK /\ RefsExact /\ NoDangling /\ QuietSync /\ GoneUnmounted
    /\ NoDeadLeft

\* Through failed writes and power loss between any two writes of mgfs.c,
\* fat32.c and exfat.c: no name leads to a freed record or cluster, nothing
\* is owned twice, a volume that says it is clean is, and no file shows what
\* another left on its clusters.
FilesystemsSound ==
    /\ focus = "mgfs" => /\ NoDanglingName /\ BlocksOwnedOnce
                         /\ IdsNeverReused /\ CleanIsExact /\ CacheTrue
                         /\ ContentsKept
    /\ focus = "fat32" => /\ ChainsSound /\ NoLostClusters /\ NamesUnique
                          /\ NoOldContent
    /\ focus = "exfat" => /\ Exf!NodeAgrees /\ Exf!BitmapExact
                          /\ Exf!CleanIsSound /\ Exf!ValidIsWritten
                          /\ Exf!EndMarked /\ Exf!FoldedUnique

\* A copy of the partition table survives every failed write, partitions do
\* not overlap and are registered as the table says (gpt.c); the layouts that
\* storage_format() computes have disjoint regions, and the driver accepts
\* them.
TablesSound ==
    /\ focus = "gpt" => /\ OneMutation /\ ExtentsSound /\ TableSurvives
                        /\ RegisteredMatches /\ MountedKept
    /\ focus = "format" => /\ Fmt!RegionsDisjoint /\ Fmt!DriverAccepts
                           /\ Fmt!SuccessIsComplete

\* Create, remove and rename keep a tree, act on the object that was approved
\* and respect ownership and revocation; a path, a seek and a listing mean
\* what the calls promise, in the kernel and in the library.
NamesSound ==
    /\ focus = "names" => /\ Nam!TreeSound /\ Nam!ApprovedObject
                          /\ Nam!StickyKept /\ Nam!HandleRevoked
    /\ focus = "paths" => /\ Opn!ResolveRight /\ Opn!UserAgrees
                          /\ Opn!SplitInverts /\ Opn!CwdIsWhereItSays
    /\ focus = "open" => Opn!SeekExact /\ Opn!ListingComplete

\* A working directory of a process is never taken away by an unmount: its
\* volume stays mounted, or the process moves (vfs.c:752).
CwdSafe == [][focus = "vfs" => CwdKept]_storageVars
=============================================================================
