-------------------------------- MODULE Mgfs --------------------------------
(***************************************************************************)
(* The native filesystem, mgfs.c: the order of its block writes, what a    *)
(* failed write or a power loss leaves behind, the Record index and the    *)
(* name cache in memory, and what a file reads back.                       *)
(*                                                                         *)
(* The VFS serialises the operations of a volume, so an operation is fixed *)
(* when it starts: it is a plan, the sequence of its block writes and of   *)
(* its changes to memory, carried out one at a time.  A write may fail,    *)
(* which ends the operation where it stands, and the power may go between  *)
(* any two of them.  Sizes count units: a block holds BlockUnits of them,  *)
(* a File Record InlineUnits, and a directory entry is one unit.           *)
(***************************************************************************)
EXTENDS Naturals, Sequences, FiniteSets, SequencesExt

CONSTANTS
    FileName, FileByte,
    RecordSlots, DataBlocks,
    BlockUnits, InlineUnits,   \* MGFS_BLOCK_BYTES, MGFS_INLINE_DATA_BYTES
    RecordExtents,             \* extents in a File Record; more need a list block
    IndexMinimum,              \* least capacity of the Record index
    MaxRecordId, MaxMgfsOps, MaxMgfsFaults, WriteSizes

MgfsAssumption == InlineUnits < BlockUnits /\ RecordSlots > 1

VARIABLES
    disk,    \* [flag, next, alloc, used, table, data]
    memory,  \* [mounted, index, capacity, cache]
    plan,    \* rest of the running operation: [kind, id, steps]
    ghost    \* [ops, faults, torn, expect, lossy]: the history the properties speak of

mgfsVars == <<disk, memory, plan, ghost>>

Slots == 0 .. RecordSlots - 1
DataBlock == 1 .. DataBlocks
RootId == 1
\* bytes: the inline data; ext: the blocks of the extents in the record itself; total:
\* the number of extents; list: the block with the other extents.
NoRecord == [id |-> 0, type |-> "none", size |-> 0, inline |-> FALSE, bytes |-> <<>>,
             ext |-> <<>>, total |-> 0, list |-> 0]
NewRecord(id, type) == [NoRecord EXCEPT !.id = id, !.type = type]
Zeroes == [i \in 1 .. BlockUnits |-> "zero"]
Block(kind, c) == [kind |-> kind, c |-> c]
NoPlan == [kind |-> "none", id |-> 0, steps |-> <<>>]

MgfsInit ==
    /\ disk = [flag |-> "CLEAN", next |-> 2, alloc |-> {}, used |-> {0},
               table |-> [s \in Slots |-> IF s = 0 THEN NewRecord(RootId, "dir") ELSE NoRecord],
               data |-> [b \in DataBlock |-> Block("bytes", Zeroes)]]
    /\ memory = [mounted |-> TRUE, index |-> {<<RootId, 0>>}, capacity |-> IndexMinimum, cache |-> {}]
    /\ plan = NoPlan
    /\ ghost = [ops |-> 0, faults |-> 0, torn |-> {}, expect |-> [i \in 1 .. MaxRecordId |-> <<>>], lossy |-> {}]

-----------------------------------------------------------------------------
\* Reading the volume.

\* mgfs_find_record_slot() and mgfs_read_record(): the bitmap is not looked at.
Indexed(id) == {p \in memory.index : p[1] = id /\ disk.table[p[2]].id = id}
RecordFound(id) == Indexed(id) # {}
SlotOf(id) == (CHOOSE p \in Indexed(id) : TRUE)[2]
mgfs_read_record(id) == disk.table[SlotOf(id)]

\* Extents are the maximal runs of consecutive blocks.
Extents(ext) == IF ext = <<>> THEN 0 ELSE 1 + Cardinality({i \in 1 .. Len(ext) - 1 : ext[i + 1] # ext[i] + 1})

\* The blocks of a file or directory, and whether the list has as many extents as the
\* record says: a list is rewritten in place, before its record.
mgfs_collect_file_extents(r) ==
    IF r.list = 0 \/ disk.data[r.list].kind # "list" THEN r.ext ELSE r.ext \o disk.data[r.list].c
Collected(r) == Extents(mgfs_collect_file_extents(r)) = r.total

\* Reading a file, unlike writing it, wants every extent above the one before.
mgfs_read_file_block(r) ==
    LET b == mgfs_collect_file_extents(r) IN
    Collected(r) /\ \A i \in 1 .. Len(b) - 1 : b[i + 1] > b[i]
Units(r) == LET b == mgfs_collect_file_extents(r) IN FlattenSeq([i \in 1 .. Len(b) |-> disk.data[b[i]].c])
mgfs_read(r) == IF r.inline THEN r.bytes ELSE SubSeq(Units(r), 1, r.size)
mgfs_readable(r) == r.inline \/ mgfs_read_file_block(r)

\* The in-use entries of a directory: <<position, name, target>>.
DirectoryReadable(r) ==
    Collected(r) /\ \A b \in ToSet(mgfs_collect_file_extents(r)) : disk.data[b].kind = "entries"
mgfs_read_directory_entry(r) == SubSeq(Units(r), 1, r.size)
mgfs_scan_directory(r) ==
    LET s == mgfs_read_directory_entry(r) IN
    IF ~DirectoryReadable(r) THEN {} ELSE {<<i, s[i].name, s[i].target>> : i \in {j \in DOMAIN s : s[j].live}}
mgfs_locate_directory_entry(id, name) == {e \in mgfs_scan_directory(mgfs_read_record(id)) : e[2] = name}
mgfs_directory_has_live_entries(r) == mgfs_scan_directory(r) # {}

\* The directories below a directory, itself included, and what they name.
Named(S) == {i \in {e[3] : e \in UNION {mgfs_scan_directory(mgfs_read_record(d)) : d \in S}} :
                RecordFound(i) /\ SlotOf(i) \in disk.used}
Below(S) == S \cup {i \in Named(S) : mgfs_read_record(i).type = "dir"}
DirectoriesBelow(root) == Below(Below({root}))
mgfs_record_in_subtree(root, target) == target \in DirectoriesBelow(root)

-----------------------------------------------------------------------------
\* The steps of a plan.

SetFlag(v) == <<[w |-> "flag", v |-> v]>>
SetUsed(slot, v) == <<[w |-> "used", slot |-> slot, v |-> v]>>
SetNext(n) == <<[w |-> "next", n |-> n]>>
SetAlloc(b, v) == <<[w |-> "alloc", b |-> b, v |-> v]>>
PutRecord(slot, r) == <<[w |-> "table", slot |-> slot, r |-> r]>>
PutBlock(b, c) == <<[w |-> "data", b |-> b, c |-> c]>>
InsertId(id, slot) == <<[w |-> "index", id |-> id, slot |-> slot]>>
Forget(parent) == <<[w |-> "forget", parent |-> parent]>>
GiveUp == <<[w |-> "giveup"]>>
EachOf(s, Op(_)) == FlattenSeq([i \in 1 .. Len(s) |-> Op(s[i])])

\* mgfs_allocate_data_block() takes the lowest free block, n times.
FreeBlocks == DataBlock \ disk.alloc
mgfs_allocate_data_block(n) ==
    LET rank(b) == Cardinality({c \in FreeBlocks : c <= b}) IN
    [i \in 1 .. IF n < Cardinality(FreeBlocks) THEN n ELSE Cardinality(FreeBlocks) |->
        CHOOSE b \in FreeBlocks : rank(b) = i]

\* The blocks of a record that its successor does not use.
\* A mutant: the blocks that the new record keeps are released as well.
ReclaimAll(r, ext, list) == EachOf(mgfs_collect_file_extents(r), LAMBDA b : SetAlloc(b, FALSE))
mgfs_reclaim_obsolete_blocks(r, ext, list) ==
    EachOf(SelectSeq(mgfs_collect_file_extents(r), LAMBDA b : \A i \in DOMAIN ext : ext[i] # b), LAMBDA b : SetAlloc(b, FALSE))
        \o IF r.list \notin {0, list} THEN SetAlloc(r.list, FALSE) ELSE <<>>

\* The blocks of the first n extents.
FirstExtents(ext, n) == SelectSeq(ext, LAMBDA b : LET k == CHOOSE i \in DOMAIN ext : ext[i] = b IN
                                                  Extents(SubSeq(ext, 1, k)) <= n)

\* The record of a file or directory with blocks ext, after the write of its extent
\* list when it has more extents than fit; `taken' blocks were allocated before.
mgfs_write_extent_list(slot, r, new, ext, taken) ==
    LET own == FirstExtents(ext, RecordExtents)
        rest == SubSeq(ext, Len(own) + 1, Len(ext))
        fresh == mgfs_allocate_data_block(taken + 1)
        l == IF rest = <<>> THEN 0 ELSE IF r.list # 0 THEN r.list
             ELSE IF Len(fresh) > taken THEN fresh[taken + 1] ELSE 0
    IN IF rest # <<>> /\ l = 0 THEN GiveUp
       ELSE (IF l # 0 /\ r.list = 0 THEN SetAlloc(l, TRUE) ELSE <<>>)
            \o (IF l # 0 THEN PutBlock(l, Block("list", rest)) ELSE <<>>)
            \o PutRecord(slot, [new EXCEPT !.ext = own, !.total = Extents(ext), !.list = l])
ListOf(r, ext, taken) ==
    IF Extents(ext) <= RecordExtents THEN 0 ELSE IF r.list # 0 THEN r.list
    ELSE LET f == mgfs_allocate_data_block(taken + 1) IN IF Len(f) > taken THEN f[taken + 1] ELSE 0

\* mgfs_append_directory_entry(): the entry, then the size of the directory.
mgfs_append_directory_entry(id, name, target) ==
    LET r == mgfs_read_record(id)
        at == (r.size % BlockUnits) + 1
        grow == at = 1
        fresh == mgfs_allocate_data_block(1)
        blocks == mgfs_collect_file_extents(r)
        ext == IF grow THEN blocks \o fresh ELSE blocks
        old == IF grow THEN Zeroes ELSE disk.data[blocks[Len(blocks)]].c
        entry == [name |-> name, target |-> target, live |-> TRUE]
    IN IF ~Collected(r) \/ (grow /\ fresh = <<>>) THEN GiveUp
       ELSE (IF grow THEN SetAlloc(fresh[1], TRUE) ELSE <<>>)
            \o PutBlock(ext[Len(ext)], Block("entries", [old EXCEPT ![at] = entry]))
            \o mgfs_write_extent_list(SlotOf(id), r, [r EXCEPT !.size = @ + 1], ext, IF grow THEN 1 ELSE 0)
            \o Forget(id)

mgfs_find_directory_block(id, pos) == mgfs_collect_file_extents(mgfs_read_record(id))[((pos - 1) \div BlockUnits) + 1]
mgfs_publish_tombstone(id, pos) ==
    <<[w |-> "tomb", b |-> mgfs_find_directory_block(id, pos), at |-> ((pos - 1) % BlockUnits) + 1]>>

-----------------------------------------------------------------------------
\* Operations.

Ready == memory.mounted /\ plan = NoPlan /\ ghost.ops < MaxMgfsOps
Start(kind, id, steps) ==
    /\ plan' = [kind |-> kind, id |-> id, steps |-> steps]
    /\ ghost' = [ghost EXCEPT !.ops = @ + 1]
    /\ UNCHANGED <<disk, memory>>

Directories == DirectoriesBelow(RootId)
Reachable == Named(Directories)

\* A mutant: the entry is published before its File Record.
EntryFirst(dir, name, slot, type) ==
    SetFlag("FSCK") \o SetUsed(slot, TRUE) \o SetNext(disk.next + 1) \o InsertId(disk.next, slot)
        \o mgfs_append_directory_entry(dir, name, disk.next)
        \o PutRecord(slot, NewRecord(disk.next, type)) \o SetFlag("CLEAN")
\* A mutant: the state is never marked before the first write.
CreateUnmarked(dir, name, slot, type) ==
    SetUsed(slot, TRUE) \o SetNext(disk.next + 1) \o PutRecord(slot, NewRecord(disk.next, type))
        \o InsertId(disk.next, slot) \o mgfs_append_directory_entry(dir, name, disk.next) \o SetFlag("CLEAN")
\* A mutant: the next Record ID is not persisted.
CreateKeepsNext(dir, name, slot, type) ==
    SetFlag("FSCK") \o SetUsed(slot, TRUE) \o PutRecord(slot, NewRecord(disk.next, type)) \o InsertId(disk.next, slot)
        \o mgfs_append_directory_entry(dir, name, disk.next) \o SetFlag("CLEAN")
CreateSteps(dir, name, slot, type) ==
    SetFlag("FSCK") \o SetUsed(slot, TRUE) \o SetNext(disk.next + 1)
        \o PutRecord(slot, NewRecord(disk.next, type)) \o InsertId(disk.next, slot)
        \o mgfs_append_directory_entry(dir, name, disk.next) \o SetFlag("CLEAN")

mgfs_create_node(dir, name, type) ==
    LET free == Slots \ disk.used IN
    /\ Ready /\ disk.next <= MaxRecordId
    /\ mgfs_locate_directory_entry(dir, name) = {}
    /\ IF free = {} THEN Start("create", 0, SetFlag("FSCK") \o GiveUp)
       ELSE Start("create", disk.next, CreateSteps(dir, name, CHOOSE s \in free : \A t \in free : s <= t, type))

\* A mutant: the name stays in the cache.
DeleteKeepsName(dir, e, r) ==
    SetFlag("FSCK") \o mgfs_publish_tombstone(dir, e[1])
        \o SetUsed(SlotOf(e[3]), FALSE) \o mgfs_reclaim_obsolete_blocks(r, <<>>, 0) \o SetFlag("CLEAN")
DeleteSteps(dir, e, r) ==
    SetFlag("FSCK") \o mgfs_publish_tombstone(dir, e[1]) \o Forget(dir)
        \o SetUsed(SlotOf(e[3]), FALSE) \o mgfs_reclaim_obsolete_blocks(r, <<>>, 0) \o SetFlag("CLEAN")

\* mgfs_unlink() and mgfs_rmdir()
mgfs_delete_entry(dir, name) ==
    /\ Ready
    /\ \E e \in mgfs_locate_directory_entry(dir, name) :
         /\ RecordFound(e[3])
         /\ LET r == mgfs_read_record(e[3]) IN
            /\ Collected(r)
            /\ r.type = "dir" => DirectoryReadable(r) /\ ~mgfs_directory_has_live_entries(r)
            /\ Start("delete", e[3], DeleteSteps(dir, e, r))

mgfs_rename_entry(src, name, dst, new) ==
    /\ Ready
    /\ <<src, name>> # <<dst, new>>
    /\ mgfs_locate_directory_entry(dst, new) = {}
    /\ \E e \in mgfs_locate_directory_entry(src, name) :
         /\ RecordFound(e[3])
         /\ mgfs_read_record(e[3]).type = "dir" => ~mgfs_record_in_subtree(e[3], dst)
         /\ Start("rename", e[3], SetFlag("FSCK") \o mgfs_append_directory_entry(dst, new, e[3])
                                    \o mgfs_publish_tombstone(src, e[1]) \o SetFlag("CLEAN")
                                    \o Forget(src) \o Forget(dst))

\* mgfs_write() of n units v at offset o: the file ends where the write ends.
Overlay(old, o, n, v) == [i \in 1 .. o + n |-> IF i > o THEN v ELSE IF i <= Len(old) THEN old[i] ELSE "zero"]
\* A mutant: a block that the write covers in part is not read first.
BlockNotRead(r, ext, k, o, n, v) ==
    LET first == (k - 1) * BlockUnits IN
    [i \in 1 .. BlockUnits |-> IF first + i > o /\ first + i <= o + n THEN v ELSE "zero"]
WrittenBlock(r, ext, k, o, n, v) ==
    LET first == (k - 1) * BlockUnits
        base == IF k <= (r.size + BlockUnits - 1) \div BlockUnits THEN disk.data[ext[k]].c ELSE Zeroes
    IN [i \in 1 .. BlockUnits |-> IF first + i > o /\ first + i <= o + n THEN v ELSE base[i]]

WriteInline(id, r, o, n, v) ==
    SetFlag("FSCK")
        \o IF r.size > InlineUnits /\ ~mgfs_readable(r) THEN GiveUp
           ELSE PutRecord(SlotOf(id), [NewRecord(id, "file") EXCEPT !.inline = TRUE, !.size = o + n,
                                                                    !.bytes = Overlay(mgfs_read(r), o, n, v)])
                \o mgfs_reclaim_obsolete_blocks(r, <<>>, 0) \o SetFlag("CLEAN")

WriteExtents(id, r, o, n, v) ==
    LET need == (o + n + BlockUnits - 1) \div BlockUnits
        old == mgfs_collect_file_extents(r)
        kept == SubSeq(old, 1, IF need < Len(old) THEN need ELSE Len(old))
        fresh == mgfs_allocate_data_block(need - Len(kept))
        ext == kept \o fresh
    IN SetFlag("FSCK") \o EachOf(fresh, LAMBDA b : SetAlloc(b, TRUE))
       \o IF Len(ext) < need THEN GiveUp
          ELSE FlattenSeq([k \in 1 .. need |-> PutBlock(ext[k], Block("bytes", WrittenBlock(r, ext, k, o, n, v)))])
               \o mgfs_write_extent_list(SlotOf(id), r, [NewRecord(id, "file") EXCEPT !.size = o + n], ext, Len(fresh))
               \o mgfs_reclaim_obsolete_blocks(r, ext, ListOf(r, ext, Len(fresh))) \o SetFlag("CLEAN")

\* What the caller may expect to read afterwards, and the files that lose bytes on
\* the way: an inline file that grows into blocks reads its first block from the
\* disk, and extents that are not in ascending order are refused by mgfs_read().
Expected(id, o, n, v) == [ghost EXCEPT !.ops = @ + 1, !.expect[id] = Overlay(@, o, n, v)]

mgfs_write(id, o, n, v) ==
    /\ Ready /\ n > 0
    /\ LET r == mgfs_read_record(id)
           steps == IF o + n <= InlineUnits THEN WriteInline(id, r, o, n, v) ELSE WriteExtents(id, r, o, n, v) IN
       /\ r.type = "file" /\ o <= r.size /\ Collected(r)
       /\ plan' = [kind |-> "write", id |-> id, steps |-> steps]
       /\ ghost' = [Expected(id, o, n, v) EXCEPT
             !.lossy = IF r.inline /\ o > 0 /\ o + n > InlineUnits THEN @ \cup {id} ELSE @]
    /\ UNCHANGED <<disk, memory>>

mgfs_truncate(id) ==
    /\ Ready
    /\ LET r == mgfs_read_record(id) IN
       /\ r.type = "file" /\ Collected(r)
       /\ plan' = [kind |-> "write", id |-> id, steps |->
             SetFlag("FSCK") \o PutRecord(SlotOf(id), [NewRecord(id, "file") EXCEPT !.inline = TRUE])
                \o mgfs_reclaim_obsolete_blocks(r, <<>>, 0) \o SetFlag("CLEAN")]
       /\ ghost' = [ghost EXCEPT !.ops = @ + 1, !.expect[id] = <<>>]
    /\ UNCHANGED <<disk, memory>>

\* mgfs_finddir(): a name that was found is remembered.
mgfs_finddir(dir, name) ==
    /\ Ready
    /\ \E e \in mgfs_locate_directory_entry(dir, name) :
         /\ <<dir, name, e[3]>> \notin memory.cache
         /\ memory' = [memory EXCEPT !.cache = @ \cup {<<dir, name, e[3]>>}]
    /\ UNCHANGED <<disk, plan, ghost>>

-----------------------------------------------------------------------------
\* Carrying out a plan.

Written(s) ==
    CASE s.w = "flag"  -> [disk EXCEPT !.flag = s.v]
      [] s.w = "next"  -> [disk EXCEPT !.next = s.n, !.flag = "FSCK"]
      [] s.w = "used"  -> [disk EXCEPT !.used = IF s.v THEN @ \cup {s.slot} ELSE @ \ {s.slot}]
      [] s.w = "alloc" -> [disk EXCEPT !.alloc = IF s.v THEN @ \cup {s.b} ELSE @ \ {s.b}]
      [] s.w = "table" -> [disk EXCEPT !.table[s.slot] = s.r]
      [] s.w = "data"  -> [disk EXCEPT !.data[s.b] = s.c]
      [] s.w = "tomb"  -> [disk EXCEPT !.data[s.b].c[s.at].live = FALSE]
      [] OTHER -> disk

\* mgfs_insert_record_id() never removes; mgfs_dentry_cache_invalidate_parent().
mgfs_dentry_cache_invalidate_parent(parent) == {c \in memory.cache : c[1] # parent}
Remembered(s) ==
    CASE s.w = "index"  -> [memory EXCEPT !.index = @ \cup {<<s.id, s.slot>>}]
      [] s.w = "forget" -> [memory EXCEPT !.cache = mgfs_dentry_cache_invalidate_parent(s.parent)]
      [] OTHER -> memory

Refused(s) == s.w = "giveup" \/ (s.w = "index" /\ Cardinality(memory.index) >= memory.capacity)
Torn == [ghost EXCEPT !.torn = @ \cup {plan.kind}, !.lossy = IF plan.kind = "write" THEN @ \cup {plan.id} ELSE @]

mgfs_step ==
    /\ plan # NoPlan
    /\ LET s == Head(plan.steps) IN
       IF Refused(s) THEN plan' = NoPlan /\ ghost' = Torn /\ UNCHANGED <<disk, memory>>
       ELSE /\ disk' = Written(s) /\ memory' = Remembered(s)
            /\ plan' = IF Len(plan.steps) = 1 THEN NoPlan ELSE [plan EXCEPT !.steps = Tail(@)]
            /\ UNCHANGED ghost

\* mgfs_write_block() fails: the operation returns VFS_ERR_IO.
mgfs_write_fails ==
    /\ plan # NoPlan /\ ghost.faults < MaxMgfsFaults
    /\ Head(plan.steps).w \notin {"index", "forget", "giveup"}
    /\ plan' = NoPlan /\ ghost' = [Torn EXCEPT !.faults = @ + 1]
    /\ UNCHANGED <<disk, memory>>

power_loss ==
    /\ memory.mounted /\ ghost.faults < MaxMgfsFaults
    /\ memory' = [mounted |-> FALSE, index |-> {}, capacity |-> 0, cache |-> {}]
    /\ plan' = NoPlan
    /\ ghost' = [(IF plan = NoPlan THEN ghost ELSE Torn) EXCEPT !.faults = @ + 1]
    /\ UNCHANGED disk

\* mgfs_validate_record(), mgfs_scan_records(): every allocated record must be valid.
mgfs_scan_records ==
    /\ \A s \in disk.used : disk.table[s].id # 0
    /\ \A s, t \in disk.used : disk.table[s].id = disk.table[t].id => s = t
    /\ disk.table[0].id = RootId /\ disk.table[0].type = "dir"

mgfs_mount ==
    /\ ~memory.mounted /\ mgfs_scan_records
    /\ memory' = [mounted |-> TRUE, index |-> {<<disk.table[s].id, s>> : s \in disk.used},
                  capacity |-> IF 2 * Cardinality(disk.used) > IndexMinimum
                               THEN 2 * Cardinality(disk.used) ELSE IndexMinimum,
                  cache |-> {}]
    /\ UNCHANGED <<disk, plan, ghost>>

MgfsNext ==
    \/ \E dir \in IF Ready THEN Directories ELSE {}, name \in FileName :
         \/ \E type \in {"file", "dir"} : mgfs_create_node(dir, name, type)
         \/ mgfs_delete_entry(dir, name) \/ mgfs_finddir(dir, name)
         \/ \E dst \in Directories, new \in FileName : mgfs_rename_entry(dir, name, dst, new)
    \/ \E id \in IF Ready THEN Reachable ELSE {} :
         \/ \E o \in 0 .. 2, n \in WriteSizes, v \in FileByte : mgfs_write(id, o, n, v)
         \/ mgfs_truncate(id)
    \/ mgfs_step \/ mgfs_write_fails \/ power_loss \/ mgfs_mount

-----------------------------------------------------------------------------
\* What can be reached on the disk, whatever is in memory.
OnDisk(id) == {s \in disk.used : disk.table[s].id = id}
Entries(r) == mgfs_scan_directory(r)
Level(S) == S \cup UNION {UNION {OnDisk(e[3]) : e \in Entries(disk.table[s])} :
                          s \in {t \in S : disk.table[t].type = "dir"}}
Live == Level(Level(Level({0})))
BlocksOf(s) == LET r == disk.table[s] IN ToSet(mgfs_collect_file_extents(r)) \cup ({r.list} \ {0})
Untorn == "rename" \notin ghost.torn

\* A name always leads to a valid, allocated File Record: at every power loss and
\* after every failed write, as long as no rename was cut short (format.md: a move
\* is not power-loss atomic).
NoDanglingName ==
    Untorn => \A s \in Live : disk.table[s].type = "dir" =>
                  \A e \in Entries(disk.table[s]) : OnDisk(e[3]) # {}

\* Blocks of reachable files and directories are marked allocated and belong to one
\* of them only, at every point of every operation (format.md: allocation persists
\* bitmap ownership before metadata references newly allocated blocks).
BlocksOwnedOnce ==
    Untorn => /\ \A s \in Live : BlocksOf(s) \subseteq disk.alloc
              /\ \A s, t \in Live : s # t => BlocksOf(s) \cap BlocksOf(t) = {}

\* Record IDs are never used twice, also over power losses (README.md: a Record ID
\* is not reused within a filesystem).
IdsNeverReused == \A s, t \in Live : disk.table[s].id < disk.next /\ (disk.table[s].id = disk.table[t].id => s = t)

\* A volume that says CLEAN, and on which nothing was cut short, accounts for every
\* record and block exactly.
CleanIsExact ==
    disk.flag = "CLEAN" /\ ghost.torn = {} =>
        disk.used = Live /\ disk.alloc = UNION {BlocksOf(s) : s \in Live}

\* A cached name is an entry of its directory with that target.
CacheTrue ==
    memory.mounted /\ plan = NoPlan /\ Untorn =>
        \A c \in memory.cache : RecordFound(c[1]) /\ \E e \in mgfs_locate_directory_entry(c[1], c[2]) : e[3] = c[3]

\* A file reads back what was written to it, unless it grew from inline data to
\* blocks, which drops the inline bytes (mgfs.c:1607), a write to it was cut short,
\* or its extents are not in ascending order, which mgfs_read refuses.
ContentsKept ==
    memory.mounted /\ plan = NoPlan => \A id \in Reachable \ ghost.lossy :
        LET r == mgfs_read_record(id) IN
        r.type = "file" /\ mgfs_readable(r) => mgfs_read(r) = ghost.expect[id]
=============================================================================
