-------------------------------- MODULE Exfat --------------------------------
(***************************************************************************)
(* The exFAT driver, exfat.c: the allocation bitmap, the FAT and streams   *)
(* without a chain, entry sets in directories that grow, the dirty flag in *)
(* both boot regions, valid and data length, and the order of the writes.  *)
(* A cluster is one sector of XUnits cells; a cell is a unit of file data  *)
(* or a directory entry.  An entry set takes two cells here: the file      *)
(* entry, and its secondary entries together.  A set is read back only if  *)
(* both cells agree, which is what its checksum is for.                    *)
(***************************************************************************)
EXTENDS Naturals, Sequences, FiniteSets, SequencesExt

CONSTANTS
    XName, XFold,            \* names, and the up-case class of each
    XClusters, XUnits,       \* clusters are 1 .. XClusters; the root directory starts at 1
    XWrites,                 \* pairs of an offset and a size
    MaxXOps, MaxXFaults

ExfatAssumption == XClusters > 6 /\ XUnits = 3 /\ XFold \in [XName -> XName]

VARIABLES
    xd,     \* the medium: [main, backup: dirty flags, used: bitmap, fat, cell]
    xm,     \* [mounted, cached: fs->boot.volume_flags, node: the open file]
    xplan,  \* the writes the running operation still makes
    xg      \* [ops, faults, broken, full, restored]: what has happened

exfatVars == <<xd, xm, xplan, xg>>

XCluster == 1 .. XClusters
XEnd == XClusters + 1                          \* EXFAT_CLUSTER_EOC
NoInfo == [name |-> "", dir |-> FALSE, first |-> 0, nofat |-> FALSE, len |-> 0, vdl |-> 0]
Cell(t) == [t |-> t, k |-> 0, e |-> NoInfo]
Zeroed == [i \in 1 .. XUnits |-> Cell("zero")]
SetCells(e) == <<[t |-> "set", k |-> 1, e |-> e], [t |-> "set", k |-> 2, e |-> e]>>
NoFile == [dir |-> 0, at |-> 0, e |-> NoInfo]
Foreign == [NoInfo EXCEPT !.name = CHOOSE n \in XName : TRUE, !.first = 3, !.len = XUnits + 2, !.vdl = 1]

\* A volume written elsewhere: a fragmented file whose valid length is behind its
\* length, and old content in the clusters that are free.
ExfatInit ==
    /\ xd = [main |-> FALSE, backup |-> FALSE, used |-> {1, 2, 3, 5},
             fat |-> [c \in XCluster |-> CASE c = 1 -> 2 [] c = 3 -> 5 [] c \in {2, 5} -> XEnd [] OTHER -> 0],
             cell |-> [c \in XCluster |->
                CASE c = 1 -> <<Cell("system")>> \o SetCells(Foreign) [] c = 2 -> Zeroed
                  [] c = 3 -> <<Cell("data"), Cell("old"), Cell("old")>> [] OTHER -> [i \in 1 .. XUnits |-> Cell("old")]]]
    /\ xm = [mounted |-> FALSE, cached |-> FALSE, node |-> NoFile]
    /\ xplan = <<>>
    /\ xg = [ops |-> 0, faults |-> 0, broken |-> FALSE, full |-> FALSE, restored |-> FALSE]

-----------------------------------------------------------------------------
\* Single writes; `fail' is what the code does when the write fails.
WriteTo(w, c, v) == <<[w |-> w, c |-> c, v |-> v, fail |-> <<>>]>>
OnFail(steps, undo) == [i \in DOMAIN steps |-> [steps[i] EXCEPT !.fail = @ \o undo]]

exfat_set_volume_dirty(b) ==
    IF xm.cached = b THEN <<>> ELSE WriteTo("main", 0, b) \o WriteTo("backup", 0, b) \o WriteTo("cached", 0, b)
exfat_bitmap_set(c, used) == WriteTo(IF used THEN "used" ELSE "free", 0, {c})
exfat_bitmap_set_range(cs, used) == WriteTo(IF used THEN "used" ELSE "free", 0, cs)
exfat_fat_set(c, v) == WriteTo("fat", c, v)
exfat_zero_cluster(c) == WriteTo("cell", c, [i \in 1 .. XUnits |-> Cell("zero")])
SetNode(n) == WriteTo("node", 0, n)

RECURSIVE exfat_chain(_, _)
\* The clusters of a chain, exfat_chain_cluster() by exfat_chain_cluster().
exfat_chain(c, steps) ==
    IF c \notin XCluster \/ steps = 0 THEN <<>> ELSE <<c>> \o exfat_chain(xd.fat[c], steps - 1)
ClustersFor(len) == (len + XUnits - 1) \div XUnits
Streams(e) ==
    IF e.first = 0 THEN <<>>
    ELSE IF e.nofat THEN [i \in 1 .. (IF e.len = 0 THEN 1 ELSE ClustersFor(e.len)) |-> e.first + i - 1]
    ELSE exfat_chain(e.first, XClusters)

\* The writes that put cells at positions first, first + 1, ... of a stream, one for each sector.
PutAt(chain, first, cells) ==
    LET last == first + Len(cells) - 1
        touched == {j \in 1 .. Len(chain) : (j - 1) * XUnits < last /\ j * XUnits >= first}
        In(j) == {i \in 1 .. XUnits : (j - 1) * XUnits + i \in first .. last}
    IN FlattenSeq([j \in 1 .. Len(chain) |->
           IF j \in touched THEN WriteTo("cell", chain[j], [i \in In(j) |-> cells[(j - 1) * XUnits + i - first + 1]]) ELSE <<>>])

-----------------------------------------------------------------------------
XFree == XCluster \ xd.used
NthFree(n) == CHOOSE c \in XFree : Cardinality({d \in XFree : d < c}) = n - 1
Lowest(S) == CHOOSE c \in S : \A d \in S : c <= d

exfat_alloc_cluster(c) ==
    OnFail(exfat_bitmap_set(c, TRUE) \o exfat_fat_set(c, XEnd) \o exfat_zero_cluster(c), exfat_bitmap_set(c, FALSE))
exfat_find_free_run(n) == {c \in XFree : c + n - 1 <= XClusters /\ c .. c + n - 1 \subseteq XFree}
exfat_zero_cluster_run(cs) == FlattenSeq([i \in 1 .. Len(cs) |-> exfat_zero_cluster(cs[i])])

\* A mutant: only the first cluster is given back.
FreeHead(e) == IF e.first = 0 THEN <<>> ELSE exfat_bitmap_set(e.first, FALSE)
exfat_free_chain(e) ==
    LET cs == Streams(e) IN
    FlattenSeq([i \in 1 .. Len(cs) |->
        exfat_bitmap_set(cs[i], FALSE) \o (IF e.nofat THEN <<>> ELSE exfat_fat_set(cs[i], 0))])

\* exfat_append_directory_cluster(): link the new cluster behind the last one.
exfat_append(last, c) ==
    exfat_alloc_cluster(c)
        \o OnFail(exfat_fat_set(last, c), exfat_bitmap_set(c, FALSE) \o exfat_fat_set(c, 0))

-----------------------------------------------------------------------------
DirChain(d) == exfat_chain(d, XClusters)
DirCells(d) == FlattenSeq([i \in 1 .. Len(DirChain(d)) |-> xd.cell[DirChain(d)[i]]])
exfat_entry_set_read(cells, p) ==
    p < Len(cells) /\ cells[p + 1].t = "set" /\ cells[p + 1].k = 2 /\ cells[p + 1].e = cells[p].e

RECURSIVE exfat_directory_next(_, _)
\* The positions of the entry sets from p on; a set that does not read back ends the scan.
exfat_directory_next(cells, p) ==
    IF p > Len(cells) \/ cells[p].t = "zero" THEN {}
    ELSE IF cells[p].t = "set" /\ cells[p].k = 1
         THEN IF exfat_entry_set_read(cells, p) THEN {p} \cup exfat_directory_next(cells, p + 2) ELSE {}
         ELSE exfat_directory_next(cells, p + 1)

Sets(d) == exfat_directory_next(DirCells(d), 1)
exfat_find_entry(d, name) == {p \in Sets(d) : XFold[DirCells(d)[p].e.name] = XFold[name]}
XDirs == {1} \cup {DirCells(1)[p].e.first : p \in {q \in Sets(1) : DirCells(1)[q].e.dir}}

exfat_directory_empty(d) ==
    LET cells == DirCells(d)
        ends == {p \in 1 .. Len(cells) : cells[p].t = "zero" \/ (cells[p].t = "set" /\ cells[p].k = 1)}
    IN ends # {} /\ cells[Lowest(ends)].t = "zero"

\* exfat_find_free_entries(): where a set of n cells goes, and whether the directory
\* has to grow, which it also does when the set would fill it to the last cell.
Unused(cell) == cell.t \in {"zero", "deleted"}
Runs(cells, n) == {p \in 1 .. Len(cells) + 1 - n : \A i \in p .. p + n - 1 : Unused(cells[i])}
\* A mutant: a set may fill the directory to the last cell.
FillsUp(d, n) ==
    LET cells == DirCells(d) IN
    IF Runs(cells, n) # {} THEN [at |-> Lowest(Runs(cells, n)), grow |-> FALSE]
    ELSE [at |-> IF Unused(cells[Len(cells)]) THEN Len(cells) ELSE Len(cells) + 1, grow |-> TRUE]
exfat_find_free_entries(d, n) ==
    LET cells == DirCells(d) IN
    IF Runs(cells, n) # {}
    THEN [at |-> Lowest(Runs(cells, n)), grow |-> Lowest(Runs(cells, n)) + n - 1 = Len(cells)]
    ELSE [at |-> IF Unused(cells[Len(cells)]) THEN Len(cells) ELSE Len(cells) + 1, grow |-> TRUE]

\* The set of a directory below the root gets the new length of the directory.
exfat_directory_length_refresh(d, len) ==
    IF d = 1 THEN <<>>
    ELSE LET p == CHOOSE q \in Sets(1) : DirCells(1)[q].e.first = d
         IN PutAt(DirChain(1), p, SetCells([DirCells(1)[p].e EXCEPT !.len = len, !.vdl = len]))

\* The writes that put a set into a directory, with the n-th free cluster to grow by.
AddSet(d, e, n) ==
    LET place == exfat_find_free_entries(d, 2)
        chain == DirChain(d)
        added == NthFree(n)
        after == IF place.grow THEN Append(chain, added) ELSE chain
    IN [puts |-> (IF place.grow THEN exfat_append(chain[Len(chain)], added) ELSE <<>>) \o PutAt(after, place.at, SetCells(e)),
        refresh |-> IF place.grow THEN exfat_directory_length_refresh(d, Len(after) * XUnits) ELSE <<>>]
CanAdd(d, n) == exfat_find_free_entries(d, 2).grow => Cardinality(XFree) >= n

-----------------------------------------------------------------------------
XIdle == xplan = <<>>
Operation(steps) ==
    /\ xplan' = steps /\ steps # <<>>
    /\ xg' = [xg EXCEPT !.ops = @ + 1]
    /\ UNCHANGED <<xd, xm>>
ReadyX == XIdle /\ xm.mounted /\ xg.ops < MaxXOps

exfat_mount ==
    /\ XIdle /\ ~xm.mounted /\ xg.ops < MaxXOps
    /\ xm' = [mounted |-> TRUE, cached |-> xd.main, node |-> NoFile]
    /\ xplan' = IF xd.main THEN <<>> ELSE OnFail(WriteTo("main", 0, TRUE) \o WriteTo("backup", 0, TRUE) \o WriteTo("cached", 0, TRUE), WriteTo("out", 0, 0))
    /\ UNCHANGED <<xd, xg>>
exfat_sync == ReadyX /\ Operation(exfat_set_volume_dirty(FALSE))
\* The VFS syncs before it unmounts (Vfs).
exfat_unmount ==
    /\ XIdle /\ xm.mounted /\ xm.node = NoFile /\ ~xm.cached
    /\ xm' = [xm EXCEPT !.mounted = FALSE] /\ UNCHANGED <<xd, xplan, xg>>

\* exfat_create_internal(): a directory gets a zeroed cluster first.
exfat_create(d, name, dir) ==
    /\ ReadyX /\ exfat_find_entry(d, name) = {}
    /\ dir => d = 1 /\ XFree # {}
    /\ LET c == NthFree(1)
           e == IF dir THEN [NoInfo EXCEPT !.name = name, !.dir = TRUE, !.first = c, !.len = XUnits, !.vdl = XUnits]
                ELSE [NoInfo EXCEPT !.name = name]
           n == IF dir THEN 2 ELSE 1
           undo == IF dir THEN exfat_bitmap_set(c, FALSE) \o exfat_fat_set(c, 0) ELSE <<>>
           set == AddSet(d, e, n)
       IN Operation(exfat_set_volume_dirty(TRUE) \o (IF dir THEN exfat_alloc_cluster(c) ELSE <<>>)
                        \o IF CanAdd(d, n) THEN OnFail(set.puts, undo) \o set.refresh ELSE undo)

exfat_mark_entry_deleted(d, p) ==
    PutAt(DirChain(d), p, <<Cell("deleted")>>) \o PutAt(DirChain(d), p + 1, <<Cell("deleted")>>)
\* Users of an open file do not go on after it was removed or renamed.
NotOpen(d, p) == ~(xm.node.dir = d /\ xm.node.at = p)

exfat_delete(d, name) ==
    /\ ReadyX
    /\ \E p \in exfat_find_entry(d, name) :
         LET e == DirCells(d)[p].e IN
         /\ NotOpen(d, p) /\ (e.dir => exfat_directory_empty(e.first) /\ xm.node.dir # e.first)
         /\ Operation(exfat_set_volume_dirty(TRUE) \o exfat_mark_entry_deleted(d, p) \o exfat_free_chain(e))

\* A mutant: the flag is not raised first.
RenameUnmarked(d, src, to, dst) ==
    /\ ReadyX
    /\ \E p \in exfat_find_entry(d, src) :
         LET e == [DirCells(d)[p].e EXCEPT !.name = dst]
             same == exfat_find_entry(to, dst) = {p} /\ to = d
             set == AddSet(to, e, 1)
         IN /\ NotOpen(d, p) /\ (exfat_find_entry(to, dst) = {} \/ same) /\ (e.dir => to = 1)
            /\ Operation(IF same THEN PutAt(DirChain(d), p, SetCells(e))
                         ELSE IF CanAdd(to, 1) THEN set.puts \o exfat_mark_entry_deleted(d, p) \o set.refresh ELSE <<>>)
\* A mutant: the new name may be in use.
RenameOnto(d, src, to, dst) ==
    /\ ReadyX
    /\ \E p \in exfat_find_entry(d, src) :
         LET e == [DirCells(d)[p].e EXCEPT !.name = dst] IN
         NotOpen(d, p) /\ ~e.dir /\ CanAdd(to, 1) /\ Operation(exfat_set_volume_dirty(TRUE) \o AddSet(to, e, 1).puts \o exfat_mark_entry_deleted(d, p))
\* A rename that only changes the case rewrites the set in place; otherwise the new
\* set is written before the old one is marked.  No directory is moved below itself.
exfat_rename(d, src, to, dst) ==
    /\ ReadyX
    /\ \E p \in exfat_find_entry(d, src) :
         LET e == [DirCells(d)[p].e EXCEPT !.name = dst]
             same == exfat_find_entry(to, dst) = {p} /\ to = d
             set == AddSet(to, e, 1)
         IN /\ NotOpen(d, p) /\ (exfat_find_entry(to, dst) = {} \/ same) /\ (e.dir => to = 1)
            /\ Operation(exfat_set_volume_dirty(TRUE)
                   \o IF same THEN PutAt(DirChain(d), p, SetCells(e))
                      ELSE IF CanAdd(to, 1) THEN set.puts \o exfat_mark_entry_deleted(d, p) \o set.refresh ELSE <<>>)

-----------------------------------------------------------------------------
exfat_open(d, name) ==
    /\ XIdle /\ xm.mounted /\ xm.node = NoFile
    /\ \E p \in exfat_find_entry(d, name) :
         ~DirCells(d)[p].e.dir /\ xm' = [xm EXCEPT !.node = [dir |-> d, at |-> p, e |-> DirCells(d)[p].e]]
    /\ UNCHANGED <<xd, xplan, xg>>
exfat_close == XIdle /\ xm.node # NoFile /\ xm' = [xm EXCEPT !.node = NoFile] /\ UNCHANGED <<xd, xplan, xg>>

\* exfat_node_metadata_write(): the lengths and the first cluster go into the set.
\* A mutant: the flag for streams without a chain stays as it was.
MetadataKeepsFlag(n) ==
    PutAt(DirChain(n.dir), n.at, SetCells([n.e EXCEPT !.nofat = DirCells(n.dir)[n.at].e.nofat]))
exfat_node_metadata_write(n) == PutAt(DirChain(n.dir), n.at, SetCells(n.e))

\* What follows the allocation: the tail behind the valid length is zeroed up to the
\* new data, the data is written, and only then the set.
\* A mutant: the tail is not zeroed.
TailLeft(n, chain, o, size) ==
    LET end == o + size
        long == [n EXCEPT !.e.len = IF end > @ THEN end ELSE @]
        done == [long EXCEPT !.e.vdl = IF o > @ THEN end ELSE IF end > @ THEN end ELSE @]
    IN SetNode(long) \o PutAt(chain, o + 1, [i \in 1 .. size |-> Cell("data")]) \o SetNode(done) \o exfat_node_metadata_write(done)
WriteData(n, chain, o, size) ==
    LET end == o + size
        stop == IF o < n.e.len THEN o ELSE n.e.len
        long == [n EXCEPT !.e.len = IF end > @ THEN end ELSE @]
        done == [long EXCEPT !.e.vdl = IF o > @ THEN end ELSE IF end > @ THEN end ELSE @]
    IN SetNode(long)
         \o (IF n.e.vdl < stop THEN PutAt(chain, n.e.vdl + 1, [i \in 1 .. stop - n.e.vdl |-> Cell("zero")]) ELSE <<>>)
         \o PutAt(chain, o + 1, [i \in 1 .. size |-> Cell("data")])
         \o SetNode(done) \o exfat_node_metadata_write(done)

RECURSIVE Extend(_, _, _, _, _, _)
\* Cluster by cluster until there are enough, or no more.
Extend(n, chain, need, nth, o, size) ==
    IF Len(chain) >= need THEN WriteData(n, chain, o, size)
    ELSE IF nth > Cardinality(XFree) THEN WriteTo("full", 0, 0)
    ELSE exfat_append(chain[Len(chain)], NthFree(nth)) \o Extend(n, Append(chain, NthFree(nth)), need, nth + 1, o, size)

\* A stream without a chain gets one before it grows elsewhere.
Convert(n, need, o, size) ==
    LET cs == Streams(n.e)
        chained == [n EXCEPT !.e.nofat = FALSE]
    IN FlattenSeq([i \in 1 .. Len(cs) |-> exfat_fat_set(cs[i], IF i < Len(cs) THEN cs[i + 1] ELSE XEnd)])
         \o SetNode(chained) \o Extend(chained, cs, need, 1, o, size)
FirstCluster(n, need, o, size) ==
    IF XFree = {} THEN WriteTo("full", 0, 0)
    ELSE LET c == NthFree(1)
             chained == [n EXCEPT !.e.first = c, !.e.nofat = FALSE]
         IN exfat_alloc_cluster(c) \o SetNode(chained) \o Extend(chained, <<c>>, need, 2, o, size)

\* exfat_allocate_file_space() with the writes that follow it.
exfat_allocate_file_space(n, need, o, size) ==
    LET cs == Streams(n.e)
        next == n.e.first + Len(cs)
        more == [i \in 1 .. need - Len(cs) |-> next + i - 1]
    IN IF Len(cs) >= need THEN WriteData(n, cs, o, size)
       ELSE IF n.e.nofat /\ cs # <<>>
       THEN IF need <= XClusters /\ ToSet(more) \subseteq XFree
            THEN OnFail(exfat_bitmap_set_range(ToSet(more), TRUE), Convert(n, need, o, size))
                   \o OnFail(exfat_zero_cluster_run(more), exfat_bitmap_set_range(ToSet(more), FALSE))
                   \o WriteData(n, cs \o more, o, size)
            ELSE Convert(n, need, o, size)
       ELSE IF cs = <<>>
       THEN IF exfat_find_free_run(need) # {}
            THEN LET c == Lowest(exfat_find_free_run(need))
                     run == [i \in 1 .. need |-> c + i - 1]
                     new == [n EXCEPT !.e.first = c, !.e.nofat = TRUE]
                 IN OnFail(exfat_bitmap_set_range(ToSet(run), TRUE), FirstCluster(n, need, o, size))
                      \o OnFail(exfat_zero_cluster_run(run), exfat_bitmap_set_range(ToSet(run), FALSE) \o FirstCluster(n, need, o, size))
                      \o SetNode(new) \o WriteData(new, run, o, size)
            ELSE FirstCluster(n, need, o, size)
       ELSE Extend(n, cs, need, 1, o, size)

exfat_node_write(o, size) ==
    /\ ReadyX /\ xm.node # NoFile
    /\ Operation(exfat_set_volume_dirty(TRUE) \o exfat_allocate_file_space(xm.node, ClustersFor(o + size), o, size))

exfat_truncate ==
    LET n == xm.node
        none == [n EXCEPT !.e.first = 0, !.e.nofat = FALSE, !.e.len = 0, !.e.vdl = 0]
    IN /\ ReadyX /\ n # NoFile
       /\ Operation(exfat_set_volume_dirty(TRUE) \o SetNode(none)
              \o OnFail(exfat_node_metadata_write(none), WriteTo("restored", 0, 0) \o SetNode([n EXCEPT !.e.vdl = n.e.len]))
              \o exfat_free_chain(n.e))

\* exfat_set_label() on a volume that is not mounted.  The directory grows, if it has
\* to, before the volume is marked dirty.
Labels == {p \in 1 .. Len(DirCells(1)) : DirCells(1)[p].t = "label"}
exfat_set_label(empty) ==
    LET place == exfat_find_free_entries(1, 1)
        chain == DirChain(1)
        grow == Labels = {} /\ place.grow
        after == IF grow THEN Append(chain, NthFree(1)) ELSE chain
        at == IF Labels = {} THEN place.at ELSE Lowest(Labels)
        flag(b) == IF xd.main THEN <<>> ELSE WriteTo("main", 0, b) \o WriteTo("backup", 0, b)
    IN /\ XIdle /\ ~xm.mounted /\ xg.ops < MaxXOps
       /\ ~(empty /\ Labels = {}) /\ (grow => XFree # {})
       /\ Operation((IF grow THEN exfat_append(chain[Len(chain)], NthFree(1)) ELSE <<>>)
                        \o flag(TRUE) \o PutAt(after, at, <<Cell(IF empty THEN "deleted" ELSE "label")>>) \o flag(FALSE))

-----------------------------------------------------------------------------
Landed(s) ==
    CASE s.w = "main" -> [xd EXCEPT !.main = s.v]
      [] s.w = "backup" -> [xd EXCEPT !.backup = s.v]
      [] s.w = "used" -> [xd EXCEPT !.used = @ \cup s.v]
      [] s.w = "free" -> [xd EXCEPT !.used = @ \ s.v]
      [] s.w = "fat" -> [xd EXCEPT !.fat[s.c] = s.v]
      [] s.w = "cell" -> [xd EXCEPT !.cell[s.c] = [i \in 1 .. XUnits |-> IF i \in DOMAIN s.v THEN s.v[i] ELSE @[i]]]
      [] OTHER -> xd
InMemory == {"node", "cached", "full", "restored", "out"}

exfat_write ==
    /\ xplan # <<>>
    /\ LET s == Head(xplan) IN
       /\ xd' = Landed(s)
       /\ xm' = CASE s.w = "node" -> [xm EXCEPT !.node = s.v] [] s.w = "cached" -> [xm EXCEPT !.cached = s.v]
                  [] s.w = "out" -> [xm EXCEPT !.mounted = FALSE] [] OTHER -> xm
       /\ xg' = [xg EXCEPT !.full = @ \/ s.w = "full", !.restored = @ \/ s.w = "restored"]
    /\ xplan' = Tail(xplan)

exfat_write_fails ==
    /\ xplan # <<>> /\ Head(xplan).w \notin InMemory /\ xg.faults < MaxXFaults
    /\ xplan' = Head(xplan).fail
    /\ xg' = [xg EXCEPT !.faults = @ + 1, !.broken = @ \/ Head(xplan).w \notin {"main", "backup"}]
    /\ UNCHANGED <<xd, xm>>

\* The medium is pulled or the power goes; what was being written is lost.
exfat_power_loss ==
    /\ (xm.mounted \/ xplan # <<>>) /\ xg.faults < MaxXFaults
    /\ xm' = [xm EXCEPT !.mounted = FALSE, !.node = NoFile] /\ xplan' = <<>>
    /\ xg' = [xg EXCEPT !.faults = @ + 1, !.broken = @ \/ xplan # <<>> \/ xd.main \/ xd.backup]
    /\ UNCHANGED xd

ExfatNext ==
    \/ exfat_mount \/ exfat_sync \/ exfat_unmount \/ exfat_close \/ exfat_truncate
    \/ \E b \in BOOLEAN : exfat_set_label(b)
    \/ \E x \in XWrites : exfat_node_write(x[1], x[2])
    \/ \E d \in XDirs, name \in XName :
         \/ \E dir \in BOOLEAN : exfat_create(d, name, dir)
         \/ exfat_delete(d, name) \/ exfat_open(d, name)
         \/ \E to \in XDirs, dst \in XName : exfat_rename(d, name, to, dst)
    \/ exfat_write \/ exfat_write_fails \/ exfat_power_loss

-----------------------------------------------------------------------------
Owners == {<<d, p>> : d \in XDirs, p \in 1 .. XClusters * XUnits}
LiveSet(x) == x[2] \in Sets(x[1])
InfoOf(x) == DirCells(x[1])[x[2]].e
LiveSets == {x \in Owners : LiveSet(x)}
Taken(x) == ToSet(Streams(InfoOf(x)))

\* Every set owns clusters that are marked in the bitmap and that no other set owns.
SetsSound ==
    /\ \A x \in LiveSets : Taken(x) \subseteq xd.used
    /\ \A x, y \in LiveSets : x # y => Taken(x) \cap Taken(y) = {}

\* Between operations the bitmap is exact: streams grow, turn into chains and shrink
\* without losing or sharing a cluster, unless a write failed or the volume was full.
BitmapExact ==
    XIdle /\ ~xg.broken =>
        SetsSound /\ (~xg.full => xd.used = ToSet(DirChain(1)) \cup UNION {Taken(x) : x \in LiveSets})

\* Whenever the power goes on a volume that both boot regions call clean, its sets are
\* sound: every operation raises the flag before it touches anything else.
CleanIsSound == ~xd.main /\ ~xd.backup /\ ~xg.broken => SetsSound

\* The cells an open file may show: exfat_node_read() returns zeros behind the valid length.
exfat_node_read(n) ==
    LET cs == Streams(n.e) IN
    {xd.cell[cs[((i - 1) \div XUnits) + 1]][((i - 1) % XUnits) + 1].t :
        i \in {j \in 1 .. n.e.vdl : ClustersFor(j) <= Len(cs)}}

\* What an open file shows is never old content of its clusters (a truncation whose
\* write fails moves the valid length: `restored').
ValidIsWritten == ~xg.restored /\ SetsSound /\ xm.node # NoFile => "old" \notin exfat_node_read(xm.node)

\* Every directory keeps an end mark behind its last set, and nothing lives behind it:
\* all sets are found, and a directory without sets can be removed.
EndMarked ==
    XIdle /\ ~xg.broken => \A d \in XDirs :
        LET cells == DirCells(d) IN
        /\ \E p \in 1 .. Len(cells) : cells[p].t = "zero" /\ \A q \in p .. Len(cells) : cells[q].t = "zero"
        /\ Sets(d) = {p \in 1 .. Len(cells) : cells[p].t = "set" /\ cells[p].k = 1}

\* Names that are equal under the up-case table never live in one directory.
FoldedUnique ==
    XIdle /\ ~xg.broken => \A x, y \in LiveSets : x[1] = y[1] /\ XFold[InfoOf(x).name] = XFold[InfoOf(y).name] => x = y

\* An open file and its set on the medium lead to the same clusters, for as much of
\* the file as both know.
NodeAgrees ==
    XIdle /\ ~xg.broken /\ xm.node # NoFile =>
        LET e == DirCells(xm.node.dir)[xm.node.at].e
            n == ClustersFor(IF e.len < xm.node.e.len THEN e.len ELSE xm.node.e.len)
        IN \A i \in 1 .. n : i <= Len(Streams(e)) /\ i <= Len(Streams(xm.node.e)) /\ Streams(e)[i] = Streams(xm.node.e)[i]
=============================================================================
