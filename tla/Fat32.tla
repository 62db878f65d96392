-------------------------------- MODULE Fat32 --------------------------------
(***************************************************************************)
(* The FAT32 driver, fat32.c: cluster chains and their two copies, one-    *)
(* cluster directories, open nodes with their own idea of a file's size,   *)
(* and the order of the writes, each of which may fail or be the last one  *)
(* before the power goes.  A cluster holds ClusterUnits units of data or   *)
(* DirEntries directory entries; names are 8.3 names that differ.          *)
(***************************************************************************)
EXTENDS Naturals, Sequences, FiniteSets, SequencesExt

CONSTANTS
    FatName, FatHandle,
    Clusters,                \* fs->total_clusters: clusters are 2 .. Clusters - 1
    ClusterUnits, DirEntries,
    MaxFatOps, MaxFatFaults

FatAssumption == Clusters > 4 /\ DirEntries > 2

VARIABLES
    vol,    \* [fat, mirror, dirs, data]: what is on the medium
    nodes,  \* handle -> [cluster, size] of an open file, or NoNode
    hint,   \* fs->next_free_cluster
    job,    \* the rest of the running operation: [steps, undo, retry]
    fgh     \* [ops, faults, tails]: tails are clusters with data beyond the size of a truncated file

fatVars == <<vol, nodes, hint, job, fgh>>

Cluster == 2 .. Clusters - 1
Eoc == 99
RootCluster == 2
NoNode == [cluster |-> 0, size |-> 0]
NoJob == [steps |-> <<>>, undo |-> <<>>, retry |-> 0, args |-> <<>>]
End == [kind |-> "end", name |-> "", cluster |-> 0, size |-> 0]
Blank == [i \in 1 .. DirEntries |-> End]
NoBytes == [i \in 1 .. ClusterUnits |-> "zero"]
Imported == [kind |-> "file", name |-> CHOOSE n \in FatName : TRUE, cluster |-> 3, size |-> ClusterUnits + 1]

\* A medium with a root directory and one file of two clusters, written elsewhere.
FatInit ==
    LET f == [c \in Cluster |-> CASE c = RootCluster -> Eoc [] c = 3 -> 4 [] c = 4 -> Eoc [] OTHER -> 0] IN
    /\ vol = [fat |-> f, mirror |-> f, dirs |-> [c \in Cluster |-> IF c = RootCluster THEN [Blank EXCEPT ![1] = Imported] ELSE Blank],
              data |-> [c \in Cluster |-> IF c \in {3, 4} THEN [NoBytes EXCEPT ![1] = "old"] ELSE NoBytes]]
    /\ nodes = [h \in FatHandle |-> NoNode]
    /\ hint = 2 /\ job = NoJob
    /\ fgh = [ops |-> 0, faults |-> 0, tails |-> {}]

-----------------------------------------------------------------------------
fat32_get_next_cluster(c) == vol.fat[c]

\* The chain of a cluster; a chain on this medium has no more than three links.
Chain(c) ==
    LET n(x) == fat32_get_next_cluster(x) IN
    IF c \notin Cluster THEN <<>> ELSE IF n(c) \notin Cluster THEN <<c>>
    ELSE IF n(n(c)) \notin Cluster THEN <<c, n(c)>> ELSE <<c, n(c), n(n(c))>>

\* fat32_set_next_cluster() writes every copy of the table.
SetLink(c, v) == <<[w |-> "fat", c |-> c, v |-> v], [w |-> "mirror", c |-> c, v |-> v]>>
fat32_zero_cluster(c) == <<[w |-> "zero", c |-> c]>>
PutDirectory(c, entries) == <<[w |-> "dir", c |-> c, e |-> entries]>>
PutData(c, bytes) == <<[w |-> "data", c |-> c, b |-> bytes]>>

\* The search for a free cluster starts at `start' and wraps around once.
Distance(c, start) == IF c >= start THEN c - start ELSE c + (Clusters - 2) - start
FreeClusters == {c \in Cluster : vol.fat[c] = 0}
NextFree(start) == CHOOSE c \in FreeClusters : \A d \in FreeClusters : Distance(c, start) <= Distance(d, start)
\* A mutant: the cluster keeps what it held.
AllocUnzeroed(c) == SetLink(c, Eoc) \o <<[w |-> "hint", c |-> c]>>
fat32_alloc_cluster(c) == SetLink(c, Eoc) \o fat32_zero_cluster(c) \o <<[w |-> "hint", c |-> c]>>

\* A mutant: only the first cluster of the chain is freed.
FreeFirst(c) == SetLink(c, 0)
fat32_free_chain(c) == FlattenSeq([i \in 1 .. Len(Chain(c)) |-> SetLink(Chain(c)[i], 0)])

\* Entries of a directory up to the end mark; fat32_finddir().
Visible(d) == {i \in 1 .. DirEntries : vol.dirs[d][i].kind \in {"file", "dir"} /\ \A j \in 1 .. i : vol.dirs[d][j].kind # "end"}
fat32_finddir(d, name) == {i \in Visible(d) : vol.dirs[d][i].name = name}
FreeEntry(d) == {i \in 1 .. DirEntries : vol.dirs[d][i].kind \in {"end", "free"} /\ \A j \in 1 .. i - 1 : vol.dirs[d][j].kind \notin {"end", "free"}}
SubDirectories == {vol.dirs[RootCluster][i].cluster : i \in {j \in Visible(RootCluster) : vol.dirs[RootCluster][j].kind = "dir"}}
Dirs == {RootCluster} \cup SubDirectories

-----------------------------------------------------------------------------
FatReady == job = NoJob /\ fgh.ops < MaxFatOps
Begin(steps, undo, retry, args) ==
    /\ job' = [steps |-> steps, undo |-> undo, retry |-> retry, args |-> args]
    /\ fgh' = [fgh EXCEPT !.ops = @ + 1]
    /\ UNCHANGED <<vol, nodes, hint>>

CreateWrites(d, name, kind, c) ==
    LET i == CHOOSE j \in FreeEntry(d) : TRUE IN
    fat32_alloc_cluster(c)
        \o (IF kind = "dir" THEN PutDirectory(c, Blank) ELSE <<>>)
        \o IF FreeEntry(d) = {} THEN SetLink(c, 0)
           ELSE PutDirectory(d, [vol.dirs[d] EXCEPT ![i] = [kind |-> kind, name |-> name, cluster |-> c, size |-> 0]])

\* fat32_create() and fat32_mkdir(); a directory below the root holds no directory here.
fat32_create(d, name, kind) ==
    /\ FatReady /\ fat32_finddir(d, name) = {} /\ FreeClusters # {}
    /\ kind = "dir" => d = RootCluster
    /\ LET c == NextFree(hint) IN Begin(CreateWrites(d, name, kind, c), SetLink(c, 0), c, <<d, name, kind>>)

\* fat32_unlink() and fat32_rmdir(): the entry first, then the chain.  Users of an
\* open node do not go on after they have removed its file.
\* A mutant: the chain first, then the entry.
ChainFirst(d, i) == fat32_free_chain(vol.dirs[d][i].cluster) \o PutDirectory(d, [vol.dirs[d] EXCEPT ![i].kind = "free"])
RemoveWrites(d, i) == PutDirectory(d, [vol.dirs[d] EXCEPT ![i].kind = "free"]) \o fat32_free_chain(vol.dirs[d][i].cluster)
fat32_unlink(d, name) ==
    /\ FatReady
    /\ \E i \in fat32_finddir(d, name) :
         /\ vol.dirs[d][i].kind = "dir" => Visible(vol.dirs[d][i].cluster) = {}
         /\ \A h \in FatHandle : nodes[h].cluster # vol.dirs[d][i].cluster
         /\ Begin(RemoveWrites(d, i), <<>>, 0, <<>>)

\* A mutant: an entry that has the new name already does not matter.
RenameOver(d, src, dst) ==
    /\ FatReady /\ src # dst
    /\ \E i \in fat32_finddir(d, src) : Begin(PutDirectory(d, [vol.dirs[d] EXCEPT ![i].name = dst]), <<>>, 0, <<>>)
\* Within one directory; the entry is rewritten in place.
fat32_rename(d, src, dst) ==
    /\ FatReady /\ src # dst /\ fat32_finddir(d, dst) = {}
    /\ \E i \in fat32_finddir(d, src) : Begin(PutDirectory(d, [vol.dirs[d] EXCEPT ![i].name = dst]), <<>>, 0, <<>>)

fat32_open(h, d, name) ==
    /\ job = NoJob /\ nodes[h] = NoNode
    /\ \E i \in fat32_finddir(d, name) :
         /\ vol.dirs[d][i].kind = "file"
         /\ nodes' = [nodes EXCEPT ![h] = [cluster |-> vol.dirs[d][i].cluster, size |-> vol.dirs[d][i].size]]
    /\ UNCHANGED <<vol, hint, job, fgh>>
fat32_close(h) == job = NoJob /\ nodes[h] # NoNode /\ nodes' = [nodes EXCEPT ![h] = NoNode] /\ UNCHANGED <<vol, hint, job, fgh>>

\* The first file entry with that first cluster, from the root down, gets the size.
Holders(c) == {<<d, i>> \in Dirs \X (1 .. DirEntries) : i \in Visible(d) /\ vol.dirs[d][i].kind = "file" /\ vol.dirs[d][i].cluster = c}
fat32_update_dirent_size(c, size) ==
    IF Holders(c) = {} THEN <<>>
    ELSE LET x == CHOOSE y \in Holders(c) : TRUE IN PutDirectory(x[1], [vol.dirs[x[1]] EXCEPT ![x[2]].size = size])

\* fat32_write() of n units v at offset o stays within the chain.
Patched(c, first, o, n, v) == [i \in 1 .. ClusterUnits |-> IF first + i > o /\ first + i <= o + n THEN v ELSE vol.data[c][i]]
fat32_write(h, o, n, v) ==
    LET chain == Chain(nodes[h].cluster)
        room == Len(chain) * ClusterUnits
        len == IF n < room - o THEN n ELSE room - o
        touched == {k \in 1 .. Len(chain) : (k - 1) * ClusterUnits < o + len /\ k * ClusterUnits > o}
        grows == o + len > nodes[h].size
    IN /\ FatReady /\ nodes[h] # NoNode /\ o < room
       /\ job' = [NoJob EXCEPT !.steps =
            FlattenSeq([k \in 1 .. Len(chain) |->
                IF k \in touched THEN PutData(chain[k], Patched(chain[k], (k - 1) * ClusterUnits, o, len, v)) ELSE <<>>])
            \o IF grows THEN fat32_update_dirent_size(nodes[h].cluster, o + len) ELSE <<>>]
       /\ nodes' = IF grows THEN [nodes EXCEPT ![h].size = o + len] ELSE nodes
       /\ fgh' = [fgh EXCEPT !.ops = @ + 1]
       /\ UNCHANGED <<vol, hint>>

\* The chain and its data stay.
fat32_truncate(h) ==
    /\ FatReady /\ nodes[h] # NoNode /\ nodes[h].size > 0
    /\ fat32_update_dirent_size(nodes[h].cluster, 0) # <<>>
    /\ job' = [NoJob EXCEPT !.steps = fat32_update_dirent_size(nodes[h].cluster, 0)]
    /\ nodes' = [nodes EXCEPT ![h].size = 0]
    /\ fgh' = [fgh EXCEPT !.ops = @ + 1, !.tails = @ \cup {nodes[h].cluster}]
    /\ UNCHANGED <<vol, hint>>

-----------------------------------------------------------------------------
Stored(s) ==
    CASE s.w = "fat" -> [vol EXCEPT !.fat[s.c] = s.v]
      [] s.w = "mirror" -> [vol EXCEPT !.mirror[s.c] = s.v]
      [] s.w = "zero" -> [vol EXCEPT !.data[s.c] = NoBytes, !.dirs[s.c] = Blank]
      [] s.w = "dir" -> [vol EXCEPT !.dirs[s.c] = s.e]
      [] s.w = "data" -> [vol EXCEPT !.data[s.c] = s.b]
      [] OTHER -> vol

fat_step ==
    /\ job # NoJob
    /\ LET s == Head(job.steps) IN
       /\ vol' = Stored(s)
       /\ hint' = IF s.w # "hint" THEN hint ELSE IF s.c + 1 >= Clusters THEN 2 ELSE s.c + 1
       /\ job' = IF Len(job.steps) = 1 THEN NoJob ELSE [job EXCEPT !.steps = Tail(@)]
    /\ UNCHANGED <<nodes, fgh>>

\* A write fails: an allocation goes on to the next free cluster, a directory write
\* gives the new cluster back, the zeroing of a cluster and the freeing of a chain
\* are not checked.
fat_write_fails ==
    /\ job # NoJob /\ fgh.faults < MaxFatFaults
    /\ fgh' = [fgh EXCEPT !.faults = @ + 1]
    /\ LET s == Head(job.steps)
           unchecked == s.w = "zero" \/ (s.w \in {"fat", "mirror"} /\ s.v = 0)
           rest == IF Len(job.steps) = 1 THEN NoJob ELSE [job EXCEPT !.steps = Tail(@)]
       IN /\ s.w # "hint"
          /\ job' = IF unchecked THEN rest
                    ELSE IF s.w \in {"fat", "mirror"}
                    THEN IF FreeClusters \ {job.retry} = {} THEN NoJob
                         ELSE LET c == CHOOSE x \in FreeClusters \ {job.retry} :
                                         \A y \in FreeClusters \ {job.retry} : Distance(x, job.retry) <= Distance(y, job.retry)
                              IN [steps |-> CreateWrites(job.args[1], job.args[2], job.args[3], c),
                                  undo |-> SetLink(c, 0), retry |-> c, args |-> job.args]
                    ELSE IF job.undo # <<>> THEN [NoJob EXCEPT !.steps = job.undo] ELSE NoJob
    /\ UNCHANGED <<vol, nodes, hint>>

\* The power goes, or the medium is pulled, and the volume is mounted again.
fat_remount ==
    /\ fgh.faults < MaxFatFaults
    /\ fgh' = [fgh EXCEPT !.faults = @ + 1]
    /\ nodes' = [h \in FatHandle |-> NoNode] /\ hint' = 2 /\ job' = NoJob
    /\ UNCHANGED vol

FatNext ==
    \/ \E d \in Dirs, name \in FatName :
         \/ \E kind \in {"file", "dir"} : fat32_create(d, name, kind)
         \/ fat32_unlink(d, name)
         \/ \E dst \in FatName : fat32_rename(d, name, dst)
         \/ \E h \in FatHandle : fat32_open(h, d, name)
    \/ \E h \in FatHandle :
         \/ fat32_close(h) \/ fat32_truncate(h)
         \/ \E o \in 0 .. ClusterUnits, n \in {1, ClusterUnits + 1} : fat32_write(h, o, n, "new")
    \/ fat_step \/ fat_write_fails \/ fat_remount

-----------------------------------------------------------------------------
FileEntries == {<<d, i>> \in Dirs \X (1 .. DirEntries) : i \in Visible(d)}
EntryOf(x) == vol.dirs[x[1]][x[2]]
Links(x) == ToSet(Chain(EntryOf(x).cluster))

\* Every name owns an allocated chain that no other name shares, at every point where
\* the power may go or a write may fail.
ChainsSound ==
    /\ \A x \in FileEntries : EntryOf(x).cluster \in Cluster /\ \A c \in Links(x) : vol.fat[c] # 0
    /\ \A x, y \in FileEntries : x # y => Links(x) \cap Links(y) = {}

\* No name occurs twice in a directory.
NamesUnique == \A x, y \in FileEntries : x[1] = y[1] /\ EntryOf(x).name = EntryOf(y).name => x = y

\* Nothing but the clusters of names is allocated while nothing runs and no write was
\* lost: an operation that fails for want of space gives its cluster back.
NoLostClusters ==
    job = NoJob /\ fgh.faults = 0 =>
        {c \in Cluster : vol.fat[c] # 0} = {RootCluster} \cup UNION {Links(x) : x \in FileEntries}

\* Bytes that a read may return: fat32_read() stops at the size of the node.
Readable(x) ==
    SubSeq(FlattenSeq([i \in 1 .. Len(Chain(EntryOf(x).cluster)) |-> vol.data[Chain(EntryOf(x).cluster)[i]]]), 1, EntryOf(x).size)

\* A new file never shows what its clusters held before, unless it was truncated.
NoOldContent ==
    job = NoJob /\ fgh.faults = 0 => \A x \in FileEntries :
        EntryOf(x).kind = "file" /\ EntryOf(x).cluster \notin {3} \cup fgh.tails => "old" \notin ToSet(Readable(x))
=============================================================================
