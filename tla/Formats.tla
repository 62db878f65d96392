------------------------------- MODULE Formats -------------------------------
(***************************************************************************)
(* Making a file system: storage_format_filesystem of format.c with the    *)
(* three formatters (format_mgfs and format_fat32 there,                   *)
(* exfat_format_device in exfat.c), and the checks of the drivers that     *)
(* later mount the result.                                                 *)
(*                                                                         *)
(* A formatter computes a layout from the size of the device and writes    *)
(* its regions in a fixed order; a region is a half-open range of sectors. *)
(* The sizes that are 512, 2048 or 32576 in the code are constants here,   *)
(* so that every size of device up to a bound can be tried.                *)
(***************************************************************************)
EXTENDS Integers, Sequences

CONSTANTS DeviceSizes,      \* sector counts tried
          BlockSectors,     \* MGFS_BLOCK_SECTORS
          MinBlocks,        \* MGFS_MIN_TOTAL_BLOCKS
          TableDivisor,     \* MGFS_TABLE_BLOCKS_DIVISOR
          TableRecords,     \* MGFS_RECORDS_PER_TABLE_BLOCK
          BitmapBits,       \* MGFS_BITMAP_BITS_PER_BLOCK
          FatReserved,      \* FAT32_RESERVED_SECTORS
          FatEntries,       \* table entries of a sector (512 / 4)
          MinClusters, MaxClusters,  \* cluster counts a FAT32 volume may have
          MaxSpc,           \* most sectors of a FAT32 cluster
          FatRounds,        \* rounds of fat32_fat_size (64)
          HeapAlign,        \* the 2048 of the exFAT formatter
          BootRegion,       \* EXFAT_BOOT_REGION_SECTORS
          BitmapSectorBits, \* bits of a sector
          UpcaseSectors,    \* sectors of the default up-case table
          XShift            \* the first sectors-per-cluster shift tried

FormatsAssumption ==
    /\ BlockSectors \in Nat \ {0} /\ TableDivisor \in Nat \ {0} /\ BitmapBits \in Nat \ {0}
    /\ FatEntries \in Nat \ {0} /\ HeapAlign >= 2 * BootRegion /\ FatReserved > 7

VARIABLE fm
formatsVars == <<fm>>

Ceil(a, b) == (a + b - 1) \div b
Region(name, from, count) == [name |-> name, from |-> from, to |-> from + count]
NoLayout == [ok |-> FALSE, regions |-> <<>>, clusters |-> 0, fat |-> 0, spc |-> 0,
             data |-> 0, root |-> 0]
----------------------------------------------------------------------------
(* calculate_mgfs_layout: the header, the two bitmaps, the record table,   *)
(* and the data blocks that remain.                                        *)
MgfsTable(blocks) == IF blocks \div TableDivisor = 0 THEN 1 ELSE blocks \div TableDivisor

(* A mutant: the record bitmap is not counted. *)
LayoutNoRecords(blocks) ==
    LET table == MgfsTable(blocks)
        alloc == Ceil(blocks, BitmapBits)
    IN  [ok |-> blocks >= MinBlocks /\ 1 + alloc + table < blocks,
         alloc |-> alloc, records |-> Ceil(table * TableRecords, BitmapBits),
         table |-> table, data |-> 1 + alloc + table]

calculate_mgfs_layout(blocks) ==
    LET table == MgfsTable(blocks)
        records == Ceil(table * TableRecords, BitmapBits)
        alloc == Ceil(blocks, BitmapBits)
        data == 1 + alloc + records + table
    IN  [ok |-> blocks >= MinBlocks /\ data < blocks,
         alloc |-> alloc, records |-> records, table |-> table, data |-> data]

(* format_mgfs writes the bitmaps and the table, then the header that      *)
(* makes the volume recognisable, then clears the first data block.        *)
format_mgfs(sectors) ==
    LET l == calculate_mgfs_layout(sectors \div BlockSectors)
        at(name, block, count) == Region(name, block * BlockSectors, count * BlockSectors)
    IN  IF ~l.ok THEN NoLayout
        ELSE [NoLayout EXCEPT !.ok = TRUE, !.data = l.data,
              !.regions = << at("alloc", 1, l.alloc), at("records", 1 + l.alloc, l.records),
                             at("table", 1 + l.alloc + l.records, l.table),
                             at("super", 0, 1), at("data", l.data, 1) >>]

(* The clear bits format_mgfs leaves in the allocation bitmap: block i of  *)
(* it holds the bits from i * BitmapBits on and marks the rest as used.    *)
ClearBits(blocks, l) ==
    LET valid(i) == IF i * BitmapBits >= blocks - l.data THEN 0
                    ELSE IF (blocks - l.data) - i * BitmapBits > BitmapBits THEN BitmapBits
                    ELSE (blocks - l.data) - i * BitmapBits
        sum[i \in 0..l.alloc] == IF i = 0 THEN 0 ELSE sum[i - 1] + valid(i - 1)
    IN  sum[l.alloc]
----------------------------------------------------------------------------
(* A mutant: the smaller side of the oscillation is selected. *)
FatSizeSmaller(sectors, spc) ==
    LET clusters(f) == (sectors - (FatReserved + 2 * f)) \div spc
        larger == Ceil(clusters(1) + 2, FatEntries)
        f == Ceil(clusters(larger) + 2, FatEntries)
    IN  IF FatReserved + 2 * larger >= sectors \/ clusters(f) < MinClusters
        THEN [fat |-> 0, clusters |-> 0] ELSE [fat |-> f, clusters |-> clusters(f)]

(* fat32_fat_size: grow the table until it holds an entry for every        *)
(* cluster of the geometry it leaves; 0 when there is no such geometry.    *)
fat32_fat_size(sectors, spc) ==
    LET room(f) == FatReserved + 2 * f < sectors
        clusters(f) == (sectors - (FatReserved + 2 * f)) \div spc
        need(f) == Ceil(clusters(f) + 2, FatEntries)
        step[i \in 0..(FatRounds - 1)] == IF i = 0 THEN 1
                             ELSE LET p == step[i - 1]
                                  IN  IF p = 0 \/ ~room(p) THEN 0
                                      ELSE IF need(p) <= p THEN p ELSE need(p)
        f == step[FatRounds - 1]
    IN  IF f = 0 \/ ~room(f) \/ need(f) > f \/ clusters(f) < MinClusters \/ clusters(f) > MaxClusters
        THEN [fat |-> 0, clusters |-> 0]
        ELSE [fat |-> f, clusters |-> clusters(f)]

(* The cluster size is doubled until a table size is found.                *)
FatSpc(sectors) ==
    LET good == {s \in {1, 2, 4, 8, 16, 32, 64} : s <= MaxSpc /\ fat32_fat_size(sectors, s).fat # 0}
    IN  IF good = {} THEN 0 ELSE CHOOSE s \in good : \A r \in good : s <= r

(* format_fat32: boot sector and its copy, FSInfo and its copy, both       *)
(* tables cleared and begun, the root cluster cleared.                     *)
format_fat32(sectors) ==
    LET spc == FatSpc(sectors)
        g == fat32_fat_size(sectors, spc)
        data == FatReserved + 2 * g.fat
    IN  IF spc = 0 \/ data >= sectors \/ data + spc >= sectors THEN NoLayout
        ELSE [ok |-> TRUE, clusters |-> g.clusters, fat |-> g.fat, spc |-> spc,
              data |-> data, root |-> 2,
              regions |-> << Region("boot", 0, 1), Region("bootcopy", 6, 1),
                             Region("info", 1, 1), Region("infocopy", 7, 1),
                             Region("fats", FatReserved, 2 * g.fat),
                             Region("root", data, spc) >>]

(* fat32_probe: what the driver accepts. *)
fat32_probe(sectors, l) ==
    LET clusters == (sectors - (FatReserved + 2 * l.fat)) \div l.spc
    IN  /\ l.fat # 0 /\ FatReserved + 2 * l.fat < sectors
        /\ clusters >= MinClusters /\ clusters <= MaxClusters
        /\ clusters + 2 <= l.fat * FatEntries
        /\ l.root >= 2 /\ l.root < clusters + 2
----------------------------------------------------------------------------
(* The table length and the heap offset of the exFAT formatter chase each  *)
(* other for eight rounds: a longer table moves the aligned heap up, and a *)
(* higher heap needs a shorter table.                                      *)
Rounds == 8

(* A mutant: one round less. *)
GeometrySevenRounds(sectors, shift) ==
    LET heapOf(f) == ((HeapAlign + f + HeapAlign - 1) \div HeapAlign) * HeapAlign
        round[i \in 0..7] ==
            IF i = 0 THEN [stop |-> FALSE, heap |-> HeapAlign, count |-> 0, fat |-> 1]
            ELSE LET p == round[i - 1] h == heapOf(p.fat) c == (sectors - h) \div (2^shift)
                 IN  IF p.stop \/ h >= sectors THEN [p EXCEPT !.stop = TRUE, !.heap = h]
                     ELSE [stop |-> FALSE, heap |-> h, count |-> c,
                           fat |-> (c + FatEntries + 1) \div FatEntries]
    IN  round[7]

ExfatGeometry(sectors, shift) ==
    LET heapOf(f) == ((HeapAlign + f + HeapAlign - 1) \div HeapAlign) * HeapAlign
        round[i \in 0..Rounds] ==
            IF i = 0 THEN [stop |-> FALSE, heap |-> HeapAlign, count |-> 0, fat |-> 1]
            ELSE LET p == round[i - 1] h == heapOf(p.fat) c == (sectors - h) \div (2^shift)
                 IN  IF p.stop \/ h >= sectors THEN [p EXCEPT !.stop = TRUE, !.heap = h]
                     ELSE [stop |-> FALSE, heap |-> h, count |-> c,
                           fat |-> (c + FatEntries + 1) \div FatEntries]
    IN  round[Rounds]

ExfatShift(sectors) ==
    LET good == {s \in 0..XShift : LET g == ExfatGeometry(sectors, s)
                                   IN  g.heap < sectors /\ g.count >= 2 /\ g.heap + g.fat <= sectors}
    IN  IF good = {} THEN -1 ELSE CHOOSE s \in good : \A r \in good : r <= s

(* exfat_format_device: both boot regions, the table, the metadata at the  *)
(* start of the heap (bitmap, up-case table, root directory).              *)
exfat_format_device(sectors) ==
    LET shift == ExfatShift(sectors)
        spc == 2^shift
        g == ExfatGeometry(sectors, shift)
        bitmap == Ceil(g.count, BitmapSectorBits * spc)
        upcase == Ceil(UpcaseSectors, spc)
        root == 2 + bitmap + upcase
    IN  IF sectors < 2 * HeapAlign \/ shift = -1 THEN NoLayout
        ELSE IF root > g.count + 1 THEN NoLayout
        ELSE [ok |-> TRUE, clusters |-> g.count, fat |-> g.fat, spc |-> spc,
              data |-> g.heap, root |-> root,
              regions |-> << Region("boot", 0, BootRegion),
                             Region("bootcopy", BootRegion, BootRegion),
                             Region("fat", HeapAlign, g.fat),
                             Region("heap", g.heap, (root - 1) * spc) >>]

(* exfat_boot_geometry_valid and the bounds of exfat_read_boot_region.     *)
exfat_boot_geometry_valid(sectors, l) ==
    /\ l.fat # 0 /\ l.clusters # 0 /\ l.root >= 2 /\ l.root <= l.clusters + 1
    /\ HeapAlign + l.fat <= sectors /\ HeapAlign + l.fat <= l.data
    /\ l.data + l.clusters * l.spc <= sectors
    /\ l.clusters + 2 <= l.fat * FatEntries
----------------------------------------------------------------------------
FileSystem == {"mgfs", "fat32", "exfat"}
LayoutOf(fs, sectors) ==
    CASE fs = "mgfs" -> format_mgfs(sectors)
      [] fs = "fat32" -> format_fat32(sectors)
      [] fs = "exfat" -> exfat_format_device(sectors)

FormatsInit ==
    fm \in [fs : FileSystem, sectors : DeviceSizes, pc : {"start"},
            plan : {NoLayout}, written : {0}, live : {TRUE},
            flushed : {FALSE}, probed : {FALSE}, result : {"none"}]

(* The layout is computed once; the formatter fails when it is refused.    *)
FormatStart ==
    /\ fm.pc = "start"
    /\ LET plan == LayoutOf(fm.fs, fm.sectors)
       IN  fm' = IF plan.ok THEN [fm EXCEPT !.pc = "write", !.plan = plan]
                 ELSE [fm EXCEPT !.pc = "done", !.result = "error"]

(* One region is written; the formatter fails when a write fails or when   *)
(* the device is gone.                                                     *)
FormatWrite ==
    /\ fm.pc = "write"
    /\ \/ /\ fm.live
          /\ fm' = [fm EXCEPT !.written = @ + 1,
                              !.pc = IF fm.written + 1 = Len(fm.plan.regions) THEN "flush" ELSE @]
       \/ fm' = [fm EXCEPT !.pc = "done", !.result = "error"]

(* A mutant: the result of the flush is ignored. *)
FlushIgnored ==
    /\ fm.pc = "flush"
    /\ fm' = [fm EXCEPT !.pc = "probe"]

(* The flush and the probe happen only while the device is live; without   *)
(* them the result of the writes stands.                                   *)
FormatFlush ==
    /\ fm.pc = "flush"
    /\ \/ fm.live /\ fm' = [fm EXCEPT !.pc = "probe", !.flushed = TRUE]
       \/ fm.live /\ fm' = [fm EXCEPT !.pc = "done", !.result = "error"]
       \/ ~fm.live /\ fm' = [fm EXCEPT !.pc = "done", !.result = "ok"]

Probed ==
    CASE fm.fs = "mgfs" -> TRUE
      [] fm.fs = "fat32" -> fat32_probe(fm.sectors, fm.plan)
      [] fm.fs = "exfat" -> exfat_boot_geometry_valid(fm.sectors, fm.plan)

FormatProbe ==
    /\ fm.pc = "probe"
    /\ \/ fm.live /\ fm' = [fm EXCEPT !.pc = "done", !.probed = TRUE,
                                      !.result = IF Probed THEN "ok" ELSE "error"]
       \/ ~fm.live /\ fm' = [fm EXCEPT !.pc = "done", !.result = "ok"]

FormatGone == fm.live /\ fm.pc # "done" /\ fm' = [fm EXCEPT !.live = FALSE]

FormatsNext == FormatStart \/ FormatWrite \/ FormatFlush \/ FormatProbe \/ FormatGone
FormatsSpec == FormatsInit /\ [][FormatsNext]_formatsVars
----------------------------------------------------------------------------
SectorsOf(r) == r.from..(r.to - 1)

(* The regions a formatter writes lie inside the device and do not         *)
(* overlap, for every size of device (format.c 160-418, exfat.c 2442-2489).*)
RegionsDisjoint ==
    fm.pc = "write" => LET R == fm.plan.regions IN \A i, j \in 1..Len(R) :
        /\ SectorsOf(R[i]) \subseteq 0..(fm.sectors - 1)
        /\ i # j => SectorsOf(R[i]) \cap SectorsOf(R[j]) = {}

(* What a formatter lays out the driver of that file system accepts: its   *)
(* table has an entry for every cluster and ends below the data.  For      *)
(* exFAT this needs the even number of rounds.                             *)
DriverAccepts ==
    fm.pc = "write" => LET p == fm.plan IN
        CASE fm.fs = "fat32" -> fat32_probe(fm.sectors, p)
          [] fm.fs = "exfat" -> exfat_boot_geometry_valid(fm.sectors, p)
          [] OTHER -> LET n == fm.sectors \div BlockSectors
                      IN  ClearBits(n, calculate_mgfs_layout(n)) = n - p.data

(* A format of a device that stayed is reported as a success only after    *)
(* every region was written, flushed and probed.                           *)
SuccessIsComplete ==
    fm.result = "ok" /\ fm.live =>
        fm.written = Len(fm.plan.regions) /\ fm.flushed /\ fm.probed
=============================================================================
