------------------------------- MODULE Memory -------------------------------
(***************************************************************************)
(* Physical frames (kernel/src/pmm.c), the kernel heap                     *)
(* (kernel/src/heap.c), and the anonymous memory of a process              *)
(* (kernel/src/process.c: process_memory_map, process_memory_unmap,        *)
(* process_memory_release_all).                                            *)
(*                                                                         *)
(* A critical section of pmm_lock or heap_lock is one action.  kmalloc()   *)
(* leaves heap_lock to grow the heap, under heap_growth_lock, and then     *)
(* starts over; each of its critical sections is a step.  The heap is its  *)
(* list of blocks in address order; sizes are in units of 16 bytes, so a   *)
(* heap_block_t is 2 units and a split needs a rest of more than 3.        *)
(***************************************************************************)
EXTENDS Naturals, Sequences, SequencesExt, FiniteSets, FiniteSetsExt

CONSTANTS
    Task,          \* threads that allocate and free
    NoTask,
    MemoryMaps,    \* firmware maps: sequences of [start, pages, usable], in frames
    LowFrames,     \* frames of low memory and the kernel image (0x400 in the code)
    PageUnits,     \* 16-byte units of a page (256 in the code)
    GrowPages,     \* HEAP_INITIAL_PAGES
    MaxHeapPages,  \* HEAP_LIMIT - HEAP_START in pages
    Sizes,         \* sizes asked for, in units
    MaxHeld        \* bound: blocks held at a time

MemoryAssumption ==
    /\ NoTask \notin Task
    /\ LowFrames \in Nat /\ GrowPages \in Nat /\ MaxHeapPages \in Nat
    /\ Sizes \subseteq Nat \ {0}

VARIABLES
    memory_map,          \* the firmware memory_map the kernel was booted with
    pmm,          \* bitmap (the frames whose bit is set) and counters
    blocks,       \* the heap's block list: [size, free, owner]
    heap_frames,  \* frames mapped from HEAP_START to kernel_heap.end
    growth,       \* holder of heap_growth_lock
    task          \* where a thread is in kmalloc(): [pc, size, frames, mapped]

memoryVars == <<memory_map, pmm, blocks, heap_frames, growth, task>>

HeaderUnits == 2
TaskRuns == [pc |-> "run", size |-> 0, frames |-> <<>>, mapped |-> 0]
TaskAt(t, label) == task' = [task EXCEPT ![t].pc = label]

DescriptorFrames(d) == d.start .. (d.start + d.pages - 1)
UsableFrames(m) == UNION {DescriptorFrames(m[i]) : i \in {j \in DOMAIN m : m[j].usable}}
total_frames(m) == Max({m[i].start + m[i].pages : i \in DOMAIN m})

\* bitmap_phys: the first usable descriptor that is large enough (the bitmaps
\* of these maps fit in one frame).
BitmapFrame(m) == m[Min({i \in DOMAIN m : m[i].usable /\ m[i].pages >= 1})].start

\* pmm_init(): every bit is set, the usable descriptors are cleared, and the
\* bitmap itself and low memory are taken out again.
\* A mutant: the bitmap does not reserve its own frames.
pmm_init_bitmap_free(m) ==
    LET reserved == {f \in 0..(LowFrames - 1) : f < total_frames(m)}
        free == UsableFrames(m) \ reserved IN
    [used |-> (0..(total_frames(m) - 1)) \ free,
     free_frames |-> Cardinality(free),
     used_ram_frames |-> Cardinality(UsableFrames(m) \cap reserved)]
pmm_init(m) ==
    LET reserved == {BitmapFrame(m)} \cup {f \in 0..(LowFrames - 1) : f < total_frames(m)}
        free == UsableFrames(m) \ reserved IN
    [used |-> (0..(total_frames(m) - 1)) \ free,
     free_frames |-> Cardinality(free),
     used_ram_frames |-> Cardinality(UsableFrames(m) \cap reserved)]

FreeFrames(p) == (0..(total_frames(memory_map) - 1)) \ p.used
bitmap_set(p, f) == [p EXCEPT !.used = @ \cup {f}, !.free_frames = @ - 1,
                              !.used_ram_frames = @ + 1]
pmm_alloc_frame(p) == bitmap_set(p, Min(FreeFrames(p)))
pmm_free_frame(p, f) ==
    IF f \in p.used
    THEN [p EXCEPT !.used = @ \ {f}, !.free_frames = @ + 1, !.used_ram_frames = @ - 1]
    ELSE p
pmm_free_all(p, fs) == FoldLeft(pmm_free_frame, p, fs)

\* heap_init() maps the first pages and makes them one free block.
InitialFrames(m) ==
    LET free == (0..(total_frames(m) - 1)) \ pmm_init(m).used IN
    [i \in 1..GrowPages |-> CHOOSE f \in free : Cardinality({g \in free : g < f}) = i - 1]
MemoryInit ==
    /\ memory_map \in MemoryMaps
    /\ heap_frames = InitialFrames(memory_map)
    /\ pmm = FoldLeft(bitmap_set, pmm_init(memory_map), InitialFrames(memory_map))
    /\ blocks = <<[size |-> GrowPages * PageUnits - HeaderUnits, free |-> TRUE,
                   owner |-> NoTask]>>
    /\ growth = NoTask
    /\ task = [t \in Task |-> TaskRuns]

Suitable(size) == {i \in DOMAIN blocks : blocks[i].free /\ blocks[i].size >= size}

\* A block of kmalloc(): the rest becomes a block of its own when it is more
\* than a header and 16 bytes.  A mutant does not count the header of the rest.
SplitUncounted(i, size, t) ==
    LET rest == blocks[i].size - size
        mine == [size |-> size, free |-> FALSE, owner |-> t] IN
    IF rest > HeaderUnits + 1
    THEN ReplaceAt(blocks, i, mine)
    ELSE ReplaceAt(blocks, i, [mine EXCEPT !.size = blocks[i].size])
Taken(i, size, t) ==
    LET rest == blocks[i].size - size
        mine == [size |-> size, free |-> FALSE, owner |-> t] IN
    IF rest > HeaderUnits + 1
    THEN InsertAt(ReplaceAt(blocks, i, mine), i + 1,
                  [size |-> rest - HeaderUnits, free |-> TRUE, owner |-> NoTask])
    ELSE ReplaceAt(blocks, i, [mine EXCEPT !.size = blocks[i].size])

HeldBlocks(t) == {i \in DOMAIN blocks : blocks[i].owner = t}

kmalloc(t, size) ==
    /\ task[t].pc = "run" /\ Cardinality(HeldBlocks(t)) < MaxHeld
    /\ task' = [task EXCEPT ![t] = [TaskRuns EXCEPT !.pc = "scan", !.size = size]]
    /\ UNCHANGED <<memory_map, pmm, blocks, heap_frames, growth>>

\* First fit under heap_lock; nothing fits: grow.
kmalloc_scan(t) ==
    LET fit == Suitable(task[t].size) IN
    /\ task[t].pc = "scan"
    /\ IF fit # {}
       THEN /\ blocks' = Taken(Min(fit), task[t].size, t)
            /\ task' = [task EXCEPT ![t] = TaskRuns]
       ELSE TaskAt(t, "grow") /\ UNCHANGED blocks
    /\ UNCHANGED <<memory_map, pmm, heap_frames, growth>>

kmalloc_growth_lock(t) ==
    /\ task[t].pc = "grow" /\ growth = NoTask
    /\ growth' = t
    /\ TaskAt(t, "frames")
    /\ UNCHANGED <<memory_map, pmm, blocks, heap_frames>>

\* Back to the caller, with nothing.
kmalloc_fails(t, fs) ==
    /\ pmm' = pmm_free_all(pmm, fs)
    /\ growth' = NoTask
    /\ task' = [task EXCEPT ![t] = TaskRuns]

kmalloc_frame(t) ==
    /\ task[t].pc = "frames"
    /\ IF Len(task[t].frames) = GrowPages
       THEN TaskAt(t, "rescan") /\ UNCHANGED <<pmm, growth>>
       ELSE IF FreeFrames(pmm) = {} THEN kmalloc_fails(t, task[t].frames)
       ELSE /\ task' = [task EXCEPT ![t].frames = Append(@, Min(FreeFrames(pmm)))]
            /\ pmm' = pmm_alloc_frame(pmm)
            /\ UNCHANGED growth
    /\ UNCHANGED <<memory_map, blocks, heap_frames>>

\* Somebody freed enough meanwhile: give the frames back and start over.
kmalloc_rescan(t) ==
    /\ task[t].pc = "rescan"
    /\ IF Suitable(task[t].size) # {}
       THEN /\ pmm' = pmm_free_all(pmm, task[t].frames)
            /\ growth' = NoTask
            /\ task' = [task EXCEPT ![t] = [TaskRuns EXCEPT !.pc = "scan", !.size = task[t].size]]
       ELSE IF Len(heap_frames) > MaxHeapPages - GrowPages
            THEN kmalloc_fails(t, task[t].frames)
            ELSE TaskAt(t, "map") /\ UNCHANGED <<pmm, growth>>
    /\ UNCHANGED <<memory_map, blocks, heap_frames>>

\* heap_grow_reserved() maps page after page without heap_lock; a mapping can
\* fail when no frame is left for a page table.
heap_map(t) ==
    /\ task[t].pc = "map"
    /\ \/ /\ task[t].mapped < GrowPages
          /\ task' = [task EXCEPT ![t].mapped = @ + 1]
       \/ /\ task[t].mapped < GrowPages /\ FreeFrames(pmm) = {}
          /\ TaskAt(t, "publish")
       \/ /\ task[t].mapped = GrowPages
          /\ TaskAt(t, "publish")
    /\ UNCHANGED <<memory_map, pmm, blocks, heap_frames, growth>>

\* The mapped pages join the last block when it is free, else they become one.
\* A mutant: the pages are always a new block.
GrownApart(pages) ==
    Append(blocks, [size |-> pages * PageUnits - HeaderUnits, free |-> TRUE, owner |-> NoTask])
Grown(pages) ==
    IF Last(blocks).free
    THEN [blocks EXCEPT ![Len(blocks)].size = @ + pages * PageUnits]
    ELSE Append(blocks, [size |-> pages * PageUnits - HeaderUnits, free |-> TRUE,
                         owner |-> NoTask])

\* What growth returns to the PMM when a mapping failed: the frames that never
\* reached the page tables.  A mutant returns all.
AllFrames(t) == task[t].frames
UnmappedFrames(t) == SubSeq(task[t].frames, task[t].mapped + 1, GrowPages)

heap_grow_reserved(t) ==
    LET pages == task[t].mapped IN
    /\ task[t].pc = "publish"
    /\ blocks' = IF pages = 0 THEN blocks ELSE Grown(pages)
    /\ heap_frames' = heap_frames \o SubSeq(task[t].frames, 1, pages)
    /\ IF pages = GrowPages
       THEN /\ growth' = NoTask
            /\ task' = [task EXCEPT ![t] = [TaskRuns EXCEPT !.pc = "scan", !.size = task[t].size]]
            /\ UNCHANGED pmm
       ELSE kmalloc_fails(t, UnmappedFrames(t))
    /\ UNCHANGED memory_map

\* kfree(): merge with the next block when it is free, then with the previous.
MergeNext(bs, i) ==
    IF i < Len(bs) /\ bs[i + 1].free
    THEN RemoveAt([bs EXCEPT ![i].size = @ + HeaderUnits + bs[i + 1].size], i + 1)
    ELSE bs
MergePrevious(bs, i) ==
    IF i > 1 /\ bs[i - 1].free
    THEN RemoveAt([bs EXCEPT ![i - 1].size = @ + HeaderUnits + bs[i].size], i)
    ELSE bs

kfree(t, i) ==
    /\ task[t].pc = "run" /\ i \in HeldBlocks(t)
    /\ blocks' = MergePrevious(MergeNext([blocks EXCEPT ![i].free = TRUE,
                                                        ![i].owner = NoTask], i), i)
    /\ UNCHANGED <<memory_map, pmm, heap_frames, growth, task>>

MemoryNext ==
    \E t \in Task :
      \/ \E s \in Sizes : kmalloc(t, s)
      \/ kmalloc_scan(t) \/ kmalloc_growth_lock(t) \/ kmalloc_frame(t)
      \/ kmalloc_rescan(t) \/ heap_map(t) \/ heap_grow_reserved(t)
      \/ \E i \in HeldBlocks(t) : kfree(t, i)
-----------------------------------------------------------------------------
\* Types.
MemoryTypeOK ==
    /\ pmm.used \subseteq 0..(total_frames(memory_map) - 1)
    /\ pmm.free_frames \in Nat /\ pmm.used_ram_frames \in Nat
    /\ \A i \in DOMAIN blocks : blocks[i].size \in Nat /\ blocks[i].free \in BOOLEAN
    /\ growth \in Task \cup {NoTask}

\* The blocks tile the mapped heap exactly: headers and sizes add up to
\* kernel_heap.end, whatever was split, merged or grown while a thread had left
\* heap_lock.  No two allocations overlap and no byte is lost.
HeapTiles ==
    FoldLeft(LAMBDA a, b : a + HeaderUnits + b.size, 0, blocks)
      = Len(heap_frames) * PageUnits

\* No two neighbouring blocks are both free, so kmalloc() fails only when no
\* run of free memory is large enough: kfree() merges both ways and growth
\* extends a free last block.
NoFreeNeighbours ==
    \A i \in 1..(Len(blocks) - 1) : ~(blocks[i].free /\ blocks[i + 1].free)

\* A frame is in the heap or reserved by one growing thread at most once, only
\* frames marked used are, and the counters count the bitmap: no failure path
\* of a growth frees a mapped frame or loses one.
FramesAccounted ==
    LET reserved == UNION {ToSet(task[t].frames) : t \in Task} IN
    /\ IsInjective(heap_frames)
    /\ ToSet(heap_frames) \cap reserved = {}
    /\ ToSet(heap_frames) \cup reserved \subseteq pmm.used
    /\ pmm.free_frames = Cardinality(FreeFrames(pmm))
    /\ Len(heap_frames) + Cardinality(reserved) + pmm.free_frames
         = pmm_init(memory_map).free_frames

\* Nothing the firmware, the kernel image or the bitmap occupies is ever
\* allocated.
ReservedKept ==
    \A f \in ToSet(heap_frames) :
      f \in UsableFrames(memory_map) /\ f >= LowFrames /\ f # BitmapFrame(memory_map)

-----------------------------------------------------------------------------
(* Anonymous memory of a process.  memory_lock serialises the calls.       *)
(* Addresses are in pages from VMM_USER_ANON_BASE; mapping a page can fail *)
(* at any page of a call, and then everything the call did is undone.      *)

CONSTANTS
    AnonPages,    \* pages from VMM_USER_ANON_BASE to VMM_USER_ANON_LIMIT
    AnonFrames,   \* free frames at the start
    MapSizes      \* page counts asked for

ProcessMemoryAssumption == AnonPages \in Nat /\ MapSizes \subseteq Nat \ {0}

VARIABLES
    mappings,    \* memory_mappings, in list order: [address, page_count]
    anon_pte,    \* page -> frame, or 0
    anon_free    \* free frames

anonVars == <<mappings, anon_pte, anon_free>>

AnonPage == 0..(AnonPages - 1)
AnonInit == /\ mappings = <<>>
            /\ anon_pte = [p \in AnonPage |-> 0]
            /\ anon_free = 1..AnonFrames

\* process_memory_find_space(): walk the list with a candidate, the first gap
\* that fits.  <<>> when there is none.  A mutant forgets the last gap's end.
GapUnbounded(pages) ==
    LET step(acc, m) == IF acc.found \/ acc.failed THEN acc
                        ELSE IF acc.at <= m.address /\ m.address - acc.at >= pages
                        THEN [acc EXCEPT !.found = TRUE]
                        ELSE [acc EXCEPT !.at = m.address + m.page_count - 1]
        end == FoldLeft(step, [at |-> 0, found |-> FALSE, failed |-> FALSE], mappings) IN
    IF end.found \/ AnonPages - end.at >= pages THEN <<end.at>> ELSE <<>>
process_memory_find_space(pages) ==
    LET step(acc, m) == IF acc.found \/ acc.failed THEN acc
                        ELSE IF acc.at <= m.address /\ m.address - acc.at >= pages
                        THEN [acc EXCEPT !.found = TRUE]
                        ELSE [acc EXCEPT !.at = m.address + m.page_count,
                                         !.failed = AnonPages - (m.address + m.page_count) < pages]
        end == FoldLeft(step, [at |-> 0, found |-> FALSE, failed |-> FALSE], mappings) IN
    IF end.found \/ (~end.failed /\ AnonPages - end.at >= pages) THEN <<end.at>> ELSE <<>>

\* The pages of a mapping get frames in address order.
NthFrame(i) == CHOOSE f \in anon_free : Cardinality({g \in anon_free : g < f}) = i
MapPages(address, pages) ==
    [p \in AnonPage |-> IF p \in address..(address + pages - 1) THEN NthFrame(p - address)
                        ELSE anon_pte[p]]
Inserted(m) ==
    LET before == {i \in DOMAIN mappings : mappings[i].address < m.address} IN
    InsertAt(mappings, Cardinality(before) + 1, m)

\* A mutant: the pages that were mapped before the failure stay mapped.
KeepsMapped(address, done) ==
    [p \in AnonPage |-> IF p \in address..(address + done - 1) THEN NthFrame(p - address)
                        ELSE anon_pte[p]]
RolledBack(address, done) ==
    [p \in AnonPage |-> IF p \in address..(address + done - 1) THEN 0 ELSE anon_pte[p]]

\* The call succeeds, or one of its vmm_map_user_page() calls fails after done
\* pages; without enough frames or address space it returns before it maps.
process_memory_map(pages) ==
    LET at == process_memory_find_space(pages) IN
    /\ Cardinality(anon_free) >= pages /\ at # <<>>
    /\ \/ /\ anon_pte' = MapPages(at[1], pages)
          /\ mappings' = Inserted([address |-> at[1], page_count |-> pages])
          /\ anon_free' = anon_free \ {NthFrame(i) : i \in 0..(pages - 1)}
       \/ \E done \in 0..(pages - 1) :
            /\ anon_pte' = RolledBack(at[1], done)
            /\ UNCHANGED <<mappings, anon_free>>

\* process_memory_release_mapping(): unmap and free page by page.
Released(ms) ==
    UNION {ms[i].address..(ms[i].address + ms[i].page_count - 1) : i \in DOMAIN ms}
Unmap(ms) ==
    /\ anon_pte' = [p \in AnonPage |-> IF p \in Released(ms) THEN 0 ELSE anon_pte[p]]
    /\ anon_free' = anon_free \cup ({anon_pte[p] : p \in Released(ms)} \ {0})

process_memory_unmap(i) ==
    /\ mappings' = RemoveAt(mappings, i)
    /\ Unmap(<<mappings[i]>>)

process_memory_release_all ==
    /\ mappings # <<>>
    /\ mappings' = <<>>
    /\ Unmap(mappings)

AnonNext ==
    \/ \E n \in MapSizes : process_memory_map(n)
    \/ \E i \in DOMAIN mappings : process_memory_unmap(i)
    \/ process_memory_release_all
-----------------------------------------------------------------------------
\* The mappings are sorted, disjoint and inside the anonymous range; the
\* mapped pages are exactly theirs, each with a frame of its own, and every
\* other frame is free: no failed or undone call leaves a page or a frame.
MappingsExact ==
    /\ \A i \in DOMAIN mappings :
         /\ mappings[i].address + mappings[i].page_count <= AnonPages
         /\ i < Len(mappings) =>
              mappings[i].address + mappings[i].page_count <= mappings[i + 1].address
    /\ {p \in AnonPage : anon_pte[p] # 0} = Released(mappings)
    /\ \A p, q \in AnonPage : anon_pte[p] # 0 /\ anon_pte[p] = anon_pte[q] => p = q
    /\ anon_free = (1..AnonFrames) \ {anon_pte[p] : p \in AnonPage}

\* A request fails for lack of address space only when no gap is large enough,
\* and is placed at the lowest address that fits.
FirstFit ==
    \A n \in MapSizes :
      LET fits == {a \in AnonPage : a + n <= AnonPages
                                    /\ \A p \in a..(a + n - 1) : anon_pte[p] = 0} IN
      process_memory_find_space(n) = IF fits = {} THEN <<>> ELSE <<Min(fits)>>
=============================================================================
