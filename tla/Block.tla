------------------------------- MODULE Block -------------------------------
(***************************************************************************)
(* The block layer (block.c): the registry of devices, the gate that       *)
(* serialises requests, the sector cache, and the requests themselves,     *)
(* with the partition callbacks (gpt.c) and the arrival and teardown of a  *)
(* USB disk (usb/xhci_storage.c).                                          *)
(*                                                                         *)
(* A device pointer is a registry slot, or 0: the descriptor inside the    *)
(* USB driver, which the partition callbacks use for the parent disk.  A   *)
(* partition starts at sector First of the disk; the sectors below hold    *)
(* the partition table and are what is read through the disk itself.       *)
(* A medium is a disk that can be plugged in; its contents are a version   *)
(* per sector.  The gate is protected by masking interrupts, which on one  *)
(* CPU makes acquire one step; several CPUs are not modelled here.         *)
(***************************************************************************)
EXTENDS Naturals, Sequences, FiniteSets, FiniteSetsExt, SequencesExt

CONSTANTS
    Client,        \* threads that read and write
    Killable,      \* those of them that belong to a process that may be terminated
    Worker,        \* the xHCI service thread
    NoThread,
    BlockSlots,    \* BLOCK_MAX_DEVICES
    GateWaiters,   \* BLOCK_IO_WAITERS
    CacheEntries,  \* BLOCK_CACHE_ENTRY_COUNT
    First,         \* first sector of the partition
    Sectors,       \* sectors of the disk
    MaxMedia,      \* bound: media that are plugged in
    MaxVersion     \* bound: versions written

ASSUME BlockAssumption ==
    /\ Killable \subseteq Client /\ Worker \notin Client /\ NoThread \notin Client \cup {Worker}
    /\ {BlockSlots, GateWaiters, CacheEntries, First} \subseteq Nat \ {0}
    /\ Sectors \in Nat /\ First < Sectors /\ MaxMedia \in Nat /\ MaxVersion \in Nat

VARIABLES
    registry,   \* [at: pointer -> [id, part], online: ids, next: next_device_id]
    usb,        \* the driver: [stage, medium]
    gate,       \* [owner, depth, waiters]
    cache,      \* valid entries, least recently used first
    medium,     \* contents of the medium in the device: a version per sector
    req,        \* the request of a thread
    result      \* the last result, until the next request is made

blockVars == <<registry, usb, gate, cache, medium, req, result>>

Lba == 0..(Sectors - 1)
BlockMedia == 1..MaxMedia
Descriptor == 0
Pointer == 0..BlockSlots
NoDevice == [id |-> 0, part |-> FALSE]
NoRequest == [pc |-> "idle", op |-> "none", ptr |-> 0, lba |-> 0, n |-> 0, range |-> {}]
NoResult == [ok |-> FALSE, data |-> {<<>>}]
IoFailed == [ok |-> FALSE, data |-> {}]
IoDone(data) == [ok |-> TRUE, data |-> data]

BlockInit ==
    /\ registry = [at |-> [p \in Pointer |-> NoDevice], online |-> {}, next |-> 1]
    /\ usb = [stage |-> "absent", medium |-> 0]
    /\ gate = [owner |-> NoThread, depth |-> 0, waiters |-> <<>>]
    /\ cache = <<>>
    /\ medium = [l \in Lba |-> 0]
    /\ req = [t \in Client \cup {Worker} |-> NoRequest]
    /\ result = NoResult

NewVersion == Max({medium[l] : l \in Lba}) + 1

-----------------------------------------------------------------------------
\* Registry.

FreeDevices == {p \in 1..BlockSlots : registry.at[p].id = 0}

block_device_is_live(p) == /\ registry.at[p].id # 0
                           /\ registry.at[p].id \in registry.online


block_register(part) ==
    LET p == Min(FreeDevices) IN
    [at |-> [q \in Pointer |->
                IF q = p \/ (q = Descriptor /\ ~part)
                THEN [id |-> registry.next, part |-> part] ELSE registry.at[q]],
     online |-> registry.online \cup {registry.next},
     next |-> registry.next + 1]

block_device_mark_gone == [registry EXCEPT !.online = {}]
block_unregister == [registry EXCEPT !.at = [p \in Pointer |-> NoDevice], !.online = {}]

-----------------------------------------------------------------------------
\* Cache.

Span(l, n) == l..(l + n - 1)
block_cache_range_overlaps(e, p, l, n) == e.ptr = p /\ Span(e.lba, e.n) \cap Span(l, n) # {}
CacheMatches(e, p, l, n) == e.ptr = p /\ e.lba = l /\ e.n = n
block_cache_find(p, l, n) == {i \in 1..Len(cache) : CacheMatches(cache[i], p, l, n)}

\* A mutant: only an entry for exactly the written range is dropped.
InvalidateExact(c, p, l, n) == SelectSeq(c, LAMBDA e : ~CacheMatches(e, p, l, n))
Invalidate(c, p, l, n) == SelectSeq(c, LAMBDA e : ~block_cache_range_overlaps(e, p, l, n))
CacheUsed(c, i) == RemoveAt(c, i) \o <<c[i]>>
\* A mutant: the cache takes one entry too many.
CacheStoreLate(c, p, l, n, d) ==
    LET room == IF Len(c) <= CacheEntries THEN c ELSE Tail(c)
    IN  Append(room, [ptr |-> p, lba |-> l, n |-> n, data |-> d])
CacheStore(c, p, l, n, d) ==
    LET room == IF Len(c) < CacheEntries THEN c ELSE Tail(c)
    IN  Append(room, [ptr |-> p, lba |-> l, n |-> n, data |-> d])

-----------------------------------------------------------------------------
\* Gate.

Owns(t) == gate.owner = t
GateOpen(t) == gate.depth = 0 \/ Owns(t)
GateTaken(t) == [gate EXCEPT !.owner = t, !.depth = @ + 1]

\* block_io_release() at depth 1, and its effect on the first waiter
\* (scheduler_unblock() does nothing for a terminated thread).
GateFreed == [owner |-> NoThread, depth |-> 0,
          waiters |-> IF gate.waiters = <<>> THEN <<>> ELSE Tail(gate.waiters)]
\* A mutant: the gate is left without waking anybody.
WakesNobody(r) == r
\* A mutant: the thread that is woken does not look at the gate again.
WokenHolds(r) == IF gate.waiters # <<>> /\ r[Head(gate.waiters)].pc = "wait"
                 THEN [r EXCEPT ![Head(gate.waiters)].pc = "held"] ELSE r
WakesFirst(r) ==
    IF gate.waiters # <<>> /\ r[Head(gate.waiters)].pc = "wait"
    THEN [r EXCEPT ![Head(gate.waiters)].pc = "gate"] ELSE r
block_io_release(r) == /\ gate' = GateFreed
                       /\ req' = WakesFirst(r)

\* The part of block_io_acquire() under masked interrupts.
block_io_acquire(t) ==
    /\ req[t].pc = "gate"
    /\ \/ /\ GateOpen(t)
          /\ gate' = GateTaken(t) /\ req' = [req EXCEPT ![t].pc = "held"]
          /\ UNCHANGED result
       \/ /\ ~GateOpen(t) /\ Len(gate.waiters) < GateWaiters
          /\ gate' = IF gate.waiters # <<>> /\ Last(gate.waiters) = t THEN gate
                     ELSE [gate EXCEPT !.waiters = Append(@, t)]
          /\ req' = [req EXCEPT ![t].pc = "wait"]
          /\ UNCHANGED result
       \/ /\ ~GateOpen(t) /\ Len(gate.waiters) >= GateWaiters
          /\ req' = [req EXCEPT ![t] = NoRequest]
          /\ result' = IF t \in Client THEN IoFailed ELSE result
          /\ UNCHANGED gate
    /\ UNCHANGED <<registry, usb, cache, medium>>

-----------------------------------------------------------------------------
\* Requests.

LbaOnDisk(p, l) == IF registry.at[p].part THEN First + l ELSE l
IsPart(t) == registry.at[req[t].ptr].part

\* block_read(), block_write() and block_flush() up to the gate.
block_request(t, op, p, l, n) ==
    /\ req[t].pc = "idle"
    /\ block_device_is_live(p) /\ (op = "write" => MaxVersion > 0)
    /\ IF registry.at[p].part THEN First + l + n <= Sectors ELSE l + n <= First
    /\ req' = [req EXCEPT ![t] = [pc |-> "gate", op |-> op, ptr |-> p, lba |-> l, n |-> n,
                                  range |-> Span(LbaOnDisk(p, l), n)]]
    /\ result' = NoResult
    /\ UNCHANGED <<registry, usb, gate, cache, medium>>

IoFinish(t, r) == /\ block_io_release([req EXCEPT ![t] = NoRequest])
                /\ result' = r

\* Under the gate: the second check of liveness (of the parent as well, in the
\* nested request of a partition), the cache, and the call of the driver.
ReachesDriver(t) == /\ block_device_is_live(req[t].ptr)
                    /\ IsPart(t) => block_device_is_live(Descriptor)

block_read_admitted(t) ==
    LET p == req[t].ptr
        l == req[t].lba
        n == req[t].n
        hit == block_cache_find(p, l, n)
        nested == block_cache_find(Descriptor, First + l, n)
    IN  /\ req[t].pc = "held" /\ req[t].op = "read"
        /\ \/ /\ block_device_is_live(p) /\ hit # {}
              /\ cache' = CacheUsed(cache, Min(hit))
              /\ IoFinish(t, IoDone(cache[Min(hit)].data))
           \/ /\ ReachesDriver(t) /\ hit = {} /\ IsPart(t) /\ nested # {}
              /\ LET d == cache[Min(nested)].data IN
                   /\ cache' = CacheStore(CacheUsed(cache, Min(nested)), p, l, n, d)
                   /\ IoFinish(t, IoDone(d))
           \/ /\ ReachesDriver(t) /\ hit = {} /\ (IsPart(t) => nested = {})
              /\ req' = [req EXCEPT ![t].pc = "transfer"]
              /\ UNCHANGED <<gate, cache, result>>
           \/ /\ ~block_device_is_live(p) \/ (hit = {} /\ ~ReachesDriver(t))
              /\ IoFinish(t, IoFailed)
              /\ UNCHANGED cache
        /\ UNCHANGED <<registry, usb, medium>>

\* A write drops the overlapping entries of the partition and, in its nested
\* request, those of the parent, before the driver is called.
block_write_admitted(t) ==
    LET p == req[t].ptr
        own == Invalidate(cache, p, req[t].lba, req[t].n)
        parents == Invalidate(own, Descriptor, First + req[t].lba, req[t].n)
    IN  /\ req[t].pc = "held" /\ req[t].op = "write"
        /\ \/ /\ ReachesDriver(t)
              /\ cache' = IF IsPart(t) THEN parents ELSE own
              /\ req' = [req EXCEPT ![t].pc = "transfer"]
              /\ UNCHANGED <<gate, result>>
           \/ /\ ~ReachesDriver(t)
              /\ cache' = IF block_device_is_live(p) THEN own ELSE cache
              /\ IoFinish(t, IoFailed)
        /\ UNCHANGED <<registry, usb, medium>>

block_flush_admitted(t) ==
    /\ req[t].pc = "held" /\ req[t].op = "flush"
    /\ IF ReachesDriver(t)
       THEN req' = [req EXCEPT ![t].pc = "transfer"] /\ UNCHANGED <<gate, result>>
       ELSE IoFinish(t, IoFailed)
    /\ UNCHANGED <<registry, usb, cache, medium>>

SectorData(t) == {<<l, medium[l]>> : l \in req[t].range}

\* The driver returns.  A read enters the cache of the parent and of the
\* partition as long as each is still live.
\* A mutant: the parent's entry is filed under the partition's sector number.
ParentUnshifted(t) == IF IsPart(t)
                      THEN CacheStore(cache, Descriptor, req[t].lba, req[t].n, SectorData(t))
                      ELSE cache
StoredParent(t) == IF IsPart(t)
                   THEN CacheStore(cache, Descriptor, First + req[t].lba, req[t].n, SectorData(t))
                   ELSE cache
block_read_returns(t) ==
    /\ req[t].pc = "transfer" /\ req[t].op = "read"
    /\ \/ /\ usb.stage # "absent" /\ ReachesDriver(t)
          /\ cache' = CacheStore(StoredParent(t), req[t].ptr, req[t].lba, req[t].n, SectorData(t))
          /\ IoFinish(t, IoDone(SectorData(t)))
       \/ /\ IoFinish(t, IoFailed)
          /\ UNCHANGED cache
    /\ UNCHANGED <<registry, usb, medium>>

block_write_returns(t) ==
    /\ req[t].pc = "transfer" /\ req[t].op = "write"
    /\ \/ /\ NewVersion <= MaxVersion
          /\ medium' = [l \in Lba |-> IF l \in req[t].range THEN NewVersion ELSE medium[l]]
          /\ \E ok \in BOOLEAN : IoFinish(t, IF ok /\ ReachesDriver(t) THEN IoDone({}) ELSE IoFailed)
       \/ /\ IoFinish(t, IoFailed)
          /\ UNCHANGED medium
    /\ UNCHANGED <<registry, usb, cache>>

block_flush_returns(t) ==
    /\ req[t].pc = "transfer" /\ req[t].op = "flush"
    /\ \E ok \in BOOLEAN : IoFinish(t, IF ok /\ ReachesDriver(t) THEN IoDone({}) ELSE IoFailed)
    /\ UNCHANGED <<registry, usb, cache, medium>>

\* The process of a thread that sleeps at the gate or in the driver is
\* terminated (scheduler_terminate_thread()): nothing of the gate is undone.
block_killed(t) ==
    /\ t \in Killable /\ req[t].pc \in {"wait", "transfer"}
    /\ req' = [req EXCEPT ![t] = [NoRequest EXCEPT !.pc = "dead"]]
    /\ UNCHANGED <<registry, usb, gate, cache, medium, result>>

-----------------------------------------------------------------------------
\* The USB worker: enumeration, the partition scan through the gate
\* (block_probe_read()), registration of the partition and then of the disk.

storage_attach(m) ==
    /\ usb.stage = "absent" /\ req[Worker].pc = "idle"
    /\ Cardinality(FreeDevices) >= 2 /\ m > usb.medium
    /\ usb' = [stage |-> "scan", medium |-> m]
    /\ req' = [req EXCEPT ![Worker] = [NoRequest EXCEPT !.pc = "gate", !.op = "probe"]]
    /\ medium' = [l \in Lba |-> NewVersion]
    /\ UNCHANGED <<registry, gate, cache, result>>

gpt_scan_device ==
    /\ usb.stage = "scan" /\ req[Worker].pc = "held"
    /\ registry' = block_register(TRUE)
    /\ usb' = [usb EXCEPT !.stage = "partition"]
    /\ block_io_release([req EXCEPT ![Worker] = NoRequest])
    /\ UNCHANGED <<cache, medium, result>>

storage_register ==
    /\ usb.stage = "partition" /\ FreeDevices # {}
    /\ registry' = block_register(FALSE)
    /\ usb' = [usb EXCEPT !.stage = "ready"]
    /\ UNCHANGED <<gate, cache, medium, req, result>>

\* xhci_storage_remove_device(): the instances are marked gone; the gate is
\* tried, never waited for; the rest is deferred when it is occupied.
Teardown ==
    \/ /\ GateOpen(Worker)
       /\ registry' = block_unregister /\ cache' = <<>>
       /\ usb' = [usb EXCEPT !.stage = "absent"]
       /\ block_io_release(req)
    \/ /\ ~GateOpen(Worker)
       /\ registry' = block_device_mark_gone
       /\ usb' = [usb EXCEPT !.stage = "pending"]
       /\ UNCHANGED <<gate, cache, req>>

xhci_storage_remove_device ==
    /\ usb.stage \in {"ready", "pending"} /\ req[Worker].pc = "idle"
    /\ Teardown
    /\ UNCHANGED <<medium, result>>

-----------------------------------------------------------------------------
BlockStep(t) ==
    \/ block_io_acquire(t)
    \/ block_read_admitted(t) \/ block_write_admitted(t) \/ block_flush_admitted(t)
    \/ block_read_returns(t) \/ block_write_returns(t) \/ block_flush_returns(t)

BlockNext ==
    \/ \E t \in Client, op \in {"read", "write", "flush"}, p \in 1..BlockSlots, l \in Lba,
          n \in 1..2 : block_request(t, op, p, l, n)
    \/ \E t \in Client : BlockStep(t) \/ block_killed(t)
    \/ block_io_acquire(Worker)
    \/ \E m \in BlockMedia : storage_attach(m)
    \/ gpt_scan_device \/ storage_register \/ xhci_storage_remove_device

BlockSpec == BlockInit /\ [][BlockNext]_blockVars
-----------------------------------------------------------------------------
BlockTypeOK ==
    /\ registry.at \in [Pointer -> [id : 0..(2 * MaxMedia), part : BOOLEAN]]
    /\ usb.stage \in {"absent", "scan", "partition", "ready", "pending"}
    /\ gate.owner \in Client \cup {Worker, NoThread} /\ gate.depth \in 0..2
    /\ Len(gate.waiters) <= GateWaiters /\ Len(cache) <= CacheEntries
    /\ \A t \in Client \cup {Worker} :
          req[t].pc \in {"idle", "gate", "wait", "held", "transfer", "dead"}

\* The driver never has two requests at once, and what runs under the gate
\* owns it (block.c:29: "never receives overlapping requests").
OneTransfer ==
    /\ Cardinality({t \in DOMAIN req : req[t].pc \in {"held", "transfer"}}) <= 1
    /\ \A t \in DOMAIN req : req[t].pc \in {"held", "transfer"} => Owns(t)

\* Nobody waits at an open gate: when it is open and threads wait for it, one
\* that was woken is on its way to it.  (A waiter that was terminated keeps its
\* place in the list and swallows a wakeup, so runs in which that happened are
\* excluded; block_killed shows the gap.)
GateNotLost ==
    (gate.depth = 0 /\ gate.waiters # <<>> /\ \A t \in DOMAIN req : req[t].pc # "dead")
       => \E t \in DOMAIN req : req[t].pc = "gate"

\* A cached range of a device that is registered holds what is on its medium:
\* across writes through the partition and removal with requests in flight
\* (block.c:448: bytes "must not be retained in the cache for a future
\* instance").  While a write is in the driver the range is not cached.
CacheFresh ==
    \A i \in 1..Len(cache) :
        registry.at[cache[i].ptr].id # 0 => \A x \in cache[i].data : medium[x[1]] = x[2]

\* The cached, partitioned and gated device implements the plain store.
Store == INSTANCE BlockStore WITH
    StoreClient <- Client, StoreLba <- Lba, StoreVersions <- 0..(MaxVersion + MaxMedia), contents <- medium,
    call <- [t \in Client |->
              IF req[t].pc \in {"idle", "dead"} THEN [op |-> "none", range |-> {}]
              ELSE [op |-> req[t].op, range |-> req[t].range]],
    reply <- result
ImplementsStore == Store!StoreSpec
=============================================================================
