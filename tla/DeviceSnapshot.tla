--------------------------- MODULE DeviceSnapshot ---------------------------
(***************************************************************************)
(* The one kernel table of devices behind lsdsk, deviced and volumed       *)
(* (kernel/src/device.c).  A call with generation zero rebuilds the table  *)
(* from the registries; a later page of the same list names the generation *)
(* it belongs to.  Rebuilding reads the media of every block device, so    *)
(* the caller sleeps between two entries and another process may enter the *)
(* same code.  deviced answers the pages of a client and rebuilds on every *)
(* event; volumed pages through the table by itself.                       *)
(*                                                                         *)
(* A step of a call ends where the caller may sleep: at the probe of the   *)
(* next block device, or at the return to user mode.                       *)
(***************************************************************************)
EXTENDS Naturals, Sequences, FiniteSets

CONSTANTS BlockSlots,       \* BLOCK_MAX_DEVICES
          SnapshotMax,      \* DEVICE_SNAPSHOT_MAX
          DisplayMax,       \* DEVICE_DISK_DISPLAY_MAX
          PciCount, UsbCount,  \* functions listed before the disks
          PageMax,          \* MG_DEVICE_RESPONSE_MAX
          ListMax,          \* capacity of a reader's array
          Restarts,         \* how often a reader starts over
          EventSlots,       \* events an endpoint holds before it overflows
          MaxOps            \* bound: devices added or removed, and lists asked for

VARIABLES slots,            \* devices[]: the instance in each slot, 0 is free
          fresh,            \* next_device_id
          snap, gen,        \* snapshot, snapshot_generation
          displays,         \* disk_displays: position is the display number
          call,             \* the device_snapshot call of each process
          pager,            \* the list each reader is putting together
          events,           \* events queued at the endpoint of each service
          table,            \* the last complete list of each reader
          ops               \* changes of the registry and lists asked for so far

snapshotVars == <<slots, fresh, snap, gen, displays, call, pager, events,
                  table, ops>>

Service == {"deviced", "volumed"}
Reader == {"volumed", "client"}

Idle == [at |-> "user", job |-> "none", count |-> 0, index |-> 0, info |-> <<>>,
         shared |-> FALSE]

Quiet == [at |-> "idle", restart |-> 0, offset |-> 0, gen |-> 0, total |-> 0,
          got |-> <<>>, first |-> <<>>, shared |-> FALSE]

SnapshotInit ==
    /\ slots = [s \in 1..BlockSlots |-> IF s <= 2 THEN s ELSE 0]
    /\ fresh = 3
    /\ snap = <<>> /\ gen = 0
    /\ displays = <<>>
    /\ call = [p \in Service |-> Idle]
    /\ pager = [r \in Reader |-> Quiet]
    /\ events = [p \in Service |-> IF p = "volumed" THEN 1 ELSE 0]
    /\ table = [r \in Reader |-> [list |-> <<>>, ok |-> FALSE, first |-> <<>>,
                                    shared |-> FALSE]]
    /\ ops = 0

-----------------------------------------------------------------------------
(* The registry.                                                           *)

Registered == { s \in 1..BlockSlots : slots[s] # 0 }

block_device_count == Cardinality(Registered)

\* The index-th registered slot in slot order, 0 when there is none.
block_get_device(index) ==
    IF index >= block_device_count THEN 0
    ELSE slots[CHOOSE s \in Registered :
                 Cardinality({ o \in Registered : o < s }) = index]

\* The registered instances in the order in which the table lists them.
Registry == [ i \in 1..block_device_count |-> block_get_device(i - 1) ]

\* A mutant: an event is lost while the service is inside the rebuild.
QueueLoses(e) == [ p \in Service |-> IF call[p].at = "probe" THEN e[p] ELSE e[p] + 1 ]

\* ipc_publish_event: a full queue keeps one more entry, the overflow event.
Queue(e) == [ p \in Service |->
                IF e[p] > EventSlots THEN e[p] ELSE e[p] + 1 ]

block_register ==
    /\ ops < MaxOps
    /\ \E s \in 1..BlockSlots :
         /\ slots[s] = 0
         /\ \A o \in 1..(s - 1) : slots[o] # 0
         /\ slots' = [slots EXCEPT ![s] = fresh]
    /\ fresh' = fresh + 1
    /\ events' = Queue(events)
    /\ ops' = ops + 1
    /\ UNCHANGED <<snap, gen, displays, call, pager, table>>

block_unregister_by_id ==
    /\ ops < MaxOps
    /\ \E s \in Registered : slots' = [slots EXCEPT ![s] = 0]
    /\ events' = Queue(events)
    /\ ops' = ops + 1
    /\ UNCHANGED <<fresh, snap, gen, displays, call, pager, table>>

-----------------------------------------------------------------------------
(* device.c.                                                               *)

add_snapshot(list, info) ==
    IF Len(list) >= SnapshotMax THEN list ELSE Append(list, info)

Function == [id |-> 0, disk |-> 0, block |-> FALSE]

\* Entries that need no media to be read.
AddFunctions(list, n) ==
    list \o [ i \in 1..(IF Len(list) + n <= SnapshotMax THEN n
                        ELSE SnapshotMax - Len(list)) |-> Function ]

add_pci_devices == AddFunctions(<<>>, PciCount)
add_usb_devices(list) == AddFunctions(list, UsbCount)
add_network_devices(list) == AddFunctions(list, 1)

NumberOf(shown, id) ==
    IF \E n \in 1..Len(shown) : shown[n] = id
    THEN CHOOSE n \in 1..Len(shown) : shown[n] = id
    ELSE 0

\* A mutant: the display number of a disk is its place in the registry.
NumberByPlace(shown, id) ==
    [shown |-> shown,
     number |-> CHOOSE n \in 1..block_device_count : block_get_device(n - 1) = id]

disk_display_number(shown, id) ==
    LET known == NumberOf(shown, id)
    IN  CASE known # 0 -> [shown |-> shown, number |-> known]
          [] known = 0 /\ Len(shown) >= DisplayMax -> [shown |-> shown, number |-> 0]
          [] OTHER -> [shown |-> Append(shown, id), number |-> Len(shown) + 1]

\* What the rebuild holds of the device it goes to sleep over.
fill_block_common(shown, id) ==
    [id |-> id, disk |-> disk_display_number(shown, id).number, block |-> TRUE]

filter_matches(filter, info) == filter = "all" \/ info.block

Matching(list, filter) ==
    SelectSeq(list, LAMBDA info : filter_matches(filter, info))

\* One page of the table.
Copied(list, filter, offset, capacity) ==
    LET m == Matching(list, filter)
        last == IF offset + capacity < Len(m) THEN offset + capacity ELSE Len(m)
    IN  [total |-> Len(m),
         page |-> IF offset >= Len(m) THEN <<>> ELSE SubSeq(m, offset + 1, last)]

Other(p) == CHOOSE q \in Service : q # p

InRefresh(p) == call[p].at = "probe"

\* A mutant: a later page is served from whatever the table holds.
AnyGeneration(wanted) == FALSE

\* Is a later page refused?
StaleGeneration(wanted) == wanted # 0 /\ wanted # gen

-----------------------------------------------------------------------------
(* The readers.  A reader adds a page to its list, starts over, or gives   *)
(* up; "list" is what it reports when it is done.                          *)

More(q, list) == [pager |-> [q EXCEPT !.at = "ask", !.got = list,
                                      !.offset = Len(list)],
                  done |-> "no"]

Complete(q, list) == [pager |-> [q EXCEPT !.got = list], done |-> "ok"]

GiveUp(q) == [pager |-> q, done |-> "failed"]

Again(q) == IF q.restart + 1 = Restarts THEN GiveUp(q)
            ELSE [pager |-> [Quiet EXCEPT !.at = "ask", !.restart = q.restart + 1],
                  done |-> "no"]

read_block_snapshot(q, answer) ==
    LET n == Len(answer.page)
        list == q.got \o answer.page
    IN  CASE answer.code = "retry" -> Again(q)
          [] answer.code = "ok" /\ answer.total < q.offset + n -> GiveUp(q)
          [] OTHER ->
               CASE q.offset + n >= answer.total /\ answer.total > ListMax -> GiveUp(q)
                 [] q.offset + n >= answer.total /\ answer.total <= ListMax ->
                      Complete(q, list)
                 [] q.offset + n < answer.total /\ n > 0 /\ q.offset + n < ListMax ->
                      More(q, list)
                 [] OTHER -> GiveUp(q)

storage_snapshot_read(q, answer) ==
    LET n == Len(answer.page)
        list == q.got \o answer.page
        next == IF n > 0 /\ q.offset + n < answer.total THEN q.offset + n ELSE 0
    IN  CASE answer.code = "retry" -> Again(q)
          [] answer.code = "ok" /\ ( \/ q.offset > 0 /\ ( \/ answer.total # q.total
                                                       \/ answer.gen # q.gen )
                                    \/ q.offset > answer.total
                                    \/ n > answer.total - q.offset ) -> GiveUp(q)
          [] OTHER ->
               CASE Len(list) > ListMax -> GiveUp(q)
                 [] Len(list) <= ListMax /\ next = 0 -> Complete(q, list)
                 [] OTHER -> More([q EXCEPT !.total = answer.total], list)

ReaderOf(p) == IF p = "volumed" THEN "volumed" ELSE "client"

\* The call of p returns to user mode with a page of the list, and the reader
\* it was made for deals with the answer.
Served(p, c, list, g, code) ==
    IF c.job = "refresh" THEN UNCHANGED <<pager, table>>
    ELSE LET r == ReaderOf(p)
             q == pager[r]
             room == IF r = "volumed" /\ ListMax - q.offset < PageMax
                     THEN ListMax - q.offset ELSE PageMax
             page == Copied(list, "blocks", q.offset, room)
             answer == [code |-> code, gen |-> g, total |-> page.total,
                        page |-> page.page]
             q2 == IF q.offset = 0 /\ code = "ok"
                   THEN [q EXCEPT !.gen = g, !.first = Matching(list, "blocks"),
                                  !.shared = c.shared]
                   ELSE [q EXCEPT !.shared = @ \/ c.shared]
             out == IF r = "volumed" THEN read_block_snapshot(q2, answer)
                                     ELSE storage_snapshot_read(q2, answer)
         IN  /\ pager' = [pager EXCEPT ![r] = IF out.done = "no" THEN out.pager ELSE Quiet]
             /\ table' = [table EXCEPT ![r] =
                  CASE out.done = "no" -> @
                    [] out.done = "failed" -> [@ EXCEPT !.ok = FALSE]
                    [] OTHER -> [list |-> out.pager.got, ok |-> TRUE,
                                 first |-> out.pager.first,
                                 shared |-> out.pager.shared]]

\* The rebuild goes on at the index-th device: it sleeps over its media, or
\* the walk is over and the table gets its new generation.
Walk(p, c, list, index, calls) ==
    LET id == block_get_device(index)
    IN  IF index < c.count /\ id # 0
        THEN /\ snap' = list
             /\ displays' = disk_display_number(displays, id).shown
             /\ call' = [calls EXCEPT ![p] = [c EXCEPT !.at = "probe", !.index = index,
                             !.info = <<fill_block_common(displays, id)>>]]
             /\ UNCHANGED <<gen, pager, table>>
        ELSE /\ snap' = add_network_devices(list)
             /\ gen' = gen + 1
             /\ call' = [calls EXCEPT ![p] = Idle]
             /\ Served(p, c, snap', gen', "ok")
             /\ UNCHANGED displays

device_snapshot_refresh(p, job) ==
    LET c == [Idle EXCEPT !.job = job, !.count = block_device_count,
                          !.shared = InRefresh(Other(p))]
        calls == [call EXCEPT ![Other(p)].shared = @ \/ InRefresh(Other(p))]
    IN  Walk(p, c, add_usb_devices(add_pci_devices), 0, calls)

device_snapshot_read(p, job, wanted) ==
    IF wanted = 0 THEN device_snapshot_refresh(p, job)
    ELSE /\ Served(p, [Idle EXCEPT !.job = job, !.shared = InRefresh(Other(p))],
                   snap, gen, IF StaleGeneration(wanted) THEN "retry" ELSE "ok")
         /\ UNCHANGED <<snap, gen, displays, call>>

\* The media of the device has been read: its entry is added.
add_block_devices(p) ==
    /\ InRefresh(p)
    /\ Walk(p, call[p], add_snapshot(snap, call[p].info[1]), call[p].index + 1, call)
    /\ UNCHANGED <<slots, fresh, events, ops>>
-----------------------------------------------------------------------------
(* The services and the client.                                            *)

deviced_handle_event ==
    /\ call["deviced"].at = "user" /\ events["deviced"] > 0
    /\ events' = [events EXCEPT !["deviced"] = @ - 1]
    /\ device_snapshot_read("deviced", "refresh", 0)
    /\ UNCHANGED <<slots, fresh, ops>>

deviced_handle_request ==
    /\ call["deviced"].at = "user" /\ pager["client"].at = "ask"
    /\ device_snapshot_read("deviced", "page", pager["client"].gen)
    /\ UNCHANGED <<slots, fresh, events, ops>>

volumed_handle_event ==
    /\ call["volumed"].at = "user" /\ pager["volumed"].at = "idle"
    /\ events["volumed"] > 0
    /\ events' = [events EXCEPT !["volumed"] = @ - 1]
    /\ pager' = [pager EXCEPT !["volumed"].at = "ask"]
    /\ UNCHANGED <<slots, fresh, snap, gen, displays, call, table, ops>>

volumed_page ==
    /\ call["volumed"].at = "user" /\ pager["volumed"].at = "ask"
    /\ device_snapshot_read("volumed", "page", pager["volumed"].gen)
    /\ UNCHANGED <<slots, fresh, events, ops>>

client_begin ==
    /\ pager["client"].at = "idle" /\ ops < MaxOps
    /\ pager' = [pager EXCEPT !["client"].at = "ask"]
    /\ ops' = ops + 1
    /\ UNCHANGED <<slots, fresh, snap, gen, displays, call, events, table>>

SnapshotNext ==
    \/ block_register
    \/ block_unregister_by_id
    \/ \E p \in Service : add_block_devices(p)
    \/ deviced_handle_event
    \/ deviced_handle_request
    \/ volumed_handle_event
    \/ volumed_page
    \/ client_begin

SnapshotSpec == SnapshotInit /\ [][SnapshotNext]_snapshotVars

-----------------------------------------------------------------------------
(* Properties.                                                             *)

\* A list that a reader reports as complete is the table as it was when its
\* generation was published, page for page (device_snapshot_read's check of
\* the generation, and the restarts of the readers), as long as no other
\* process was inside the rebuild.
PagesOfOne ==
    \A r \in Reader : table[r].ok /\ ~table[r].shared => table[r].list = table[r].first

\* When volumed has dealt with every event and its last rebuild went through
\* undisturbed, its list is the registry: no hot-plugged disk is missing and
\* no removed one is left, whatever changed while the table was walked
\* (handle_event rebuilds for every event, and the events of changes during a
\* rebuild are still queued when it ends).
SettledIsExact ==
    LET t == table["volumed"]
    IN  /\ events["volumed"] = 0 /\ pager["volumed"].at = "idle"
        /\ call["volumed"].at = "user" /\ t.ok /\ ~t.shared
        /\ PciCount + UsbCount + Len(Registry) <= SnapshotMax
        => [ i \in 1..Len(t.list) |-> t.list[i].id ] = Registry

\* A display number names one instance for the whole boot: no two entries of
\* the table and of the readers' lists, however old, carry the same number for
\* different instances (disk_display_number never hands out a number twice).
DisplayNumbersKept ==
    LET entries == { snap[i] : i \in 1..Len(snap) }
                   \cup UNION { { table[r].list[i] : i \in 1..Len(table[r].list) } :
                               r \in Reader }
    IN  \A a, b \in entries : a.disk # 0 /\ a.disk = b.disk => a.id = b.id
=============================================================================
