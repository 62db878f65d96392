-------------------------------- MODULE Gpt --------------------------------
(***************************************************************************)
(* The partition table of one disk: kernel/src/storage/gpt.c, with the     *)
(* mutation flag of format.c and the diskutil system calls that reach it.  *)
(*                                                                         *)
(* A table copy is an entry array and a header that carries the array's    *)
(* checksum; the checksum is modelled by the array it was computed from,   *)
(* so a copy is complete when header and array agree.  Both arrays are     *)
(* read into two static buffers every caller shares.  A block transfer is  *)
(* a scheduling point: every gpt_read and gpt_write is a step of its own.  *)
(***************************************************************************)
EXTENDS Integers, FiniteSets

CONSTANTS Admin,        \* processes holding a storage session
          Query,        \* processes that only read the table
          EntryCount,   \* entries of the array
          Usable,       \* usable sectors 1..Usable
          Alignment,    \* alignment_sectors()
          PartSlots,    \* GPT_REGISTERED_MAX
          PlanSizes,    \* sizes a client asks for; 0 is "the rest"
          MaxGptOps,    \* bound on started operations
          MaxGptFaults  \* bound on failed transfers, removals and power losses

GptAssumption ==
    /\ EntryCount \in Nat \ {0} /\ Usable \in Nat \ {0}
    /\ Alignment \in Nat \ {0} /\ PartSlots \in Nat
    /\ MaxGptOps \in Nat /\ MaxGptFaults \in Nat
    /\ Admin \cap Query = {}

VARIABLES gdisk, gbuf, gth, gdev, ggh
gptVars == <<gdisk, gbuf, gth, gdev, ggh>>

GptThread == Admin \cup Query
NoEntry == [first |-> 0, last |-> 0, id |-> 0]
NoArray == [n \in 1..EntryCount |-> NoEntry]
NoHeader == [valid |-> FALSE, crc |-> NoArray]
HeaderOf(array) == [valid |-> TRUE, crc |-> array]
NoPartition == [number |-> 0, first |-> 0, last |-> 0]

gpt_entry_used(e) == e.id # 0
Extent(e) == e.first..e.last
UsedIn(array) == {n \in 1..EntryCount : gpt_entry_used(array[n])}

(* gpt_entries_valid: every used entry lies in the usable range and none   *)
(* overlaps or repeats the identity of an earlier one.                     *)
gpt_entries_valid(array) ==
    \A n \in UsedIn(array) :
        /\ Extent(array[n]) # {} /\ Extent(array[n]) \subseteq 1..Usable
        /\ \A m \in UsedIn(array) \ {n} :
              /\ array[m].id # array[n].id
              /\ Extent(array[m]) \cap Extent(array[n]) = {}

align_up(value) ==
    IF value % Alignment = 0 THEN value
    ELSE value + (Alignment - (value % Alignment))

(* The aligned gaps plan_from_entries walks in ascending order: one after  *)
(* the start of the usable range and one after the end of every entry.     *)
Gaps(array) ==
    LET starts == {1} \cup {array[n].last + 1 : n \in UsedIn(array)}
        after(s) == {array[n].first : n \in {m \in UsedIn(array) : array[m].first >= s}}
        end(s) == IF after(s) = {} THEN Usable
                  ELSE (CHOOSE f \in after(s) : \A g \in after(s) : f <= g) - 1
    IN  {[first |-> align_up(s), last |-> end(s)] : s \in
            {r \in starts : r <= Usable /\ align_up(r) <= end(r)}}

(* A mutant: a gap is taken to be one sector longer than it is. *)
GapTooLong(g) == g.last - g.first + 2

GapSize(g) == g.last - g.first + 1
FirstOf(gaps) == CHOOSE g \in gaps : \A h \in gaps : g.first <= h.first

(* plan_from_entries: the first gap that fits, or the first of the largest *)
(* gaps for "the rest", and the lowest unused entry.                       *)
plan_from_entries(array, size) ==
    LET gaps == Gaps(array)
        fits == IF size = 0
                THEN {g \in gaps : \A h \in gaps : GapSize(h) <= GapSize(g)}
                ELSE {g \in gaps : GapSize(g) >= size}
        free == (1..EntryCount) \ UsedIn(array)
    IN  IF fits = {} \/ free = {} THEN NoPartition
        ELSE [number |-> CHOOSE n \in free : \A m \in free : n <= m,
              first |-> FirstOf(fits).first,
              last |-> IF size = 0 THEN FirstOf(fits).last
                       ELSE FirstOf(fits).first + size - 1]
----------------------------------------------------------------------------
(* A thread's record: where it is, what it does, the headers it loaded,    *)
(* the checksum gpt_write_updated computed and the plan it was given.      *)
IdleThread == [pc |-> "idle", op |-> "none", size |-> 0, old |-> NoEntry,
               num |-> 0, hp |-> NoHeader, hb |-> NoHeader, crc |-> NoArray,
               plan |-> NoPartition]

GptInit ==
    /\ gdisk = [mbr |-> FALSE, pe |-> NoArray, ph |-> NoHeader,
                be |-> NoArray, bh |-> NoHeader]
    /\ gbuf = [p |-> NoArray, b |-> NoArray]
    /\ gth = [t \in GptThread |-> IdleThread]
    /\ gdev = [live |-> TRUE, busy |-> FALSE, parts |-> {}, mounted |-> {}]
    /\ ggh = [ops |-> 0, faults |-> 0, ids |-> 0, overlap |-> FALSE,
              late |-> FALSE, made |-> FALSE, failed |-> FALSE]

At(t, pc) == gth[t].pc = pc
Become(t, r) == gth' = [gth EXCEPT ![t] = r]
Goto(t, pc) == Become(t, [gth[t] EXCEPT !.pc = pc])
Rest(t) == Become(t, [IdleThread EXCEPT !.plan = gth[t].plan])
Count == ggh.ops < MaxGptOps /\ ggh' = [ggh EXCEPT !.ops = @ + 1]

(* A mutant: the children are not looked at. *)
PreflightDiskOnly == TRUE

(* gpt_preflight_children: neither the disk nor a child is mounted.        *)
gpt_preflight_children == gdev.mounted = {}

(* A mutant: the flag is set without being tested. *)
BeginUntested == gdev' = [gdev EXCEPT !.busy = TRUE]

(* storage_mutation_begin. *)
storage_mutation_begin == ~gdev.busy /\ gdev' = [gdev EXCEPT !.busy = TRUE]

(* A mutant: the children found by the scan are not registered. *)
EndUnregistered(t, parts, failed) ==
    /\ gdev' = [gdev EXCEPT !.busy = FALSE]
    /\ ggh' = [ggh EXCEPT !.failed = failed]
    /\ Rest(t)

(* The end of a mutation: the flag is cleared and the thread returns.      *)
EndMutation(t, parts, failed) ==
    /\ gdev' = [gdev EXCEPT !.busy = FALSE, !.parts = parts]
    /\ ggh' = [ggh EXCEPT !.failed = failed]
    /\ Rest(t)
----------------------------------------------------------------------------
(* The calls.  A query and a plan load at once; a mutation first passes    *)
(* its preflight and then takes the flag.                                  *)
gpt_get_table_info(t) ==
    /\ At(t, "idle") /\ gdev.live /\ Count
    /\ Become(t, [gth[t] EXCEPT !.pc = "headers", !.op = "query"])
    /\ UNCHANGED <<gdisk, gbuf, gdev>>

gpt_plan_partition(t, size) ==
    /\ At(t, "idle") /\ gdev.live /\ ~gdev.busy /\ Count
    /\ Become(t, [gth[t] EXCEPT !.pc = "headers", !.op = "plan", !.size = size])
    /\ UNCHANGED <<gdisk, gbuf, gdev>>

StartMutation(t, op, num, old) ==
    /\ At(t, "idle") /\ gdev.live /\ gpt_preflight_children /\ Count
    /\ Become(t, [gth[t] EXCEPT !.pc = "begin", !.op = op, !.num = num, !.old = old])
    /\ UNCHANGED <<gdisk, gbuf, gdev>>

gpt_initialize_device(t) == StartMutation(t, "init", 0, NoEntry)
gpt_create_partition(t) ==
    gth[t].plan # NoPartition /\ StartMutation(t, "create", gth[t].plan.number, NoEntry)
gpt_delete_partition(t, p) ==
    p \in gdev.parts /\
    StartMutation(t, "delete", p.n, [first |-> p.first, last |-> p.last, id |-> p.id])

(* Taking the flag.  A second mutation is refused; initialization builds   *)
(* its empty array at once, the other two load the table first.            *)
BeginMutation(t) ==
    /\ At(t, "begin")
    /\ \/ /\ storage_mutation_begin
          /\ Become(t, [gth[t] EXCEPT !.pc = IF gth[t].op = "init" THEN "mbr" ELSE "headers"])
          /\ gbuf' = IF gth[t].op = "init" THEN [gbuf EXCEPT !.p = NoArray] ELSE gbuf
       \/ /\ gdev.busy /\ Rest(t) /\ UNCHANGED <<gbuf, gdev>>
    /\ UNCHANGED <<gdisk, ggh>>

(* A failed load, by what was being done.  A mutation's first load gives   *)
(* up the flag; the scan after a write leaves the disk without children.   *)
LoadFails(t) ==
    CASE gth[t].op \in {"query", "plan"} -> Rest(t) /\ UNCHANGED <<gdev, ggh>>
      [] gth[t].op \in {"create", "delete"} -> EndMutation(t, gdev.parts, ggh.failed)
      [] OTHER -> EndMutation(t, gdev.parts, TRUE)

(* gpt_load reads the sectors, then each array into its shared buffer.     *)
(* Both headers must be valid and carry the same checksum.                 *)
LoadHeaders(t) ==
    /\ At(t, "headers") /\ gdev.live
    /\ IF gdisk.mbr /\ gdisk.ph.valid /\ gdisk.bh = gdisk.ph
       THEN /\ Become(t, [gth[t] EXCEPT !.pc = "primary", !.hp = gdisk.ph, !.hb = gdisk.bh])
            /\ UNCHANGED <<gdev, ggh>>
       ELSE LoadFails(t)
    /\ UNCHANGED <<gdisk, gbuf>>

LoadPrimary(t) ==
    /\ At(t, "primary") /\ gdev.live
    /\ gbuf' = [gbuf EXCEPT !.p = gdisk.pe]
    /\ ggh' = [ggh EXCEPT !.overlap = @ \/ \E u \in GptThread \ {t} :
                  gth[u].pc \in {"backup", "w1", "w2", "w3", "w4"}]
    /\ Goto(t, "backup")
    /\ UNCHANGED <<gdisk, gdev>>

(* The children gpt_scan_device registers: every used entry, or none when  *)
(* there are more of them than slots.                                      *)
Children(array) ==
    LET all == {[n |-> n, first |-> array[n].first, last |-> array[n].last,
                 id |-> array[n].id] : n \in UsedIn(array)}
    IN  IF Cardinality(all) > PartSlots THEN {} ELSE all

(* What follows a good load, without another transfer in between.          *)
(* gpt_create_partition plans again and must arrive at the extent it was   *)
(* asked for; gpt_delete_partition must find the entry it was shown.       *)
MayCreate(t, array) ==
    LET p == gth[t].plan
    IN  plan_from_entries(array, p.last - p.first + 1) = p

MayDelete(t, array) == array[gth[t].num] = gth[t].old

Created(t) == [first |-> gth[t].plan.first, last |-> gth[t].plan.last, id |-> ggh.ids + 1]

StartWrite(t, array) ==
    /\ gbuf' = [p |-> array, b |-> gdisk.be]
    /\ Become(t, [gth[t] EXCEPT !.pc = "w1", !.crc = array])
    /\ UNCHANGED gdev

AfterLoad(t) ==
    LET now == gbuf.p IN
    CASE gth[t].op = "query" ->
            /\ Rest(t) /\ gbuf' = [gbuf EXCEPT !.b = gdisk.be] /\ UNCHANGED <<gdev, ggh>>
      [] gth[t].op = "plan" ->
            /\ Become(t, [IdleThread EXCEPT !.plan = plan_from_entries(now, gth[t].size)])
            /\ gbuf' = [gbuf EXCEPT !.b = gdisk.be] /\ UNCHANGED <<gdev, ggh>>
      [] gth[t].op = "create" /\ MayCreate(t, now) ->
            /\ StartWrite(t, [now EXCEPT ![gth[t].num] = Created(t)])
            /\ ggh' = [ggh EXCEPT !.ids = @ + 1]
      [] gth[t].op = "delete" /\ MayDelete(t, now) ->
            /\ StartWrite(t, [now EXCEPT ![gth[t].num] = NoEntry])
            /\ UNCHANGED ggh
      [] gth[t].op \in {"create", "delete"} ->
            /\ EndMutation(t, gdev.parts, ggh.failed)
            /\ gbuf' = [gbuf EXCEPT !.b = gdisk.be]
      [] OTHER ->
            /\ EndMutation(t, Children(now), Cardinality(UsedIn(now)) > PartSlots)
            /\ gbuf' = [gbuf EXCEPT !.b = gdisk.be]

(* The second array, and the checks that end gpt_load.                     *)
LoadBackup(t) ==
    /\ At(t, "backup") /\ gdev.live
    /\ IF gbuf.p = gth[t].hp.crc /\ gdisk.be = gth[t].hb.crc /\ gbuf.p = gdisk.be
          /\ gpt_entries_valid(gbuf.p)
       THEN AfterLoad(t)
       ELSE LoadFails(t) /\ gbuf' = [gbuf EXCEPT !.b = gdisk.be]
    /\ UNCHANGED gdisk

(* gpt_write_protective_mbr, before an initialization writes its copies.   *)
WriteMbr(t) ==
    /\ At(t, "mbr") /\ gdev.live
    /\ gdisk' = [gdisk EXCEPT !.mbr = TRUE]
    /\ Become(t, [gth[t] EXCEPT !.pc = "w1", !.crc = gbuf.p])
    /\ ggh' = [ggh EXCEPT !.made = FALSE]
    /\ UNCHANGED <<gbuf, gdev>>

(* A mutant: the primary copy is written first. *)
WritePrimaryFirst(t) ==
    /\ gdev.live
    /\ \/ /\ At(t, "w1") /\ gdisk' = [gdisk EXCEPT !.pe = gbuf.p] /\ Goto(t, "w2")
       \/ /\ At(t, "w2") /\ gdisk' = [gdisk EXCEPT !.be = gbuf.p] /\ Goto(t, "w3")
       \/ /\ At(t, "w3") /\ gdisk' = [gdisk EXCEPT !.ph = HeaderOf(gth[t].crc)] /\ Goto(t, "w4")
       \/ /\ At(t, "w4") /\ gdisk' = [gdisk EXCEPT !.bh = HeaderOf(gth[t].crc)] /\ Goto(t, "rescan")
    /\ ggh' = [ggh EXCEPT !.made = @ \/ At(t, "w4")]
    /\ UNCHANGED <<gbuf, gdev>>

(* gpt_write_updated: the backup array and header, a flush, the primary    *)
(* array and header.  The arrays come from the shared buffer, the headers  *)
(* carry the checksum computed before the first transfer.                  *)
WriteCopy(t) ==
    /\ gdev.live
    /\ \/ /\ At(t, "w1") /\ gdisk' = [gdisk EXCEPT !.be = gbuf.p] /\ Goto(t, "w2")
       \/ /\ At(t, "w2") /\ gdisk' = [gdisk EXCEPT !.bh = HeaderOf(gth[t].crc)] /\ Goto(t, "w3")
       \/ /\ At(t, "w3") /\ gdisk' = [gdisk EXCEPT !.pe = gbuf.p] /\ Goto(t, "w4")
       \/ /\ At(t, "w4") /\ gdisk' = [gdisk EXCEPT !.ph = HeaderOf(gth[t].crc)] /\ Goto(t, "rescan")
    /\ ggh' = [ggh EXCEPT !.made = @ \/ At(t, "w2")]
    /\ UNCHANGED <<gbuf, gdev>>

(* gpt_remove_partitions_for_parent, and the scan that follows a write.    *)
gpt_remove_partitions_for_parent(t) ==
    /\ At(t, "rescan")
    /\ gdev' = [gdev EXCEPT !.parts = {}]
    /\ Become(t, [gth[t] EXCEPT !.pc = "headers", !.op = "scan"])
    /\ UNCHANGED <<gdisk, gbuf, ggh>>

(* A transfer fails, or the disk is gone: the call returns its error; a    *)
(* mutation gives up the flag and leaves the children it had.              *)
TransferFails(t) ==
    /\ ~At(t, "idle") /\ ~At(t, "begin") /\ ~At(t, "rescan")
    /\ ~gdev.live \/ ggh.faults < MaxGptFaults
    /\ gdev' = [gdev EXCEPT !.busy = IF gth[t].op \in {"query", "plan"} THEN @ ELSE FALSE]
    /\ ggh' = [ggh EXCEPT !.faults = IF gdev.live THEN @ + 1 ELSE @,
                          !.failed = @ \/ gth[t].op \notin {"query", "plan"}]
    /\ Rest(t)
    /\ UNCHANGED <<gdisk, gbuf>>

(* The medium is pulled: gpt_mark_partitions_gone_for_parent and then      *)
(* gpt_remove_partitions_for_parent, and the mounts detach.                *)
gpt_mark_partitions_gone_for_parent ==
    /\ gdev.live /\ ggh.faults < MaxGptFaults
    /\ gdev' = [gdev EXCEPT !.live = FALSE, !.parts = {}, !.mounted = {}]
    /\ ggh' = [ggh EXCEPT !.faults = @ + 1]
    /\ UNCHANGED <<gdisk, gbuf, gth>>

(* Power is lost; the boot scan registers what it can read.                *)
CopiesAgree(d) == d.mbr /\ d.ph.valid /\ d.ph = d.bh /\ d.pe = d.ph.crc /\ d.be = d.pe
               /\ gpt_entries_valid(d.pe)
GptReboot ==
    /\ ggh.faults < MaxGptFaults
    /\ gth' = [t \in GptThread |-> IdleThread]
    /\ gbuf' = [p |-> NoArray, b |-> NoArray]
    /\ gdev' = [live |-> TRUE, busy |-> FALSE, mounted |-> {},
                parts |-> IF CopiesAgree(gdisk) THEN Children(gdisk.pe) ELSE {}]
    /\ ggh' = [ggh EXCEPT !.faults = @ + 1, !.late = FALSE,
                          !.failed = ~CopiesAgree(gdisk) \/ Cardinality(UsedIn(gdisk.pe)) > PartSlots]
    /\ UNCHANGED gdisk

(* volumed mounts and unmounts a registered child.  Nothing in the mount   *)
(* path looks at the mutation flag.                                        *)
MountChild(p) ==
    /\ p \in gdev.parts /\ p.id \notin gdev.mounted
    /\ gdev' = [gdev EXCEPT !.mounted = @ \cup {p.id}]
    /\ ggh' = [ggh EXCEPT !.late = @ \/ \E t \in Admin :
                  gth[t].op \in {"init", "create", "delete", "scan"}]
    /\ UNCHANGED <<gdisk, gbuf, gth>>

UnmountChild(p) ==
    /\ p \in gdev.parts /\ p.id \in gdev.mounted
    /\ gdev' = [gdev EXCEPT !.mounted = @ \ {p.id}]
    /\ UNCHANGED <<gdisk, gbuf, gth, ggh>>

GptNext ==
    \/ \E t \in Query : gpt_get_table_info(t)
    \/ \E t \in Admin : \/ \E s \in PlanSizes : gpt_plan_partition(t, s)
                        \/ gpt_initialize_device(t)
                        \/ gpt_create_partition(t)
                        \/ \E p \in gdev.parts : gpt_delete_partition(t, p)
                        \/ BeginMutation(t) \/ WriteMbr(t) \/ WriteCopy(t)
                        \/ gpt_remove_partitions_for_parent(t)
    \/ \E t \in GptThread : LoadHeaders(t) \/ LoadPrimary(t) \/ LoadBackup(t) \/ TransferFails(t)
    \/ gpt_mark_partitions_gone_for_parent \/ GptReboot
    \/ \E p \in gdev.parts : MountChild(p) \/ UnmountChild(p)

GptSpec == GptInit /\ [][GptNext]_gptVars
----------------------------------------------------------------------------
Complete(header, array) == header.valid /\ header.crc = array
InMutation == {t \in Admin : gth[t].op \in {"init", "create", "delete", "scan"}
                             /\ ~At(t, "begin") /\ ~At(t, "idle")}

(* At most one thread is between storage_mutation_begin and _end, and the  *)
(* flag is up exactly while one is (gpt.c, every early return included).   *)
OneMutation ==
    Cardinality(InMutation) <= 1 /\ (gdev.busy <=> InMutation # {})

(* No complete copy of the table ever describes overlapping extents, an    *)
(* extent outside the usable range or two entries of one identity, however *)
(* stale the plan a create was called with (gpt_create_partition).         *)
ExtentsSound ==
    /\ Complete(gdisk.ph, gdisk.pe) => gpt_entries_valid(gdisk.pe)
    /\ Complete(gdisk.bh, gdisk.be) => gpt_entries_valid(gdisk.be)

(* While no other caller loaded the shared buffer during a mutation, some  *)
(* copy of a table that was once written (and is not being replaced by an  *)
(* initialization) is complete: a failed transfer or                       *)
(* a power loss anywhere in gpt_write_updated leaves one (gpt.c 493-494).  *)
TableSurvives ==
    ggh.made /\ ~ggh.overlap =>
        Complete(gdisk.ph, gdisk.pe) \/ Complete(gdisk.bh, gdisk.be)

(* Outside a mutation and as long as none failed, the registered children  *)
(* are exactly the entries of the table on the medium.                     *)
RegisteredMatches ==
    gdev.live /\ ~gdev.busy /\ ~ggh.failed /\ CopiesAgree(gdisk) =>
        gdev.parts = {[n |-> n, first |-> gdisk.pe[n].first, last |-> gdisk.pe[n].last,
                       id |-> gdisk.pe[n].id] : n \in UsedIn(gdisk.pe)}

(* A mounted child stays registered unless the medium is pulled, as long   *)
(* as no mount slipped in after a mutation's preflight.                    *)
MountedKept ==
    gdev.live /\ ~ggh.late => gdev.mounted \subseteq {p.id : p \in gdev.parts}
=============================================================================
