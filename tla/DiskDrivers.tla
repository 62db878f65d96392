---------------------------- MODULE DiskDrivers -----------------------------
(***************************************************************************)
(* One AHCI port: kernel/src/storage/ahci.c.  The driver uses command slot *)
(* 0 only, fills its command table, waits for the device to be ready,      *)
(* issues the command and polls until it is cleared or a deadline passes.  *)
(* The block layer calls it with one request at a time (Block).            *)
(*                                                                         *)
(* The device is external: it fetches an issued command, moves the data    *)
(* between the sector the command names and the buffer the table names at  *)
(* that moment, and completes or stops with an error, at any time.         *)
(***************************************************************************)
EXTENDS Integers, Sequences

CONSTANTS AhciLba,      \* sectors
          MaxAhciCalls  \* bound on transfer calls

VARIABLES ah
ahciVars == <<ah>>

NoCommand == [call |-> 0, write |-> FALSE, lba |-> 0]

(* ah.port is the state of the port's initialization, ah.ci the issue bit, *)
(* ah.bsy the task file, ah.table the command table, ah.dev the command    *)
(* the device executes and ah.halt a device stopped by an error.  Sector   *)
(* and buffer contents are the number of the call that produced them.      *)
AhciInit ==
    ah = [port |-> "off", pc |-> "idle", call |-> 0, cmd |-> NoCommand,
          table |-> NoCommand, ci |-> FALSE, bsy |-> FALSE, halt |-> FALSE,
          dev |-> NoCommand, medium |-> [l \in AhciLba |-> 0],
          buffer |-> [c \in 0..MaxAhciCalls |-> 0], result |-> [c \in 0..MaxAhciCalls |-> "none"],
          late |-> FALSE]

(* ahci_wait_clear: the bit is clear, or the deadline has passed.          *)
Cleared(bit) == ~bit
Deadline(bit) == bit

(* ahci_port_init: stop the port, allocate, start it and identify the      *)
(* device; any failure leaves the port without a block device.             *)
ahci_stop_port ==
    /\ ah.port = "off"
    /\ ah' \in {[ah EXCEPT !.port = "stopped"], [ah EXCEPT !.port = "failed"]}

ahci_start_port ==
    /\ ah.port = "stopped"
    /\ ah' \in {[ah EXCEPT !.port = "started"], [ah EXCEPT !.port = "failed"]}

ahci_identify_device ==
    /\ ah.port = "started"
    /\ ah' \in {[ah EXCEPT !.port = "ready"], [ah EXCEPT !.port = "failed"]}

(* ahci_read and ahci_write up to the first wait: the table and the header *)
(* are rewritten before the device is known to be ready.                   *)
ahci_prepare(lba, write) ==
    /\ ah.port = "ready" /\ ah.pc = "idle" /\ ah.call < MaxAhciCalls
    /\ LET c == [call |-> ah.call + 1, write |-> write, lba |-> lba]
       IN  ah' = [ah EXCEPT !.pc = "ready", !.call = @ + 1, !.cmd = c, !.table = c,
                            !.buffer[ah.call + 1] = IF write THEN ah.call + 1 ELSE 0]

Return(result) == [ah EXCEPT !.pc = "idle", !.result[ah.call] = result,
                             !.late = @ \/ (result = "error" /\ (ah.ci \/ ah.bsy))]

ahci_wait_ready ==
    /\ ah.pc = "ready"
    /\ \/ Cleared(ah.bsy) /\ ah' = [ah EXCEPT !.pc = "issued", !.ci = TRUE]
       \/ Deadline(ah.bsy) /\ ah' = Return("error")

(* A mutant: the command counts as done once the device is not busy. *)
WaitBusyOnly ==
    /\ ah.pc = "issued"
    /\ \/ Cleared(ah.bsy) /\ ah' = Return("ok")
       \/ Deadline(ah.bsy) /\ ah' = Return("error")

ahci_wait_done ==
    /\ ah.pc = "issued"
    /\ \/ Cleared(ah.ci) /\ ah' = Return(IF ah.bsy THEN "error" ELSE "ok")
       \/ Deadline(ah.ci) /\ ah' = Return("error")
----------------------------------------------------------------------------
(* The device.  It reads the command, later the buffer address.            *)
DeviceFetch ==
    /\ ah.ci /\ ~ah.bsy /\ ~ah.halt
    /\ ah' = [ah EXCEPT !.bsy = TRUE, !.dev = ah.table]

DeviceTransfer ==
    /\ ah.bsy /\ ah.dev # NoCommand
    /\ LET b == ah.table.call
       IN  ah' = [ah EXCEPT !.bsy = FALSE, !.ci = FALSE, !.dev = NoCommand,
                    !.medium = IF ah.dev.write THEN [@ EXCEPT ![ah.dev.lba] = ah.buffer[b]] ELSE @,
                    !.buffer = IF ah.dev.write THEN @ ELSE [@ EXCEPT ![b] = ah.medium[ah.dev.lba]]]

DeviceError ==
    /\ ah.bsy
    /\ ah' = [ah EXCEPT !.bsy = FALSE, !.halt = TRUE, !.dev = NoCommand]

AhciNext ==
    \/ ahci_stop_port \/ ahci_start_port \/ ahci_identify_device
    \/ \E l \in AhciLba, w \in BOOLEAN : ahci_prepare(l, w)
    \/ ahci_wait_ready \/ ahci_wait_done
    \/ DeviceFetch \/ DeviceTransfer \/ DeviceError

AhciSpec == AhciInit /\ [][AhciNext]_ahciVars
----------------------------------------------------------------------------
(* As long as no call gave up on a command that was still running, a call  *)
(* that reports success has moved its own data: the sector of a write      *)
(* holds what the last successful write put there, and a read's buffer     *)
(* what its sector held (ahci_read, ahci_write).                           *)
SuccessMovedData ==
    ~ah.late /\ ah.pc = "idle" /\ ah.call > 0 /\ ah.result[ah.call] = "ok" =>
        IF ah.cmd.write THEN ah.medium[ah.cmd.lba] = ah.call
        ELSE ah.buffer[ah.call] = ah.medium[ah.cmd.lba]

-----------------------------------------------------------------------------
(***************************************************************************)
(* Bulk-only mass storage (kernel/src/usb/xhci_storage.c): a command is a  *)
(* command block sent out, an optional data phase and a status block read  *)
(* back, each a bulk transfer with its own deadline; reads, writes and     *)
(* flushes retry with REQUEST SENSE in between.  A transfer that times out *)
(* leaves its descriptor on the ring and the device free to answer later.  *)
(* The device is external: it takes OUT packets in order, answers in       *)
(* order, and its answers fill the IN descriptors in order.                *)
(***************************************************************************)
CONSTANTS Attempts,        \* tries of one command (4)
          MaxTags,         \* bound on the commands sent
          MaxBotFaults     \* bound on time-outs and device errors

VARIABLES bh, bd, btd, bgh

(***************************************************************************)
(* bh:  the host: op (the block request), att, kind (command in flight),   *)
(*      pc, tag, got (what the awaited IN descriptor received), buf (what  *)
(*      the data phase left), and the driver's flush_unsupported,          *)
(*      write_cache_known and write_cache_enabled.                         *)
(* bd:  the device: OUT packets to take, phase, cur (the write whose data  *)
(*      it awaits), answers to send, pending sense, whether it caches      *)
(*      writes and supports SYNCHRONIZE CACHE, and the cached writes.      *)
(* btd: IN descriptors on the ring, oldest first.                          *)
(* bgh: faults, commands the device carried out, the tag and the data of   *)
(*      the last command reported done, acknowledged writes, flush result. *)
(***************************************************************************)
botVars == <<bh, bd, btd, bgh>>

Nothing == [p |-> "none", tag |-> 0, st |-> 0]
DataIn(k) == k \in {"read", "sense"}
DataOut(k) == k = "write"

BotInit ==
    /\ \E caches, supports, known \in BOOLEAN :
         /\ bd = [out |-> << >>, phase |-> "cmd", cur |-> 0, ans |-> << >>, sense |-> "none",
                  caches |-> caches, supports |-> supports, cached |-> {}]
         /\ bh = [op |-> "none", att |-> 0, kind |-> "none", pc |-> "idle", tag |-> 0,
                  got |-> Nothing, buf |-> Nothing,
                  unsupported |-> FALSE, known |-> known, wce |-> known /\ caches]
    /\ btd = << >>
    /\ bgh = [faults |-> 0, done |-> {}, last |-> 0, data |-> Nothing, acked |-> {},
              flushed |-> FALSE]

Faulty == bgh.faults < MaxBotFaults
Fault == [bgh EXCEPT !.faults = @ + 1]

(* bot_command begins: a fresh tag and the command block to send. *)
BotStart(h, kind, att) ==
    [h EXCEPT !.kind = kind, !.att = att, !.pc = "cbw", !.tag = @ + 1,
              !.got = Nothing, !.buf = Nothing]

(* storage_read, storage_write and storage_flush enter. *)
BeginOp(op) ==
    /\ bh.pc = "idle" /\ bh.tag < MaxTags
    /\ IF op = "sync" /\ bh.unsupported
       THEN /\ bgh' = [bgh EXCEPT !.flushed = bh.known /\ ~bh.wce]
            /\ UNCHANGED bh
       ELSE /\ bh' = BotStart([bh EXCEPT !.op = op], op, 1)
            /\ bgh' = [bgh EXCEPT !.flushed = FALSE]
    /\ UNCHANGED <<bd, btd>>

(* The packet of a bulk OUT transfer reaches the device, or the transfer   *)
(* times out with the packet lost or still to be taken.                    *)
Packet == IF bh.pc = "cbw" THEN [p |-> "cbw", tag |-> bh.tag, kind |-> bh.kind]
          ELSE [p |-> "data", tag |-> bh.tag, kind |-> bh.kind]

AfterOut == IF bh.pc = "cbw" /\ (DataIn(bh.kind) \/ DataOut(bh.kind)) THEN "data" ELSE "csw"

OutOk ==
    /\ bh.pc = "cbw" \/ (bh.pc = "data" /\ DataOut(bh.kind))
    /\ bd' = [bd EXCEPT !.out = Append(@, Packet)]
    /\ bh' = [bh EXCEPT !.pc = AfterOut]
    /\ UNCHANGED <<btd, bgh>>
OutTimeout(taken) ==
    /\ bh.pc = "cbw" \/ (bh.pc = "data" /\ DataOut(bh.kind))
    /\ Faulty
    /\ bd' = IF taken THEN [bd EXCEPT !.out = Append(@, Packet)] ELSE bd
    /\ bh' = [bh EXCEPT !.pc = "failed"]
    /\ bgh' = Fault
    /\ UNCHANGED btd

(* A bulk IN transfer is enqueued and armed ... *)
PostIn ==
    /\ bh.pc = "csw" \/ (bh.pc = "data" /\ DataIn(bh.kind))
    /\ btd' = Append(btd, [tag |-> bh.tag, stage |-> bh.pc])
    /\ bh' = [bh EXCEPT !.pc = IF bh.pc = "csw" THEN "cswWait" ELSE "dataWait", !.got = Nothing]
    /\ UNCHANGED <<bd, bgh>>

(* ... the device's next answer fills the oldest descriptor; only the      *)
(* completion of the armed one reaches the waiting caller ...              *)
Awaits(t) == /\ bh.pc \in {"cswWait", "dataWait"}
             /\ t.tag = bh.tag
             /\ t.stage = (IF bh.pc = "cswWait" THEN "csw" ELSE "data")
Deliver ==
    /\ btd # << >> /\ bd.ans # << >>
    /\ btd' = Tail(btd)
    /\ bd' = [bd EXCEPT !.ans = Tail(@)]
    /\ bh' = IF Awaits(Head(btd)) THEN [bh EXCEPT !.got = Head(bd.ans)] ELSE bh
    /\ UNCHANGED bgh

(* ... or the wait expires, the descriptor staying where it is. *)
InTimeout ==
    /\ bh.pc \in {"cswWait", "dataWait"} /\ bh.got = Nothing
    /\ Faulty
    /\ bh' = [bh EXCEPT !.pc = "failed"]
    /\ bgh' = Fault
    /\ UNCHANGED <<bd, btd>>

DataArrived ==
    /\ bh.pc = "dataWait" /\ bh.got # Nothing
    /\ bh' = [bh EXCEPT !.pc = "csw", !.buf = bh.got]
    /\ UNCHANGED <<bd, btd, bgh>>

(* A mutant: the status block is accepted whatever command it answers. *)
CswAnyTag(c) == c.p = "csw" /\ c.st = 0

(* The test bot_command makes of the status block. *)
CswGood(c) == c.p = "csw" /\ c.tag = bh.tag /\ c.st = 0

CswArrived ==
    /\ bh.pc = "cswWait" /\ bh.got # Nothing
    /\ IF CswGood(bh.got)
       THEN /\ bh' = [bh EXCEPT !.pc = "done"]
            /\ bgh' = [bgh EXCEPT !.last = bh.tag, !.data = bh.buf]
       ELSE /\ bh' = [bh EXCEPT !.pc = "failed"]
            /\ UNCHANGED bgh
    /\ UNCHANGED <<bd, btd>>

(* The device takes a packet.  Awaiting data it takes anything for data;   *)
(* otherwise only a command block means something to it.                   *)
Answer(p, tag, st) == [p |-> p, tag |-> tag, st |-> st]
TakePacket(fail) ==
    /\ bd.out # << >>
    /\ fail => Faulty
    /\ LET k == Head(bd.out)
           rest == [bd EXCEPT !.out = Tail(@)]
       IN IF bd.phase = "out"
          THEN /\ bd' = [rest EXCEPT !.phase = "cmd",
                             !.ans = Append(@, Answer("csw", bd.cur, IF fail THEN 1 ELSE 0)),
                             !.sense = IF fail THEN "attention" ELSE @,
                             !.cached = IF bd.caches /\ ~fail THEN @ \cup {bd.cur} ELSE @]
               /\ bgh' = IF fail THEN Fault
                         ELSE [bgh EXCEPT !.done = IF k.tag = bd.cur THEN @ \cup {bd.cur} ELSE @]
          ELSE IF k.p # "cbw" THEN ~fail /\ bd' = rest /\ UNCHANGED bgh
          ELSE IF k.kind = "write"
          THEN ~fail /\ bd' = [rest EXCEPT !.phase = "out", !.cur = k.tag] /\ UNCHANGED bgh
          ELSE IF k.kind = "sync" /\ (fail \/ ~bd.supports)
          THEN /\ bd' = [rest EXCEPT !.ans = Append(@, Answer("csw", k.tag, 1)),
                             !.sense = IF bd.supports THEN "attention" ELSE "illegal"]
               /\ bgh' = IF bd.supports THEN Fault ELSE bgh
          ELSE IF k.kind = "sync"
          THEN /\ bd' = [rest EXCEPT !.ans = Append(@, Answer("csw", k.tag, 0)), !.cached = {}]
               /\ bgh' = [bgh EXCEPT !.done = @ \cup {k.tag}]
          ELSE /\ ~fail
               /\ bd' = [rest EXCEPT !.ans = @ \o << Answer(bd.sense, k.tag, 0),
                                                     Answer("csw", k.tag, 0) >>,
                             !.sense = IF k.kind = "sense" THEN "none" ELSE @]
               /\ bgh' = [bgh EXCEPT !.done = @ \cup {k.tag}]
    /\ UNCHANGED <<bh, btd>>

(* A mutant: a device that rejects the flush is taken to have no cache. *)
FlushRejectedOk(h) == TRUE

(* What storage_flush answers when the device does not know the command. *)
FlushRejected(h) == h.known /\ ~h.wce

Finished(h) == [h EXCEPT !.pc = "idle", !.op = "none", !.kind = "none", !.att = 0,
                         !.got = Nothing, !.buf = Nothing]

(* The request's own command was done. *)
CommandDone ==
    /\ bh.pc = "done" /\ bh.kind # "sense"
    /\ bh' = Finished(bh)
    /\ bgh' = [bgh EXCEPT !.acked = IF bh.op = "write" THEN @ \cup {bh.tag} ELSE @,
                          !.flushed = bh.op = "sync"]
    /\ UNCHANGED <<bd, btd>>

(* It failed: ask for the sense data. *)
CommandFailed ==
    /\ bh.pc = "failed" /\ bh.kind # "sense" /\ bh.tag < MaxTags
    /\ bh' = BotStart(bh, "sense", bh.att)
    /\ UNCHANGED <<bd, btd, bgh>>

(* The sense data decide a flush; otherwise the command is tried again.    *)
(* Sense data that could not be fetched are not valid.                     *)
AfterSense ==
    /\ bh.kind = "sense" /\ bh.pc \in {"done", "failed"}
    /\ bh.tag < MaxTags
    /\ LET illegal == bh.op = "sync" /\ bh.pc = "done" /\ bh.buf.p = "illegal"
       IN IF illegal
          THEN /\ bh' = Finished([bh EXCEPT !.unsupported = TRUE])
               /\ bgh' = [bgh EXCEPT !.flushed = FlushRejected(bh)]
          ELSE /\ bh' = IF bh.att < Attempts THEN BotStart(bh, bh.op, bh.att + 1) ELSE Finished(bh)
               /\ UNCHANGED bgh
    /\ UNCHANGED <<bd, btd>>

BotNext ==
    \/ \E op \in {"read", "write", "sync"} : BeginOp(op)
    \/ OutOk \/ \E taken \in BOOLEAN : OutTimeout(taken)
    \/ PostIn \/ Deliver \/ InTimeout \/ DataArrived \/ CswArrived
    \/ \E fail \in BOOLEAN : TakePacket(fail)
    \/ CommandDone \/ CommandFailed \/ AfterSense

BotSpec == BotInit /\ [][BotNext]_botVars

(***************************************************************************)
(* Properties                                                              *)
(***************************************************************************)
(* A command is reported done only if the device carried out that very     *)
(* command, and the data it returned are its own: the late answer of an    *)
(* earlier command that timed out is never taken for the present one's     *)
(* (the tag and signature test of bot_command, xhci_storage.c 326-328).    *)
SuccessIsOwn ==
    /\ bgh.last # 0 => bgh.last \in bgh.done
    /\ bgh.data.tag # 0 => bgh.data.tag = bgh.last

(* A flush that succeeds leaves no acknowledged write in a volatile cache, *)
(* also when the device rejects SYNCHRONIZE CACHE: then only a device that *)
(* said it caches nothing is trusted (xhci_storage.c 511-555).             *)
FlushIsDurable == bgh.flushed => bd.cached \cap bgh.acked = {}
=============================================================================
