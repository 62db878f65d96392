-------------------------------- MODULE Xhci --------------------------------
(***************************************************************************)
(* The xHCI driver, in two parts that are checked one at a time: a control *)
(* endpoint with its rings, and hotplug.                                   *)
(*                                                                         *)
(* The rings: the producer ring with its cycle bit and Link TRB, the       *)
(* operation that builds a Setup/Data/Status sequence on it, the           *)
(* controller that executes what it owns, and the event ring that carries  *)
(* the completions back (kernel/src/usb/xhci_ring.c, xhci_control.c, and   *)
(* the waiting in xhci.c and xhci_event.c).  The controller reads the ring *)
(* whenever its consumer cycle matches, so every store the driver makes to *)
(* a TRB is a step of its own.                                             *)
(***************************************************************************)
EXTENDS Integers, Sequences, FiniteSets

CONSTANTS
  TrbCount,      \* entries of the transfer ring, the Link TRB included
  EventCount,    \* entries of the event ring
  EventBatch,    \* XHCI_EVENT_BATCH_LIMIT
  MaxControls,   \* operations a run starts
  MaxRingFaults  \* timeouts, errors and refused waits a run allows

VARIABLES
  tring,   \* xhci_ring_t of EP0: entries, enqueue_idx, dequeue_idx, cycle_state
  chw,     \* the controller: its dequeue position, cycle, events and ring end
  cop,     \* the operation xhci_control_transfer is building or waiting for
  crec,    \* the transfer record and the wait mailbox
  led,     \* the keyboard LED state of the controller and of this device
  ering,   \* the driver's side of the event ring: dequeue_idx, cycle_state, ERDP
  rgh      \* bounds, and what the controller has executed

ringVars == <<tring, chw, cop, crec, led, ering, rgh>>

Link == TrbCount - 1
Blank == [cyc |-> 0, op |-> 0, stage |-> "none"]
NoEvent == [cyc |-> 0, op |-> 0, at |-> 0, code |-> "none"]

\* xhci_ring_alloc: zeroed entries, producer cycle one.
RingAlloc == [trb |-> [i \in 0..Link |-> Blank], enq |-> 0, deq |-> 0, cyc |-> 1]

RingInit ==
  /\ tring = RingAlloc
  /\ chw = [deq |-> 0, cyc |-> 1, halted |-> FALSE, ev |-> [i \in 0..(EventCount - 1) |-> NoEvent],
            eenq |-> 0, ecyc |-> 1]
  /\ cop = [pc |-> "idle", op |-> 0, led |-> FALSE, first |-> 0, last |-> 0,
            saved |-> 0, savedCyc |-> 1]
  /\ crec = [pending |-> FALSE, op |-> 0, first |-> 0, last |-> 0,
             sync |-> TRUE, waiting |-> FALSE, ready |-> "no", busy |-> FALSE]
  /\ ering = [deq |-> 0, cyc |-> 1, erdp |-> 0, batch |-> 0]
  /\ led = [want |-> 0, todo |-> FALSE, sent |-> 0, valid |-> FALSE, sending |-> 0,
            inflight |-> FALSE, disabled |-> FALSE]
  /\ rgh = [ops |-> 0, faults |-> 0, setup |-> TRUE, ran |-> <<0, "none">>, live |-> {},
            posted |-> <<>>, stale |-> FALSE, taken |-> 0, raced |-> FALSE]

--------------------------------------------------------------------------------
\* The producer side: xhci_ring_enqueue_internal.

After(i) == IF i + 1 = Link THEN 0 ELSE i + 1

RingFull(r) == After(r.enq) = r.deq

\* A TRB enters with the inverse of the producer cycle (xhci_prepare_trb) and
\* is handed over by xhci_publish_prepared_trb.  Reaching the Link entry writes
\* and publishes it with the old cycle, toggles the cycle and wraps.
Enqueue(r, op, stage, publish) ==
  LET own == IF publish THEN r.cyc ELSE 1 - r.cyc
      put == [r.trb EXCEPT ![r.enq] = [cyc |-> own, op |-> op, stage |-> stage]]
  IN IF r.enq + 1 = Link
     THEN [r EXCEPT !.trb = [put EXCEPT ![Link] = [cyc |-> r.cyc, op |-> 0, stage |-> "link"]],
                    !.enq = 0, !.cyc = 1 - @]
     ELSE [r EXCEPT !.trb = put, !.enq = @ + 1]

\* xhci_ring_trb_in_range: a bounded walk from first to last over the wrap.
InTd(first, last, i) ==
  IF first <= last THEN first <= i /\ i <= last ELSE i >= first \/ i <= last

\* xhci_ring_reclaim_td: only the oldest outstanding TD may be reclaimed.
Reclaimable(r, first) == first = r.deq
Reclaim(r, last) == [r EXCEPT !.deq = After(last)]

--------------------------------------------------------------------------------
\* xhci_control_transfer and xhci_control_set_hid_leds_async, one step for each
\* store the controller can observe.

\* A mutant: the Setup TRB is published as soon as it is written.
SetupPublished(data, isLed, publish) ==
  /\ tring' = Enqueue(tring, rgh.ops + 1, "setup", TRUE)
  /\ cop' = [pc |-> IF data THEN "data" ELSE "status", op |-> rgh.ops + 1, led |-> isLed,
             first |-> tring.enq, last |-> tring.enq,
             saved |-> tring.enq, savedCyc |-> tring.cyc]

\* The saved producer position, and the Setup TRB with its ownership withheld.
Setup(data, isLed, publish) ==
  /\ tring' = Enqueue(tring, rgh.ops + 1, "setup", publish)
  /\ cop' = [pc |-> IF data THEN "data" ELSE "status", op |-> rgh.ops + 1, led |-> isLed,
             first |-> tring.enq, last |-> tring.enq,
             saved |-> tring.enq, savedCyc |-> tring.cyc]

\* While the device is being set up the worker runs synchronous control transfers.
BeginControl(data) ==
  /\ cop.pc = "idle" /\ rgh.setup /\ rgh.ops < MaxControls
  /\ rgh' = [rgh EXCEPT !.ops = @ + 1]
  /\ IF RingFull(tring) THEN UNCHANGED <<tring, cop>> ELSE Setup(data, FALSE, FALSE)
  /\ UNCHANGED <<chw, crec, led, ering>>

\* xhci_device_setup_finish: from now on only LED reports use this endpoint.
FinishSetup ==
  /\ cop.pc = "idle" /\ rgh.setup
  /\ rgh' = [rgh EXCEPT !.setup = FALSE]
  /\ UNCHANGED <<tring, chw, cop, crec, led, ering>>

\* xhci_abort_unpublished_control restores the producer's bookkeeping only: the
\* later stages stay on the ring, published.  A failed LED report counts as sent.
AbortUnpublished ==
  /\ tring' = [tring EXCEPT !.enq = cop.saved, !.cyc = cop.savedCyc]
  /\ cop' = [cop EXCEPT !.pc = IF cop.led THEN "ledclear" ELSE "idle"]
  /\ led' = IF cop.led THEN [led EXCEPT !.sent = led.sending, !.valid = TRUE] ELSE led
  /\ rgh' = [rgh EXCEPT !.stale = @ \/ tring.enq # After(cop.saved)]

\* The Data and Status stages: an overrun aborts the operation.
NextStage ==
  /\ cop.pc \in {"data", "status"}
  /\ IF RingFull(tring)
     THEN AbortUnpublished
     ELSE /\ tring' = Enqueue(tring, cop.op, cop.pc, TRUE)
          /\ cop' = [cop EXCEPT !.pc = IF cop.pc = "data" THEN "status" ELSE "arm", !.last = tring.enq]
          /\ UNCHANGED <<led, rgh>>
  /\ UNCHANGED <<chw, crec, ering>>

\* xhci_arm_transfer_operation: a synchronous wait is refused while another is
\* armed, either kind while the record is in use.
ArmControl ==
  /\ cop.pc = "arm"
  /\ IF crec.pending \/ (crec.busy /\ ~cop.led)
     THEN AbortUnpublished /\ UNCHANGED crec
     ELSE /\ crec' = [crec EXCEPT !.pending = TRUE, !.op = cop.op, !.first = cop.first,
                         !.last = cop.last, !.sync = ~cop.led, !.waiting = ~cop.led, !.ready = "no"]
          /\ cop' = [cop EXCEPT !.pc = "publish"]
          /\ UNCHANGED <<tring, led, rgh>>
  /\ UNCHANGED <<chw, ering>>

\* xhci_ring_publish_trb on the Setup TRB, and the doorbell.  The LED worker
\* then marks its report in flight; a synchronous caller waits.
PublishControl ==
  /\ cop.pc = "publish"
  /\ tring' = [tring EXCEPT !.trb[cop.first].cyc = cop.savedCyc]
  /\ cop' = [cop EXCEPT !.pc = IF cop.led THEN "ledclear" ELSE "wait"]
  /\ led' = IF cop.led THEN [led EXCEPT !.inflight = TRUE] ELSE led
  /\ rgh' = [rgh EXCEPT !.live = @ \cup {cop.op}]
  /\ UNCHANGED <<chw, crec, ering>>

--------------------------------------------------------------------------------
\* The controller (external): it runs while the entry's cycle is its own.

Owned == ~chw.halted /\ tring.trb[chw.deq].cyc = chw.cyc

FollowLink ==
  /\ Owned /\ tring.trb[chw.deq].stage = "link"
  /\ chw' = [chw EXCEPT !.deq = 0, !.cyc = 1 - @]
  /\ UNCHANGED <<tring, cop, crec, led, ering, rgh>>

EventRoom == ~(chw.eenq = ering.erdp /\ chw.ev[chw.eenq].cyc = chw.ecyc)
              /\ (chw.eenq + 1) % EventCount # ering.erdp

PostEvent(h, op, i, code) ==
  [h EXCEPT !.ev[h.eenq] = [cyc |-> h.ecyc, op |-> op, at |-> i, code |-> code],
            !.eenq = (@ + 1) % EventCount,
            !.ecyc = IF h.eenq + 1 = EventCount THEN 1 - @ ELSE @]

\* One stage runs.  The Status stage interrupts on completion; any stage may
\* end in an error, which halts the endpoint.
RunStage(code) ==
  LET t == tring.trb[chw.deq]
      h == [chw EXCEPT !.deq = @ + 1, !.halted = (code = "error")]
      posts == t.stage = "status" \/ code = "error"
  IN /\ Owned /\ t.stage # "link" /\ EventRoom
     /\ code = "error" => rgh.faults < MaxRingFaults
     /\ chw' = IF posts THEN PostEvent(h, t.op, chw.deq, code) ELSE h
     /\ rgh' = [rgh EXCEPT !.ran = <<t.op, t.stage>>,
                           !.posted = IF posts THEN Append(@, t.op) ELSE @,
                           !.faults = IF code = "error" THEN @ + 1 ELSE @]
     /\ UNCHANGED <<tring, cop, crec, led, ering>>

--------------------------------------------------------------------------------
\* xhci_process_events: drain up to a batch, then move ERDP once.

\* A mutant: the consumer cycle is not compared.
FreshAlways == chw.ev[ering.deq].code # "none"

\* xhci_event_ring_get_next: an entry is new when its cycle is the consumer's.
Fresh == chw.ev[ering.deq].cyc = ering.cyc

\* xhci_event_ring_advance.
Advanced == [ering EXCEPT !.deq = (@ + 1) % EventCount,
                          !.cyc = IF ering.deq + 1 = EventCount THEN 1 - @ ELSE @,
                          !.batch = @ + 1]

\* A mutant: any event completes the record waited for.
RoutesAnyway(e) == crec.pending /\ (crec.sync => crec.waiting /\ crec.ready = "no")

\* xhci_route_transfer_event: the terminal TRB, or an error anywhere in the TD,
\* of the pending record; a synchronous one must still be waited for.
Routes(e) ==
  /\ crec.pending /\ InTd(crec.first, crec.last, e.at)
  /\ e.at = crec.last \/ e.code = "error"
  /\ crec.sync => crec.waiting /\ crec.ready = "no"

\* A mutant: a lock state that changed while the report was in flight is not
\* queued again.
LedDoneSilent ==
  IF ~Reclaimable(tring, crec.first)
  THEN /\ led' = [led EXCEPT !.disabled = TRUE, !.inflight = FALSE]
       /\ UNCHANGED <<tring, crec>>
  ELSE /\ led' = [led EXCEPT !.inflight = FALSE, !.sent = led.sending, !.valid = TRUE]
       /\ tring' = Reclaim(tring, crec.last)
       /\ crec' = [crec EXCEPT !.pending = FALSE]

\* xhci_handle_async_control_transfer: reclaim first, and quarantine the LED
\* path when that fails; a report that failed still counts as sent.
LedDone ==
  IF ~Reclaimable(tring, crec.first)
  THEN /\ led' = [led EXCEPT !.disabled = TRUE, !.inflight = FALSE]
       /\ UNCHANGED <<tring, crec>>
  ELSE /\ led' = [led EXCEPT !.inflight = FALSE, !.sent = led.sending, !.valid = TRUE,
                             !.todo = @ \/ (led.want # led.sending /\ ~led.disabled)]
       /\ tring' = Reclaim(tring, crec.last)
       /\ crec' = [crec EXCEPT !.pending = FALSE]

\* The worker consumes events between its own operations, or while it waits.
ConsumeEvent ==
  LET e == chw.ev[ering.deq] IN
  /\ cop.pc \in {"idle", "wait"} /\ Fresh /\ ering.batch < EventBatch
  /\ ering' = Advanced
  /\ \/ ~Routes(e) /\ UNCHANGED <<tring, crec, led>>
     \/ Routes(e) /\ crec.sync /\ crec' = [crec EXCEPT !.ready = e.code] /\ UNCHANGED <<tring, led>>
     \/ Routes(e) /\ ~crec.sync /\ LedDone
  /\ rgh' = [rgh EXCEPT !.taken = IF Routes(e) THEN e.op ELSE @,
                        !.posted = IF @ = <<>> THEN @ ELSE Tail(@)]
  /\ UNCHANGED <<chw, cop>>

\* xhci_update_erdp, once for the batch.
UpdateErdp ==
  /\ ering.batch > 0 /\ (~Fresh \/ ering.batch = EventBatch)
  /\ ering' = [ering EXCEPT !.erdp = ering.deq, !.batch = 0]
  /\ UNCHANGED <<tring, chw, cop, crec, led, rgh>>

--------------------------------------------------------------------------------
\* The waiter: xhci_wait_for_transfer_completion and the end of the operation.

\* xhci_take_transfer_completion, then xhci_ring_reclaim_td.
TakeCompletion ==
  /\ cop.pc = "wait" /\ crec.ready # "no"
  /\ crec' = [crec EXCEPT !.ready = "no", !.waiting = FALSE, !.pending = FALSE]
  /\ tring' = IF Reclaimable(tring, cop.first) THEN Reclaim(tring, cop.last) ELSE tring
  /\ cop' = [cop EXCEPT !.pc = "idle"]
  /\ UNCHANGED <<chw, led, ering, rgh>>

\* A mutant: an operation that timed out is reclaimed as if it were over.
TimeoutReclaims ==
  /\ cop.pc = "wait" /\ crec.ready = "no" /\ rgh.faults < MaxRingFaults
  /\ crec' = [crec EXCEPT !.waiting = FALSE, !.pending = FALSE]
  /\ cop' = [cop EXCEPT !.pc = "idle"]
  /\ tring' = IF Reclaimable(tring, cop.first) THEN Reclaim(tring, cop.last) ELSE tring
  /\ rgh' = [rgh EXCEPT !.faults = @ + 1]
  /\ UNCHANGED <<chw, led, ering>>

\* The deadline: xhci_cancel_transfer_wait.  The TD is not reclaimed, because
\* the controller may still own it.
TimeoutControl ==
  /\ cop.pc = "wait" /\ crec.ready = "no" /\ rgh.faults < MaxRingFaults
  /\ crec' = [crec EXCEPT !.waiting = FALSE, !.pending = FALSE]
  /\ cop' = [cop EXCEPT !.pc = "idle"]
  /\ rgh' = [rgh EXCEPT !.faults = @ + 1]
  /\ UNCHANGED <<tring, chw, led, ering>>

\* Another thread arms and drops the one synchronous wait (a bulk transfer).
OtherWait ==
  /\ ~crec.waiting /\ (crec.busy \/ rgh.faults < MaxRingFaults)
  /\ crec' = [crec EXCEPT !.busy = ~@]
  /\ rgh' = IF crec.busy THEN rgh ELSE [rgh EXCEPT !.faults = @ + 1]
  /\ UNCHANGED <<tring, chw, cop, led, ering>>

--------------------------------------------------------------------------------
\* Keyboard LEDs: xhci_keyboard_led_state_changed and xhci_process_keyboard_leds.

\* A lock key changes the wanted state and marks the work, from any context.
LedStateChanged ==
  /\ rgh.ops < MaxControls
  /\ led' = [led EXCEPT !.want = 1 - @, !.todo = TRUE]
  /\ rgh' = [rgh EXCEPT !.raced = @ \/ (cop.led /\ cop.pc # "idle")]
  /\ UNCHANGED <<tring, chw, cop, crec, ering>>

\* One pass over the device: a report in flight is only checked against its
\* deadline, an up-to-date one is skipped, otherwise a report is built.
LedPass(expired) ==
  LET skip == led.disabled \/ rgh.setup \/ (~led.inflight /\ led.valid /\ led.sent = led.want) IN
  /\ cop.pc = "idle" /\ ering.batch = 0 /\ led.todo
  /\ expired => led.inflight /\ ~led.disabled
  /\ IF skip \/ led.inflight \/ RingFull(tring)
     THEN /\ led' = [led EXCEPT !.disabled = @ \/ expired,
                      !.sent = IF skip \/ led.inflight THEN @ ELSE led.want,
                      !.valid = @ \/ ~(skip \/ led.inflight)]
          /\ cop' = [cop EXCEPT !.pc = "ledclear", !.led = TRUE]
          /\ UNCHANGED <<tring, rgh>>
     ELSE /\ led' = [led EXCEPT !.sending = led.want]
          /\ rgh.ops < MaxControls /\ rgh' = [rgh EXCEPT !.ops = @ + 1]
          /\ Setup(TRUE, TRUE, FALSE)
  /\ UNCHANGED <<chw, crec, ering>>

\* The pass ends by clearing the work flag.
LedClear ==
  /\ cop.pc = "ledclear"
  /\ led' = [led EXCEPT !.todo = FALSE]
  /\ cop' = [cop EXCEPT !.pc = "idle", !.led = FALSE]
  /\ UNCHANGED <<tring, chw, crec, ering, rgh>>

RingNext ==
  \/ \E data \in BOOLEAN : BeginControl(data)
  \/ FinishSetup \/ NextStage \/ ArmControl \/ PublishControl
  \/ FollowLink \/ \E code \in {"ok", "error"} : RunStage(code)
  \/ ConsumeEvent \/ UpdateErdp
  \/ TakeCompletion \/ TimeoutControl \/ OtherWait
  \/ LedStateChanged \/ (\E expired \in BOOLEAN : LedPass(expired)) \/ LedClear

RingSpec == RingInit /\ [][RingNext]_ringVars

--------------------------------------------------------------------------------
\* Properties.

Successor(old, new) ==
  /\ new[1] \in rgh.live
  /\ CASE new[2] = "setup" -> old[2] \in {"none", "status"}
       [] new[2] = "data" -> old = <<new[1], "setup">>
       [] OTHER -> old \in {<<new[1], "setup">>, <<new[1], "data">>}

\* The controller executes only operations that were published, each as Setup,
\* Data, Status without another operation's stage in between: what withholding
\* the Setup TRB in xhci_control_transfer is for.  It holds until an abort has
\* left published stages behind.
StageFollows ==
  ~rgh.stale /\ rgh'.ran # rgh.ran => Successor(rgh.ran, rgh'.ran)

Ahead(from, to) == (to - from) % Link
HwAt == IF chw.deq = Link THEN 0 ELSE chw.deq

\* The controller's position always lies in the part of the ring the driver
\* regards as in use, so enqueueing never overwrites an entry that has not run
\* (xhci_ring_enqueue's full test and xhci_ring_reclaim_td).  A halted endpoint
\* runs nothing more, and is never restarted.
ControllerInsideRing ==
  ~rgh.stale /\ ~chw.halted => Ahead(tring.deq, HwAt) <= Ahead(tring.deq, tring.enq)

\* A completion handed to a waiter, or to the LED path, is the completion of
\* the operation that waits, whatever timed out before and completes late; like
\* the order of stages, until an abort has left published stages behind.
CompletionBelongs == crec.ready # "no" /\ ~rgh.stale => rgh.taken = crec.op

\* The driver sees every event once, in the order the controller posted them,
\* across the wrap of both cycle bits (xhci_event_ring_get_next and _advance).
EventsInOrder ==
  IF Fresh THEN rgh.posted # <<>> /\ chw.ev[ering.deq].op = Head(rgh.posted)
           ELSE rgh.posted = <<>>

\* A lock state that differs from the last report is in flight or queued,
\* unless the LED path is quarantined.  It holds while no change of state lands
\* inside a pass, which ends by clearing the flag such a change has set.
LedNotForgotten ==
  ~rgh.raced /\ ~rgh.setup /\ ~led.disabled /\ led.valid /\ led.want # led.sent
    => led.inflight \/ led.todo

-----------------------------------------------------------------------------
(***************************************************************************)
(* The command path of the xHCI driver (kernel/src/usb/xhci_cmd.c and the  *)
(* command mailbox of xhci.c and xhci_event.c): a command is armed in the  *)
(* controller's single mailbox, enqueued, announced by doorbell 0 and      *)
(* waited for until a deadline; the event consumer routes a completion to  *)
(* the mailbox only when it names the armed TRB.  The controller is        *)
(* external: it executes the commands in order and posts one completion    *)
(* for each, at any later time, also after the driver has given up.        *)
(***************************************************************************)
CONSTANTS CommandTrbs,    \* usable TRBs of the command ring
          CommandSlots,   \* device slots of the controller
          MaxTimeouts     \* bound on expired waits

VARIABLES kring, kmb, kop, khw, kgh

(***************************************************************************)
(* kring: the commands written so far, TRB i being kring[i].  The ring's   *)
(*        dequeue index is never advanced for commands, so a TRB is never  *)
(*        used twice.                                                      *)
(* kmb:   the mailbox; trb = 0 is "no TRB".                                *)
(* kop:   the command the worker is in.                                    *)
(* khw:   the controller: TRBs executed, the events it posted and the      *)
(*        slots it enabled.                                                *)
(* kgh:   expired waits, and what the last command returned.               *)
(***************************************************************************)
commandVars == <<kring, kmb, kop, khw, kgh>>

Commands == [type : {"enable"}, slot : {0}]
            \cup [type : {"disable", "address", "evaluate", "configure"}, slot : 1..CommandSlots]

NoCompletion == [trb |-> 0, slot |-> 0, ok |-> FALSE]
NoWait == [waiting |-> FALSE, ready |-> FALSE, type |-> "none", slot |-> 0, trb |-> 0,
           event |-> NoCompletion]
NoCommand == [pc |-> "idle", type |-> "none", slot |-> 0]

CommandInit ==
    /\ kring = << >>
    /\ kmb = NoWait
    /\ kop = NoCommand
    /\ khw = [done |-> 0, events |-> << >>, enabled |-> {}]
    /\ kgh = [timeouts |-> 0, result |-> "none", trb |-> 0, event |-> NoCompletion]

(* xhci_arm_command_wait: refused while another wait is armed. *)
Armed(c) == [waiting |-> TRUE, ready |-> FALSE, type |-> c.type, slot |-> c.slot,
             trb |-> Len(kring) + 1, event |-> NoCompletion]

(* A mutant: cancelling forgets that the record is still armed. *)
CancelKeepsWaiting == [kmb EXCEPT !.ready = FALSE]

(* xhci_cancel_command_wait. *)
Cancelled == NoWait

(* xhci_cmd_enable_slot, _disable_slot, _address_device and                *)
(* _evaluate_context, _configure_endpoint up to the doorbell.              *)
IssueCommand(c) ==
    /\ kop.pc = "idle"
    /\ IF kmb.waiting
       THEN /\ kgh' = [kgh EXCEPT !.result = "refused"]
            /\ UNCHANGED <<kring, kmb, kop>>
       ELSE IF Len(kring) = CommandTrbs
       THEN /\ kmb' = Cancelled
            /\ kgh' = [kgh EXCEPT !.result = "full"]
            /\ UNCHANGED <<kring, kop>>
       ELSE /\ kmb' = Armed(c)
            /\ kring' = Append(kring, c)
            /\ kop' = [pc |-> "wait", type |-> c.type, slot |-> c.slot]
            /\ UNCHANGED kgh
    /\ UNCHANGED khw

(* The controller executes the next command of the ring. *)
ExecuteCommand(ok, s) ==
    LET i == khw.done + 1
        c == kring[i]
    IN /\ i <= Len(kring)
       /\ IF c.type = "enable" /\ ok
          THEN s \in (1..CommandSlots) \ khw.enabled
          ELSE s = c.slot
       /\ (c.type # "enable" /\ ok) => c.slot \in khw.enabled
       /\ khw' = [done |-> i,
                  events |-> Append(khw.events, [trb |-> i, slot |-> s, ok |-> ok]),
                  enabled |-> CASE ok /\ c.type = "enable" -> khw.enabled \cup {s}
                                [] ok /\ c.type = "disable" -> khw.enabled \ {s}
                                [] OTHER -> khw.enabled]
       /\ UNCHANGED <<kring, kmb, kop, kgh>>

(* A mutant: a completion of the expected type and slot is enough. *)
RoutesByType(e) ==
    /\ kmb.waiting /\ ~kmb.ready
    /\ kring[e.trb].type = kmb.type
    /\ kmb.slot # 0 => e.slot = kmb.slot

(* xhci_route_command_completion: the mailbox takes the event when it      *)
(* names the armed TRB, that TRB holds the expected command, and the slot  *)
(* is the expected one (any, for Enable Slot).                             *)
RoutesCommand(e) ==
    /\ kmb.waiting /\ ~kmb.ready
    /\ e.trb = kmb.trb
    /\ kring[e.trb].type = kmb.type
    /\ kmb.slot # 0 => e.slot = kmb.slot

(* xhci_process_events for a command completion event. *)
ConsumeCompletion ==
    /\ khw.events # << >>
    /\ LET e == Head(khw.events)
       IN kmb' = IF RoutesCommand(e) THEN [kmb EXCEPT !.event = e, !.ready = TRUE] ELSE kmb
    /\ khw' = [khw EXCEPT !.events = Tail(@)]
    /\ UNCHANGED <<kring, kop, kgh>>

(* xhci_wait_for_cmd_completion: take the completion and map its code. *)
TakeCommandCompletion ==
    /\ kop.pc = "wait" /\ kmb.ready
    /\ kmb' = NoWait
    /\ kop' = NoCommand
    /\ kgh' = [kgh EXCEPT !.result = IF kmb.event.ok THEN "ok" ELSE "failed",
                          !.trb = Len(kring), !.event = kmb.event]
    /\ UNCHANGED <<kring, khw>>

(* The deadline expires before a completion is taken. *)
CommandTimeout ==
    /\ kop.pc = "wait"
    /\ kgh.timeouts < MaxTimeouts
    /\ kmb' = Cancelled
    /\ kop' = NoCommand
    /\ kgh' = [kgh EXCEPT !.timeouts = @ + 1, !.result = "timeout", !.trb = Len(kring)]
    /\ UNCHANGED <<kring, khw>>

CommandNext ==
    \/ \E c \in Commands : IssueCommand(c)
    \/ \E ok \in BOOLEAN, s \in 0..CommandSlots : ExecuteCommand(ok, s)
    \/ ConsumeCompletion
    \/ TakeCommandCompletion
    \/ CommandTimeout

CommandSpec == CommandInit /\ [][CommandNext]_commandVars

(***************************************************************************)
(* Properties                                                              *)
(***************************************************************************)
(* A command reports the completion of the TRB it wrote, never a late one  *)
(* of an earlier command that timed out (xhci.c, the TRB match of          *)
(* xhci_route_command_completion); so a slot id an Enable Slot returns is  *)
(* one the controller enabled for it.                                      *)
CommandAnswered ==
    kgh.result \in {"ok", "failed"} =>
        /\ kgh.event.trb = kgh.trb
        /\ kgh.event.slot # 0 => kring[kgh.trb].slot \in {0, kgh.event.slot}

(* No command is refused because an earlier one left the mailbox armed:    *)
(* every way out of a command, the enqueue failure and the timeout         *)
(* included, disarms it.                                                   *)
MailboxFree == kgh.result # "refused" /\ (kop.pc = "idle" => ~kmb.waiting)

-----------------------------------------------------------------------------
(* Hotplug: root ports that gain and lose devices at any moment, the       *)
(* interrupt handler, the one service worker that drains port events and   *)
(* sets devices up and tears them down, the mass-storage table, and a      *)
(* thread doing block I/O on a disk while it is pulled                     *)
(* (kernel/src/usb/xhci.c, xhci_port.c, xhci_storage.c, xhci_event.c).     *)

CONSTANTS
  XPort,        \* root ports
  XSlots,       \* device slots the controller offers (max_slots)
  DiskEntries,  \* entries of the mass-storage table devices[]
  MaxPlugs,     \* devices plugged in a run
  MaxXhciFaults \* failed setup steps and failed Disable Slot commands

VARIABLES
  xp,    \* ports: the device in the socket, PORTSC.CSC, and port state
  xq,    \* Event Ring, interrupt line, event_work_pending, pending_port_changes
  xs,    \* xhc->devices[]
  xd,    \* devices[] of xhci_storage.c
  xw,    \* the service worker
  xio,   \* a thread inside block I/O, and the block I/O gate
  xgh    \* bounds and history

xhciVars == <<xp, xq, xs, xd, xw, xio, xgh>>

XSlot == 1..XSlots
Disk == 1..DiskEntries

\* Identities of sockets' contents and of device instances count up in the
\* machine; the least one nothing refers to stands for the next.
Least(used) == CHOOSE n \in 1..(Cardinality(used) + 1) : n \notin used /\ \A m \in 1..(n - 1) : m \in used
NextPlug == Least({xp[p].plug : p \in XPort} \cup {xs[s].plug : s \in XSlot} \cup {xw.plug})
NextGen == Least({xs[s].gen : s \in XSlot} \cup {xd[d].gen : d \in Disk} \cup {xio.gen})

\* A device object after memset: no slot.
NoSlot == [used |-> FALSE, port |-> 0, plug |-> 0, gen |-> 0, ready |-> FALSE,
           disk |-> FALSE, tear |-> FALSE, tell |-> FALSE, added |-> FALSE, silent |-> FALSE]
NoDisk == [active |-> FALSE, tearing |-> FALSE, gen |-> 0, reg |-> FALSE]

XhciInit ==
  /\ xp = [p \in XPort |-> [plug |-> 0, disk |-> FALSE, csc |-> FALSE, st |-> "disconnected"]]
  /\ xq = [ev |-> <<>>, irq |-> FALSE, work |-> FALSE, ports |-> {}]
  /\ xs = [s \in XSlot |-> NoSlot]
  /\ xd = [d \in Disk |-> NoDisk]
  /\ xw = [pc |-> "blocked", port |-> 0, slot |-> 0, plug |-> 0, tried |-> FALSE, todo |-> {}]
  /\ xio = [gate |-> "free", disk |-> 0, gen |-> 0]
  /\ xgh = [plugs |-> 0, faults |-> 0, stray |-> FALSE, reused |-> FALSE]

--------------------------------------------------------------------------------
\* The socket (external).  A change of connection sets CSC, and the transition
\* of CSC posts one Port Status Change event and raises the interrupt.

Changed(q, p) ==
  IF xp[p].csc THEN q ELSE [q EXCEPT !.ev = Append(@, p), !.irq = TRUE]

Plug(p, disk) ==
  /\ xp[p].plug = 0 /\ xgh.plugs < MaxPlugs
  /\ xp' = [xp EXCEPT ![p].plug = NextPlug, ![p].disk = disk, ![p].csc = TRUE]
  /\ xq' = Changed(xq, p)
  /\ xgh' = [xgh EXCEPT !.plugs = @ + 1]
  /\ UNCHANGED <<xs, xd, xw, xio>>

Unplug(p) ==
  /\ xp[p].plug # 0
  /\ xp' = [xp EXCEPT ![p].plug = 0, ![p].csc = TRUE]
  /\ xq' = Changed(xq, p)
  /\ UNCHANGED <<xs, xd, xw, xio, xgh>>

\* xhci_interrupt_handler: acknowledge, record the work, wake the worker.
Interrupt ==
  /\ xq.irq
  /\ xq' = [xq EXCEPT !.irq = FALSE, !.work = TRUE]
  /\ xw' = IF xw.pc = "blocked" THEN [xw EXCEPT !.pc = "events"] ELSE xw
  /\ UNCHANGED <<xp, xs, xd, xio, xgh>>

--------------------------------------------------------------------------------
\* xhci_handle_port_status_change, for the event at the head of the ring.

SetupInProgress(st) == st = "setup"

\* A mutant: a disconnect that arrives while the port is set up is not queued.
QueuedIfIdle(p) ==
  LET connected == xp[p].plug # 0 IN
  IF xp[p].csc /\ ~SetupInProgress(xp[p].st) /\ connected THEN {p} ELSE {}

\* The port is queued when it is connected and no setup owns it, or when it is gone.
Queued(p) ==
  LET connected == xp[p].plug # 0 IN
  IF xp[p].csc /\ (~connected \/ ~SetupInProgress(xp[p].st)) THEN {p} ELSE {}

HandlePortEvent ==
  LET p == Head(xq.ev) IN
  /\ xq.ev # <<>>
  /\ xp' = [xp EXCEPT ![p].csc = FALSE,
                      ![p].st = IF xp[p].plug = 0 THEN "disconnected"
                                ELSE IF SetupInProgress(@) THEN @ ELSE "observed"]
  /\ xq' = [xq EXCEPT !.ev = Tail(@), !.ports = @ \cup Queued(p),
                      !.work = @ \/ Queued(p) # {}]

\* xhci_process_events, from the worker's loop and from every wait it makes
\* while it sets a device up or disables a slot.
Drain ==
  /\ xw.pc \in {"drain", "enable", "class"}
  /\ HandlePortEvent
  /\ UNCHANGED <<xs, xd, xw, xio, xgh>>

--------------------------------------------------------------------------------
\* Teardown.

SlotsOf(p) == {s \in XSlot : xs[s].used /\ xs[s].port = p}
\* xhci_device_slot_for_port: the lowest one.
SlotFor(p) == CHOOSE s \in SlotsOf(p) : \A t \in SlotsOf(p) : s <= t

DisksOf(s) == {d \in Disk : (xd[d].active \/ xd[d].tearing) /\ xd[d].gen = xs[s].gen}

\* xhci_storage_remove_device: the block device is marked gone first; while the
\* block I/O gate is held the entry only becomes inactive with teardown pending.
RemoveDisks(s) ==
  [d \in Disk |-> IF d \notin DisksOf(s) THEN xd[d]
                  ELSE IF xio.gate # "free"
                       THEN [xd[d] EXCEPT !.active = FALSE, !.tearing = TRUE]
                       ELSE NoDisk]

\* The teardown of a disk whose I/O has not unwound is deferred.
Deferred(s) == xs[s].disk /\ DisksOf(s) # {} /\ xio.gate # "free"

\* xhci_cleanup_failed_device for slot s.  The instance is dead at once; the
\* slot and its rings are released unless the disk is busy or Disable Slot fails.
Cleanup(s, disableOk) ==
  /\ xd' = IF xs[s].disk THEN RemoveDisks(s) ELSE xd
  /\ ~disableOk => ~Deferred(s) /\ xgh.faults < MaxXhciFaults

\* A mutant: the slot is disabled although the disk still has I/O in flight.
CleanedRegardless(s, disableOk) == disableOk

Cleaned(s, disableOk) == ~Deferred(s) /\ disableOk

\* Whether the removal of an instance is published, and what a failed cleanup leaves.
Released(s, disableOk, tell) ==
  IF Cleaned(s, disableOk) THEN [xs EXCEPT ![s] = NoSlot]
  ELSE [xs EXCEPT ![s].ready = FALSE, ![s].tear = TRUE, ![s].tell = @ \/ tell,
                       ![s].silent = @ \/ ~tell]

Published(s, disableOk, tell) ==
  [xgh EXCEPT !.stray = @ \/ (tell /\ Cleaned(s, disableOk) /\ ~xs[s].added /\ ~xs[s].silent),
              !.faults = IF disableOk THEN @ ELSE @ + 1]

\* xhci_process_pending_teardowns, slot by slot in the worker's loop.
BeginTeardowns ==
  /\ xw.pc = "drain" /\ xq.ev = <<>>
  /\ xw' = [xw EXCEPT !.pc = "teardown", !.todo = {s \in XSlot : xs[s].tear}]
  /\ UNCHANGED <<xp, xq, xs, xd, xio, xgh>>

TeardownOne(s, disableOk) ==
  /\ xw.pc = "teardown" /\ s \in xw.todo
  /\ Cleanup(s, disableOk)
  /\ xs' = Released(s, disableOk, FALSE)
  /\ xgh' = Published(s, disableOk, xs[s].tell)
  /\ xw' = [xw EXCEPT !.todo = @ \ {s}]
  /\ UNCHANGED <<xp, xq, xio>>

\* A mutant: the work flag is cleared after the events were drained.
EndTeardownsClears ==
  /\ xw.pc = "teardown" /\ xw.todo = {}
  /\ xw' = [xw EXCEPT !.pc = "ports"]
  /\ xq' = [xq EXCEPT !.work = FALSE]
  /\ UNCHANGED <<xp, xs, xd, xio, xgh>>

EndTeardowns ==
  /\ xw.pc = "teardown" /\ xw.todo = {}
  /\ xw' = [xw EXCEPT !.pc = "ports"]
  /\ UNCHANGED <<xp, xq, xs, xd, xio, xgh>>

--------------------------------------------------------------------------------
\* The worker's loop: xhci_deferred_worker_entry.

LoopStart ==
  /\ xw.pc = "events"
  /\ xq' = [xq EXCEPT !.work = FALSE]
  /\ xw' = [xw EXCEPT !.pc = "drain"]
  /\ UNCHANGED <<xp, xs, xd, xio, xgh>>

\* xhci_take_port_change: the lowest pending port.
TakePort ==
  LET p == CHOOSE q \in xq.ports : \A r \in xq.ports : q <= r IN
  /\ xw.pc = "ports" /\ xq.ports # {}
  /\ xq' = [xq EXCEPT !.ports = @ \ {p}]
  /\ xw' = [xw EXCEPT !.pc = "port", !.port = p, !.tried = FALSE]
  /\ UNCHANGED <<xp, xs, xd, xio, xgh>>

\* Nothing is pending when interrupts are disabled for the last check.
Idle == ~xq.work /\ xq.ports = {}

CheckAndBlock ==
  /\ xw.pc = "ports" /\ xq.ports = {}
  /\ xw' = [xw EXCEPT !.pc = IF Idle THEN "blocked" ELSE "events"]
  /\ UNCHANGED <<xp, xq, xs, xd, xio, xgh>>

--------------------------------------------------------------------------------
\* xhci_process_deferred_port_change.

PortIs(p, st) == xp' = [xp EXCEPT ![p].st = st]
Done == xw' = [xw EXCEPT !.pc = "ports", !.port = 0, !.slot = 0, !.plug = 0]

\* The old instance is torn down first, whether the socket is empty or has been
\* refilled; a teardown that cannot finish ends the handling of the change.
DetachOld(disableOk) ==
  LET p == xw.port IN
  /\ xw.pc = "port" /\ SlotsOf(p) # {}
  /\ Cleanup(SlotFor(p), disableOk)
  /\ xs' = Released(SlotFor(p), disableOk, TRUE)
  /\ xgh' = Published(SlotFor(p), disableOk, TRUE)
  /\ IF xp[p].plug = 0 \/ ~Cleaned(SlotFor(p), disableOk)
     THEN Done /\ (IF xp[p].plug = 0 THEN PortIs(p, "disconnected") ELSE UNCHANGED xp)
     ELSE xw' = [xw EXCEPT !.pc = "fresh"] /\ UNCHANGED xp
  /\ UNCHANGED <<xq, xio>>

\* A mutant: a port that is connected again keeps its old instance.
NothingOld ==
  /\ xw.pc = "port" /\ xp[xw.port].plug # 0
  /\ xw' = [xw EXCEPT !.pc = "fresh"]
  /\ UNCHANGED <<xp, xq, xs, xd, xio, xgh>>

NothingToDetach ==
  /\ xw.pc = "port" /\ SlotsOf(xw.port) = {}
  /\ xw' = [xw EXCEPT !.pc = "fresh"]
  /\ UNCHANGED <<xp, xq, xs, xd, xio, xgh>>

\* xhci_reset_port leaves no change bit of the port set.
PortWasReset(p, st) == xp' = [xp EXCEPT ![p].st = st, ![p].csc = FALSE]

\* PORTSC is read again; a connected port is reset and enumerated.
ResetPort(ok) ==
  LET p == xw.port IN
  /\ xw.pc = "fresh"
  /\ ~ok => xgh.faults < MaxXhciFaults
  /\ IF xp[p].plug = 0 THEN PortIs(p, "disconnected") /\ Done /\ UNCHANGED xgh
     ELSE IF ~ok THEN /\ PortWasReset(p, "failed") /\ Done
                      /\ xgh' = [xgh EXCEPT !.faults = @ + 1]
     ELSE /\ PortWasReset(p, "setup") /\ xw' = [xw EXCEPT !.pc = "enable", !.plug = xp[p].plug] /\ UNCHANGED xgh
  /\ UNCHANGED <<xq, xs, xd, xio>>

\* Enable Slot: the controller picks a free slot; the driver fills the device
\* object with a new instance generation.  Only the device the reset addressed
\* can answer the rest of the setup.
EnableSlot(s) ==
  LET p == xw.port IN
  /\ xw.pc = "enable" /\ ~xs[s].used
  /\ xs' = [xs EXCEPT ![s] = [NoSlot EXCEPT !.used = TRUE, !.port = p, !.plug = xw.plug,
                                            !.gen = NextGen, !.disk = xp[p].disk]]
  /\ xw' = [xw EXCEPT !.pc = "class", !.slot = s]
  /\ UNCHANGED <<xp, xq, xd, xio, xgh>>

\* No slot is left: the command fails and there is nothing to clean up.
EnableFails ==
  /\ xw.pc = "enable" /\ \A s \in XSlot : xs[s].used
  /\ xw' = [xw EXCEPT !.pc = "final", !.slot = 0]
  /\ UNCHANGED <<xp, xq, xs, xd, xio, xgh>>

\* xhci_storage_init_device takes the first entry that is not active, whatever
\* else it says, clears it, and registers the block device.
FirstInactive == CHOOSE d \in Disk : ~xd[d].active /\ \A e \in Disk : ~xd[e].active => d <= e

Counted == Cardinality({d \in Disk : xd[d].reg})

\* The device answers only while it is the one in the socket.
Answers(s) == xp[xs[s].port].plug = xs[s].plug /\ xs[s].plug # 0

\* The rest of setup succeeds; xhci_device_setup_finish marks the device ready.
ClassOk ==
  LET s == xw.slot IN
  /\ xw.pc = "class" /\ Answers(s)
  /\ xs[s].disk => Counted < DiskEntries /\ \E d \in Disk : ~xd[d].active
  /\ IF xs[s].disk
     THEN /\ xd' = [xd EXCEPT ![FirstInactive] = [NoDisk EXCEPT !.active = TRUE, !.gen = xs[s].gen, !.reg = TRUE]]
          /\ xgh' = [xgh EXCEPT !.reused = @ \/ xd[FirstInactive].tearing]
     ELSE UNCHANGED <<xd, xgh>>
  /\ xs' = [xs EXCEPT ![s].ready = TRUE]
  /\ xw' = [xw EXCEPT !.pc = "final"]
  /\ UNCHANGED <<xp, xq, xio>>

\* Any step fails: the device object is cleaned up, without an event, and one
\* retry is made when that worked and the port is still connected.
ClassFails(disableOk) ==
  LET s == xw.slot IN
  /\ xw.pc = "class"
  /\ Answers(s) => xgh.faults < MaxXhciFaults
  /\ Cleanup(s, disableOk)
  /\ xs' = Released(s, disableOk, FALSE)
  /\ xgh' = [Published(s, disableOk, FALSE) EXCEPT !.faults = IF Answers(s) THEN @ + 1 ELSE @]
  /\ IF Cleaned(s, disableOk) /\ ~xw.tried /\ xp[xw.port].plug # 0
     THEN /\ xw' = [xw EXCEPT !.pc = "fresh", !.slot = 0, !.tried = TRUE]
          /\ PortIs(xw.port, "observed")
     ELSE /\ xw' = [xw EXCEPT !.pc = "final", !.slot = 0]
          /\ UNCHANGED xp
  /\ UNCHANGED <<xq, xio>>

\* A mutant: a device that has gone is detached with an event.
PublishTold(disableOk) ==
  LET p == xw.port  s == xw.slot IN
  /\ xw.pc = "final"
  /\ IF s # 0 /\ xp[p].plug = 0
     THEN /\ Cleanup(s, disableOk) /\ xs' = Released(s, disableOk, TRUE)
          /\ xgh' = Published(s, disableOk, TRUE)
          /\ PortIs(p, "disconnected")
     ELSE /\ disableOk /\ UNCHANGED <<xd, xgh>>
          /\ PortIs(p, IF s # 0 THEN "ready" ELSE IF xp[p].plug = 0 THEN "disconnected" ELSE "failed")
          /\ xs' = IF s # 0 THEN [xs EXCEPT ![s].added = TRUE] ELSE xs
  /\ Done /\ UNCHANGED <<xq, xio>>

\* The last look at PORTSC: a device that has gone is abandoned, never published.
Publish(disableOk) ==
  LET p == xw.port  s == xw.slot IN
  /\ xw.pc = "final"
  /\ IF s # 0 /\ xp[p].plug = 0
     THEN /\ Cleanup(s, disableOk) /\ xs' = Released(s, disableOk, FALSE)
          /\ xgh' = Published(s, disableOk, FALSE)
          /\ PortIs(p, "disconnected")
     ELSE /\ disableOk /\ UNCHANGED <<xd, xgh>>
          /\ PortIs(p, IF s # 0 THEN "ready" ELSE IF xp[p].plug = 0 THEN "disconnected" ELSE "failed")
          /\ xs' = IF s # 0 THEN [xs EXCEPT ![s].added = TRUE] ELSE xs
  /\ Done /\ UNCHANGED <<xq, xio>>

--------------------------------------------------------------------------------
\* Block I/O by another thread, through the one block I/O gate.

IoStart(d) ==
  /\ xio.gate = "free" /\ xd[d].active /\ xd[d].reg
  /\ xio' = [gate |-> "disk", disk |-> d, gen |-> xd[d].gen]
  /\ UNCHANGED <<xp, xq, xs, xd, xw, xgh>>

\* The end of storage_read/_write/_flush: storage_teardown_wakeup.
IoReturn ==
  LET wake == xd[xio.disk].tearing /\ ~xd[xio.disk].active IN
  /\ xio.gate = "disk"
  /\ xio' = [xio EXCEPT !.gate = "leaving", !.disk = 0, !.gen = 0]
  /\ xq' = [xq EXCEPT !.work = @ \/ wake]
  /\ xw' = IF wake /\ xw.pc = "blocked" THEN [xw EXCEPT !.pc = "events"] ELSE xw
  /\ UNCHANGED <<xp, xs, xd, xgh>>

\* block.c releases the gate after the driver has returned.
IoRelease ==
  /\ xio.gate = "leaving"
  /\ xio' = [xio EXCEPT !.gate = "free"]
  /\ UNCHANGED <<xp, xq, xs, xd, xw, xgh>>

XhciNext ==
  \/ \E p \in XPort : (\E disk \in BOOLEAN : Plug(p, disk)) \/ Unplug(p)
  \/ Interrupt \/ LoopStart \/ Drain \/ BeginTeardowns \/ EndTeardowns \/ TakePort \/ CheckAndBlock
  \/ \E ok \in BOOLEAN : \/ DetachOld(ok) \/ ResetPort(ok) \/ ClassFails(ok) \/ Publish(ok)
                         \/ \E s \in XSlot : TeardownOne(s, ok)
  \/ NothingToDetach \/ EnableFails \/ ClassOk \/ (\E s \in XSlot : EnableSlot(s))
  \/ (\E d \in Disk : IoStart(d)) \/ IoReturn \/ IoRelease

XhciSpec == XhciInit /\ [][XhciNext]_xhciVars

--------------------------------------------------------------------------------
\* Properties.

\* No lost wakeup between the interrupt handler and the worker: a sleeping
\* worker leaves no queued port, no recorded work, and no event in the ring
\* whose interrupt is not still on its way.
WorkerNotLost ==
  xw.pc = "blocked" => xq.ports = {} /\ ~xq.work /\ (xq.ev # <<>> => xq.irq)

Settled == xw.pc = "blocked" /\ ~xq.irq /\ xq.ev = <<>>

\* Once hotplug has settled, a device the driver calls ready is the device in
\* its socket, whatever sequence of pulls and replacements led there, also
\* during its setup (xhci_handle_port_status_change drops changes then).
ReadyIsPresent == Settled => \A s \in XSlot : xs[s].ready => Answers(s)

\* Two instances never live on one root port.
OneLivePerPort ==
  \A s, t \in XSlot : s # t /\ xs[s].used /\ xs[t].used /\ ~xs[s].tear /\ ~xs[t].tear
                        => xs[s].port # xs[t].port

\* Removal is announced only for an instance that was announced as added, and a
\* ready instance is announced once hotplug has settled.  An instance that was
\* given up silently, but whose cleanup could not finish, is excepted: a later
\* detach announces it regardless.
EventsPaired ==
  ~xgh.stray /\ (Settled => \A s \in XSlot : xs[s].ready => xs[s].added)

\* The slot, rings and contexts of a disk stay until the I/O on it has unwound.
IoKeepsSlot ==
  xio.gate = "disk" /\ ~xgh.reused => \E s \in XSlot : xs[s].used /\ xs[s].gen = xio.gen
=============================================================================
