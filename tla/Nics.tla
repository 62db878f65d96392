-------------------------------- MODULE Nics --------------------------------
(***************************************************************************)
(* The e1000 driver (net/e1000.c): descriptor rings shared with the        *)
(* controller, the interrupt handler, transmission, and the worker of      *)
(* net/lifecycle.c that probes, detaches and polls controllers.  One       *)
(* context pointer, current_controller, serves all of them.                *)
(*                                                                         *)
(* One CPU: a transmission and the handler run with interrupts off; the    *)
(* worker may be preempted anywhere.  The controllers run all the time.    *)
(***************************************************************************)
EXTENDS Integers, FiniteSets

CONSTANTS Nic,          \* PCI functions the driver supports
          NoNic,
          RxRing, TxRing,  \* E1000_RX_RING_COUNT, E1000_TX_RING_COUNT
          MaxFrames,    \* frames received, and sent, per controller
          MaxNicEvents  \* insertions and failed probes

VARIABLES dev,   \* per function: what the driver and the registry know
          tx, rx, \* the rings and the registers of the controller
          icr,   \* interrupt causes latched
          ctx,   \* current_controller
          work,  \* the worker
          irq,   \* the handler
          egh    \* history

e1000Vars == <<dev, tx, rx, icr, ctx, work, irq, egh>>

\* The driver's record of a function, the receive and the transmit ring after reset.
NoDev == [valid |-> FALSE, active |-> FALSE, reg |-> FALSE, mem |-> FALSE, up |-> FALSE]
NoRx == [on |-> FALSE, d |-> [i \in 0..(RxRing - 1) |-> 0], next |-> 0, rdh |-> 0, rdt |-> 0]
NoTx == [on |-> FALSE, d |-> [i \in 0..(TxRing - 1) |-> 0], done |-> 0..(TxRing - 1),
         prod |-> 0, cons |-> 0, tdh |-> 0, tdt |-> 0]

E1000Init ==
  /\ dev = [c \in Nic |-> NoDev]
  /\ tx = [c \in Nic |-> NoTx] /\ rx = [c \in Nic |-> NoRx]
  /\ icr = [c \in Nic |-> {}]
  /\ ctx = NoNic
  /\ work = [at |-> "idle", c |-> NoNic]
  /\ irq = [at |-> "idle", c |-> NoNic, causes |-> {}, last |-> RxRing]
  /\ egh = [present |-> {}, link |-> {}, events |-> 0,
            arrived |-> [c \in Nic |-> 0], taken |-> [c \in Nic |-> 0],
            queued |-> [c \in Nic |-> 0], sent |-> [c \in Nic |-> 0],
            early |-> [c \in Nic |-> 0], full |-> FALSE, misordered |-> FALSE]

Probing == work.at \in {"probe", "rings", "register"}
Interrupted == irq.at # "idle"

(***************************************************************************)
(* The controllers.                                                        *)
(***************************************************************************)

Insert(c) ==
  /\ c \notin egh.present /\ egh.events < MaxNicEvents /\ ~dev[c].valid
  /\ egh' = [egh EXCEPT !.present = @ \cup {c}, !.events = @ + 1]
  /\ rx' = [rx EXCEPT ![c] = NoRx] /\ tx' = [tx EXCEPT ![c] = NoTx]
  /\ icr' = [icr EXCEPT ![c] = {}]
  /\ UNCHANGED <<dev, ctx, work, irq>>

Remove(c) ==
  /\ c \in egh.present
  /\ egh' = [egh EXCEPT !.present = @ \ {c}, !.link = @ \ {c}]
  /\ icr' = [icr EXCEPT ![c] = {}]
  /\ UNCHANGED <<dev, tx, rx, ctx, work, irq>>

CableMoves(c) ==
  /\ c \in egh.present
  /\ egh' = [egh EXCEPT !.link = IF c \in @ THEN @ \ {c} ELSE @ \cup {c}]
  /\ icr' = [icr EXCEPT ![c] = @ \cup {"link"}]
  /\ UNCHANGED <<dev, tx, rx, ctx, work, irq>>

\* A frame is stored in the descriptor at RDH, if the ring is not exhausted.
FrameArrives(c) ==
  /\ c \in egh.present /\ rx[c].on /\ rx[c].rdh # rx[c].rdt /\ egh.arrived[c] < MaxFrames
  /\ egh' = [egh EXCEPT !.arrived[c] = @ + 1]
  /\ rx' = [rx EXCEPT ![c].d[rx[c].rdh] = egh.arrived[c] + 1,
                      ![c].rdh = (@ + 1) % RxRing]
  /\ icr' = [icr EXCEPT ![c] = @ \cup {"rx"}]
  /\ UNCHANGED <<dev, tx, ctx, work, irq>>

\* The descriptor at TDH is sent; TDH = TDT means there is nothing to send.
FrameLeaves(c) ==
  /\ c \in egh.present /\ tx[c].on /\ tx[c].tdh # tx[c].tdt
  /\ LET i == tx[c].tdh
     IN  /\ tx' = [tx EXCEPT ![c].tdh = (i + 1) % TxRing, ![c].done = @ \cup {i}]
         /\ egh' = [egh EXCEPT !.sent[c] = tx[c].d[i],
                               !.misordered = @ \/ tx[c].d[i] # egh.sent[c] + 1]
  /\ icr' = [icr EXCEPT ![c] = @ \cup {"tx"}]
  /\ UNCHANGED <<dev, rx, ctx, work, irq>>

(***************************************************************************)
(* Transmission and the interrupt handler.                                 *)
(***************************************************************************)

\* e1000_reclaim_tx()
Reclaimed(t) ==
  LET k == CHOOSE n \in 0..(TxRing - 1) :
             /\ \A j \in 0..(n - 1) : /\ (t.cons + j) % TxRing # t.prod
                                      /\ (t.cons + j) % TxRing \in t.done
             /\ \/ (t.cons + n) % TxRing = t.prod
                \/ (t.cons + n) % TxRing \notin t.done
  IN  [t EXCEPT !.cons = (@ + k) % TxRing]

\* A mutant: the descriptor is reused although the controller still owns it.
FreeAnyway(t) == TRUE

Free(t) == t.prod \in t.done

\* A mutant: the tail register names the frame just written.
QueueShort(t, frame) ==
  [t EXCEPT !.d[t.prod] = frame, !.done = @ \ {t.prod}, !.prod = (@ + 1) % TxRing,
            !.tdt = t.prod]

Queue(t, frame) ==
  [t EXCEPT !.d[t.prod] = frame, !.done = @ \ {t.prod}, !.prod = (@ + 1) % TxRing,
            !.tdt = (t.prod + 1) % TxRing]

\* e1000_transmit(), also called for an answer while a frame is being received.
Transmit(c) ==
  /\ ~Interrupted \/ (irq.at = "receive" /\ irq.c = c)
  /\ dev[c].active /\ dev[c].reg /\ dev[c].up
  /\ egh.queued[c] < MaxFrames
  /\ LET t == Reclaimed(tx[c])
     IN  IF ~Free(t) THEN tx' = [tx EXCEPT ![c] = t] /\ UNCHANGED egh
         ELSE /\ tx' = [tx EXCEPT ![c] = Queue(t, egh.queued[c] + 1)]
              /\ egh' = [egh EXCEPT !.queued[c] = @ + 1,
                           !.full = @ \/ (t.prod + 1) % TxRing = t.tdh]
  /\ ctx' = c
  /\ UNCHANGED <<dev, rx, icr, work, irq>>

\* e1000_irq_handler() and e1000_service_irq(): the causes are read and cleared.
ServiceIrq(c) ==
  /\ ~Interrupted /\ ~Probing /\ dev[c].active /\ icr[c] # {}
  /\ c \in egh.present
  /\ ctx' = c
  /\ irq' = [at |-> IF "rx" \in icr[c] THEN "receive" ELSE "reclaim", c |-> c,
             causes |-> icr[c], last |-> RxRing]
  /\ icr' = [icr EXCEPT ![c] = {}]
  /\ dev' = [dev EXCEPT ![c].up = IF "link" \in icr[c] /\ dev[c].reg THEN c \in egh.link ELSE @]
  /\ UNCHANGED <<tx, rx, work, egh>>

\* One descriptor of e1000_receive(): the frame goes up, the descriptor is cleared.
ReceiveOne ==
  LET c == irq.c
      r == rx[c]
  IN  /\ irq.at = "receive" /\ r.d[r.next] # 0
      /\ egh' = [egh EXCEPT !.taken[c] = r.d[r.next],
                            !.misordered = @ \/ r.d[r.next] # egh.taken[c] + 1]
      /\ rx' = [rx EXCEPT ![c].d[r.next] = 0, ![c].next = (@ + 1) % RxRing]
      /\ irq' = [irq EXCEPT !.last = r.next]
      /\ UNCHANGED <<dev, tx, icr, ctx, work>>

\* A mutant: the tail is moved to the next descriptor to be read.
TailNext(r, last) == r.next

Tail(r, last) == last

\* The tail register is moved to the last descriptor given back.
ReceiveEnd ==
  LET c == irq.c
  IN  /\ irq.at = "receive" /\ rx[c].d[rx[c].next] = 0
      /\ irq.last # RxRing => rx' = [rx EXCEPT ![c].rdt = Tail(rx[c], irq.last)]
      /\ irq.last = RxRing => UNCHANGED rx
      /\ irq' = [irq EXCEPT !.at = "reclaim"]
      /\ UNCHANGED <<dev, tx, icr, ctx, work, egh>>

\* A mutant: the causes are cleared after they were served.
IrqEndClears ==
  /\ irq.at = "reclaim"
  /\ tx' = IF "tx" \in irq.causes THEN [tx EXCEPT ![irq.c] = Reclaimed(@)] ELSE tx
  /\ irq' = [irq EXCEPT !.at = "idle", !.c = NoNic, !.causes = {}]
  /\ icr' = [icr EXCEPT ![irq.c] = {}]
  /\ UNCHANGED <<dev, rx, ctx, work, egh>>

\* The end of e1000_service_irq().
IrqEnd ==
  /\ irq.at = "reclaim"
  /\ tx' = IF "tx" \in irq.causes THEN [tx EXCEPT ![irq.c] = Reclaimed(@)] ELSE tx
  /\ irq' = [irq EXCEPT !.at = "idle", !.c = NoNic, !.causes = {}]
  /\ UNCHANGED <<dev, rx, icr, ctx, work, egh>>

(***************************************************************************)
(* The worker: e1000_rescan().                                             *)
(***************************************************************************)

\* e1000_detach() of a controller whose PCI function is gone.
Detach(c) ==
  /\ work.at = "idle" /\ ~Interrupted /\ dev[c].valid /\ c \notin egh.present
  /\ dev' = [dev EXCEPT ![c] = NoDev]
  /\ ctx' = NoNic
  /\ UNCHANGED <<tx, rx, icr, work, irq, egh>>

\* e1000_probe_device() up to the reset of the controller.
ProbeBegin(c) ==
  /\ work.at = "idle" /\ ~Interrupted /\ c \in egh.present /\ ~dev[c].valid
  /\ dev' = [dev EXCEPT ![c] = [NoDev EXCEPT !.valid = TRUE]]
  /\ ctx' = c
  /\ work' = [at |-> "probe", c |-> c]
  /\ UNCHANGED <<tx, rx, icr, irq, egh>>

\* e1000_reset(), e1000_setup_rx() and e1000_setup_tx(), through the context.
ProbeRings ==
  /\ work.at = "probe" /\ ~Interrupted /\ ctx = work.c
  /\ dev' = [dev EXCEPT ![ctx].mem = TRUE]
  /\ rx' = [rx EXCEPT ![ctx] = [NoRx EXCEPT !.on = TRUE, !.rdt = RxRing - 1]]
  /\ tx' = [tx EXCEPT ![ctx] = [NoTx EXCEPT !.on = TRUE]]
  /\ icr' = [icr EXCEPT ![ctx] = {}]
  /\ work' = [work EXCEPT !.at = "register"]
  /\ egh' = [egh EXCEPT !.arrived[ctx] = 0, !.taken[ctx] = 0, !.queued[ctx] = 0, !.sent[ctx] = 0]
  /\ UNCHANGED <<ctx, irq>>

\* Registration, interrupt enable and the boot frame.  Reading ICR drops the
\* causes latched since the receiver was enabled.
ProbeEnd ==
  /\ work.at = "register" /\ ~Interrupted /\ ctx = work.c
  /\ LET up == ctx \in egh.link
     IN  /\ dev' = [dev EXCEPT ![ctx].reg = TRUE, ![ctx].active = TRUE, ![ctx].up = up]
         /\ tx' = IF up THEN [tx EXCEPT ![ctx] = Queue(@, 1)] ELSE tx
         /\ egh' = [egh EXCEPT !.early[ctx] = egh.arrived[ctx],
                               !.queued[ctx] = IF up THEN 1 ELSE 0]
  /\ icr' = [icr EXCEPT ![ctx] = {}]
  /\ work' = [at |-> "idle", c |-> NoNic]
  /\ ctx' = NoNic
  /\ UNCHANGED <<rx, irq>>

\* A step fails: the memory is given back, the receiver is not stopped.
ProbeFails ==
  /\ Probing /\ ~Interrupted /\ ctx = work.c /\ egh.events < MaxNicEvents
  /\ dev' = [dev EXCEPT ![work.c] = NoDev]
  /\ work' = [at |-> "idle", c |-> NoNic]
  /\ ctx' = NoNic
  /\ egh' = [egh EXCEPT !.events = @ + 1]
  /\ UNCHANGED <<tx, rx, icr, irq>>

\* e1000_poll_links()
PollLinks ==
  /\ work.at = "idle" /\ ~Interrupted
  /\ dev' = [c \in Nic |-> IF dev[c].active /\ dev[c].reg
                           THEN [dev[c] EXCEPT !.up = c \in egh.link] ELSE dev[c]]
  /\ ctx' = NoNic
  /\ UNCHANGED <<tx, rx, icr, work, irq, egh>>

E1000Next ==
  \/ \E c \in Nic : \/ Insert(c) \/ Remove(c) \/ CableMoves(c) \/ FrameArrives(c)
                    \/ FrameLeaves(c) \/ Transmit(c) \/ ServiceIrq(c) \/ Detach(c) \/ ProbeBegin(c)
  \/ ReceiveOne \/ ReceiveEnd \/ IrqEnd \/ ProbeRings \/ ProbeEnd \/ ProbeFails \/ PollLinks

E1000Spec == E1000Init /\ [][E1000Next]_e1000Vars

(***************************************************************************)
(* Properties                                                              *)
(***************************************************************************)

\* Frames go up, and leave, in order, once each: no descriptor is read before
\* the controller filled it or reused before the controller is done with it.
FramesInOrder == ~egh.misordered

\* A received frame is never left in the ring without an interrupt to come, but
\* for frames older than the interrupt enable; the first frame after it takes
\* those along.
FramesNotForgotten ==
  \A c \in Nic : /\ dev[c].active /\ c \in egh.present /\ irq.c # c
                 /\ rx[c].d[rx[c].next] # 0 /\ egh.arrived[c] > egh.early[c]
                 => "rx" \in icr[c]

\* The driver never leaves the controller without a descriptor to fill once it
\* has emptied the ring.
RingRefilled ==
  \A c \in Nic : /\ dev[c].active /\ c \in egh.present /\ irq.c # c
                 /\ \A i \in 0..(RxRing - 1) : rx[c].d[i] = 0
                 => rx[c].rdh # rx[c].rdt

\* A frame that was queued can be sent, unless all descriptors were queued at
\* once, which the controller cannot tell from an empty ring.
QueuedIsVisible ==
  \A c \in Nic : /\ dev[c].active /\ c \in egh.present /\ ~egh.full
                 /\ tx[c].done # 0..(TxRing - 1)
                 => tx[c].tdh # tx[c].tdt

-----------------------------------------------------------------------------
(***************************************************************************)
(* The RTL8168h driver (net/rtl8168.c): its start-up state machine with    *)
(* the failures of each phase, the descriptor rings owned in turn by the   *)
(* driver and the controller, the interrupt handler with its passes, and   *)
(* the 500 ms rescan that attaches, detaches and polls the link.           *)
(*                                                                         *)
(* One CPU: the handler and a transmission run with interrupts off, the    *)
(* rescan may be interrupted between any two of its steps.                 *)
(***************************************************************************)
CONSTANTS RxCount, TxCount,  \* RTL8168_RX_RING_COUNT, RTL8168_TX_RING_COUNT
          Passes,            \* RTL8168_IRQ_SERVICE_PASSES
          MaxRtlFrames,      \* frames received and sent
          MaxMoves,          \* cable changes, removals and insertions
          MaxStarts,         \* attempts to start the controller
          MaxRtlFaults       \* phases that fail, resets that time out, fatal errors

VARIABLES rc,    \* rtl8168_controller_t
          rhw,   \* the PCI function and the controller
          rirq,  \* the interrupt handler
          rpoll, \* the rescan's link poll: "idle" or the link it read
          rmem,  \* the descriptors: frames received, frames to send, TX ownership
          held,  \* ring memory that is allocated
          rgh    \* history

rtlVars == <<rc, rhw, rmem, rirq, rpoll, held, rgh>>

Uninit == [st |-> "uninitialized", rings |-> 0, started |-> FALSE, active |-> FALSE,
           faulted |-> FALSE, link |-> FALSE, up |-> FALSE, irq |-> FALSE,
           rxnext |-> 0, prod |-> 0, cons |-> 0, used |-> 0]
PowerOn == [present |-> TRUE, known |-> FALSE, cable |-> FALSE, bus |-> FALSE, dma |-> FALSE,
            rings |-> 0, isr |-> {}, imr |-> FALSE, poll |-> FALSE, rxpos |-> 0, txpos |-> 0]
NoMem == [rx |-> [i \in 0..(RxCount - 1) |-> 0], tx |-> [i \in 0..(TxCount - 1) |-> 0], own |-> {}]

RtlInit ==
  /\ rc = Uninit
  /\ rhw = PowerOn /\ rmem = NoMem
  /\ rirq = [at |-> "idle", pass |-> 0, status |-> {}, taken |-> 0]
  /\ rpoll = "idle" /\ held = {}
  /\ rgh = [moves |-> 0, starts |-> 0, faults |-> 0, arrived |-> 0, early |-> 0, received |-> 0,
            queued |-> 0, sent |-> 0, misordered |-> FALSE, raced |-> FALSE]

RtlQuiet == rirq.at = "idle"
RtlFault == rgh.faults < MaxRtlFaults
Starting == rc.st \in {"probing", "resetting", "rings", "running", "enabled"}
DmaRuns == rhw.present /\ rhw.bus /\ rhw.dma

(***************************************************************************)
(* The controller.  An error is reported once by the system error cause.   *)
(***************************************************************************)

\* A function that was inserted answers after the next scan of the bus.
RtlReplug ==
  /\ rhw.present \/ ~Starting
  /\ rgh.moves < MaxMoves
  /\ rgh' = [rgh EXCEPT !.moves = @ + 1]
  /\ rhw' = [PowerOn EXCEPT !.present = ~rhw.present]
  /\ UNCHANGED <<rc, rmem, rirq, rpoll, held>>

RtlCable ==
  /\ rhw.present /\ rgh.moves < MaxMoves
  /\ rgh' = [rgh EXCEPT !.moves = @ + 1]
  /\ rhw' = [rhw EXCEPT !.cable = ~@, !.isr = @ \cup {"link"}]
  /\ UNCHANGED <<rmem, rc, rirq, rpoll, held>>

RtlArrives ==
  /\ DmaRuns /\ rmem.rx[rhw.rxpos] = 0 /\ rgh.arrived + rgh.arrived + rgh.queued < MaxRtlFrames
  /\ rmem' = [rmem EXCEPT !.rx[rhw.rxpos] = rgh.arrived + 1]
  /\ rhw' = [rhw EXCEPT !.rxpos = (@ + 1) % RxCount, !.isr = @ \cup {"rx"}]
  /\ rgh' = [rgh EXCEPT !.arrived = @ + 1]
  /\ UNCHANGED <<rc, rirq, rpoll, held>>

\* The poll request is served until a descriptor the driver owns is met.
RtlSends ==
  /\ DmaRuns /\ rhw.poll
  /\ IF rhw.txpos \in rmem.own
     THEN /\ rmem' = [rmem EXCEPT !.own = @ \ {rhw.txpos}]
          /\ rhw' = [rhw EXCEPT !.txpos = (@ + 1) % TxCount, !.isr = @ \cup {"tx"}]
          /\ rgh' = [rgh EXCEPT !.sent = rmem.tx[rhw.txpos],
                                !.misordered = @ \/ rmem.tx[rhw.txpos] # rgh.sent + 1]
     ELSE rhw' = [rhw EXCEPT !.poll = FALSE] /\ UNCHANGED <<rmem, rgh>>
  /\ UNCHANGED <<rc, rirq, rpoll, held>>

RtlBreaks ==
  /\ DmaRuns /\ RtlFault /\ rc.active
  /\ rhw' = [rhw EXCEPT !.isr = @ \cup {"error"}]
  /\ rgh' = [rgh EXCEPT !.faults = @ + 1]
  /\ UNCHANGED <<rmem, rc, rirq, rpoll, held>>

(***************************************************************************)
(* Transmission and the interrupt handler.                                 *)
(***************************************************************************)

\* rtl8168_reclaim_tx()
ReclaimTx(c) ==
  LET n == CHOOSE k \in 0..c.used :
             /\ \A j \in 0..(k - 1) : (c.cons + j) % TxCount \notin rmem.own
             /\ k = c.used \/ (c.cons + k) % TxCount \in rmem.own
  IN  [c EXCEPT !.cons = (@ + n) % TxCount, !.used = @ - n]

\* A mutant: a full ring is not noticed.
RoomAlways(c) == TRUE

Room(c) == c.used # TxCount /\ c.prod \notin rmem.own

\* rtl8168_transmit()
RtlTransmit ==
  /\ RtlQuiet \/ rirq.at = "receive"
  /\ rc.active /\ ~rc.faulted /\ rc.link /\ rc.up /\ rgh.arrived + rgh.queued < MaxRtlFrames
  /\ LET c == ReclaimTx(rc)
     IN  IF ~Room(c) THEN rc' = c /\ UNCHANGED <<rhw, rmem, rgh>>
         ELSE /\ rc' = [c EXCEPT !.prod = (@ + 1) % TxCount, !.used = @ + 1]
              /\ rmem' = [rmem EXCEPT !.tx[c.prod] = rgh.queued + 1, !.own = @ \cup {c.prod}]
              /\ rhw' = [rhw EXCEPT !.poll = rhw.present]
              /\ rgh' = [rgh EXCEPT !.queued = @ + 1]
  /\ UNCHANGED <<rirq, rpoll, held>>

\* The interrupt is taken and masked.
RtlInterrupt ==
  /\ RtlQuiet /\ rc.irq /\ rhw.present /\ rhw.imr /\ rhw.isr # {}
  /\ rc.active /\ ~rc.faulted
  /\ rhw' = [rhw EXCEPT !.imr = FALSE]
  /\ rirq' = [rirq EXCEPT !.at = "read", !.pass = 0]
  /\ UNCHANGED <<rmem, rc, rpoll, held, rgh>>

RxReady == rmem.rx[rc.rxnext] # 0

\* One pass reads the causes and acknowledges them before it serves them; a
\* controller that is gone reads as all ones.
ReadCauses ==
  /\ rirq.at = "read"
  /\ rc' = [rc EXCEPT !.faulted = ~rhw.present]
  /\ rirq' = [rirq EXCEPT !.status = rhw.isr, !.taken = 0,
                !.at = IF ~rhw.present THEN "unmask"
                       ELSE IF "rx" \in rhw.isr \/ RxReady THEN "receive" ELSE "serve"]
  /\ rhw' = [rhw EXCEPT !.isr = {}]
  /\ UNCHANGED <<rmem, rpoll, held, rgh>>

\* rtl8168_receive(): one descriptor, given back with its ownership bit last.
RtlReceiveOne ==
  /\ rirq.at = "receive" /\ RxReady /\ rirq.taken < RxCount
  /\ rgh' = [rgh EXCEPT !.received = rmem.rx[rc.rxnext],
                        !.misordered = @ \/ rmem.rx[rc.rxnext] # rgh.received + 1]
  /\ rmem' = [rmem EXCEPT !.rx[rc.rxnext] = 0]
  /\ rc' = [rc EXCEPT !.rxnext = (@ + 1) % RxCount]
  /\ rirq' = [rirq EXCEPT !.taken = @ + 1]
  /\ UNCHANGED <<rhw, rpoll, held>>

RtlReceiveEnd ==
  /\ rirq.at = "receive" /\ (~RxReady \/ rirq.taken = RxCount)
  /\ rirq' = [rirq EXCEPT !.at = "serve"]
  /\ UNCHANGED <<rmem, rc, rhw, rpoll, held, rgh>>

\* A mutant: a link change is looked at when nothing was sent.
LinkNewsElse(status) == "link" \in status /\ "tx" \notin status

LinkNews(status) == "link" \in status

\* A mutant: the causes are acknowledged after they were served.
ServeCausesAcks ==
  /\ rirq.at = "serve"
  /\ rc' = [(IF "tx" \in rirq.status THEN ReclaimTx(rc) ELSE rc)
              EXCEPT !.link = IF LinkNews(rirq.status) THEN rhw.cable ELSE @,
                     !.up = IF LinkNews(rirq.status) /\ rc.st = "ready" THEN rhw.cable ELSE @,
                     !.faulted = "error" \in rirq.status]
  /\ rirq' = [rirq EXCEPT !.pass = @ + 1,
                !.at = IF \/ "error" \in rirq.status \/ rirq.pass + 1 = Passes
                          \/ rirq.status = {} /\ ~RxReady
                       THEN "unmask" ELSE "read"]
  /\ rhw' = [rhw EXCEPT !.isr = @ \ rirq.status]
  /\ rgh' = [rgh EXCEPT !.raced = @ \/ ("link" \in rirq.status /\ (rpoll # "idle" \/ rc.st = "enabled"))]
  /\ UNCHANGED <<rmem, rpoll, held>>

\* The rest of a pass; what was read decides whether there is another.
ServeCauses ==
  /\ rirq.at = "serve"
  /\ rc' = [(IF "tx" \in rirq.status THEN ReclaimTx(rc) ELSE rc)
              EXCEPT !.link = IF LinkNews(rirq.status) THEN rhw.cable ELSE @,
                     !.up = IF LinkNews(rirq.status) /\ rc.st = "ready" THEN rhw.cable ELSE @,
                     !.faulted = "error" \in rirq.status]
  /\ rirq' = [rirq EXCEPT !.pass = @ + 1,
                !.at = IF \/ "error" \in rirq.status \/ rirq.pass + 1 = Passes
                          \/ rirq.status = {} /\ ~RxReady
                       THEN "unmask" ELSE "read"]
  /\ rgh' = [rgh EXCEPT !.raced = @ \/ ("link" \in rirq.status /\ (rpoll # "idle" \/ rc.st = "enabled"))]
  /\ UNCHANGED <<rmem, rhw, rpoll, held>>

Unmask ==
  /\ rirq.at = "unmask"
  /\ rhw' = [rhw EXCEPT !.imr = ~rc.faulted /\ rhw.present]
  /\ rirq' = [rirq EXCEPT !.at = "idle", !.status = {}]
  /\ UNCHANGED <<rmem, rc, rpoll, held, rgh>>

(***************************************************************************)
(* Start-up: rtl8168_init() called by the rescan.                          *)
(***************************************************************************)

\* PCI enable, MAC address and MSI-X; an absent function is not retried here.
RtlStart ==
  /\ RtlQuiet /\ rpoll = "idle" /\ rhw.present /\ rgh.starts < MaxStarts
  /\ rc.st \in {"uninitialized", "unavailable"}
  /\ rc' = [rc EXCEPT !.st = "probing"]
  /\ rhw' = [rhw EXCEPT !.bus = TRUE, !.imr = FALSE, !.known = TRUE]
  /\ rgh' = [rgh EXCEPT !.starts = @ + 1]
  /\ UNCHANGED <<rmem, rirq, rpoll, held>>

\* rtl8168_reset(): receiver gate closed, queues drained, DMA stopped.
RtlReset ==
  /\ RtlQuiet /\ rc.st = "probing" /\ rhw.present
  /\ rc' = [rc EXCEPT !.st = "resetting"]
  /\ rhw' = [rhw EXCEPT !.dma = FALSE, !.isr = {}, !.imr = FALSE, !.poll = FALSE]
  /\ UNCHANGED <<rmem, rirq, rpoll, held, rgh>>

\* rtl8168_allocate_rings()
RtlRings ==
  /\ RtlQuiet /\ rc.st = "resetting"
  /\ rc' = [rc EXCEPT !.st = "rings", !.rings = rgh.starts,
                      !.rxnext = 0, !.prod = 0, !.cons = 0, !.used = 0]
  /\ held' = held \cup {rgh.starts}
  /\ rmem' = NoMem
  /\ rgh' = [rgh EXCEPT !.arrived = 0, !.early = 0, !.received = 0, !.queued = 0, !.sent = 0,
                        !.raced = FALSE]
  /\ UNCHANGED <<rhw, rirq, rpoll>>

\* rtl8168_program_hardware(): the gate opens last.
RtlProgram ==
  /\ RtlQuiet /\ rc.st = "rings" /\ rhw.present
  /\ rc' = [rc EXCEPT !.st = "running", !.started = TRUE]
  /\ rhw' = [rhw EXCEPT !.dma = TRUE, !.rings = rc.rings, !.rxpos = 0, !.txpos = 0]
  /\ UNCHANGED <<rmem, rirq, rpoll, held, rgh>>

\* rtl8168_wait_for_link() and rtl8168_enable_interrupts()
RtlEnable ==
  /\ RtlQuiet /\ rc.st = "running" /\ rhw.present /\ rhw.cable
  /\ rc' = [rc EXCEPT !.st = "enabled", !.link = TRUE, !.up = FALSE, !.active = TRUE,
                      !.irq = TRUE]
  /\ rhw' = [rhw EXCEPT !.isr = {}, !.imr = TRUE]
  /\ rgh' = [rgh EXCEPT !.early = rgh.arrived]
  /\ UNCHANGED <<rmem, rirq, rpoll, held>>

\* net_register_device(): the device carries the link seen before the interrupts.
RtlReady ==
  /\ RtlQuiet /\ rc.st = "enabled"
  /\ rc' = [rc EXCEPT !.st = "ready", !.up = TRUE]
  /\ UNCHANGED <<rmem, rhw, rirq, rpoll, held, rgh>>

\* A mutant: the rings are released although the reset timed out.
CleanupReleases(stopped) == held \ {rc.rings}

CleanupFailed(stopped) == IF stopped THEN held \ {rc.rings} ELSE held

\* A phase fails: rtl8168_finish_failure().  The reset in rtl8168_stop_dma() may
\* time out; then the rings stay allocated.  A missing link is retried.
RtlFails ==
  /\ RtlQuiet /\ Starting
  /\ \E stopped \in BOOLEAN, retry \in BOOLEAN :
       LET faults == (IF retry \/ ~rhw.present THEN 0 ELSE 1)
                     + (IF stopped \/ ~rhw.present THEN 0 ELSE 1)
       IN  /\ retry => rc.st = "running" /\ ~rhw.cable
           /\ rc.st = "running" /\ ~rhw.present => retry
           /\ ~stopped => rc.started
           /\ stopped /\ rc.started => rhw.present
           /\ rgh.faults + faults <= MaxRtlFaults
           /\ rc' = [rc EXCEPT !.st = IF retry THEN "unavailable" ELSE "failed",
                               !.active = FALSE, !.irq = FALSE, !.started = @ /\ ~stopped,
                               !.rings = IF stopped THEN 0 ELSE @]
           /\ held' = CleanupFailed(stopped)
           /\ rhw' = [rhw EXCEPT !.imr = FALSE, !.bus = FALSE,
                                 !.dma = @ /\ ~(stopped /\ rc.started)]
           /\ rgh' = [rgh EXCEPT !.faults = @ + faults]
  /\ UNCHANGED <<rmem, rirq, rpoll>>

\* rtl8168_detach() of a function that is gone.
RtlDetach ==
  /\ RtlQuiet /\ rpoll = "idle" /\ rc.st = "ready" /\ ~rhw.known
  /\ rc' = Uninit /\ held' = held \ {rc.rings}
  /\ UNCHANGED <<rmem, rhw, rirq, rpoll, rgh>>

\* The rescan of a ready controller reads the link, and then stores it.
PollReads ==
  /\ RtlQuiet /\ rpoll = "idle" /\ rc.st = "ready" /\ rhw.known /\ rc.active
  /\ rpoll' = IF rhw.cable THEN "up" ELSE "down"
  /\ rgh' = [rgh EXCEPT !.raced = FALSE]
  /\ UNCHANGED <<rmem, rc, rhw, rirq, held>>

PollStores ==
  /\ RtlQuiet /\ rpoll # "idle"
  /\ rc' = [rc EXCEPT !.link = (rpoll = "up"), !.up = (rpoll = "up")]
  /\ rpoll' = "idle"
  /\ UNCHANGED <<rmem, rhw, rirq, held, rgh>>

RtlNext ==
  \/ RtlReplug \/ RtlCable \/ RtlArrives \/ RtlSends \/ RtlBreaks
  \/ RtlTransmit \/ RtlInterrupt \/ ReadCauses \/ RtlReceiveOne \/ RtlReceiveEnd
  \/ ServeCauses \/ Unmask
  \/ RtlStart \/ RtlReset \/ RtlRings \/ RtlProgram \/ RtlEnable \/ RtlReady \/ RtlFails
  \/ RtlDetach \/ PollReads \/ PollStores

RtlSpec == RtlInit /\ [][RtlNext]_rtlVars

(***************************************************************************)
(* Properties                                                              *)
(***************************************************************************)

\* Frames go up, and leave, in order, once each: rtl8168_receive() and
\* rtl8168_transmit() respect the ownership of the descriptors.
RtlInOrder == ~rgh.misordered

\* Outside the handler a received frame has its interrupt pending and unmasked,
\* if a frame arrived since the interrupts were enabled.
RtlNotForgotten ==
  /\ RtlQuiet /\ rc.active /\ ~rc.faulted /\ rhw.known
  /\ RxReady /\ rgh.arrived > rgh.early
  => "rx" \in rhw.isr /\ rhw.imr

\* The controller never reads or writes ring memory that was given back, and the
\* receiver runs only over complete rings.
DmaIntoRings == DmaRuns => rhw.rings \in held

\* With no cause pending and no poll on its way, the driver and the registry know
\* the link, unless its interrupt came between the two steps of the last poll or
\* between interrupt enable and registration; the next poll repairs that.
LinkKnown ==
  /\ RtlQuiet /\ rpoll = "idle" /\ rc.st = "ready" /\ rhw.known /\ ~rc.faulted
  /\ "link" \notin rhw.isr /\ ~rgh.raced
  => rc.up = rhw.cable /\ rc.link = rhw.cable
=============================================================================
