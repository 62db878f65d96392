--------------------------- MODULE UsbEnumeration ---------------------------
(***************************************************************************)
(* Resetting a USB port: a root port (xhci_reset_port of                   *)
(* kernel/src/usb/xhci_port.c, reading PORTSC) and a port of a hub         *)
(* (xhci_hub_reset_port of xhci_hub.c, reading the port by control         *)
(* transfers that may fail).  Both debounce the connection, assert reset,  *)
(* and poll for its completion.  The port and the device behind it are     *)
(* external and move between any two accesses; a change bit is cleared by  *)
(* writing it back.  Time is counted in polling intervals.                 *)
(***************************************************************************)
EXTENDS Integers, Sequences, FiniteSets

CONSTANTS Debounce,        \* XHCI_PORT_DEBOUNCE_MS, XHCI_HUB_PORT_DEBOUNCE_MS
          ResetTimeout,    \* the bound of either wait
          MaxConnects,     \* bound on how often a device is plugged in
          MaxHubFaults     \* bound on failing control transfers

VARIABLES pt, pm, pgh

(***************************************************************************)
(* pt:  the port: ccs (connected), csc and prc (change bits), pr (reset    *)
(*      asserted), en ("off", "half" = enabled but the link not in U0 or   *)
(*      the speed unknown, "on"), plug (which connection this is).         *)
(* pm:  the machine: hub, pc, el and st (time since the phase and since    *)
(*      the connection was last seen to change), s (the status last read,  *)
(*      with the connection it was read from), seen (completion_observed). *)
(* pgh: steady (time since the connection last changed), the value it had  *)
(*      when the status was last read, the connection reset was asserted   *)
(*      on, and the faults so far.                                         *)
(***************************************************************************)
portVars == <<pt, pm, pgh>>

Min2(a, b) == IF a < b THEN a ELSE b

PortInit ==
    /\ pt = [ccs |-> TRUE, csc |-> TRUE, prc |-> FALSE, pr |-> FALSE, en |-> "off", plug |-> 1]
    /\ pm \in [hub : BOOLEAN, pc : {"start"}, el : {0}, st : {0}, s : {pt}, seen : {FALSE}]
    /\ pgh = [steady |-> 0, sampled |-> 0, target |-> 0, faults |-> 0]

Move(pc) == pm' = [pm EXCEPT !.pc = pc]

(* A mutant: every change bit is written back, read or not. *)
ClearAllChanges(s) == [pt EXCEPT !.csc = FALSE, !.prc = FALSE]

(* Writing the change bits of status s back to the port. *)
ClearChanges(s) == [pt EXCEPT !.csc = @ /\ ~s.csc, !.prc = @ /\ ~s.prc]

(* The device and the port. *)
Connect ==
    /\ ~pt.ccs /\ pt.plug < MaxConnects
    /\ pt' = [pt EXCEPT !.ccs = TRUE, !.csc = TRUE, !.plug = @ + 1]
    /\ pgh' = [pgh EXCEPT !.steady = 0]
    /\ UNCHANGED pm
Disconnect ==
    /\ pt.ccs
    /\ pt' = [pt EXCEPT !.ccs = FALSE, !.csc = TRUE, !.pr = FALSE, !.en = "off"]
    /\ pgh' = [pgh EXCEPT !.steady = 0]
    /\ UNCHANGED pm
ResetDone(e) ==
    /\ pt.pr
    /\ pt' = [pt EXCEPT !.pr = FALSE, !.prc = TRUE, !.en = e]
    /\ UNCHANGED <<pm, pgh>>

(* timer_sleep: one polling interval. *)
Tick(from, to) ==
    /\ pm.pc = from
    /\ pm' = [pm EXCEPT !.pc = to, !.el = @ + 1, !.st = @ + 1]
    /\ pgh' = [pgh EXCEPT !.steady = Min2(@ + 1, Debounce)]
    /\ UNCHANGED pt

(* A transfer to the hub fails; the machine gives up with what it knew. *)
TransferFails ==
    /\ pm.hub /\ pm.pc \in {"readD", "assert", "poll", "readR"}
    /\ pgh.faults < MaxHubFaults
    /\ pgh' = [pgh EXCEPT !.faults = @ + 1]
    /\ Move("failClear")
    /\ UNCHANGED pt

(* The entry of either machine; a hub's caller has seen a connection. *)
StartReset ==
    /\ pm.pc = "start"
    /\ pm.hub => pt.ccs
    /\ pm' = [pm EXCEPT !.s = pt, !.pc = IF pt.ccs THEN "base" ELSE "failRead"]
    /\ UNCHANGED <<pt, pgh>>

(* The baseline: changes that precede the debounce are cleared. *)
ClearBaseline ==
    /\ pm.pc = "base"
    /\ pt' = ClearChanges(pm.s)
    /\ pm' = [pm EXCEPT !.pc = "debounce", !.el = 0, !.st = 0]
    /\ UNCHANGED pgh

(* A mutant: the debounce has no deadline. *)
DebounceNoDeadline ==
    /\ pm.pc = "debounce"
    /\ Move(IF pm.st >= Debounce THEN "assert" ELSE "sleepD")
    /\ UNCHANGED <<pt, pgh>>

(* The head of the debounce loop. *)
DebounceLoop ==
    /\ pm.pc = "debounce"
    /\ Move(IF pm.st >= Debounce THEN "assert"
            ELSE IF pm.el >= ResetTimeout THEN IF pm.hub THEN "failClear" ELSE "failRead"
            ELSE "sleepD")
    /\ UNCHANGED <<pt, pgh>>

(* A mutant: a bounce that is over when the port is read goes unnoticed. *)
ReadDebounceLevel ==
    /\ pm.pc = "readD"
    /\ pm' = [pm EXCEPT !.s = pt, !.pc = IF pt.ccs THEN "debounce" ELSE "restart"]
    /\ pgh' = [pgh EXCEPT !.sampled = pgh.steady]
    /\ UNCHANGED pt

ReadDebounce ==
    /\ pm.pc = "readD"
    /\ pm' = [pm EXCEPT !.s = pt, !.pc = IF pt.ccs /\ ~pt.csc THEN "debounce" ELSE "restart"]
    /\ pgh' = [pgh EXCEPT !.sampled = pgh.steady]
    /\ UNCHANGED pt

(* The connection is gone or has changed: the interval starts again. *)
RestartDebounce ==
    /\ pm.pc = "restart"
    /\ pt' = [pt EXCEPT !.csc = @ /\ ~pm.s.csc]
    /\ pm' = [pm EXCEPT !.pc = "debounce", !.st = 0]
    /\ UNCHANGED pgh

(* Reset is asserted; a hub's accumulated changes are cleared first. *)
AssertReset ==
    /\ pm.pc = "assert"
    /\ pt' = [(IF pm.hub THEN ClearChanges(pm.s) ELSE pt) EXCEPT !.pr = pt.ccs]
    /\ pm' = [pm EXCEPT !.el = 0, !.seen = FALSE, !.pc = IF pm.hub THEN "sleepR" ELSE "poll"]
    /\ pgh' = [pgh EXCEPT !.target = pt.plug]

(* A mutant: a finished reset is taken for an enabled port. *)
EnabledWhenDone(s) == TRUE

Enabled(s) == s.en = "on"

(* One poll of the root port: connection lost, completion, time-out. *)
PollRoot ==
    /\ ~pm.hub /\ pm.pc = "poll"
    /\ LET seen == pm.seen \/ pt.prc
       IN pm' = IF pm.el >= ResetTimeout THEN [pm EXCEPT !.pc = "failRead"]
                ELSE IF ~pt.ccs THEN [pm EXCEPT !.pc = "failRead", !.s = pt]
                ELSE [pm EXCEPT !.s = pt, !.seen = seen,
                                !.pc = IF seen /\ ~pt.pr /\ Enabled(pt) THEN "okClear" ELSE "sleepR"]
    /\ UNCHANGED <<pt, pgh>>

(* One poll of a hub's port, which follows the sleep and also fails on a   *)
(* change of the connection.                                               *)
PollHub ==
    /\ pm.hub /\ pm.pc = "poll"
    /\ LET seen == pm.seen \/ pt.prc
       IN pm' = [pm EXCEPT !.s = pt, !.seen = seen,
                           !.pc = IF ~pt.ccs \/ pt.csc THEN "failClear"
                                  ELSE IF seen /\ ~pt.pr /\ Enabled(pt) THEN "sleepC"
                                  ELSE IF pm.el >= ResetTimeout THEN "failClear"
                                  ELSE "sleepR"]
    /\ UNCHANGED <<pt, pgh>>

(* The second look at a hub's port after the reset recovery time. *)
RecheckHub ==
    /\ pm.pc = "readR"
    /\ pm' = [pm EXCEPT !.s = pt,
                        !.pc = IF pt.ccs /\ ~pt.csc /\ Enabled(pt) THEN "okClear" ELSE "failClear"]
    /\ UNCHANGED <<pt, pgh>>

(* The failing root port is read once more before its changes are cleared. *)
FailRead ==
    /\ pm.pc = "failRead"
    /\ pm' = [pm EXCEPT !.s = pt, !.pc = "failClear"]
    /\ UNCHANGED <<pt, pgh>>

EndReset ==
    /\ pm.pc \in {"okClear", "failClear"}
    /\ pt' = ClearChanges(pm.s)
    /\ Move(IF pm.pc = "okClear" THEN "ok" ELSE "failed")
    /\ UNCHANGED pgh

PortNext ==
    \/ Connect \/ Disconnect \/ \E e \in {"off", "half", "on"} : ResetDone(e)
    \/ Tick("sleepD", "readD") \/ Tick("sleepR", "poll") \/ Tick("sleepC", "readR")
    \/ TransferFails
    \/ StartReset \/ ClearBaseline \/ DebounceLoop \/ ReadDebounce \/ RestartDebounce
    \/ AssertReset \/ PollRoot \/ PollHub \/ RecheckHub \/ FailRead \/ EndReset

PortSpec == PortInit /\ [][PortNext]_portVars

(***************************************************************************)
(* Properties                                                              *)
(***************************************************************************)
(* Reset is asserted only on a connection that, when the port was last     *)
(* read, had not changed for the whole debounce time: a device that        *)
(* bounces between two polls restarts the interval (xhci_port.c 176-193,   *)
(* xhci_hub.c 304-338).                                                    *)
DebouncedBeforeReset == pm.pc \in {"assert", "sleepR", "poll"} => pgh.sampled >= Debounce

(* Success is reported only for the connection reset was asserted on, with *)
(* the port enabled: a device swapped while the reset was in progress,     *)
(* which a root port learns of only through the enabled bit, is never      *)
(* handed on as reset (xhci_port.c 230-249, xhci_hub.c 392-430).           *)
SuccessIsReset ==
    pm.pc \in {"okClear", "ok"} => pm.s.plug = pgh.target /\ pm.s.en = "on"

(* A connection that changes after the status was read keeps its change    *)
(* bit, hence its event: clearing touches only the bits that were read.    *)
ChangeNotSwallowed ==
    (pm.pc = "ok" /\ ~pm.s.csc) => (pt.ccs /\ pt.plug = pm.s.plug) \/ pt.csc

(* Both waits are bounded, whatever the device does: a connection that     *)
(* never settles fails the reset instead of keeping the worker.            *)
WaitsBounded == pm.el <= ResetTimeout + 1

-----------------------------------------------------------------------------
(***************************************************************************)
(* Setting up one root-port device, a hub and its children included: every *)
(* allocation, command and control transfer of xhci_setup_device_topology  *)
(* and xhci_hub_enumerate_children may fail, and the cleanup must leave    *)
(* neither memory nor a slot the controller still uses                     *)
(* (kernel/src/usb/xhci.c, xhci_hub.c, xhci_mem.c, xhci_descriptor.c).     *)
(***************************************************************************)
CONSTANTS
  USlots,         \* device slots
  HubPorts,       \* ports of a hub
  MaxDepth,       \* hub tiers below the root (hub_depth < 5 in the code)
  MaxSetupFaults  \* failing steps in a run

VARIABLES
  ud,    \* device objects, by slot
  umem,  \* allocated DMA objects: <<slot, name>>
  uhw,   \* per slot, the rings the controller's contexts point at
  ustk,  \* nested setups, the innermost last
  ugh    \* in_critical_section, and bounds

usbSetupVars == <<ud, umem, uhw, ustk, ugh>>

USlot == 1..USlots
Classes == {"none", "hid", "disk", "hub", "hid+disk"}

\* DCI of an endpoint: twice its number, plus one for IN.
Dci(number, in) == 2 * number + (IF in THEN 1 ELSE 0)

\* The endpoints each class uses: interrupt IN; bulk OUT and bulk IN.
Endpoints(cls) ==
  CASE cls = "none" -> {}
    [] cls \in {"hid", "hub"} -> {Dci(1, TRUE)}
    [] cls = "disk" -> {Dci(2, FALSE), Dci(1, TRUE)}
    [] OTHER -> {Dci(1, TRUE), Dci(2, FALSE), Dci(3, TRUE)}

\* A keyboard's interrupt endpoint has report buffers.
Keyboard(cls) == IF cls \in {"hid", "hid+disk"} THEN {Dci(1, TRUE)} ELSE {}

RingName(dci) == <<"ring", dci>>
BufferName(dci) == <<"buffer", dci>>
OutCtx == <<"out_ctx", 0>>
InCtx == <<"in_ctx", 0>>
PortStatus == <<"port_status", 0>>

Largest(S) == CHOOSE n \in S : \A m \in S : m <= n

EmptyDevice == [used |-> FALSE, state |-> "no_slot", cls |-> "none", parent |-> 0, route |-> <<>>,
                add |-> {}, entries |-> 0, finished |-> FALSE, ok |-> FALSE, tear |-> FALSE]

UsbSetupInit ==
  /\ ud = [s \in USlot |-> EmptyDevice]
  /\ umem = {}
  /\ uhw = [s \in USlot |-> {}]
  /\ ustk = <<>>
  /\ ugh = [lock |-> FALSE, faults |-> 0, runs |-> 0]

Depth == Len(ustk)
Top == ustk[Depth]
Slot == Top.slot
Go(stage) == ustk' = [ustk EXCEPT ![Depth].stage = stage]
Device(field, value) == [ud EXCEPT ![Slot] = [@ EXCEPT ![field] = value]]
Fault == ugh.faults < MaxSetupFaults /\ ugh' = [ugh EXCEPT !.faults = @ + 1]

--------------------------------------------------------------------------------
\* xhci_setup_device: takes in_critical_section, with an empty route.
BeginSetup ==
  /\ ustk = <<>> /\ ~ugh.lock /\ ugh.runs = 0
  /\ ugh' = [ugh EXCEPT !.lock = TRUE, !.runs = 1]
  /\ ustk' = <<[slot |-> 0, stage |-> "enable", port |-> 0, error |-> FALSE, route |-> <<>>, parent |-> 0]>>
  /\ UNCHANGED <<ud, umem, uhw>>

\* Enable Slot: the object is refilled field by field.
EnableOk(s) ==
  /\ ustk # <<>> /\ Top.stage = "enable" /\ ~ud[s].used
  /\ ud' = [ud EXCEPT ![s] = [EmptyDevice EXCEPT !.used = TRUE, !.state = "enabled",
                                 !.route = Top.route, !.parent = Top.parent]]
  /\ ustk' = [ustk EXCEPT ![Depth].slot = s, ![Depth].stage = "context"]
  /\ UNCHANGED <<umem, uhw, ugh>>

\* The frame below learns the result; the outermost frame releases the lock.
Return(err) ==
  IF Depth = 1 THEN ustk' = <<>>
  ELSE ustk' = [SubSeq(ustk, 1, Depth - 1) EXCEPT ![Depth - 1].error = @ \/ err]
\* A mutant: a child's setup releases the lock of the hub's.
UnlockedAlways(g) == [g EXCEPT !.lock = FALSE]

Unlocked(g) == IF Depth = 1 THEN [g EXCEPT !.lock = FALSE] ELSE g

EnableSlotFails ==
  /\ ustk # <<>> /\ Top.stage = "enable" /\ ugh.faults < MaxSetupFaults
  /\ Return(TRUE)
  /\ ugh' = Unlocked([ugh EXCEPT !.faults = @ + 1])
  /\ UNCHANGED <<ud, umem, uhw>>

\* Both contexts are allocated before either is checked; DCBAA then points at
\* the output context.
Contexts(out, in) ==
  /\ ustk # <<>> /\ Top.stage = "context"
  /\ umem' = umem \cup (IF out THEN {<<Slot, OutCtx>>} ELSE {})
                  \cup (IF in THEN {<<Slot, InCtx>>} ELSE {})
  /\ IF out /\ in THEN UNCHANGED ugh ELSE Fault
  /\ uhw' = IF out /\ in THEN [uhw EXCEPT ![Slot] = {OutCtx}] ELSE uhw
  /\ Go(IF out /\ in THEN "ep0" ELSE "cleanup")
  /\ UNCHANGED ud

\* EP0's ring, then Address Device makes the controller use it.
Ep0(ok) ==
  /\ ustk # <<>> /\ Top.stage = "ep0"
  /\ umem' = IF ok THEN umem \cup {<<Slot, RingName(1)>>} ELSE umem
  /\ IF ok THEN UNCHANGED ugh ELSE Fault
  /\ Go(IF ok THEN "address" ELSE "cleanup")
  /\ UNCHANGED <<ud, uhw>>

Address(ok) ==
  /\ ustk # <<>> /\ Top.stage = "address"
  /\ uhw' = IF ok THEN [uhw EXCEPT ![Slot] = @ \cup {RingName(1)}] ELSE uhw
  /\ ud' = Device("state", IF ok THEN "addressed" ELSE "addressing")
  /\ IF ok THEN UNCHANGED ugh ELSE Fault
  /\ Go(IF ok THEN "describe" ELSE "cleanup")
  /\ UNCHANGED umem

\* The descriptors, an Evaluate Context when the packet size differs, and the
\* search for a supported interface.  A hub is looked for last.
Describe(cls, ok) ==
  /\ ustk # <<>> /\ Top.stage = "describe"
  /\ cls = "hub" => Len(Top.route) < MaxDepth
  /\ IF ok THEN UNCHANGED ugh ELSE Fault /\ cls = "none"
  /\ ud' = [ud EXCEPT ![Slot].state = IF ok THEN "described" ELSE @, ![Slot].cls = IF ok THEN cls ELSE @]
  /\ Go(IF ~ok THEN "cleanup" ELSE IF cls = "none" THEN "finish" ELSE "rings")
  /\ UNCHANGED <<umem, uhw>>

\* A mutant: the Context Entries field counts the endpoints.
EntriesCounted(add) == Cardinality(add) + 1

\* Context Entries is the largest DCI in use, EP0 included.
Entries(add) == Largest(add \cup {1})

\* One ring per endpoint, and report buffers for a keyboard's; the flags name
\* an endpoint before its ring is allocated.
Rings(dci, ring, buffer) ==
  LET d == ud[Slot] IN
  /\ ustk # <<>> /\ Top.stage = "rings" /\ dci \in Endpoints(d.cls) \ d.add
  /\ ~ring => ~buffer
  /\ ~buffer /\ ring => dci \in Keyboard(d.cls)
  /\ ud' = [ud EXCEPT ![Slot].add = @ \cup {dci}]
  /\ umem' = umem \cup (IF ring THEN {<<Slot, RingName(dci)>>} ELSE {})
                  \cup (IF buffer /\ dci \in Keyboard(d.cls) THEN {<<Slot, BufferName(dci)>>} ELSE {})
  /\ IF ring /\ buffer THEN UNCHANGED ugh ELSE Fault
  /\ IF ring /\ buffer THEN UNCHANGED ustk ELSE Go("cleanup")
  /\ UNCHANGED uhw

\* Configure Endpoint: the controller now uses every ring the flags name.
Configure(ok) ==
  LET d == ud[Slot] IN
  /\ ustk # <<>> /\ Top.stage = "rings" /\ d.add = Endpoints(d.cls)
  /\ ud' = [ud EXCEPT ![Slot].entries = Entries(d.add), ![Slot].state = IF ok THEN "configured" ELSE @]
  /\ uhw' = IF ok THEN [uhw EXCEPT ![Slot] = @ \cup {RingName(c) : c \in d.add}] ELSE uhw
  /\ IF ok THEN UNCHANGED ugh ELSE Fault
  /\ Go(IF ok THEN "attach" ELSE "cleanup")
  /\ UNCHANGED umem

\* Set Configuration, then the class: protocol and report reads of a keyboard
\* (its LED buffer is optional), probing of a disk, descriptor of a hub.
Attach(ok, led) ==
  LET d == ud[Slot] IN
  /\ ustk # <<>> /\ Top.stage = "attach"
  /\ led => ok /\ Keyboard(d.cls) # {}
  /\ umem' = IF led THEN umem \cup {<<Slot, BufferName(1)>>} ELSE umem
  /\ IF ok THEN UNCHANGED ugh ELSE Fault
  /\ ud' = Device("state", IF ok THEN "attaching" ELSE d.state)
  /\ Go(IF ~ok THEN "cleanup" ELSE IF d.cls = "hub" THEN "children" ELSE "finish")
  /\ UNCHANGED uhw

\* A mutant: the child's port enters the route at the parent's tier.
RouteFlat(parent, port) == <<port>>

\* hub_child_route: one nibble per tier.
ChildRoute(parent, port) == Append(parent, port)

\* xhci_hub_enumerate_children: each port in turn is powered, read, reset, and
\* set up with the lock held; an error is remembered and the next port tried.
\* The status buffer lives as long as the loop.
NextChild(connected, resetOk) ==
  LET port == Top.port + 1
      after == [ustk EXCEPT ![Depth].port = port, ![Depth].error = @ \/ ~resetOk] IN
  /\ ustk # <<>> /\ Top.stage = "children" /\ port <= HubPorts
  /\ IF resetOk THEN UNCHANGED ugh ELSE Fault /\ connected
  /\ umem' = umem \cup {<<Slot, PortStatus>>}
  /\ ustk' = IF connected /\ resetOk
             THEN Append(after, [slot |-> 0, stage |-> "enable", port |-> 0, error |-> FALSE,
                                 route |-> ChildRoute(Top.route, port), parent |-> Slot])
             ELSE after
  /\ UNCHANGED <<ud, uhw>>

EndChildren ==
  /\ ustk # <<>> /\ Top.stage = "children" /\ Top.port = HubPorts
  /\ umem' = umem \ {<<Slot, PortStatus>>}
  /\ Go(IF Top.error THEN "cleanup" ELSE "finish")
  /\ UNCHANGED <<ud, uhw, ugh>>

--------------------------------------------------------------------------------
\* xhci_device_setup_finish and xhci_cleanup_failed_device.

Finish ==
  /\ ustk # <<>> /\ Top.stage = "finish"
  /\ ud' = [ud EXCEPT ![Slot].finished = TRUE, ![Slot].ok = TRUE, ![Slot].state = "ready"]
  /\ Return(FALSE) /\ ugh' = Unlocked(ugh)
  /\ UNCHANGED <<umem, uhw>>

\* A mutant: an input context is freed only together with an output context.
FreedByPair(s) ==
  {m \in umem : m[1] = s /\ (m[2] = InCtx => <<s, OutCtx>> \in umem)}

\* What the cleanup gives back: every ring, every buffer, both contexts.
FreedBy(s) == {m \in umem : m[1] = s}

\* A mutant: the memory is freed although Disable Slot failed.
AbandonFrees(disableOk) ==
  /\ ustk # <<>> /\ Top.stage = "cleanup"
  /\ ugh' = Unlocked([ugh EXCEPT !.faults = IF disableOk THEN @ ELSE @ + 1])
  /\ ~disableOk => ugh.faults < MaxSetupFaults
  /\ umem' = umem \ FreedBy(Slot)
  /\ uhw' = IF disableOk THEN [uhw EXCEPT ![Slot] = {}] ELSE uhw
  /\ ud' = [ud EXCEPT ![Slot] = EmptyDevice]
  /\ Return(TRUE)

\* Disable Slot comes first; when it fails everything stays for a later try.
Abandon(disableOk) ==
  LET s == Slot IN
  /\ ustk # <<>> /\ Top.stage = "cleanup"
  /\ ugh' = Unlocked([ugh EXCEPT !.faults = IF disableOk THEN @ ELSE @ + 1])
  /\ ~disableOk => ugh.faults < MaxSetupFaults
  /\ IF disableOk
     THEN /\ umem' = umem \ FreedBy(s)
          /\ uhw' = [uhw EXCEPT ![s] = {}]
          /\ ud' = [ud EXCEPT ![s] = EmptyDevice]
     ELSE /\ ud' = [ud EXCEPT ![s].state = "failed", ![s].finished = TRUE, ![s].tear = TRUE]
          /\ UNCHANGED <<umem, uhw>>
  /\ Return(TRUE)

\* xhci_process_pending_teardowns takes the cleanup up again.
RetryTeardown(s) ==
  /\ ustk = <<>> /\ ud[s].tear
  /\ umem' = umem \ FreedBy(s)
  /\ uhw' = [uhw EXCEPT ![s] = {}]
  /\ ud' = [ud EXCEPT ![s] = EmptyDevice]
  /\ UNCHANGED <<ustk, ugh>>

UsbSetupNext ==
  \/ BeginSetup \/ EnableSlotFails \/ (\E s \in USlot : EnableOk(s) \/ RetryTeardown(s))
  \/ \E out, in \in BOOLEAN : Contexts(out, in)
  \/ \E ok \in BOOLEAN : Ep0(ok) \/ Address(ok) \/ Configure(ok) \/ Abandon(ok)
  \/ \E ok \in BOOLEAN, cls \in Classes : Describe(cls, ok)
  \/ \E ring, buffer \in BOOLEAN, dci \in 2..7 : Rings(dci, ring, buffer)
  \/ \E ok, led \in BOOLEAN : Attach(ok, led)
  \/ \E connected, ok \in BOOLEAN : NextChild(connected, ok)
  \/ EndChildren \/ Finish

UsbSetupSpec == UsbSetupInit /\ [][UsbSetupNext]_usbSetupVars

--------------------------------------------------------------------------------
\* Properties.

\* Every ring and context the controller has been given still exists: cleanup
\* frees nothing before Disable Slot has succeeded, on any failure path.
ControllerMemoryLives == \A s \in USlot : \A m \in uhw[s] : <<s, m>> \in umem

\* Nothing is leaked: memory belongs to a slot in use, and when no setup is
\* running only to ready devices and to those waiting for their teardown.
NothingLeaked ==
  /\ \A m \in umem : ud[m[1]].used
  /\ ustk = <<>> => \A s \in USlot : ud[s].used => ud[s].ok \/ ud[s].tear

\* What Configure Endpoint is told is what exists: Context Entries covers the
\* endpoints named, and a ready device has a ring behind every one.
ContextsCoherent ==
  \A s \in USlot : ud[s].entries > 0 =>
    /\ \A c \in ud[s].add : c <= ud[s].entries /\ <<s, RingName(c)>> \in umem
    /\ ud[s].entries \in ud[s].add \cup {1}

\* Devices below one root port have different route strings.
RoutesDistinct ==
  \A s, t \in USlot : s # t /\ ud[s].used /\ ud[t].used => ud[s].route # ud[t].route

\* The critical section is held exactly while a setup runs, through the nested
\* setups of a hub's children.
LockCoversSetup == ugh.lock <=> ustk # <<>>
=============================================================================
