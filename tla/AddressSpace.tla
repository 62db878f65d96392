---------------------------- MODULE AddressSpace ----------------------------
(***************************************************************************)
(* Process address spaces (kernel/src/vmm.c) on several processors: the    *)
(* metadata table, the page tables a process owns, the TLBs of the         *)
(* processors and the shootdown protocol that keeps them honest, and the   *)
(* teardown of an address space.                                           *)
(*                                                                         *)
(* A critical section of vmm_metadata_lock is one action.  operation_lock  *)
(* is the sleeping mutex of a metadata slot (its own module is Mutex);     *)
(* vmm_shootdown_lock is a spin lock that is taken with interrupts on.     *)
(* A user path has TableLevels tables below the root (three in the code).  *)
(* pmm_alloc_frame() takes the lowest free frame, as its bitmap scan does. *)
(*                                                                         *)
(* Frames, tables and pages of process.c's callers are included: a mapped  *)
(* frame is allocated just before vmm_map_user_page() and freed when the   *)
(* map fails or after vmm_unmap_user_page() returned it.                   *)
(***************************************************************************)
EXTENDS Naturals, FiniteSets, FiniteSetsExt

CONSTANTS
    Cpu,          \* the online processors
    NoCpu,        \* nobody
    Slot,         \* address_space_metadata[], numbered
    Page,         \* user pages of one page table
    FrameCount,   \* physical frames the PMM manages
    TableLevels,  \* page tables on a user path below the root
    MaxSpaces     \* bound: address spaces spaces_created

ASSUME SpaceAssumption ==
    /\ Slot \subseteq Nat \ {0}
    /\ FrameCount \in Nat /\ TableLevels \in Nat /\ MaxSpaces \in Nat
    /\ NoCpu \notin Cpu

VARIABLES
    space,      \* address_space_metadata[]: root, ownership lists, active_cpu_mask
    space_frames,\* the free frames of the PMM bitmap
    current_pml4,     \* cpu_local.current_pml4: the root in CR3, 0 for the kernel's
    tlb,        \* cached translations of a processor: <<slot, page, frame>>
    shootdown,    \* vmm_shootdown_request and its lock
    ipi,        \* processors with a pending shootdown interrupt
    vm_op,         \* the vmm operation a processor is executing
    spaces_created     \* how many address spaces were spaces_created

spaceVars == <<space, space_frames, current_pml4, tlb, shootdown, ipi, vm_op, spaces_created>>

SpaceFrame == 1..FrameCount
NoMetadata == [root |-> 0, tables |-> {}, leaves |-> {}, pte |-> [p \in Page |-> 0],
               mask |-> {}, destroy_pending |-> FALSE, lock |-> NoCpu]
NoOperation == [pc |-> "idle", s |-> 0, page |-> 0, frame |-> 0, reserved |-> {}, targets |-> {}]

SpaceInit ==
    /\ space = [s \in Slot |-> NoMetadata]
    /\ space_frames = SpaceFrame
    /\ current_pml4 = [c \in Cpu |-> 0]
    /\ tlb = [c \in Cpu |-> {}]
    /\ shootdown = [lock |-> NoCpu, active |-> FALSE, pending |-> {}, acked |-> {}, space |-> 0]
    /\ ipi = {}
    /\ vm_op = [c \in Cpu |-> NoOperation]
    /\ spaces_created = 0

SpaceLive(s) == space[s].root # 0
SpaceUsable(s) == SpaceLive(s) /\ ~space[s].destroy_pending
SpaceGoto(c, label) == vm_op' = [vm_op EXCEPT ![c].pc = label]
SpaceDone(c) == vm_op' = [vm_op EXCEPT ![c] = NoOperation]

\* A processor that waits for acknowledgements has interrupts masked; one that
\* spins for vmm_shootdown_lock has not.  A mutant masks them before the lock.
MaskedWhileSpinning(c) == vm_op[c].pc \notin {"shootdown", "wait"}
InterruptsOn(c) == vm_op[c].pc # "wait"
SpaceIdle(c) == vm_op[c].pc = "idle"

vmm_create_address_space(c) ==
    /\ SpaceIdle(c) /\ spaces_created < MaxSpaces /\ space_frames # {}
    /\ LET slots == {s \in Slot : ~SpaceLive(s) /\ ~space[s].destroy_pending}
           root == Min(space_frames) IN
         /\ slots # {}
         /\ space' = [space EXCEPT ![Min(slots)] = [NoMetadata EXCEPT !.root = root]]
         /\ space_frames' = space_frames \ {root}
    /\ spaces_created' = spaces_created + 1
    /\ UNCHANGED <<current_pml4, tlb, shootdown, ipi, vm_op>>

\* The scheduler loads the address space of the thread it dispatches; the CR3
\* write drops every user translation of the processor.  A thread that waits in
\* vmm_destroy_address_space() sleeps, and its processor runs other threads.
vmm_switch_address_space(c, s) ==
    /\ vm_op[c].pc \in {"idle", "destroy"} /\ current_pml4[c] # s
    /\ s # 0 => SpaceUsable(s)
    /\ space' = [t \in Slot |->
                   [space[t] EXCEPT !.mask = IF t = s THEN @ \cup {c}
                                             ELSE IF t = current_pml4[c] THEN @ \ {c} ELSE @]]
    /\ current_pml4' = [current_pml4 EXCEPT ![c] = s]
    /\ tlb' = [tlb EXCEPT ![c] = {}]
    /\ UNCHANGED <<space_frames, shootdown, ipi, vm_op, spaces_created>>

\* The processor walks the page tables of its root and caches the translation.
TlbFill(c, p) ==
    LET s == current_pml4[c] IN
    /\ s # 0
    /\ vm_op[c].pc # "wait"
    /\ space[s].pte[p] # 0
    /\ <<s, p, space[s].pte[p]>> \notin tlb[c]
    /\ tlb' = [tlb EXCEPT ![c] = @ \cup {<<s, p, space[s].pte[p]>>}]
    /\ UNCHANGED <<space, space_frames, current_pml4, shootdown, ipi, vm_op, spaces_created>>

invlpg(c, s, p) ==
    tlb' = IF current_pml4[c] = s
           THEN [tlb EXCEPT ![c] = {e \in @ : e[2] # p}] ELSE tlb
\* A mutant: nobody is told of a changed mapping.
CaptureNobody(c, s) == {}
vmm_capture_active_targets_locked(c, s) == space[s].mask \ {c}
vmm_user_path_available(s, p) == space[s].pte[p] = 0
operation_unlocked(s) == space[s].lock = NoCpu

\* vmm_map_user_page(): the caller allocates the frame to map, the operation
\* lock is taken, and the tables of a whole path are reserved.
vmm_map_begin(c, s, p) ==
    /\ SpaceIdle(c) /\ SpaceUsable(s) /\ vmm_user_path_available(s, p)
    /\ space_frames # {}
    /\ operation_unlocked(s)
    /\ space' = [space EXCEPT ![s].lock = c]
    /\ vm_op' = [vm_op EXCEPT ![c] = [NoOperation EXCEPT !.pc = "reserve", !.s = s, !.page = p,
                                            !.frame = Min(space_frames)]]
    /\ space_frames' = space_frames \ {Min(space_frames)}
    /\ UNCHANGED <<current_pml4, tlb, shootdown, ipi, spaces_created>>

vmm_map_reserve(c) ==
    /\ vm_op[c].pc = "reserve"
    /\ IF space_frames = {}
       THEN SpaceGoto(c, "reserve_failure") /\ UNCHANGED space_frames
       ELSE /\ vm_op' = [vm_op EXCEPT
                        ![c].reserved = @ \cup {Min(space_frames)},
                        ![c].pc = IF Cardinality(vm_op[c].reserved) + 1 = TableLevels
                                  THEN "insert" ELSE "reserve"]
            /\ space_frames' = space_frames \ {Min(space_frames)}
    /\ UNCHANGED <<space, current_pml4, tlb, shootdown, ipi, spaces_created>>

\* What a failed map gives back.  A mutant: only the frame of the caller.
OnlyTheFrame(c) == {vm_op[c].frame}
Unreserved(c) == vm_op[c].reserved \cup {vm_op[c].frame}

\* A reservation failed: unlock, free what was reserved; the caller frees the
\* frame it wanted mapped.
vmm_map_reserve_failure(c) ==
    /\ vm_op[c].pc = "reserve_failure"
    /\ space' = [space EXCEPT ![vm_op[c].s].lock = NoCpu]
    /\ space_frames' = space_frames \cup Unreserved(c)
    /\ SpaceDone(c)
    /\ UNCHANGED <<current_pml4, tlb, shootdown, ipi, spaces_created>>

vmm_map_insert(c) ==
    LET s == vm_op[c].s
        p == vm_op[c].page
        f == vm_op[c].frame
        used == IF space[s].tables = {} THEN vm_op[c].reserved ELSE {} IN
    /\ vm_op[c].pc = "insert"
    /\ IF ~SpaceUsable(s) \/ ~vmm_user_path_available(s, p) \/ f \in space[s].leaves
       THEN SpaceGoto(c, "reserve_failure") /\ UNCHANGED <<space, tlb>>
       ELSE /\ space' = [space EXCEPT ![s].tables = @ \cup used,
                                      ![s].leaves = @ \cup {f},
                                      ![s].pte[p] = f]
            /\ invlpg(c, s, p)
            /\ vm_op' = [vm_op EXCEPT ![c].pc = "shootdown",
                                ![c].frame = 0,
                                ![c].reserved = @ \ used,
                                ![c].targets = vmm_capture_active_targets_locked(c, s)]
    /\ UNCHANGED <<space_frames, current_pml4, shootdown, ipi, spaces_created>>

\* vmm_unmap_user_page(): the leaf goes under the metadata lock; the targets of
\* the shootdown are the other processors in the address space at that moment.
vmm_unmap_begin(c, s, p) ==
    /\ SpaceIdle(c) /\ SpaceUsable(s)
    /\ operation_unlocked(s)
    /\ space' = [space EXCEPT ![s].lock = c]
    /\ vm_op' = [vm_op EXCEPT ![c] = [NoOperation EXCEPT !.pc = "unmap", !.s = s, !.page = p]]
    /\ UNCHANGED <<space_frames, current_pml4, tlb, shootdown, ipi, spaces_created>>

vmm_unmap_user_page(c) ==
    LET s == vm_op[c].s
        p == vm_op[c].page
        f == space[s].pte[p] IN
    /\ vm_op[c].pc = "unmap"
    /\ IF ~SpaceUsable(s) \/ f = 0
       THEN /\ space' = [space EXCEPT ![s].lock = NoCpu]
            /\ SpaceDone(c) /\ UNCHANGED tlb
       ELSE /\ space' = [space EXCEPT ![s].leaves = @ \ {f}, ![s].pte[p] = 0]
            /\ invlpg(c, s, p)
            /\ vm_op' = [vm_op EXCEPT ![c].pc = "shootdown", ![c].frame = f,
                                ![c].targets = vmm_capture_active_targets_locked(c, s)]
    /\ UNCHANGED <<space_frames, current_pml4, shootdown, ipi, spaces_created>>

\* vmm_tlb_shootdown(): publish the shootdown, send the IPIs, and spin with
\* interrupts masked until every target acknowledged.
vmm_tlb_shootdown(c) ==
    /\ vm_op[c].pc = "shootdown"
    /\ IF vm_op[c].targets = {}
       THEN SpaceGoto(c, "finish") /\ UNCHANGED <<shootdown, ipi>>
       ELSE /\ shootdown.lock = NoCpu
            /\ shootdown' = [lock |-> c, active |-> TRUE, pending |-> vm_op[c].targets,
                           acked |-> {}, space |-> vm_op[c].s]
            /\ ipi' = ipi \cup vm_op[c].targets
            /\ SpaceGoto(c, "wait")
    /\ UNCHANGED <<space, space_frames, current_pml4, tlb, spaces_created>>

vmm_tlb_acknowledged(c) ==
    /\ vm_op[c].pc = "wait"
    /\ vm_op[c].targets \subseteq shootdown.acked
    /\ shootdown' = [shootdown EXCEPT !.lock = NoCpu, !.active = FALSE]
    /\ SpaceGoto(c, "finish")
    /\ UNCHANGED <<space, space_frames, current_pml4, tlb, ipi, spaces_created>>

vmm_tlb_shootdown_handler(c) ==
    LET wanted == shootdown.active /\ c \in shootdown.pending
        reload == wanted /\ shootdown.space \in {0, current_pml4[c]} IN
    /\ c \in ipi /\ InterruptsOn(c)
    /\ ipi' = ipi \ {c}
    /\ tlb' = IF reload THEN [tlb EXCEPT ![c] = {}] ELSE tlb
    /\ shootdown' = IF wanted THEN [shootdown EXCEPT !.acked = @ \cup {c}] ELSE shootdown
    /\ UNCHANGED <<space, space_frames, current_pml4, vm_op, spaces_created>>

\* Back in vmm_map_user_page() or vmm_unmap_user_page(): unlock and free what
\* is left of the reservation; after an unmap the caller frees the page.
vmm_operation_finish(c) ==
    /\ vm_op[c].pc = "finish"
    /\ space' = IF vm_op[c].s = 0 THEN space
                ELSE [space EXCEPT ![vm_op[c].s].lock = NoCpu]
    /\ space_frames' = space_frames \cup vm_op[c].reserved \cup ({vm_op[c].frame} \ {0})
    /\ SpaceDone(c)
    /\ UNCHANGED <<current_pml4, tlb, shootdown, ipi, spaces_created>>

\* vmm_map() of a kernel page: the shared branch is already visible to every
\* root, all other processors reload.
vmm_publish_kernel_mappings(c) ==
    /\ SpaceIdle(c)
    /\ vm_op' = [vm_op EXCEPT ![c] = [NoOperation EXCEPT !.pc = "shootdown", !.targets = Cpu \ {c}]]
    /\ UNCHANGED <<space, space_frames, current_pml4, tlb, shootdown, ipi, spaces_created>>

\* vmm_destroy_address_space(), called by the last reference to the process:
\* no map or unmap of this space is under way.
vmm_destroy_begin(c, s) ==
    /\ SpaceIdle(c) /\ SpaceLive(s) /\ current_pml4[c] # s
    /\ \A d \in Cpu : vm_op[d].s # s
    /\ operation_unlocked(s)
    /\ space' = [space EXCEPT ![s].lock = c]
    /\ vm_op' = [vm_op EXCEPT ![c] = [NoOperation EXCEPT !.pc = "destroy", !.s = s]]
    /\ UNCHANGED <<space_frames, current_pml4, tlb, shootdown, ipi, spaces_created>>

\* A mutant: teardown does not wait for processors that are still inside.
NeverWaits(s) == TRUE
vmm_cpu_mask_empty(s) == space[s].mask = {}

vmm_destroy_address_space(c) ==
    LET s == vm_op[c].s IN
    /\ vm_op[c].pc = "destroy"
    /\ IF ~vmm_cpu_mask_empty(s)
       THEN /\ ~space[s].destroy_pending
            /\ space' = [space EXCEPT ![s].destroy_pending = TRUE]
            /\ UNCHANGED vm_op
       ELSE /\ space' = [space EXCEPT ![s] = [NoMetadata EXCEPT !.destroy_pending = TRUE]]
            /\ vm_op' = [vm_op EXCEPT ![c].pc = "release",
                                ![c].reserved = {space[s].root} \cup space[s].leaves
                                                  \cup space[s].tables]
    /\ UNCHANGED <<space_frames, current_pml4, tlb, shootdown, ipi, spaces_created>>

vmm_destroy_release(c) ==
    /\ vm_op[c].pc = "release"
    /\ space_frames' = space_frames \cup vm_op[c].reserved
    /\ vm_op' = [vm_op EXCEPT ![c].pc = "released", ![c].reserved = {}]
    /\ UNCHANGED <<space, current_pml4, tlb, shootdown, ipi, spaces_created>>

vmm_destroy_end(c) ==
    /\ vm_op[c].pc = "released"
    /\ space' = [space EXCEPT ![vm_op[c].s].destroy_pending = FALSE]
    /\ SpaceDone(c)
    /\ UNCHANGED <<space_frames, current_pml4, tlb, shootdown, ipi, spaces_created>>

SpaceNext ==
    \E c \in Cpu :
      \/ vmm_create_address_space(c)
      \/ \E s \in Slot \cup {0} : vmm_switch_address_space(c, s)
      \/ \E p \in Page : TlbFill(c, p)
      \/ \E s \in Slot, p \in Page : vmm_map_begin(c, s, p) \/ vmm_unmap_begin(c, s, p)
      \/ vmm_map_reserve(c)
      \/ vmm_map_reserve_failure(c)
      \/ vmm_map_insert(c)
      \/ vmm_unmap_user_page(c)
      \/ vmm_tlb_shootdown(c)
      \/ vmm_tlb_acknowledged(c)
      \/ vmm_tlb_shootdown_handler(c)
      \/ vmm_operation_finish(c)
      \/ vmm_publish_kernel_mappings(c)
      \/ \E s \in Slot : vmm_destroy_begin(c, s)
      \/ vmm_destroy_address_space(c)
      \/ vmm_destroy_release(c)
      \/ vmm_destroy_end(c)
-----------------------------------------------------------------------------
\* Types.
SpaceTypeOK ==
    /\ \A s \in Slot : /\ space[s].root \in SpaceFrame \cup {0}
                       /\ space[s].tables \subseteq SpaceFrame /\ space[s].leaves \subseteq SpaceFrame
                       /\ space[s].pte \in [Page -> SpaceFrame \cup {0}]
                       /\ space[s].mask \subseteq Cpu /\ space[s].lock \in Cpu \cup {NoCpu}
    /\ space_frames \subseteq SpaceFrame
    /\ current_pml4 \in [Cpu -> Slot \cup {0}]
    /\ shootdown.pending \subseteq Cpu /\ shootdown.acked \subseteq shootdown.pending
    /\ ipi \subseteq Cpu

\* No processor holds a cached translation to a frame that went back to the
\* PMM, or to a frame that by now serves another purpose: an unmapped page is
\* freed only after every processor that could have cached it reloaded CR3
\* (vmm_unmap_user_page before pmm_free_frame in process.c).
NoStaleTranslation ==
    \A c \in Cpu : \A e \in tlb[c] :
      \/ e[3] \in space[e[1]].leaves
      \/ \E d \in Cpu : /\ vm_op[d].pc \in {"shootdown", "wait", "finish"}
                        /\ vm_op[d].s = e[1] /\ vm_op[d].frame = e[3]

\* The root in a processor's CR3 is the root of a live metadata slot whose
\* active_cpu_mask names that processor, so a teardown never frees the tables
\* a processor is walking.
ActiveRootLives ==
    \A c \in Cpu, s \in Slot : (current_pml4[c] = s) <=> (c \in space[s].mask)

\* What claims a frame: the bitmap, an address space, an operation.
FrameOwners(f) ==
    (IF f \in space_frames THEN 1 ELSE 0)
    + Cardinality({s \in Slot : space[s].root = f})
    + Cardinality({s \in Slot : f \in space[s].tables})
    + Cardinality({s \in Slot : f \in space[s].leaves})
    + Cardinality({c \in Cpu : f \in vm_op[c].reserved})
    + Cardinality({c \in Cpu : vm_op[c].frame = f})
\* Every frame has exactly one owner: the free bitmap, one address space as
\* root, table or leaf, or the operation that is reserving or releasing it.
\* No failure path of map, unmap or destroy leaks a frame or frees one twice
\* (vmm.c).
FramesOwnedOnce == \A f \in SpaceFrame : FrameOwners(f) = 1

\* A processor that waits in vmm_tlb_shootdown() with interrupts masked gets
\* all its acknowledgements, although another processor may be starting a
\* shootdown of its own: the panic on an acknowledgement timeout cannot be
\* caused by two processors that wait for each other.
ShootdownCompletes == \A c \in Cpu : vm_op[c].pc = "wait" ~> vm_op[c].pc # "wait"

\* What keeps the protocol going: a processor executes its vmm operation and
\* takes a pending interrupt while it has interrupts on.
SpaceFairness ==
    \A c \in Cpu :
      /\ WF_spaceVars(vmm_tlb_shootdown_handler(c))
      /\ WF_spaceVars(vmm_tlb_acknowledged(c))
=============================================================================
