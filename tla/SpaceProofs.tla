---------------------------- MODULE SpaceProofs ----------------------------
(***************************************************************************)
(* No processor translates through a mapping that was taken back, and      *)
(* every frame has one owner, for any number of processors, address        *)
(* spaces, pages, frames and levels of page tables: the inductive          *)
(* invariants of the address spaces and of the shootdown protocol.         *)
(***************************************************************************)
EXTENDS Integers, AddressSpace, ListProofs

USE SMTT(30), ZenonT(30)

-----------------------------------------------------------------------------
(* The inductive invariant.                                                *)

Metadata ==
    [root : SpaceFrame \cup {0}, tables : SUBSET SpaceFrame,
     leaves : SUBSET SpaceFrame, pte : [Page -> SpaceFrame \cup {0}],
     mask : SUBSET Cpu, destroy_pending : BOOLEAN, lock : Cpu \cup {NoCpu}]

\* Where an operation may be: before it changed the page tables, while it
\* tells the other processors, and in the teardown.
Mapping == {"reserve", "reserve_failure", "insert"}
Telling == {"shootdown", "wait"}
Locked == Mapping \cup Telling \cup {"unmap", "finish", "destroy"}
Releasing == {"release", "released"}

Operation ==
    [pc : Locked \cup Releasing \cup {"idle"}, s : Slot \cup {0},
     page : Page \cup {0}, frame : SpaceFrame \cup {0},
     reserved : SUBSET SpaceFrame, targets : SUBSET Cpu]

SpaceTypes ==
    /\ space \in [Slot -> Metadata]
    /\ space_frames \in SUBSET SpaceFrame
    /\ current_pml4 \in [Cpu -> Slot \cup {0}]
    /\ tlb \in [Cpu -> SUBSET (Slot \X Page \X SpaceFrame)]
    /\ shootdown \in [lock : Cpu \cup {NoCpu}, active : BOOLEAN,
                      pending : SUBSET Cpu, acked : SUBSET Cpu,
                      space : Slot \cup {0}]
    /\ shootdown.acked \subseteq shootdown.pending
    /\ ipi \in SUBSET Cpu
    /\ vm_op \in [Cpu -> Operation]

\* An unused slot maps nothing; a page maps a leaf of its own.
Tables ==
    \A s \in Slot :
      /\ space[s].root = 0 => space[s].lock = NoCpu /\ space[s].mask = {}
      /\ \A p \in Page : /\ space[s].root = 0 => space[s].pte[p] = 0
                         /\ space[s].pte[p] # 0 => space[s].pte[p] \in space[s].leaves
      /\ \A p, q \in Page :
           space[s].pte[p] # 0 /\ space[s].pte[p] = space[s].pte[q] => p = q

\* An operation holds the lock of its address space until it is done, or
\* keeps the slot from being used again.
Working(c) ==
    LET o == vm_op[c] IN
    /\ (o.pc \in Locked /\ o.s # 0) => space[o.s].lock = c /\ space[o.s].root # 0
    /\ o.pc \in Releasing =>
         o.s # 0 /\ space[o.s].root = 0 /\ space[o.s].destroy_pending
    /\ o.pc = "idle" => o.s = 0
    /\ o.s = 0 => o.pc \in Telling \cup {"idle", "finish"} /\ o.frame = 0
    /\ o.pc \in Mapping \cup {"unmap"} => o.page \in Page
    /\ o.pc \in Mapping => o.frame # 0
    /\ o.pc = "wait" => /\ shootdown.lock = c /\ shootdown.active
                        /\ shootdown.pending = o.targets
                        /\ shootdown.space = o.s
Operations == \A c \in Cpu : Working(c)

\* One operation at a time on an address space.
Alone ==
    \A c, d \in Cpu : vm_op[c].s # 0 /\ vm_op[c].s = vm_op[d].s => c = d

\* A processor caches translations of its own root only, and one that the
\* page table no longer holds is about to be dropped: the operation that took
\* it away still waits for this processor.
Dropping(x, c, e) ==
    /\ vm_op[x].pc \in Telling /\ vm_op[x].s = e[1] /\ vm_op[x].frame = e[3]
    /\ c \in vm_op[x].targets
    /\ vm_op[x].pc = "wait" => c \notin shootdown.acked
Cached ==
    \A c \in Cpu : \A e \in tlb[c] :
      /\ e[1] = current_pml4[c]
      /\ space[e[1]].pte[e[2]] = e[3] \/ \E x \in Cpu : Dropping(x, c, e)

SpaceInv ==
    /\ SpaceTypes /\ Tables /\ Operations /\ Alone /\ Cached /\ ActiveRootLives

-----------------------------------------------------------------------------
(* Facts about the constants and the least element.                        *)

LEMMA Constant ==
    /\ 0 \notin Slot /\ Slot \subseteq Nat /\ NoCpu \notin Cpu
    /\ 0 \notin SpaceFrame /\ SpaceFrame \subseteq Nat
BY SpaceAssumption DEF SpaceFrame

\* What the bitmap scan and the search of the metadata table return.
LEMMA MinIn ==
    ASSUME NEW S \in SUBSET Nat, S # {}
    PROVE  Min(S) \in S
BY NatMin, ZenonT(30) DEF Min

\* The components of a cached translation.
LEMMA Triple ==
    ASSUME NEW e \in Slot \X Page \X SpaceFrame
    PROVE  e[1] \in Slot /\ e[2] \in Page /\ e[3] \in SpaceFrame
OBVIOUS

LEMMA SpaceInvInit == SpaceInit => SpaceInv
<1> SUFFICES ASSUME SpaceInit PROVE SpaceInv
  OBVIOUS
<1>1. NoMetadata \in Metadata
  BY DEF NoMetadata, Metadata
<1>2. NoOperation \in Operation
  BY DEF NoOperation, Operation, Locked, Mapping, Telling, Releasing
<1>3. SpaceTypes
  BY <1>1, <1>2 DEF SpaceInit, SpaceTypes
<1>4. Tables
  BY DEF SpaceInit, Tables, NoMetadata
<1>5. Operations /\ Alone
  BY DEF SpaceInit, Operations, Working, Alone, NoOperation, Locked, Mapping, Telling, Releasing
<1>6. Cached
  BY DEF SpaceInit, Cached
<1>7. ActiveRootLives
  BY Constant DEF SpaceInit, ActiveRootLives, NoMetadata
<1> QED BY <1>3, <1>4, <1>5, <1>6, <1>7 DEF SpaceInv

-----------------------------------------------------------------------------
(* What the invariant is for.                                              *)

LEMMA SpaceInvTypes == SpaceInv => SpaceTypeOK
BY DEF SpaceInv, SpaceTypes, SpaceTypeOK, Metadata

LEMMA SpaceInvStale == SpaceInv => NoStaleTranslation
<1> SUFFICES ASSUME SpaceInv, NEW c \in Cpu, NEW e \in tlb[c]
             PROVE  \/ e[3] \in space[e[1]].leaves
                    \/ \E d \in Cpu : /\ vm_op[d].pc \in {"shootdown", "wait", "finish"}
                                      /\ vm_op[d].s = e[1] /\ vm_op[d].frame = e[3]
  BY DEF NoStaleTranslation
<1>1. e[1] \in Slot /\ e[2] \in Page /\ e[3] \in SpaceFrame
  BY Triple DEF SpaceInv, SpaceTypes
<1>2. space[e[1]].pte[e[2]] = e[3] => e[3] \in space[e[1]].leaves
  <2>1. \A s \in Slot, p \in Page :
          space[s].pte[p] # 0 => space[s].pte[p] \in space[s].leaves
    BY DEF SpaceInv, Tables
  <2> QED BY <1>1, <2>1, Constant, ZenonT(30)
<1> QED BY <1>2 DEF SpaceInv, Cached, Dropping, Telling

LEMMA SpaceInvRoots == SpaceInv => ActiveRootLives
BY DEF SpaceInv

-----------------------------------------------------------------------------
(* The steps that change no translation: they take or give back a lock,    *)
(* move frames, or move an operation on that has nothing to tell.          *)

\* What such a step leaves alone.
Quiet(c) ==
    /\ \A t \in Slot : /\ space'[t].root = space[t].root
                       /\ space'[t].leaves = space[t].leaves
                       /\ space'[t].pte = space[t].pte
                       /\ space'[t].mask = space[t].mask
    /\ tlb' = tlb /\ current_pml4' = current_pml4 /\ shootdown' = shootdown
    /\ \A x \in Cpu : x # c => vm_op'[x] = vm_op[x]

LEMMA QuietTables ==
    ASSUME SpaceInv, NEW c \in Cpu, Quiet(c),
           \A t \in Slot : space[t].root = 0 => space'[t].lock = NoCpu
    PROVE  Tables'
BY DEF SpaceInv, Tables, Quiet

LEMMA QuietCached ==
    ASSUME SpaceInv, NEW c \in Cpu, Quiet(c), vm_op[c].pc \notin Telling
    PROVE  Cached'
<1> SUFFICES ASSUME NEW d \in Cpu, NEW e \in tlb[d]
             PROVE  /\ e[1] = current_pml4[d]
                    /\ \/ space'[e[1]].pte[e[2]] = e[3]
                       \/ \E x \in Cpu : Dropping(x, d, e)'
  BY DEF Cached, Quiet
<1>1. e[1] \in Slot
  BY Triple DEF SpaceInv, SpaceTypes
<1>2. \A x \in Cpu : Dropping(x, d, e) => Dropping(x, d, e)'
  BY DEF Quiet, Dropping
<1> QED BY <1>1, <1>2 DEF SpaceInv, Cached, Quiet

LEMMA QuietRoots ==
    ASSUME SpaceInv, NEW c \in Cpu, Quiet(c)
    PROVE  ActiveRootLives'
BY DEF SpaceInv, ActiveRootLives, Quiet

\* An operation of another processor goes on when its slot keeps the lock.
LEMMA OthersWork ==
    ASSUME SpaceInv, NEW x \in Cpu, vm_op'[x] = vm_op[x],
           vm_op[x].s # 0 =>
             /\ space'[vm_op[x].s].root = space[vm_op[x].s].root
             /\ space'[vm_op[x].s].lock = space[vm_op[x].s].lock
             /\ space[vm_op[x].s].destroy_pending
                  => space'[vm_op[x].s].destroy_pending,
           vm_op[x].pc = "wait" =>
             /\ shootdown'.lock = shootdown.lock
             /\ shootdown'.active = shootdown.active
             /\ shootdown'.pending = shootdown.pending
             /\ shootdown'.space = shootdown.space
    PROVE  Working(x)'
<1>1. Working(x)
  BY DEF SpaceInv, Operations
<1> QED BY <1>1, Constant DEF Working, Locked, Mapping, Telling, Releasing

\* Nobody operates on a slot in use whose operation_lock is free.
LEMMA FreeSlot ==
    ASSUME SpaceInv, NEW s \in Slot, space[s].root # 0, space[s].lock = NoCpu,
           NEW x \in Cpu
    PROVE  vm_op[x].s # s
<1>1. Working(x) /\ vm_op[x].pc \in Locked \cup Releasing \cup {"idle"}
  BY DEF SpaceInv, Operations, SpaceTypes, Operation
<1> QED BY <1>1, Constant DEF Working

\* A quiet step keeps the invariant when it leaves the slots of the others
\* alone and its own operation is where it says it is.
LEMMA QuietStep ==
    ASSUME SpaceInv, NEW c \in Cpu, SpaceTypes', Quiet(c), Working(c)',
           vm_op[c].pc \notin Telling,
           \A t \in Slot : t # vm_op[c].s /\ t # vm_op'[c].s => space'[t] = space[t],
           \A x \in Cpu : x # c /\ vm_op'[c].s # 0 => vm_op[x].s # vm_op'[c].s,
           \A t \in Slot : space[t].root = 0 => space'[t].lock = NoCpu
    PROVE  SpaceInv'
<1>1. Tables' /\ Cached' /\ ActiveRootLives'
  BY QuietTables, QuietCached, QuietRoots
<1>2. \A x \in Cpu : x # c => vm_op'[x] = vm_op[x]
  BY DEF Quiet
<1>3. Operations'
  <2>1. ASSUME NEW x \in Cpu, x # c PROVE Working(x)'
    <3>1. vm_op[x].s \in Slot \cup {0}
      BY DEF SpaceInv, SpaceTypes, Operation
    <3>2. vm_op[x].s # 0 => space'[vm_op[x].s] = space[vm_op[x].s]
      BY <2>1, <3>1 DEF SpaceInv, Alone
    <3> QED BY <1>2, <2>1, <3>2, OthersWork DEF Quiet
  <2> QED BY <2>1 DEF Operations
<1>4. Alone'
  BY <1>2 DEF SpaceInv, Alone
<1> QED BY <1>1, <1>3, <1>4 DEF SpaceInv

\* A step that takes a lock for a new operation, or gives one back.
LEMMA LockTyped ==
    ASSUME SpaceInv, NEW s \in Slot, NEW d \in Cpu \cup {NoCpu}
    PROVE  /\ [space EXCEPT ![s].lock = d] \in [Slot -> Metadata]
           /\ \A t \in Slot \ {s} : [space EXCEPT ![s].lock = d][t] = space[t]
           /\ [space EXCEPT ![s].lock = d][s] = [space[s] EXCEPT !.lock = d]
<1>1. space \in [Slot -> Metadata]
  BY DEF SpaceInv, SpaceTypes
<1>2. [space[s] EXCEPT !.lock = d] \in Metadata
  BY <1>1 DEF Metadata
<1> QED BY <1>1, <1>2

LEMMA OpTyped ==
    ASSUME SpaceInv, NEW c \in Cpu, NEW o \in Operation, vm_op' = [vm_op EXCEPT ![c] = o]
    PROVE  /\ vm_op' \in [Cpu -> Operation] /\ vm_op'[c] = o
           /\ \A x \in Cpu : x # c => vm_op'[x] = vm_op[x]
BY DEF SpaceInv, SpaceTypes

\* An operation that ends.
LEMMA DoneTyped ==
    ASSUME SpaceInv, NEW c \in Cpu, SpaceDone(c)
    PROVE  /\ vm_op' \in [Cpu -> Operation] /\ Working(c)'
           /\ vm_op'[c].s = 0 /\ vm_op'[c].pc = "idle"
           /\ \A x \in Cpu : x # c => vm_op'[x] = vm_op[x]
<1>1. NoOperation \in Operation
  BY DEF NoOperation, Operation, Locked, Mapping, Telling, Releasing
<1>2. /\ vm_op' \in [Cpu -> Operation] /\ vm_op'[c] = NoOperation
      /\ \A x \in Cpu : x # c => vm_op'[x] = vm_op[x]
  BY <1>1, OpTyped, ZenonT(30) DEF SpaceDone
<1> QED BY <1>2 DEF NoOperation, Working, Locked, Mapping, Telling, Releasing

\* An operation that moves on to another step.
LEMMA GotoTyped ==
    ASSUME SpaceInv, NEW c \in Cpu,
           NEW l \in Locked \cup Releasing \cup {"idle"}, SpaceGoto(c, l)
    PROVE  /\ vm_op' \in [Cpu -> Operation] /\ vm_op'[c] \in Operation
           /\ vm_op'[c].pc = l
           /\ vm_op'[c].s = vm_op[c].s /\ vm_op'[c].page = vm_op[c].page
           /\ vm_op'[c].frame = vm_op[c].frame
           /\ vm_op'[c].targets = vm_op[c].targets
           /\ vm_op'[c].reserved = vm_op[c].reserved
           /\ \A x \in Cpu : x # c => vm_op'[x] = vm_op[x]
<1>1. vm_op[c] \in Operation
  BY DEF SpaceInv, SpaceTypes
<1>2. [vm_op[c] EXCEPT !.pc = l] \in Operation
  BY <1>1 DEF Operation
<1>3. vm_op' = [vm_op EXCEPT ![c] = [vm_op[c] EXCEPT !.pc = l]]
  BY DEF SpaceInv, SpaceTypes, SpaceGoto
<1>4. /\ vm_op' \in [Cpu -> Operation] /\ vm_op'[c] = [vm_op[c] EXCEPT !.pc = l]
      /\ \A x \in Cpu : x # c => vm_op'[x] = vm_op[x]
  BY <1>2, <1>3, OpTyped, ZenonT(30)
<1> QED BY <1>1, <1>2, <1>4 DEF Operation

\* A lock that is taken for a new operation on a slot in use.
LEMMA Begins ==
    ASSUME SpaceInv, NEW c \in Cpu, NEW s \in Slot, NEW o \in Operation,
           vm_op[c].pc = "idle", space[s].root # 0, space[s].lock = NoCpu,
           space' = [space EXCEPT ![s].lock = c], vm_op' = [vm_op EXCEPT ![c] = o],
           space_frames' \in SUBSET SpaceFrame,
           UNCHANGED <<current_pml4, tlb, shootdown, ipi>>,
           o.s = s, o.pc \in {"reserve", "unmap", "destroy"},
           o.pc # "destroy" => o.page \in Page, o.pc = "reserve" => o.frame # 0
    PROVE  SpaceInv'
<1>1. /\ space' \in [Slot -> Metadata]
      /\ \A t \in Slot : t # s => space'[t] = space[t]
      /\ space'[s] = [space[s] EXCEPT !.lock = c]
  BY LockTyped
<1>2. /\ vm_op' \in [Cpu -> Operation] /\ vm_op'[c] = o
      /\ \A x \in Cpu : x # c => vm_op'[x] = vm_op[x]
  BY OpTyped, ZenonT(30)
<1>3. SpaceTypes'
  BY <1>1, <1>2 DEF SpaceInv, SpaceTypes
<1>4. Quiet(c)
  BY <1>1, <1>2 DEF Quiet, SpaceInv, SpaceTypes, Metadata
<1>5. \A x \in Cpu : vm_op[x].s # s
  BY FreeSlot
<1>6. space'[s].lock = c /\ space'[s].root # 0
  BY <1>1 DEF SpaceInv, SpaceTypes, Metadata
<1>7. Working(c)'
  BY <1>2, <1>6, Constant DEF Working, Locked, Mapping, Telling, Releasing
<1>8. \A t \in Slot : space[t].root = 0 => space'[t].lock = NoCpu
  BY <1>1 DEF SpaceInv, Tables
<1> QED BY <1>1, <1>2, <1>3, <1>4, <1>5, <1>7, <1>8, QuietStep DEF Telling

LEMMA MapBegin ==
    ASSUME SpaceInv, NEW c \in Cpu, NEW s \in Slot, NEW p \in Page,
           vmm_map_begin(c, s, p)
    PROVE  SpaceInv'
<1> DEFINE o == [NoOperation EXCEPT !.pc = "reserve", !.s = s, !.page = p,
                                    !.frame = Min(space_frames)]
<1>1. Min(space_frames) \in SpaceFrame
  BY MinIn, Constant DEF vmm_map_begin, SpaceInv, SpaceTypes
<1>2. o \in Operation /\ o.s = s /\ o.pc = "reserve" /\ o.page = p /\ o.frame # 0
  BY <1>1, Constant, ZenonT(30) DEF NoOperation, Operation, Locked, Mapping
<1>3. /\ space[s].root # 0 /\ space[s].lock = NoCpu /\ vm_op[c].pc = "idle"
      /\ space' = [space EXCEPT ![s].lock = c] /\ vm_op' = [vm_op EXCEPT ![c] = o]
      /\ UNCHANGED <<current_pml4, tlb, shootdown, ipi>>
  BY DEF vmm_map_begin, SpaceUsable, SpaceLive, operation_unlocked, SpaceIdle
<1>4. space_frames' \in SUBSET SpaceFrame
  BY DEF vmm_map_begin, SpaceInv, SpaceTypes
<1> HIDE DEF o
<1> QED BY <1>2, <1>3, <1>4, Begins, ZenonT(30)

LEMMA UnmapBegin ==
    ASSUME SpaceInv, NEW c \in Cpu, NEW s \in Slot, NEW p \in Page,
           vmm_unmap_begin(c, s, p)
    PROVE  SpaceInv'
<1> DEFINE o == [NoOperation EXCEPT !.pc = "unmap", !.s = s, !.page = p]
<1>2. o \in Operation /\ o.s = s /\ o.pc = "unmap" /\ o.page = p
  BY ZenonT(30) DEF NoOperation, Operation, Locked, Mapping
<1>3. /\ space[s].root # 0 /\ space[s].lock = NoCpu /\ vm_op[c].pc = "idle"
      /\ space' = [space EXCEPT ![s].lock = c] /\ vm_op' = [vm_op EXCEPT ![c] = o]
      /\ UNCHANGED <<current_pml4, tlb, shootdown, ipi>>
  BY DEF vmm_unmap_begin, SpaceUsable, SpaceLive, operation_unlocked, SpaceIdle
<1>4. space_frames' \in SUBSET SpaceFrame
  BY DEF vmm_unmap_begin, SpaceInv, SpaceTypes
<1> HIDE DEF o
<1> QED BY <1>2, <1>3, <1>4, Begins, ZenonT(30)

LEMMA DestroyBegin ==
    ASSUME SpaceInv, NEW c \in Cpu, NEW s \in Slot, vmm_destroy_begin(c, s)
    PROVE  SpaceInv'
<1> DEFINE o == [NoOperation EXCEPT !.pc = "destroy", !.s = s]
<1>2. o \in Operation /\ o.s = s /\ o.pc = "destroy"
  BY ZenonT(30) DEF NoOperation, Operation, Locked, Mapping
<1>3. /\ space[s].root # 0 /\ space[s].lock = NoCpu /\ vm_op[c].pc = "idle"
      /\ space' = [space EXCEPT ![s].lock = c] /\ vm_op' = [vm_op EXCEPT ![c] = o]
      /\ UNCHANGED <<current_pml4, tlb, shootdown, ipi>>
  BY DEF vmm_destroy_begin, SpaceLive, operation_unlocked, SpaceIdle
<1>4. space_frames' \in SUBSET SpaceFrame
  BY DEF vmm_destroy_begin, SpaceInv, SpaceTypes
<1> HIDE DEF o
<1> QED BY <1>2, <1>3, <1>4, Begins, ZenonT(30)

LEMMA MapReserve ==
    ASSUME SpaceInv, NEW c \in Cpu, vmm_map_reserve(c)
    PROVE  SpaceInv'
<1>1. /\ vm_op[c].pc = "reserve" /\ vm_op[c] \in Operation /\ Working(c)
      /\ UNCHANGED <<space, current_pml4, tlb, shootdown, ipi>>
  BY DEF vmm_map_reserve, SpaceInv, SpaceTypes, Operations
<1>2. /\ vm_op' \in [Cpu -> Operation] /\ vm_op'[c] \in Operation
      /\ vm_op'[c].pc \in Mapping
      /\ vm_op'[c].s = vm_op[c].s /\ vm_op'[c].page = vm_op[c].page
      /\ vm_op'[c].frame = vm_op[c].frame
      /\ \A x \in Cpu : x # c => vm_op'[x] = vm_op[x]
      /\ space_frames' \in SUBSET SpaceFrame
  <2>1. CASE space_frames = {}
    <3>1. SpaceGoto(c, "reserve_failure") /\ space_frames' = space_frames
      BY <2>1 DEF vmm_map_reserve
    <3>2. "reserve_failure" \in Locked \cup Releasing \cup {"idle"}
      BY DEF Locked, Mapping
    <3> QED BY <3>1, <3>2, GotoTyped DEF Mapping, SpaceInv, SpaceTypes
  <2>2. CASE space_frames # {}
    <3> DEFINE l == IF Cardinality(vm_op[c].reserved) + 1 = TableLevels
                    THEN "insert" ELSE "reserve"
               o == [vm_op[c] EXCEPT !.reserved = @ \cup {Min(space_frames)}, !.pc = l]
    <3>1. Min(space_frames) \in SpaceFrame
      BY <2>2, MinIn, Constant, ZenonT(30) DEF SpaceInv, SpaceTypes
    <3>2. vm_op' = [vm_op EXCEPT ![c] = o]
      BY <2>2, ZenonT(30) DEF vmm_map_reserve, SpaceInv, SpaceTypes
    <3>3. l \in {"insert", "reserve"}
      OBVIOUS
    <3> HIDE DEF l
    <3>4. /\ o \in Operation /\ o.pc \in Mapping /\ o.s = vm_op[c].s
          /\ o.page = vm_op[c].page /\ o.frame = vm_op[c].frame
      BY <1>1, <3>1, <3>3, ZenonT(30) DEF Operation, Locked, Mapping
    <3> HIDE DEF o
    <3>5. space_frames' \in SUBSET SpaceFrame
      BY <2>2 DEF vmm_map_reserve, SpaceInv, SpaceTypes
    <3>6. /\ vm_op' \in [Cpu -> Operation] /\ vm_op'[c] = o
          /\ \A x \in Cpu : x # c => vm_op'[x] = vm_op[x]
      BY <3>2, <3>4, OpTyped, ZenonT(30)
    <3> QED BY <3>4, <3>5, <3>6
  <2> QED BY <2>1, <2>2
<1>3. SpaceTypes'
  BY <1>1, <1>2 DEF SpaceInv, SpaceTypes
<1>4. Quiet(c)
  BY <1>1, <1>2 DEF Quiet
<1>5. Working(c)'
  BY <1>1, <1>2, Constant DEF Working, Locked, Mapping, Telling, Releasing, Operation
<1>6. \A x \in Cpu : x # c /\ vm_op'[c].s # 0 => vm_op[x].s # vm_op'[c].s
  BY <1>2 DEF SpaceInv, Alone
<1>7. \A t \in Slot : space[t].root = 0 => space'[t].lock = NoCpu
  BY <1>1 DEF SpaceInv, Tables
<1> QED BY <1>1, <1>3, <1>4, <1>5, <1>6, <1>7, QuietStep DEF Telling

\* An operation that ends and gives back the lock of its address space.
LEMMA Ends ==
    ASSUME SpaceInv, NEW c \in Cpu, vm_op[c].pc \notin Telling, SpaceDone(c),
           vm_op[c].s = 0 => space' = space,
           vm_op[c].s # 0 => space' = [space EXCEPT ![vm_op[c].s].lock = NoCpu],
           space_frames' \in SUBSET SpaceFrame,
           UNCHANGED <<current_pml4, tlb, shootdown, ipi>>
    PROVE  SpaceInv'
<1>1. /\ vm_op' \in [Cpu -> Operation] /\ Working(c)' /\ vm_op'[c].s = 0
      /\ \A x \in Cpu : x # c => vm_op'[x] = vm_op[x]
  BY DoneTyped
<1>2. vm_op[c].s \in Slot \cup {0}
  BY DEF SpaceInv, SpaceTypes, Operation
<1>3. /\ space' \in [Slot -> Metadata]
      /\ \A t \in Slot : t # vm_op[c].s => space'[t] = space[t]
      /\ vm_op[c].s # 0 =>
           space'[vm_op[c].s] = [space[vm_op[c].s] EXCEPT !.lock = NoCpu]
  <2>1. CASE vm_op[c].s = 0
    BY <2>1 DEF SpaceInv, SpaceTypes
  <2>2. CASE vm_op[c].s # 0
    <3>1. \A s \in Slot : space' = [space EXCEPT ![s].lock = NoCpu] =>
            /\ space' \in [Slot -> Metadata]
            /\ \A t \in Slot : t # s => space'[t] = space[t]
            /\ space'[s] = [space[s] EXCEPT !.lock = NoCpu]
      BY LockTyped
    <3> QED BY <1>2, <2>2, <3>1
  <2> QED BY <2>1, <2>2
<1>4. SpaceTypes'
  BY <1>1, <1>3 DEF SpaceInv, SpaceTypes
<1>5. /\ Quiet(c)
      /\ vm_op[c].s # 0 => space'[vm_op[c].s].lock = NoCpu
  BY <1>1, <1>2, <1>3 DEF Quiet, SpaceInv, SpaceTypes, Metadata
<1>6. \A t \in Slot : space[t].root = 0 => space'[t].lock = NoCpu
  BY <1>2, <1>3, <1>5, Constant DEF SpaceInv, Tables
<1> QED BY <1>1, <1>3, <1>4, <1>5, <1>6, QuietStep

LEMMA MapReserveFailure ==
    ASSUME SpaceInv, NEW c \in Cpu, vmm_map_reserve_failure(c)
    PROVE  SpaceInv'
<1>1. /\ vm_op[c].pc = "reserve_failure" /\ vm_op[c] \in Operation /\ Working(c)
      /\ SpaceDone(c) /\ UNCHANGED <<current_pml4, tlb, shootdown, ipi>>
      /\ space' = [space EXCEPT ![vm_op[c].s].lock = NoCpu]
  BY DEF vmm_map_reserve_failure, SpaceInv, SpaceTypes, Operations
<1>2. vm_op[c].s # 0 /\ vm_op[c].frame \in SpaceFrame
  BY <1>1 DEF Working, Operation, Mapping, Telling
<1>3. space_frames' \in SUBSET SpaceFrame
  BY <1>1, <1>2 DEF vmm_map_reserve_failure, Unreserved, SpaceInv, SpaceTypes, Operation
<1> QED BY <1>1, <1>2, <1>3, Ends, ZenonT(30) DEF Telling

LEMMA OperationFinish ==
    ASSUME SpaceInv, NEW c \in Cpu, vmm_operation_finish(c)
    PROVE  SpaceInv'
<1>1. /\ vm_op[c].pc = "finish" /\ vm_op[c] \in Operation
      /\ SpaceDone(c) /\ UNCHANGED <<current_pml4, tlb, shootdown, ipi>>
      /\ vm_op[c].s = 0 => space' = space
      /\ vm_op[c].s # 0 => space' = [space EXCEPT ![vm_op[c].s].lock = NoCpu]
  BY DEF vmm_operation_finish, SpaceInv, SpaceTypes
<1>2. space_frames' \in SUBSET SpaceFrame
  BY <1>1 DEF vmm_operation_finish, SpaceInv, SpaceTypes, Operation
<1> QED BY <1>1, <1>2, Ends DEF Telling

LEMMA PublishKernel ==
    ASSUME SpaceInv, NEW c \in Cpu, vmm_publish_kernel_mappings(c)
    PROVE  SpaceInv'
<1> DEFINE o == [NoOperation EXCEPT !.pc = "shootdown", !.targets = Cpu \ {c}]
<1>1. o \in Operation /\ o.s = 0 /\ o.pc = "shootdown" /\ o.frame = 0
  BY ZenonT(30) DEF NoOperation, Operation, Locked, Telling
<1>2. /\ vm_op[c].pc = "idle" /\ vm_op' = [vm_op EXCEPT ![c] = o]
      /\ UNCHANGED <<space, space_frames, current_pml4, tlb, shootdown, ipi>>
  BY DEF vmm_publish_kernel_mappings, SpaceIdle
<1> HIDE DEF o
<1>3. /\ vm_op' \in [Cpu -> Operation] /\ vm_op'[c] = o
      /\ \A x \in Cpu : x # c => vm_op'[x] = vm_op[x]
  BY <1>1, <1>2, OpTyped, ZenonT(30)
<1>4. SpaceTypes'
  BY <1>2, <1>3 DEF SpaceInv, SpaceTypes
<1>5. Quiet(c)
  BY <1>2, <1>3 DEF Quiet
<1>6. Working(c)'
  BY <1>1, <1>3 DEF Working, Locked, Mapping, Telling, Releasing
<1>7. \A t \in Slot : space[t].root = 0 => space'[t].lock = NoCpu
  BY <1>2 DEF SpaceInv, Tables
<1> QED BY <1>1, <1>2, <1>3, <1>4, <1>5, <1>6, <1>7, QuietStep DEF Telling

LEMMA DestroyRelease ==
    ASSUME SpaceInv, NEW c \in Cpu, vmm_destroy_release(c)
    PROVE  SpaceInv'
<1> DEFINE o == [vm_op[c] EXCEPT !.pc = "released", !.reserved = {}]
<1>1. /\ vm_op[c].pc = "release" /\ vm_op[c] \in Operation /\ Working(c)
      /\ UNCHANGED <<space, current_pml4, tlb, shootdown, ipi>>
  BY DEF vmm_destroy_release, SpaceInv, SpaceTypes, Operations
<1>2. space_frames' \in SUBSET SpaceFrame
  BY <1>1 DEF vmm_destroy_release, SpaceInv, SpaceTypes, Operation
<1>3. o \in Operation /\ o.s = vm_op[c].s /\ o.pc = "released"
  BY <1>1, ZenonT(30) DEF Operation, Releasing
<1>4. vm_op' = [vm_op EXCEPT ![c] = o]
  BY ZenonT(30) DEF vmm_destroy_release, SpaceInv, SpaceTypes
<1> HIDE DEF o
<1>5. /\ vm_op' \in [Cpu -> Operation] /\ vm_op'[c] = o
      /\ \A x \in Cpu : x # c => vm_op'[x] = vm_op[x]
  BY <1>3, <1>4, OpTyped, ZenonT(30)
<1>6. SpaceTypes'
  BY <1>1, <1>2, <1>5 DEF SpaceInv, SpaceTypes
<1>7. Quiet(c)
  BY <1>1, <1>5 DEF Quiet
<1>8. Working(c)'
  BY <1>1, <1>3, <1>5 DEF Working, Locked, Mapping, Telling, Releasing
<1>9. \A x \in Cpu : x # c /\ vm_op'[c].s # 0 => vm_op[x].s # vm_op'[c].s
  BY <1>3, <1>5 DEF SpaceInv, Alone
<1>10. \A t \in Slot : space[t].root = 0 => space'[t].lock = NoCpu
  BY <1>1 DEF SpaceInv, Tables
<1> QED BY <1>1, <1>6, <1>7, <1>8, <1>9, <1>10, QuietStep DEF Telling

LEMMA DestroyEnd ==
    ASSUME SpaceInv, NEW c \in Cpu, vmm_destroy_end(c)
    PROVE  SpaceInv'
<1> DEFINE s == vm_op[c].s
<1>1. /\ vm_op[c].pc = "released" /\ vm_op[c] \in Operation /\ Working(c) /\ SpaceDone(c)
      /\ UNCHANGED <<space_frames, current_pml4, tlb, shootdown, ipi>>
      /\ space' = [space EXCEPT ![s].destroy_pending = FALSE]
      /\ space \in [Slot -> Metadata]
  BY DEF vmm_destroy_end, SpaceInv, SpaceTypes, Operations
<1>2. s \in Slot
  BY <1>1 DEF Working, Operation, Releasing
<1>3. /\ vm_op' \in [Cpu -> Operation] /\ Working(c)' /\ vm_op'[c].s = 0
      /\ \A x \in Cpu : x # c => vm_op'[x] = vm_op[x]
  BY <1>1, DoneTyped
<1> HIDE DEF s
<1>4. [space[s] EXCEPT !.destroy_pending = FALSE] \in Metadata
  BY <1>1, <1>2, ZenonT(30) DEF Metadata
<1>5. /\ space' \in [Slot -> Metadata]
      /\ \A t \in Slot : t # s => space'[t] = space[t]
      /\ space'[s] = [space[s] EXCEPT !.destroy_pending = FALSE]
  BY <1>1, <1>2, <1>4
<1>6. SpaceTypes'
  BY <1>1, <1>3, <1>5 DEF SpaceInv, SpaceTypes
<1>7. Quiet(c) /\ space'[s].lock = space[s].lock
  BY <1>1, <1>2, <1>3, <1>5 DEF Quiet, Metadata
<1>8. \A t \in Slot : space[t].root = 0 => space'[t].lock = NoCpu
  BY <1>5, <1>7, ZenonT(30) DEF SpaceInv, Tables
<1> QED BY <1>1, <1>3, <1>5, <1>6, <1>7, <1>8, QuietStep DEF Telling, s

-----------------------------------------------------------------------------
(* The steps of the shootdown protocol and of the processor's own walk.    *)

\* A step that changes neither the tables nor the operations nor the
\* shootdown that is under way.
LEMMA TablesRest ==
    ASSUME SpaceInv, UNCHANGED <<space, current_pml4, vm_op>>,
           /\ shootdown'.lock = shootdown.lock
           /\ shootdown'.active = shootdown.active
           /\ shootdown'.pending = shootdown.pending
           /\ shootdown'.space = shootdown.space
    PROVE  Tables' /\ Operations' /\ Alone' /\ ActiveRootLives'
<1>1. Tables' /\ Alone' /\ ActiveRootLives'
  BY DEF SpaceInv, Tables, Alone, ActiveRootLives
<1>2. Operations'
  <2>1. ASSUME NEW x \in Cpu PROVE Working(x)'
    BY OthersWork
  <2> QED BY <2>1 DEF Operations
<1> QED BY <1>1, <1>2

LEMMA Fill ==
    ASSUME SpaceInv, NEW c \in Cpu, NEW p \in Page, TlbFill(c, p)
    PROVE  SpaceInv'
<1> DEFINE s == current_pml4[c]
           n == <<s, p, space[s].pte[p]>>
<1>1. /\ s \in Slot /\ space[s].pte[p] \in SpaceFrame
      /\ tlb' = [tlb EXCEPT ![c] = @ \cup {n}]
      /\ UNCHANGED <<space, space_frames, current_pml4, shootdown, ipi, vm_op>>
  BY DEF TlbFill, SpaceInv, SpaceTypes, Metadata
<1>2. n \in Slot \X Page \X SpaceFrame /\ n[1] = s /\ n[2] = p /\ n[3] = space[s].pte[p]
  BY <1>1
<1> HIDE DEF n
<1>3. SpaceTypes'
  BY <1>1, <1>2 DEF SpaceInv, SpaceTypes
<1>4. Cached'
  <2> SUFFICES ASSUME NEW d \in Cpu, NEW e \in tlb'[d]
               PROVE  /\ e[1] = current_pml4[d]
                      /\ \/ space[e[1]].pte[e[2]] = e[3]
                         \/ \E x \in Cpu : Dropping(x, d, e)
    BY <1>1 DEF Cached, Dropping
  <2>1. e \in tlb[d] \/ (d = c /\ e = n)
    BY <1>1 DEF SpaceInv, SpaceTypes
  <2> QED BY <1>2, <2>1 DEF SpaceInv, Cached
<1> QED BY <1>1, <1>3, <1>4, TablesRest DEF SpaceInv

LEMMA Handler ==
    ASSUME SpaceInv, NEW c \in Cpu, vmm_tlb_shootdown_handler(c)
    PROVE  SpaceInv'
<1> DEFINE wanted == shootdown.active /\ c \in shootdown.pending
           reload == wanted /\ shootdown.space \in {0, current_pml4[c]}
<1>1. /\ UNCHANGED <<space, space_frames, current_pml4, vm_op>>
      /\ ipi' = ipi \ {c}
      /\ tlb' = IF reload THEN [tlb EXCEPT ![c] = {}] ELSE tlb
      /\ shootdown' = IF wanted THEN [shootdown EXCEPT !.acked = @ \cup {c}] ELSE shootdown
  BY DEF vmm_tlb_shootdown_handler
<1>2. /\ tlb' \in [Cpu -> SUBSET (Slot \X Page \X SpaceFrame)]
      /\ \A d \in Cpu : d # c => tlb'[d] = tlb[d]
      /\ tlb'[c] \subseteq tlb[c] /\ (reload => tlb'[c] = {})
  BY <1>1 DEF SpaceInv, SpaceTypes
<1>3. /\ shootdown' \in [lock : Cpu \cup {NoCpu}, active : BOOLEAN,
                         pending : SUBSET Cpu, acked : SUBSET Cpu,
                         space : Slot \cup {0}]
      /\ shootdown'.lock = shootdown.lock /\ shootdown'.active = shootdown.active
      /\ shootdown'.pending = shootdown.pending /\ shootdown'.space = shootdown.space
      /\ shootdown'.acked \subseteq shootdown.acked \cup {c}
      /\ shootdown'.acked \subseteq shootdown'.pending
      /\ ~wanted => shootdown'.acked = shootdown.acked
  BY <1>1 DEF SpaceInv, SpaceTypes
<1>4. SpaceTypes'
  BY <1>1, <1>2, <1>3 DEF SpaceInv, SpaceTypes
<1>5. Cached'
  <2> SUFFICES ASSUME NEW d \in Cpu, NEW e \in tlb'[d]
               PROVE  /\ e[1] = current_pml4[d]
                      /\ \/ space[e[1]].pte[e[2]] = e[3]
                         \/ \E x \in Cpu : Dropping(x, d, e)'
    BY <1>1 DEF Cached
  <2>1. e \in tlb[d] /\ (d = c => ~reload)
    BY <1>2
  <2>2. /\ e[1] = current_pml4[d]
        /\ space[e[1]].pte[e[2]] = e[3] \/ \E x \in Cpu : Dropping(x, d, e)
    BY <2>1 DEF SpaceInv, Cached
  <2>3. ASSUME NEW x \in Cpu, Dropping(x, d, e) PROVE Dropping(x, d, e)'
    <3>1. CASE d # c
      BY <1>1, <1>3, <2>3, <3>1 DEF Dropping
    <3>2. CASE d = c /\ vm_op[x].pc = "wait"
      <4>1. Working(x)
        BY DEF SpaceInv, Operations
      <4>2. ~wanted
        BY <2>1, <2>2, <2>3, <3>2, <4>1 DEF Working, Dropping
      <4> QED BY <1>1, <1>3, <2>3, <4>2 DEF Dropping
    <3>3. CASE vm_op[x].pc # "wait"
      BY <1>1, <2>3, <3>3 DEF Dropping
    <3> QED BY <3>1, <3>2, <3>3
  <2> QED BY <2>2, <2>3
<1> QED BY <1>1, <1>3, <1>4, <1>5, TablesRest DEF SpaceInv

\* vmm_shootdown_lock: only its owner waits for acknowledgements.
LEMMA OneWaits ==
    ASSUME SpaceInv, NEW x \in Cpu, vm_op[x].pc = "wait"
    PROVE  shootdown.lock = x
BY DEF SpaceInv, Operations, Working

\* What the two steps of vmm_tlb_shootdown() do not touch.
LEMMA TellingRest ==
    ASSUME SpaceInv, NEW c \in Cpu, UNCHANGED <<space, current_pml4>>,
           vm_op'[c].s = vm_op[c].s,
           \A x \in Cpu : x # c => vm_op'[x] = vm_op[x]
    PROVE  Tables' /\ ActiveRootLives' /\ Alone'
<1>1. Tables' /\ ActiveRootLives'
  BY DEF SpaceInv, Tables, ActiveRootLives
<1>2. Alone'
  BY DEF SpaceInv, Alone
<1> QED BY <1>1, <1>2

LEMMA Shootdown ==
    ASSUME SpaceInv, NEW c \in Cpu, vmm_tlb_shootdown(c)
    PROVE  SpaceInv'
<1> DEFINE l == IF vm_op[c].targets = {} THEN "finish" ELSE "wait"
<1>1. /\ vm_op[c].pc = "shootdown" /\ vm_op[c] \in Operation /\ Working(c)
      /\ UNCHANGED <<space, space_frames, current_pml4, tlb>>
  BY DEF vmm_tlb_shootdown, SpaceInv, SpaceTypes, Operations
<1>2. l \in Locked \cup Releasing \cup {"idle"} /\ l \in {"finish", "wait"}
  BY DEF Locked, Telling
<1>3. SpaceGoto(c, l)
  BY DEF vmm_tlb_shootdown
<1>4. /\ vm_op' \in [Cpu -> Operation] /\ vm_op'[c] \in Operation /\ vm_op'[c].pc = l
      /\ vm_op'[c].s = vm_op[c].s /\ vm_op'[c].page = vm_op[c].page
      /\ vm_op'[c].frame = vm_op[c].frame
      /\ vm_op'[c].targets = vm_op[c].targets
      /\ \A x \in Cpu : x # c => vm_op'[x] = vm_op[x]
  BY <1>2, <1>3, GotoTyped
<1>5. vm_op[c].targets = {} => shootdown' = shootdown /\ ipi' = ipi
  BY DEF vmm_tlb_shootdown
<1>6. vm_op[c].targets # {} =>
        /\ shootdown.lock = NoCpu
        /\ shootdown' = [lock |-> c, active |-> TRUE, pending |-> vm_op[c].targets,
                         acked |-> {}, space |-> vm_op[c].s]
        /\ ipi' = ipi \cup vm_op[c].targets
  BY DEF vmm_tlb_shootdown
<1>7. SpaceTypes'
  <2>1. /\ shootdown' \in [lock : Cpu \cup {NoCpu}, active : BOOLEAN,
                           pending : SUBSET Cpu, acked : SUBSET Cpu,
                           space : Slot \cup {0}]
        /\ shootdown'.acked \subseteq shootdown'.pending
        /\ ipi' \in SUBSET Cpu
    <3>1. CASE vm_op[c].targets = {}
      BY <1>5, <3>1 DEF SpaceInv, SpaceTypes
    <3>2. CASE vm_op[c].targets # {}
      <4>1. /\ vm_op[c].targets \in SUBSET Cpu /\ vm_op[c].s \in Slot \cup {0}
            /\ ipi \in SUBSET Cpu
        BY <1>1 DEF Operation, SpaceInv, SpaceTypes
      <4> DEFINE r == [lock |-> c, active |-> TRUE, pending |-> vm_op[c].targets,
                       acked |-> {}, space |-> vm_op[c].s]
      <4>2. /\ r \in [lock : Cpu \cup {NoCpu}, active : BOOLEAN,
                      pending : SUBSET Cpu, acked : SUBSET Cpu, space : Slot \cup {0}]
            /\ r.acked \subseteq r.pending
        BY <4>1
      <4>3. shootdown' = r /\ ipi' = ipi \cup vm_op[c].targets
        BY <1>6, <3>2
      <4> HIDE DEF r
      <4> QED BY <4>1, <4>2, <4>3
    <3> QED BY <3>1, <3>2
  <2> QED BY <1>1, <1>4, <2>1 DEF SpaceInv, SpaceTypes
<1>8. vm_op[c].targets # {} => \A x \in Cpu : vm_op[x].pc # "wait"
  BY <1>6, OneWaits, Constant
<1>9. Operations'
  <2>1. Working(c)'
    BY <1>1, <1>2, <1>4, <1>6 DEF Working, Locked, Mapping, Telling, Releasing
  <2>2. ASSUME NEW x \in Cpu, x # c PROVE Working(x)'
    BY <1>1, <1>4, <1>5, <1>8, <2>2, OthersWork
  <2> QED BY <2>1, <2>2 DEF Operations
<1>10. Cached'
  <2> SUFFICES ASSUME NEW d \in Cpu, NEW e \in tlb[d], NEW x \in Cpu, Dropping(x, d, e)
               PROVE  Dropping(x, d, e)'
    BY <1>1 DEF SpaceInv, Cached
  <2>1. CASE x = c
    BY <1>1, <1>4, <1>6, <2>1 DEF Dropping, Telling
  <2>2. CASE x # c
    BY <1>4, <1>5, <1>8, <2>2 DEF Dropping
  <2> QED BY <2>1, <2>2
<1> QED BY <1>1, <1>4, <1>7, <1>9, <1>10, TellingRest DEF SpaceInv

LEMMA Acknowledged ==
    ASSUME SpaceInv, NEW c \in Cpu, vmm_tlb_acknowledged(c)
    PROVE  SpaceInv'
<1>1. /\ vm_op[c].pc = "wait" /\ vm_op[c] \in Operation /\ Working(c)
      /\ vm_op[c].targets \subseteq shootdown.acked
      /\ shootdown' = [shootdown EXCEPT !.lock = NoCpu, !.active = FALSE]
      /\ SpaceGoto(c, "finish")
      /\ UNCHANGED <<space, space_frames, current_pml4, tlb, ipi>>
  BY DEF vmm_tlb_acknowledged, SpaceInv, SpaceTypes, Operations
<1>2. "finish" \in Locked \cup Releasing \cup {"idle"}
  BY DEF Locked
<1>3. /\ vm_op' \in [Cpu -> Operation] /\ vm_op'[c] \in Operation
      /\ vm_op'[c].pc = "finish"
      /\ vm_op'[c].s = vm_op[c].s /\ vm_op'[c].frame = vm_op[c].frame
      /\ \A x \in Cpu : x # c => vm_op'[x] = vm_op[x]
  BY <1>1, <1>2, GotoTyped
<1>4. SpaceTypes'
  BY <1>1, <1>3, ZenonT(30) DEF SpaceInv, SpaceTypes
<1>5. \A x \in Cpu : x # c => vm_op[x].pc # "wait"
  BY <1>1, OneWaits
<1>6. Operations'
  <2>1. Working(c)'
    BY <1>1, <1>3 DEF Working, Locked, Mapping, Telling, Releasing
  <2>2. ASSUME NEW x \in Cpu, x # c PROVE Working(x)'
    BY <1>1, <1>3, <1>5, <2>2, OthersWork, ZenonT(30)
  <2> QED BY <2>1, <2>2 DEF Operations
<1>7. Cached'
  <2> SUFFICES ASSUME NEW d \in Cpu, NEW e \in tlb[d], NEW x \in Cpu, Dropping(x, d, e)
               PROVE  Dropping(x, d, e)'
    BY <1>1 DEF SpaceInv, Cached
  <2>1. x # c
    BY <1>1 DEF Dropping
  <2> QED BY <1>3, <1>5, <2>1 DEF Dropping
<1> QED BY <1>1, <1>3, <1>4, <1>6, <1>7, TellingRest DEF SpaceInv

-----------------------------------------------------------------------------
(* The steps that change a root or a page table.                           *)

LEMMA Switch ==
    ASSUME SpaceInv, NEW c \in Cpu, NEW s \in Slot \cup {0},
           vmm_switch_address_space(c, s)
    PROVE  SpaceInv'
<1> DEFINE m(t) == IF t = s THEN space[t].mask \cup {c}
                   ELSE IF t = current_pml4[c] THEN space[t].mask \ {c}
                   ELSE space[t].mask
<1>1. /\ current_pml4' = [current_pml4 EXCEPT ![c] = s]
      /\ tlb' = [tlb EXCEPT ![c] = {}]
      /\ UNCHANGED <<space_frames, shootdown, ipi, vm_op>>
      /\ s # 0 => space[s].root # 0
      /\ space' = [t \in Slot |-> [space[t] EXCEPT !.mask = m(t)]]
      /\ space \in [Slot -> Metadata]
  BY DEF vmm_switch_address_space, SpaceUsable, SpaceLive, SpaceInv, SpaceTypes
<1>2. \A t \in Slot : m(t) \in SUBSET Cpu
  BY <1>1 DEF Metadata
<1>3. \A t \in Slot :
        /\ space'[t] \in Metadata
        /\ space'[t].root = space[t].root /\ space'[t].leaves = space[t].leaves
        /\ space'[t].pte = space[t].pte /\ space'[t].lock = space[t].lock
        /\ space'[t].destroy_pending = space[t].destroy_pending
        /\ space'[t].mask = m(t)
  <2> SUFFICES ASSUME NEW t \in Slot
      PROVE  /\ space'[t] \in Metadata
             /\ space'[t].root = space[t].root /\ space'[t].leaves = space[t].leaves
             /\ space'[t].pte = space[t].pte /\ space'[t].lock = space[t].lock
             /\ space'[t].destroy_pending = space[t].destroy_pending
             /\ space'[t].mask = m(t)
    BY ZenonT(30)
  <2>1. space'[t] = [space[t] EXCEPT !.mask = m(t)] /\ space[t] \in Metadata
    BY <1>1
  <2> HIDE DEF m
  <2> QED BY <1>2, <2>1 DEF Metadata
<1>4. SpaceTypes'
  <2>1. space' \in [Slot -> Metadata]
    BY <1>1, <1>3, ZenonT(30)
  <2> QED BY <1>1, <2>1 DEF SpaceInv, SpaceTypes
<1>5. Tables'
  <2>1. \A t \in Slot : space[t].root = 0 => m(t) = {}
    BY <1>1, Constant DEF SpaceInv, Tables
  <2> HIDE DEF m
  <2> QED BY <1>3, <2>1 DEF SpaceInv, Tables
<1>6. Operations'
  <2>1. ASSUME NEW x \in Cpu PROVE Working(x)'
    <3>1. vm_op[x].s \in Slot \cup {0}
      BY DEF SpaceInv, SpaceTypes, Operation
    <3> QED BY <1>1, <1>3, <3>1, OthersWork
  <2> QED BY <2>1 DEF Operations
<1>7. Alone'
  BY <1>1 DEF SpaceInv, Alone
<1>8. Cached'
  <2> SUFFICES ASSUME NEW d \in Cpu, NEW e \in tlb'[d]
               PROVE  /\ e[1] = current_pml4'[d]
                      /\ \/ space'[e[1]].pte[e[2]] = e[3]
                         \/ \E x \in Cpu : Dropping(x, d, e)'
    BY DEF Cached
  <2>1. d # c /\ e \in tlb[d] /\ current_pml4'[d] = current_pml4[d]
    BY <1>1 DEF SpaceInv, SpaceTypes
  <2>2. e[1] \in Slot
    BY <2>1, Triple DEF SpaceInv, SpaceTypes
  <2>3. \A x \in Cpu : Dropping(x, d, e) => Dropping(x, d, e)'
    BY <1>1 DEF Dropping
  <2>4. space'[e[1]].pte = space[e[1]].pte
    BY <1>3, <2>2, ZenonT(30)
  <2>5. /\ e[1] = current_pml4[d]
        /\ space[e[1]].pte[e[2]] = e[3] \/ \E x \in Cpu : Dropping(x, d, e)
    BY <2>1 DEF SpaceInv, Cached
  <2> QED BY <2>1, <2>3, <2>4, <2>5
<1>9. ActiveRootLives'
  <2> SUFFICES ASSUME NEW d \in Cpu, NEW t \in Slot
               PROVE  (current_pml4'[d] = t) <=> (d \in space'[t].mask)
    BY DEF ActiveRootLives
  <2>1. current_pml4'[d] = (IF d = c THEN s ELSE current_pml4[d])
    BY <1>1 DEF SpaceInv, SpaceTypes
  <2>2. (current_pml4[d] = t) <=> (d \in space[t].mask)
    BY DEF SpaceInv, ActiveRootLives
  <2>3. d \in m(t) <=> IF d = c THEN t = s ELSE d \in space[t].mask
    BY <2>2
  <2>4. space'[t].mask = m(t)
    BY <1>3, ZenonT(30)
  <2> HIDE DEF m
  <2> QED BY <2>1, <2>2, <2>3, <2>4
<1> QED BY <1>4, <1>5, <1>6, <1>7, <1>8, <1>9 DEF SpaceInv

LEMMA Create ==
    ASSUME SpaceInv, NEW c \in Cpu, vmm_create_address_space(c)
    PROVE  SpaceInv'
<1> DEFINE slots == {t \in Slot : ~SpaceLive(t) /\ ~space[t].destroy_pending}
           root == Min(space_frames)
           s == Min(slots)
           new == [NoMetadata EXCEPT !.root = root]
<1>1. /\ slots # {} /\ space_frames # {}
      /\ space' = [space EXCEPT ![s] = new]
      /\ space_frames' = space_frames \ {root}
      /\ UNCHANGED <<current_pml4, tlb, shootdown, ipi, vm_op>>
      /\ space \in [Slot -> Metadata] /\ space_frames \in SUBSET SpaceFrame
  BY DEF vmm_create_address_space, SpaceInv, SpaceTypes
<1>2. root \in SpaceFrame /\ root # 0
  BY <1>1, MinIn, Constant, ZenonT(30)
<1>3. s \in Slot /\ space[s].root = 0 /\ ~space[s].destroy_pending
  <2>1. slots \in SUBSET Nat /\ \A t \in slots : space[t].root = 0 /\ ~space[t].destroy_pending
    BY Constant, ZenonT(30) DEF SpaceLive
  <2>2. slots \subseteq Slot
    OBVIOUS
  <2> HIDE DEF slots
  <2> QED BY <1>1, <2>1, <2>2, MinIn, ZenonT(30)
<1> HIDE DEF slots, root, s
<1>4. /\ new \in Metadata /\ new.root = root /\ new.leaves = {} /\ new.mask = {}
      /\ new.lock = NoCpu /\ \A p \in Page : new.pte[p] = 0
  BY <1>2, ZenonT(30) DEF NoMetadata, Metadata
<1> HIDE DEF new
<1>5. space' \in [Slot -> Metadata] /\ space'[s] = new /\ \A t \in Slot : t # s => space'[t] = space[t]
  BY <1>1, <1>3, <1>4
<1>6. SpaceTypes'
  BY <1>1, <1>5 DEF SpaceInv, SpaceTypes
<1>7. Tables'
  BY <1>2, <1>4, <1>5 DEF SpaceInv, Tables
<1>8. Operations'
  <2>1. ASSUME NEW x \in Cpu PROVE Working(x)'
    <3>1. Working(x) /\ vm_op[x] \in Operation
      BY DEF SpaceInv, SpaceTypes, Operations
    <3>2. vm_op[x].s # s
      BY <1>3, <3>1, Constant DEF Working, Operation
    <3>3. vm_op[x].s # 0 => space'[vm_op[x].s] = space[vm_op[x].s]
      BY <1>5, <3>1, <3>2 DEF Operation
    <3> QED BY <1>1, <3>3, OthersWork
  <2> QED BY <2>1 DEF Operations
<1>9. Alone'
  BY <1>1 DEF SpaceInv, Alone
<1>10. space[s].mask = {}
  BY <1>3 DEF SpaceInv, Tables
<1>11. ActiveRootLives'
  BY <1>1, <1>3, <1>4, <1>5, <1>10 DEF SpaceInv, ActiveRootLives
<1>12. Cached'
  <2> SUFFICES ASSUME NEW d \in Cpu, NEW e \in tlb[d]
               PROVE  /\ e[1] = current_pml4[d]
                      /\ \/ space'[e[1]].pte[e[2]] = e[3]
                         \/ \E x \in Cpu : Dropping(x, d, e)
    BY <1>1 DEF Cached, Dropping
  <2>1. /\ e[1] = current_pml4[d]
        /\ space[e[1]].pte[e[2]] = e[3] \/ \E x \in Cpu : Dropping(x, d, e)
    BY DEF SpaceInv, Cached
  <2>2. e[1] \in Slot
    BY Triple DEF SpaceInv, SpaceTypes
  <2>3. e[1] # s
    BY <1>3, <1>10, <2>1 DEF SpaceInv, ActiveRootLives
  <2> QED BY <1>5, <2>1, <2>2, <2>3
<1> QED BY <1>6, <1>7, <1>8, <1>9, <1>11, <1>12 DEF SpaceInv

LEMMA Destroy ==
    ASSUME SpaceInv, NEW c \in Cpu, vmm_destroy_address_space(c)
    PROVE  SpaceInv'
<1> DEFINE s == vm_op[c].s
<1>1. /\ vm_op[c].pc = "destroy" /\ vm_op[c] \in Operation /\ Working(c)
      /\ UNCHANGED <<space_frames, current_pml4, tlb, shootdown, ipi>>
      /\ space \in [Slot -> Metadata]
  BY DEF vmm_destroy_address_space, SpaceInv, SpaceTypes, Operations
<1>2. s \in Slot /\ space[s].root # 0 /\ space[s].lock = c
  BY <1>1 DEF Working, Operation, Locked, Telling
<1>3. CASE space[s].mask # {}
  <2>1. vm_op' = vm_op /\ space' = [space EXCEPT ![s].destroy_pending = TRUE]
    BY <1>3 DEF vmm_destroy_address_space, vmm_cpu_mask_empty
  <2> HIDE DEF s
  <2>2. [space[s] EXCEPT !.destroy_pending = TRUE] \in Metadata
    BY <1>1, <1>2, ZenonT(30) DEF Metadata
  <2>3. /\ space' \in [Slot -> Metadata]
        /\ \A t \in Slot : t # s => space'[t] = space[t]
        /\ space'[s] = [space[s] EXCEPT !.destroy_pending = TRUE]
    BY <1>1, <1>2, <2>1, <2>2
  <2>4. SpaceTypes'
    BY <1>1, <2>1, <2>3 DEF SpaceInv, SpaceTypes
  <2>5. Quiet(c) /\ space'[s].lock = space[s].lock /\ space'[s].root = space[s].root
    BY <1>1, <1>2, <2>1, <2>3 DEF Quiet, Metadata
  <2>6. Working(c)'
    BY <1>1, <1>2, <2>1, <2>5, Constant DEF s, Working, Releasing
  <2>7. \A t \in Slot : space[t].root = 0 => space'[t].lock = NoCpu
    BY <1>2, <2>3 DEF SpaceInv, Tables
  <2>8. \A x \in Cpu : x # c /\ vm_op'[c].s # 0 => vm_op[x].s # vm_op'[c].s
    BY <2>1 DEF SpaceInv, Alone
  <2> QED BY <1>1, <2>1, <2>3, <2>4, <2>5, <2>6, <2>7, <2>8, QuietStep DEF Telling, s
<1>4. CASE space[s].mask = {}
  <2> DEFINE r == {space[s].root} \cup space[s].leaves \cup space[s].tables
             o == [vm_op[c] EXCEPT !.pc = "release", !.reserved = r]
             new == [NoMetadata EXCEPT !.destroy_pending = TRUE]
  <2>1. vm_op' = [vm_op EXCEPT ![c] = o] /\ space' = [space EXCEPT ![s] = new]
    BY <1>4, ZenonT(30) DEF vmm_destroy_address_space, vmm_cpu_mask_empty, SpaceInv, SpaceTypes
  <2>2. r \in SUBSET SpaceFrame
    BY <1>1, <1>2 DEF Metadata
  <2> HIDE DEF r
  <2>3. o \in Operation /\ o.pc = "release" /\ o.s = s /\ o.frame = vm_op[c].frame
    BY <1>1, <2>2, ZenonT(30) DEF Operation, Releasing
  <2>4. /\ new \in Metadata /\ new.root = 0 /\ new.leaves = {} /\ new.mask = {}
        /\ new.lock = NoCpu /\ new.destroy_pending /\ \A p \in Page : new.pte[p] = 0
    BY ZenonT(30) DEF NoMetadata, Metadata
  <2> HIDE DEF o, new, s
  <2>5. /\ vm_op' \in [Cpu -> Operation] /\ vm_op'[c] = o
        /\ \A x \in Cpu : x # c => vm_op'[x] = vm_op[x]
    BY <2>1, <2>3, OpTyped, ZenonT(30)
  <2>6. /\ space' \in [Slot -> Metadata] /\ space'[s] = new
        /\ \A t \in Slot : t # s => space'[t] = space[t]
    BY <1>1, <1>2, <2>1, <2>4
  <2>7. SpaceTypes'
    BY <1>1, <2>5, <2>6 DEF SpaceInv, SpaceTypes
  <2>8. Tables'
    BY <2>4, <2>6 DEF SpaceInv, Tables
  <2>9. \A x \in Cpu : x # c => vm_op[x].s # s
    BY <1>2, Constant DEF s, SpaceInv, Alone
  <2>10. Operations'
    <3>1. Working(c)'
      BY <1>2, <2>3, <2>4, <2>5, <2>6, Constant DEF Working, Locked, Mapping, Telling, Releasing
    <3>2. ASSUME NEW x \in Cpu, x # c PROVE Working(x)'
      <4>1. vm_op[x].s # 0 => space'[vm_op[x].s] = space[vm_op[x].s]
        BY <2>6, <2>9, <3>2 DEF SpaceInv, SpaceTypes, Operation
      <4> QED BY <1>1, <2>5, <3>2, <4>1, OthersWork
    <3> QED BY <3>1, <3>2 DEF Operations
  <2>11. Alone'
    BY <2>3, <2>5 DEF s, SpaceInv, Alone
  <2>12. ActiveRootLives'
    BY <1>1, <1>2, <1>4, <2>4, <2>6 DEF SpaceInv, ActiveRootLives
  <2>13. Cached'
    <3> SUFFICES ASSUME NEW d \in Cpu, NEW e \in tlb[d]
                 PROVE  /\ e[1] = current_pml4[d]
                        /\ \/ space'[e[1]].pte[e[2]] = e[3]
                           \/ \E x \in Cpu : Dropping(x, d, e)'
      BY <1>1 DEF Cached
    <3>1. /\ e[1] = current_pml4[d]
          /\ space[e[1]].pte[e[2]] = e[3] \/ \E x \in Cpu : Dropping(x, d, e)
      BY DEF SpaceInv, Cached
    <3>2. e[1] \in Slot
      BY Triple DEF SpaceInv, SpaceTypes
    <3>3. e[1] # s
      BY <1>2, <1>4, <3>1 DEF SpaceInv, ActiveRootLives
    <3>4. \A x \in Cpu : Dropping(x, d, e) => Dropping(x, d, e)'
      BY <1>1, <2>5 DEF Dropping, Telling
    <3> QED BY <2>6, <3>1, <3>2, <3>3, <3>4
  <2> QED BY <2>7, <2>8, <2>10, <2>11, <2>12, <2>13 DEF SpaceInv
<1> QED BY <1>3, <1>4

\* A page table entry that changes under the locks: the processor drops its
\* own translation of the page, and the others in the address space are the
\* targets.
EntryChanges(c, s, p, f, leaves, o) ==
    /\ vm_op[c].s = s /\ vm_op[c].pc \in {"insert", "unmap"}
    /\ f = 0 \/ (space[s].pte[p] = 0 /\ f \in leaves /\ f \notin space[s].leaves)
    /\ space[s].pte[p] # 0 => o.frame = space[s].pte[p]
    /\ \A q \in Page : q # p /\ space[s].pte[q] # 0 => space[s].pte[q] \in leaves
    /\ space' \in [Slot -> Metadata]
    /\ \A t \in Slot : t # s => space'[t] = space[t]
    /\ space'[s].root = space[s].root /\ space'[s].lock = space[s].lock
    /\ space'[s].mask = space[s].mask /\ space'[s].leaves = leaves
    /\ space'[s].pte = [space[s].pte EXCEPT ![p] = f]
    /\ invlpg(c, s, p)
    /\ vm_op' = [vm_op EXCEPT ![c] = o]
    /\ o.pc = "shootdown" /\ o.s = s /\ o.targets = space[s].mask \ {c}
    /\ UNCHANGED <<space_frames, current_pml4, shootdown, ipi>>

\* No translation is missed: a processor in the address space is in its mask.
LEMMA Changes ==
    ASSUME SpaceInv, NEW c \in Cpu, NEW s \in Slot, NEW p \in Page,
           NEW f \in SpaceFrame \cup {0}, NEW L \in SUBSET SpaceFrame,
           NEW o \in Operation, EntryChanges(c, s, p, f, L, o)
    PROVE  SpaceInv'
<1> USE DEF EntryChanges
<1>1. /\ vm_op' \in [Cpu -> Operation] /\ vm_op'[c] = o
      /\ \A x \in Cpu : x # c => vm_op'[x] = vm_op[x]
  BY OpTyped, ZenonT(30)
<1>2. Working(c) /\ space[s].root # 0 /\ space[s].lock = c
  <2>1. Working(c)
    BY DEF SpaceInv, Operations
  <2> QED BY <2>1, Constant DEF Working, Locked, Mapping
<1>3. /\ tlb' \in [Cpu -> SUBSET (Slot \X Page \X SpaceFrame)]
      /\ \A d \in Cpu : tlb'[d] \subseteq tlb[d]
      /\ current_pml4[c] = s => \A e \in tlb'[c] : e[2] # p
  BY DEF invlpg, SpaceInv, SpaceTypes
<1>4. SpaceTypes'
  BY <1>1, <1>3 DEF SpaceInv, SpaceTypes
<1>5. /\ space'[s].pte[p] = f
      /\ \A q \in Page : q # p => space'[s].pte[q] = space[s].pte[q]
  BY DEF SpaceInv, SpaceTypes, Metadata
<1>6. Tables'
  <2>1. ASSUME NEW t \in Slot, t # s
        PROVE  /\ space'[t].root = 0 => space'[t].lock = NoCpu /\ space'[t].mask = {}
               /\ \A q \in Page : /\ space'[t].root = 0 => space'[t].pte[q] = 0
                                  /\ space'[t].pte[q] # 0 => space'[t].pte[q] \in space'[t].leaves
               /\ \A q, r \in Page :
                    space'[t].pte[q] # 0 /\ space'[t].pte[q] = space'[t].pte[r] => q = r
    BY <2>1 DEF SpaceInv, Tables
  <2>2. \A q \in Page : space'[s].pte[q] # 0 => space'[s].pte[q] \in L
    BY <1>5
  <2>3. \A q \in Page : q # p /\ space[s].pte[q] # 0 => space[s].pte[q] # f
    BY Constant DEF SpaceInv, Tables
  <2>4. \A q, r \in Page : space[s].pte[q] # 0 /\ space[s].pte[q] = space[s].pte[r] => q = r
    BY DEF SpaceInv, Tables
  <2>5. \A q, r \in Page : space'[s].pte[q] # 0 /\ space'[s].pte[q] = space'[s].pte[r] => q = r
    BY <1>5, <2>3, <2>4
  <2>6. /\ space'[s].root # 0
        /\ \A q \in Page : space'[s].pte[q] # 0 => space'[s].pte[q] \in space'[s].leaves
    BY <1>2, <2>2
  <2> SUFFICES ASSUME NEW t \in Slot
        PROVE  /\ space'[t].root = 0 => space'[t].lock = NoCpu /\ space'[t].mask = {}
               /\ \A q \in Page : /\ space'[t].root = 0 => space'[t].pte[q] = 0
                                  /\ space'[t].pte[q] # 0 => space'[t].pte[q] \in space'[t].leaves
               /\ \A q, r \in Page :
                    space'[t].pte[q] # 0 /\ space'[t].pte[q] = space'[t].pte[r] => q = r
    BY DEF Tables
  <2>7. CASE t = s
    BY <2>5, <2>6, <2>7, ZenonT(30)
  <2> QED BY <2>1, <2>7
<1>7. Operations'
  <2>1. Working(c)'
    BY <1>1, <1>2, Constant DEF Working, Locked, Mapping, Telling, Releasing
  <2>2. ASSUME NEW x \in Cpu, x # c PROVE Working(x)'
    <3>1. vm_op[x].s # s /\ vm_op[x].s \in Slot \cup {0}
      BY <2>2, Constant DEF SpaceInv, Alone, SpaceTypes, Operation
    <3>2. vm_op[x].s # 0 => space'[vm_op[x].s] = space[vm_op[x].s]
      BY <3>1
    <3> QED BY <1>1, <2>2, <3>2, OthersWork
  <2> QED BY <2>1, <2>2 DEF Operations
<1>8. Alone'
  BY <1>1 DEF SpaceInv, Alone
<1>9. ActiveRootLives'
  <2>1. \A t \in Slot : space'[t].mask = space[t].mask
    OBVIOUS
  <2> QED BY <2>1 DEF SpaceInv, ActiveRootLives
<1>10. Cached'
  <2> SUFFICES ASSUME NEW d \in Cpu, NEW e \in tlb'[d]
               PROVE  /\ e[1] = current_pml4[d]
                      /\ \/ space'[e[1]].pte[e[2]] = e[3]
                         \/ \E x \in Cpu : Dropping(x, d, e)'
    BY DEF Cached
  <2>1. /\ e \in tlb[d] /\ e[1] = current_pml4[d]
        /\ space[e[1]].pte[e[2]] = e[3] \/ \E x \in Cpu : Dropping(x, d, e)
    BY <1>3 DEF SpaceInv, Cached
  <2>2. e[1] \in Slot /\ e[2] \in Page /\ e[3] \in SpaceFrame
    BY <2>1, Triple DEF SpaceInv, SpaceTypes
  <2>3. CASE e[1] # s
    <3>1. \A x \in Cpu : Dropping(x, d, e) => Dropping(x, d, e)'
      BY <1>1, <2>3 DEF Dropping
    <3>2. space'[e[1]] = space[e[1]]
      BY <2>2, <2>3
    <3> QED BY <2>1, <3>1, <3>2
  <2>4. CASE e[1] = s
    <3>1. \A x \in Cpu : ~Dropping(x, d, e)
      BY <2>4, Constant DEF Dropping, SpaceInv, Alone, Telling
    <3>2. space[s].pte[e[2]] = e[3]
      BY <2>1, <2>4, <3>1, ZenonT(30)
    <3>3. CASE e[2] # p
      <4>1. space'[s].pte[e[2]] = e[3]
        BY <1>5, <2>2, <3>2, <3>3
      <4> QED BY <2>1, <2>4, <4>1, ZenonT(30)
    <3>4. CASE e[2] = p
      <4>1. o.frame = e[3]
        BY <2>2, <3>2, <3>4, Constant
      <4>2. d # c
        BY <1>3, <2>1, <2>4, <3>4, ZenonT(30)
      <4>3. d \in space[s].mask
        <5>1. current_pml4[d] = s
          BY <2>1, <2>4
        <5> QED BY <5>1 DEF SpaceInv, ActiveRootLives
      <4>4. Dropping(c, d, e)'
        BY <1>1, <2>4, <4>1, <4>2, <4>3 DEF Dropping, Telling
      <4> QED BY <2>1, <4>4, ZenonT(30)
    <3> QED BY <3>3, <3>4
  <2> QED BY <2>3, <2>4
<1> QED BY <1>4, <1>6, <1>7, <1>8, <1>9, <1>10 DEF SpaceInv

LEMMA MapInsert ==
    ASSUME SpaceInv, NEW c \in Cpu, vmm_map_insert(c)
    PROVE  SpaceInv'
<1> DEFINE s == vm_op[c].s
           p == vm_op[c].page
           f == vm_op[c].frame
           used == IF space[s].tables = {} THEN vm_op[c].reserved ELSE {}
<1>1. /\ vm_op[c].pc = "insert" /\ vm_op[c] \in Operation /\ Working(c)
      /\ UNCHANGED <<space_frames, current_pml4, shootdown, ipi>>
      /\ space \in [Slot -> Metadata] /\ vm_op \in [Cpu -> Operation]
  BY ZenonT(30) DEF vmm_map_insert, SpaceInv, SpaceTypes, Operations
<1>2. /\ s \in Slot /\ p \in Page /\ f \in SpaceFrame
      /\ space[s].root # 0 /\ space[s].lock = c
  BY <1>1 DEF Working, Operation, Locked, Mapping, Telling
<1>3. CASE ~SpaceUsable(s) \/ ~vmm_user_path_available(s, p) \/ f \in space[s].leaves
  <2>1. SpaceGoto(c, "reserve_failure") /\ UNCHANGED <<space, tlb>>
    BY <1>3, ZenonT(30) DEF vmm_map_insert
  <2>2. "reserve_failure" \in Locked \cup Releasing \cup {"idle"}
    BY DEF Locked, Mapping
  <2>3. /\ vm_op' \in [Cpu -> Operation] /\ vm_op'[c].pc = "reserve_failure"
        /\ vm_op'[c].s = s /\ vm_op'[c].page = p /\ vm_op'[c].frame = f
        /\ \A x \in Cpu : x # c => vm_op'[x] = vm_op[x]
    BY <2>1, <2>2, GotoTyped
  <2>4. SpaceTypes'
    BY <1>1, <2>1, <2>3 DEF SpaceInv, SpaceTypes
  <2>5. Quiet(c)
    BY <1>1, <2>1, <2>3 DEF Quiet
  <2>6. Working(c)'
    BY <1>2, <2>1, <2>3, Constant DEF Working, Locked, Mapping, Telling, Releasing
  <2>7. \A x \in Cpu : x # c /\ vm_op'[c].s # 0 => vm_op[x].s # vm_op'[c].s
    BY <2>3 DEF SpaceInv, Alone
  <2>8. \A t \in Slot : space[t].root = 0 => space'[t].lock = NoCpu
    BY <2>1 DEF SpaceInv, Tables
  <2> QED BY <1>1, <2>1, <2>4, <2>5, <2>6, <2>7, <2>8, QuietStep DEF Telling
<1>4. CASE ~(~SpaceUsable(s) \/ ~vmm_user_path_available(s, p) \/ f \in space[s].leaves)
  <2> DEFINE L == space[s].leaves \cup {f}
             T == space[s].tables \cup used
             o == [vm_op[c] EXCEPT !.pc = "shootdown", !.frame = 0,
                                   !.reserved = @ \ used, !.targets = space[s].mask \ {c}]
             new == [space[s] EXCEPT !.tables = T, !.leaves = L,
                                     !.pte = [space[s].pte EXCEPT ![p] = f]]
  <2>1. space[s].pte[p] = 0 /\ f \notin space[s].leaves
    BY <1>4 DEF vmm_user_path_available
  <2>2. /\ space' = [space EXCEPT ![s].tables = @ \cup used, ![s].leaves = @ \cup {f},
                                  ![s].pte[p] = f]
        /\ invlpg(c, s, p)
        /\ vm_op' = [vm_op EXCEPT ![c].pc = "shootdown", ![c].frame = 0,
                                  ![c].reserved = @ \ used,
                                  ![c].targets = space[s].mask \ {c}]
    BY <1>4, ZenonT(30) DEF vmm_map_insert, vmm_capture_active_targets_locked
  <2>3. used \in SUBSET SpaceFrame
    BY <1>1 DEF Operation
  <2> HIDE DEF s, p, f, used
  <2>4. T \in SUBSET SpaceFrame /\ L \in SUBSET SpaceFrame
    BY <1>1, <1>2, <2>3 DEF Metadata
  <2>5. vm_op' = [vm_op EXCEPT ![c] = o]
    BY <1>1, <2>2, ZenonT(30)
  <2>6. space' = [space EXCEPT ![s] = new]
    BY <1>1, <1>2, <2>2, ZenonT(30)
  <2> HIDE DEF L, T
  <2>7. /\ new \in Metadata /\ new.root = space[s].root /\ new.lock = space[s].lock
        /\ new.mask = space[s].mask /\ new.leaves = L
        /\ new.pte = [space[s].pte EXCEPT ![p] = f]
    BY <1>1, <1>2, <2>4, ZenonT(30) DEF Metadata
  <2>8. /\ o \in Operation /\ o.pc = "shootdown" /\ o.s = s
        /\ o.targets = space[s].mask \ {c}
    BY <1>1, <1>2, ZenonT(30) DEF Operation, Metadata, Locked, Telling, s
  <2> HIDE DEF new, o
  <2>9. /\ space' \in [Slot -> Metadata] /\ space'[s] = new
        /\ \A t \in Slot : t # s => space'[t] = space[t]
    BY <1>1, <1>2, <2>6, <2>7
  <2>10. /\ f = 0 \/ (space[s].pte[p] = 0 /\ f \in L /\ f \notin space[s].leaves)
         /\ space[s].pte[p] # 0 => o.frame = space[s].pte[p]
         /\ \A q \in Page : q # p /\ space[s].pte[q] # 0 => space[s].pte[q] \in L
    BY <1>2, <2>1 DEF L, SpaceInv, Tables
  <2>11. vm_op[c].s = s /\ vm_op[c].pc \in {"insert", "unmap"} /\ f \in SpaceFrame \cup {0}
    BY <1>1, <1>2 DEF s
  <2>12. /\ space'[s].root = space[s].root /\ space'[s].lock = space[s].lock
         /\ space'[s].mask = space[s].mask /\ space'[s].leaves = L
         /\ space'[s].pte = [space[s].pte EXCEPT ![p] = f]
    BY <2>7, <2>9
  <2>13. invlpg(c, s, p)
    BY <2>2, ZenonT(30)
  <2>14. EntryChanges(c, s, p, f, L, o)
    BY <1>1, <2>5, <2>8, <2>9, <2>10, <2>11, <2>12, <2>13, ZenonT(30) DEF EntryChanges
  <2> QED BY <1>2, <2>4, <2>8, <2>11, <2>14, Changes, ZenonT(30)
<1> QED BY <1>3, <1>4

LEMMA Unmap ==
    ASSUME SpaceInv, NEW c \in Cpu, vmm_unmap_user_page(c)
    PROVE  SpaceInv'
<1> DEFINE s == vm_op[c].s
           p == vm_op[c].page
           f == space[s].pte[p]
<1>1. /\ vm_op[c].pc = "unmap" /\ vm_op[c] \in Operation /\ Working(c)
      /\ UNCHANGED <<space_frames, current_pml4, shootdown, ipi>>
      /\ space \in [Slot -> Metadata] /\ vm_op \in [Cpu -> Operation]
  BY ZenonT(30) DEF vmm_unmap_user_page, SpaceInv, SpaceTypes, Operations
<1>2. s \in Slot /\ p \in Page /\ space[s].root # 0 /\ space[s].lock = c
  BY <1>1 DEF Working, Operation, Locked, Mapping, Telling
<1>3. CASE ~SpaceUsable(s) \/ f = 0
  <2>1. /\ space' = [space EXCEPT ![s].lock = NoCpu]
        /\ SpaceDone(c) /\ tlb' = tlb
    BY <1>3, ZenonT(30) DEF vmm_unmap_user_page
  <2>2. vm_op[c].s # 0 /\ vm_op[c].pc \notin Telling
    BY <1>1, <1>2, Constant DEF Telling
  <2>3. space_frames' \in SUBSET SpaceFrame
    BY <1>1 DEF SpaceInv, SpaceTypes
  <2> QED BY <1>1, <2>1, <2>2, <2>3, Ends, ZenonT(30)
<1>4. CASE ~(~SpaceUsable(s) \/ f = 0)
  <2> DEFINE L == space[s].leaves \ {f}
             o == [vm_op[c] EXCEPT !.pc = "shootdown", !.frame = f,
                                   !.targets = space[s].mask \ {c}]
             new == [space[s] EXCEPT !.leaves = L,
                                     !.pte = [space[s].pte EXCEPT ![p] = 0]]
  <2>1. f \in SpaceFrame
    BY <1>1, <1>2, <1>4 DEF Metadata
  <2>2. /\ space' = [space EXCEPT ![s].leaves = @ \ {f}, ![s].pte[p] = 0]
        /\ invlpg(c, s, p)
        /\ vm_op' = [vm_op EXCEPT ![c].pc = "shootdown", ![c].frame = f,
                                  ![c].targets = space[s].mask \ {c}]
    BY <1>4, ZenonT(30) DEF vmm_unmap_user_page, vmm_capture_active_targets_locked
  <2>3. \A q \in Page : q # p /\ space[s].pte[q] # 0 => space[s].pte[q] \in L
    <3>1. \A q \in Page : /\ space[s].pte[q] # 0 => space[s].pte[q] \in space[s].leaves
                          /\ f # 0 /\ f = space[s].pte[q] => q = p
      BY <1>2 DEF SpaceInv, Tables
    <3> QED BY <2>1, <3>1, Constant
  <2> HIDE DEF s, p, f
  <2>4. L \in SUBSET SpaceFrame
    BY <1>1, <1>2 DEF Metadata
  <2>5. vm_op' = [vm_op EXCEPT ![c] = o]
    BY <1>1, <2>2, ZenonT(30)
  <2>6. space' = [space EXCEPT ![s] = new]
    BY <1>1, <1>2, <2>2, ZenonT(30)
  <2> HIDE DEF L
  <2>7. /\ new \in Metadata /\ new.root = space[s].root /\ new.lock = space[s].lock
        /\ new.mask = space[s].mask /\ new.leaves = L
        /\ new.pte = [space[s].pte EXCEPT ![p] = 0]
    BY <1>1, <1>2, <2>4, ZenonT(30) DEF Metadata
  <2>8. /\ o \in Operation /\ o.pc = "shootdown" /\ o.s = s /\ o.frame = f
        /\ o.targets = space[s].mask \ {c}
    BY <1>1, <1>2, <2>1, ZenonT(30) DEF Operation, Metadata, Locked, Telling, s
  <2> HIDE DEF new, o
  <2>9. /\ space' \in [Slot -> Metadata] /\ space'[s] = new
        /\ \A t \in Slot : t # s => space'[t] = space[t]
    BY <1>1, <1>2, <2>6, <2>7
  <2>10. space[s].pte[p] # 0 => o.frame = space[s].pte[p]
    BY <2>8 DEF f
  <2>11. vm_op[c].s = s /\ vm_op[c].pc \in {"insert", "unmap"}
    BY <1>1 DEF s
  <2>12. /\ space'[s].root = space[s].root /\ space'[s].lock = space[s].lock
         /\ space'[s].mask = space[s].mask /\ space'[s].leaves = L
         /\ space'[s].pte = [space[s].pte EXCEPT ![p] = 0]
    BY <2>7, <2>9
  <2>13. invlpg(c, s, p)
    BY <2>2, ZenonT(30)
  <2>14. EntryChanges(c, s, p, 0, L, o)
    BY <1>1, <2>3, <2>5, <2>8, <2>9, <2>10, <2>11, <2>12, <2>13, ZenonT(30) DEF EntryChanges
  <2>15. 0 \in SpaceFrame \cup {0}
    OBVIOUS
  <2> QED BY <1>2, <2>4, <2>8, <2>14, <2>15, Changes, ZenonT(30)
<1> QED BY <1>3, <1>4

-----------------------------------------------------------------------------
LEMMA SpaceInvNext == SpaceInv /\ [SpaceNext]_spaceVars => SpaceInv'
<1> SUFFICES ASSUME SpaceInv, [SpaceNext]_spaceVars PROVE SpaceInv'
  OBVIOUS
<1>1. CASE UNCHANGED spaceVars
  <2>1. UNCHANGED <<space, space_frames, current_pml4, tlb, shootdown, ipi, vm_op>>
    BY <1>1 DEF spaceVars
  <2>2. SpaceTypes'
    BY <2>1 DEF SpaceInv, SpaceTypes
  <2>3. Cached'
    BY <2>1 DEF SpaceInv, Cached, Dropping
  <2> QED BY <2>1, <2>2, <2>3, TablesRest DEF SpaceInv
<1>2. CASE SpaceNext
  <2>1. PICK c \in Cpu :
      \/ vmm_create_address_space(c)
      \/ \E s \in Slot \cup {0} : vmm_switch_address_space(c, s)
      \/ \E p \in Page : TlbFill(c, p)
      \/ \E s \in Slot, p \in Page : vmm_map_begin(c, s, p) \/ vmm_unmap_begin(c, s, p)
      \/ vmm_map_reserve(c)
      \/ vmm_map_reserve_failure(c)
      \/ vmm_map_insert(c)
      \/ vmm_unmap_user_page(c)
      \/ vmm_tlb_shootdown(c)
      \/ vmm_tlb_acknowledged(c)
      \/ vmm_tlb_shootdown_handler(c)
      \/ vmm_operation_finish(c)
      \/ vmm_publish_kernel_mappings(c)
      \/ \E s \in Slot : vmm_destroy_begin(c, s)
      \/ vmm_destroy_address_space(c)
      \/ vmm_destroy_release(c)
      \/ vmm_destroy_end(c)
    BY <1>2, ZenonT(30) DEF SpaceNext
  <2> QED BY <2>1, Create, Switch, Fill, MapBegin, UnmapBegin, MapReserve,
             MapReserveFailure, MapInsert, Unmap, Shootdown, Acknowledged,
             Handler, OperationFinish, PublishKernel, DestroyBegin, Destroy,
             DestroyRelease, DestroyEnd
<1> QED BY <1>1, <1>2

-----------------------------------------------------------------------------
(* Every frame has one owner.                                              *)

\* Who claims a frame: an address space, an operation.
InSpace(s, f) ==
    f = space[s].root \/ f \in space[s].tables \/ f \in space[s].leaves
InOperation(c, f) == f = vm_op[c].frame \/ f \in vm_op[c].reserved

\* The claims of one address space and one operation exclude each other.
Distinct(c, s, f) ==
    /\ f \in space_frames => ~InSpace(s, f) /\ ~InOperation(c, f)
    /\ InSpace(s, f) => ~InOperation(c, f)
    /\ f = space[s].root => f \notin space[s].tables /\ f \notin space[s].leaves
    /\ f \in space[s].tables => f \notin space[s].leaves
    /\ f = vm_op[c].frame => f \notin vm_op[c].reserved
Claimed(c, s, f) == f \in space_frames \/ InSpace(s, f) \/ InOperation(c, f)

\* What holds of one frame.
OneOwner(f) ==
    /\ \A c \in Cpu : /\ f \in space_frames => ~InOperation(c, f)
                      /\ f = vm_op[c].frame => f \notin vm_op[c].reserved
    /\ \A s \in Slot :
         /\ f \in space_frames => ~InSpace(s, f)
         /\ f = space[s].root => f \notin space[s].tables /\ f \notin space[s].leaves
         /\ f \in space[s].tables => f \notin space[s].leaves
    /\ \A c \in Cpu, s \in Slot : ~(InSpace(s, f) /\ InOperation(c, f))
    /\ \A s, t \in Slot : InSpace(s, f) /\ InSpace(t, f) => s = t
    /\ \A c, d \in Cpu : InOperation(c, f) /\ InOperation(d, f) => c = d
    /\ \/ f \in space_frames
       \/ \E s \in Slot : InSpace(s, f)
       \/ \E c \in Cpu : InOperation(c, f)
Owned == \A f \in SpaceFrame : OneOwner(f)

\* An unused slot owns nothing, nor does an operation that reserves nothing.
Empty ==
    /\ \A s \in Slot :
         space[s].root = 0 => space[s].tables = {} /\ space[s].leaves = {}
    /\ \A c \in Cpu :
         /\ vm_op[c].pc \in {"idle", "unmap", "destroy", "released"} =>
              vm_op[c].frame = 0 /\ vm_op[c].reserved = {}
         /\ vm_op[c].pc = "release" => vm_op[c].frame = 0
         /\ vm_op[c].s = 0 => vm_op[c].frame = 0 /\ vm_op[c].reserved = {}

\* A step that moves frames between the bitmap, one address space and one
\* operation.
Elsewhere(c, s) ==
    /\ \A t \in Slot : t # s => /\ space'[t].root = space[t].root
                                /\ space'[t].tables = space[t].tables
                                /\ space'[t].leaves = space[t].leaves
    /\ \A x \in Cpu : x # c => /\ vm_op'[x].frame = vm_op[x].frame
                               /\ vm_op'[x].reserved = vm_op[x].reserved
Conserved(c, s, f) == Distinct(c, s, f)' /\ (Claimed(c, s, f)' <=> Claimed(c, s, f))

LEMMA IsDistinct ==
    ASSUME NEW c \in Cpu, NEW s \in Slot, NEW f, OneOwner(f)
    PROVE  Distinct(c, s, f)
BY DEF OneOwner, Distinct

LEMMA Moves ==
    ASSUME NEW c \in Cpu, NEW s \in Slot, NEW f, OneOwner(f),
           Elsewhere(c, s), Conserved(c, s, f)
    PROVE  OneOwner(f)'
<1>1. /\ \A t \in Slot : t # s => (InSpace(t, f)' <=> InSpace(t, f))
      /\ \A x \in Cpu : x # c => (InOperation(x, f)' <=> InOperation(x, f))
  BY DEF Elsewhere, InSpace, InOperation
<1>2. CASE Claimed(c, s, f)
  <2>1. /\ \A t \in Slot : t # s => ~InSpace(t, f)
        /\ \A x \in Cpu : x # c => ~InOperation(x, f)
    BY <1>2 DEF Claimed, OneOwner
  <2>2. /\ \A t \in Slot : t # s => ~InSpace(t, f)'
        /\ \A x \in Cpu : x # c => ~InOperation(x, f)'
    BY <1>1, <2>1
  <2>3. \A t \in Slot : t # s => f # space'[t].root /\ f \notin space'[t].tables
    BY <2>2 DEF InSpace
  <2>4. \A x \in Cpu : x # c => f # vm_op'[x].frame
    BY <2>2 DEF InOperation
  <2> QED BY <1>2, <2>2, <2>3, <2>4 DEF OneOwner, Conserved, Distinct, Claimed
<1>3. CASE ~Claimed(c, s, f)
  <2>1. f \notin space_frames' /\ ~InSpace(s, f)' /\ ~InOperation(c, f)'
    BY <1>3 DEF Conserved, Claimed
  <2>2. f \notin space_frames /\ ~InSpace(s, f) /\ ~InOperation(c, f)
    BY <1>3 DEF Claimed
  <2>3. /\ \A t \in Slot : InSpace(t, f)' <=> InSpace(t, f)
        /\ \A x \in Cpu : InOperation(x, f)' <=> InOperation(x, f)
    BY <1>1, <2>1, <2>2
  <2>4. /\ \A x \in Cpu : f = vm_op'[x].frame => f \notin vm_op'[x].reserved
        /\ \A t \in Slot :
             /\ f = space'[t].root => f \notin space'[t].tables /\ f \notin space'[t].leaves
             /\ f \in space'[t].tables => f \notin space'[t].leaves
    <3>1. /\ f # vm_op'[c].frame /\ f # space'[s].root /\ f \notin space'[s].tables
      BY <2>1 DEF InSpace, InOperation
    <3> QED BY <3>1 DEF Elsewhere, OneOwner
  <2> QED BY <2>1, <2>2, <2>3, <2>4 DEF OneOwner
<1> QED BY <1>2, <1>3

LEMMA MovesOwned ==
    ASSUME Owned, NEW c \in Cpu, NEW s \in Slot, Elsewhere(c, s),
           \A f \in SpaceFrame : Distinct(c, s, f) => Conserved(c, s, f)
    PROVE  Owned'
<1> SUFFICES ASSUME NEW f \in SpaceFrame PROVE OneOwner(f)'
  BY DEF Owned, SpaceFrame
<1>1. OneOwner(f) /\ Conserved(c, s, f)
  BY IsDistinct DEF Owned
<1> QED BY <1>1, Moves

\* A step that moves no frame.
Still ==
    /\ \A t \in Slot : /\ space'[t].root = space[t].root
                       /\ space'[t].tables = space[t].tables
                       /\ space'[t].leaves = space[t].leaves
    /\ \A x \in Cpu : /\ vm_op'[x].frame = vm_op[x].frame
                      /\ vm_op'[x].reserved = vm_op[x].reserved
    /\ space_frames' = space_frames

LEMMA StillOwned ==
    ASSUME Owned, Still
    PROVE  Owned'
<1> SUFFICES ASSUME NEW f \in SpaceFrame PROVE OneOwner(f)'
  BY DEF Owned, SpaceFrame
<1>1. OneOwner(f)
  BY DEF Owned
<1>2. /\ \A t \in Slot : InSpace(t, f)' <=> InSpace(t, f)
      /\ \A x \in Cpu : InOperation(x, f)' <=> InOperation(x, f)
  BY DEF Still, InSpace, InOperation
<1> QED BY <1>1, <1>2 DEF OneOwner, Still

\* Only the operation of one processor moves on.
LEMMA EmptyKept ==
    ASSUME Empty, NEW c \in Cpu, \A x \in Cpu : x # c => vm_op'[x] = vm_op[x],
           \A t \in Slot :
             space'[t].root = 0 => space'[t].tables = {} /\ space'[t].leaves = {},
           vm_op'[c].pc \in {"idle", "unmap", "destroy", "released"} \/ vm_op'[c].s = 0 =>
             vm_op'[c].frame = 0 /\ vm_op'[c].reserved = {},
           vm_op'[c].pc = "release" => vm_op'[c].frame = 0
    PROVE  Empty'
BY DEF Empty

LEMMA StillEmpty ==
    ASSUME Empty, Still, vm_op' = vm_op
    PROVE  Empty'
BY DEF Empty, Still

\* Taking a lock or giving it back moves no frame.
LEMMA LockFrames ==
    ASSUME SpaceInv, NEW s \in Slot, NEW d \in Cpu \cup {NoCpu},
           space' = [space EXCEPT ![s].lock = d]
    PROVE  \A t \in Slot : /\ space'[t].root = space[t].root
                           /\ space'[t].tables = space[t].tables
                           /\ space'[t].leaves = space[t].leaves
<1>1. /\ space \in [Slot -> Metadata]
      /\ \A t \in Slot : t # s => space'[t] = space[t]
      /\ space'[s] = [space[s] EXCEPT !.lock = d]
  BY LockTyped DEF SpaceInv, SpaceTypes
<1> QED BY <1>1 DEF Metadata

FrameInv == Owned /\ Empty

LEMMA FrameInvInit == SpaceInit => FrameInv
<1> SUFFICES ASSUME SpaceInit PROVE FrameInv
  OBVIOUS
<1>1. /\ \A s \in Slot : /\ space[s].root = 0 /\ space[s].tables = {}
                         /\ space[s].leaves = {}
      /\ \A c \in Cpu : vm_op[c].frame = 0 /\ vm_op[c].reserved = {}
      /\ space_frames = SpaceFrame
  BY DEF SpaceInit, NoMetadata, NoOperation
<1>2. \A f \in SpaceFrame : /\ \A s \in Slot : ~InSpace(s, f)
                            /\ \A c \in Cpu : ~InOperation(c, f)
  BY <1>1, Constant DEF InSpace, InOperation
<1>3. Owned
  BY <1>1, <1>2, Constant, ZenonT(30) DEF Owned, OneOwner
<1>4. Empty
  BY <1>1 DEF Empty
<1> QED BY <1>3, <1>4 DEF FrameInv

\* The processor's own walk, its interrupt and its CR3.
LEMMA ProcessorFrames ==
    ASSUME SpaceInv, FrameInv, NEW c \in Cpu,
           \/ \E s \in Slot \cup {0} : vmm_switch_address_space(c, s)
           \/ \E p \in Page : TlbFill(c, p)
           \/ vmm_tlb_shootdown_handler(c)
    PROVE  FrameInv'
<1>1. vm_op' = vm_op /\ space_frames' = space_frames
  BY ZenonT(30) DEF vmm_switch_address_space, TlbFill, vmm_tlb_shootdown_handler
<1>2. \A t \in Slot : /\ space'[t].root = space[t].root
                      /\ space'[t].tables = space[t].tables
                      /\ space'[t].leaves = space[t].leaves
  <2>1. CASE space' = space
    BY <2>1
  <2>2. CASE \E s \in Slot \cup {0} : vmm_switch_address_space(c, s)
    <3>1. PICK s \in Slot \cup {0} : vmm_switch_address_space(c, s)
      BY <2>2
    <3>2. \A t \in Slot : \E m : space'[t] = [space[t] EXCEPT !.mask = m]
      BY <3>1, ZenonT(30) DEF vmm_switch_address_space
    <3> QED BY <3>2, ZenonT(30) DEF SpaceInv, SpaceTypes, Metadata
  <2> QED BY <2>1, <2>2, ZenonT(30) DEF TlbFill, vmm_tlb_shootdown_handler
<1>3. Still
  BY <1>1, <1>2 DEF Still
<1> QED BY <1>1, <1>3, StillOwned, StillEmpty DEF FrameInv

\* The steps of vmm_tlb_shootdown().
LEMMA TellingFrames ==
    ASSUME SpaceInv, FrameInv, NEW c \in Cpu,
           vmm_tlb_shootdown(c) \/ vmm_tlb_acknowledged(c)
    PROVE  FrameInv'
<1>1. PICK l \in {"finish", "wait"} : SpaceGoto(c, l)
  BY DEF vmm_tlb_shootdown, vmm_tlb_acknowledged
<1>2. l \in Locked \cup Releasing \cup {"idle"}
  BY DEF Locked, Telling
<1>3. /\ vm_op'[c].pc = l /\ vm_op'[c].s = vm_op[c].s
      /\ vm_op'[c].frame = vm_op[c].frame /\ vm_op'[c].reserved = vm_op[c].reserved
      /\ \A x \in Cpu : x # c => vm_op'[x] = vm_op[x]
  BY <1>1, <1>2, GotoTyped
<1>4. space' = space /\ space_frames' = space_frames
  BY DEF vmm_tlb_shootdown, vmm_tlb_acknowledged
<1>5. Still
  BY <1>3, <1>4 DEF Still
<1>6. Empty'
  BY <1>3, <1>4 DEF FrameInv, Empty
<1> QED BY <1>5, <1>6, StillOwned DEF FrameInv

\* Operations that begin with nothing in hand.
LEMMA BeginFrames ==
    ASSUME SpaceInv, FrameInv, NEW c \in Cpu,
           \/ \E s \in Slot, p \in Page : vmm_unmap_begin(c, s, p)
           \/ vmm_publish_kernel_mappings(c)
           \/ \E s \in Slot : vmm_destroy_begin(c, s)
    PROVE  FrameInv'
<1>1. vm_op[c].pc = "idle" /\ space_frames' = space_frames
  BY ZenonT(30) DEF vmm_unmap_begin, vmm_publish_kernel_mappings, vmm_destroy_begin, SpaceIdle
<1>2. /\ vm_op'[c].frame = 0 /\ vm_op'[c].reserved = {}
      /\ \A x \in Cpu : x # c => vm_op'[x] = vm_op[x]
  <2>1. vm_op \in [Cpu -> Operation]
    BY DEF SpaceInv, SpaceTypes
  <2>2. CASE \E s \in Slot, p \in Page : vmm_unmap_begin(c, s, p)
    BY <2>1, <2>2, ZenonT(30) DEF vmm_unmap_begin, NoOperation
  <2>3. CASE vmm_publish_kernel_mappings(c)
    BY <2>1, <2>3, ZenonT(30) DEF vmm_publish_kernel_mappings, NoOperation
  <2>4. CASE \E s \in Slot : vmm_destroy_begin(c, s)
    BY <2>1, <2>4, ZenonT(30) DEF vmm_destroy_begin, NoOperation
  <2> QED BY <2>2, <2>3, <2>4
<1>3. \A t \in Slot : /\ space'[t].root = space[t].root
                      /\ space'[t].tables = space[t].tables
                      /\ space'[t].leaves = space[t].leaves
  <2>1. space' = space \/ \E s \in Slot : space' = [space EXCEPT ![s].lock = c]
    BY ZenonT(30) DEF vmm_unmap_begin, vmm_publish_kernel_mappings, vmm_destroy_begin
  <2>2. ASSUME NEW s \in Slot, space' = [space EXCEPT ![s].lock = c]
        PROVE  \A t \in Slot : /\ space'[t].root = space[t].root
                               /\ space'[t].tables = space[t].tables
                               /\ space'[t].leaves = space[t].leaves
    BY <2>2, LockFrames
  <2> QED BY <2>1, <2>2, ZenonT(30)
<1>4. vm_op[c].frame = 0 /\ vm_op[c].reserved = {}
  BY <1>1 DEF FrameInv, Empty
<1>5. Still
  BY <1>1, <1>2, <1>3, <1>4, ZenonT(30) DEF Still
<1>6. Empty'
  BY <1>2, <1>3 DEF FrameInv, Empty
<1> QED BY <1>5, <1>6, StillOwned DEF FrameInv

LEMMA CreateFrames ==
    ASSUME SpaceInv, FrameInv, NEW c \in Cpu, vmm_create_address_space(c)
    PROVE  FrameInv'
<1> DEFINE slots == {t \in Slot : ~SpaceLive(t) /\ ~space[t].destroy_pending}
           root == Min(space_frames)
<1>1. /\ slots # {} /\ space_frames # {}
      /\ space' = [space EXCEPT ![Min(slots)] = [NoMetadata EXCEPT !.root = root]]
      /\ space_frames' = space_frames \ {root} /\ vm_op' = vm_op
      /\ space \in [Slot -> Metadata] /\ space_frames \in SUBSET SpaceFrame
  BY DEF vmm_create_address_space, SpaceInv, SpaceTypes
<1>2. root \in space_frames /\ root \in SpaceFrame
  BY <1>1, MinIn, Constant, ZenonT(30)
<1>3. PICK s \in Slot : s = Min(slots) /\ space[s].root = 0
  <2>1. slots \in SUBSET Nat /\ slots \subseteq Slot /\ \A t \in slots : space[t].root = 0
    BY Constant, ZenonT(30) DEF SpaceLive
  <2> HIDE DEF slots
  <2> QED BY <1>1, <2>1, MinIn, ZenonT(30)
<1> HIDE DEF slots, root
<1>4. /\ space'[s].root = root /\ space'[s].tables = {} /\ space'[s].leaves = {}
      /\ \A t \in Slot : t # s => space'[t] = space[t]
  BY <1>1, <1>3 DEF NoMetadata
<1>5. space[s].tables = {} /\ space[s].leaves = {}
  BY <1>3 DEF FrameInv, Empty
<1>6. Elsewhere(c, s)
  BY <1>1, <1>4, ZenonT(30) DEF Elsewhere
<1>7. ASSUME NEW f \in SpaceFrame, Distinct(c, s, f) PROVE Conserved(c, s, f)
  <2>1. ~InSpace(s, f) /\ (InSpace(s, f)' <=> f = root)
    BY <1>3, <1>4, <1>5, Constant DEF InSpace
  <2>2. InOperation(c, f)' <=> InOperation(c, f)
    BY <1>1 DEF InOperation
  <2> QED BY <1>1, <1>2, <1>4, <1>7, <2>1, <2>2, ZenonT(30) DEF Conserved, Distinct, Claimed
<1>8. Owned'
  BY <1>3, <1>6, <1>7, MovesOwned DEF FrameInv
<1>9. Empty'
  BY <1>1, <1>2, <1>4, Constant DEF FrameInv, Empty
<1> QED BY <1>8, <1>9 DEF FrameInv

LEMMA MapBeginFrames ==
    ASSUME SpaceInv, FrameInv, NEW c \in Cpu, NEW s \in Slot, NEW p \in Page,
           vmm_map_begin(c, s, p)
    PROVE  FrameInv'
<1> DEFINE n == Min(space_frames)
<1>1. n \in space_frames /\ n \in SpaceFrame
  BY MinIn, Constant DEF vmm_map_begin, SpaceInv, SpaceTypes
<1> HIDE DEF n
<1>2. /\ vm_op'[c].frame = n /\ vm_op'[c].reserved = {} /\ vm_op'[c].pc = "reserve"
      /\ vm_op'[c].s = s
      /\ \A x \in Cpu : x # c => vm_op'[x] = vm_op[x]
  <2>1. vm_op \in [Cpu -> Operation]
    BY DEF SpaceInv, SpaceTypes
  <2> QED BY <2>1, ZenonT(30) DEF vmm_map_begin, NoOperation, n
<1>3. \A t \in Slot : /\ space'[t].root = space[t].root
                      /\ space'[t].tables = space[t].tables
                      /\ space'[t].leaves = space[t].leaves
  BY LockFrames DEF vmm_map_begin
<1>4. vm_op[c].frame = 0 /\ vm_op[c].reserved = {}
  BY DEF vmm_map_begin, SpaceIdle, FrameInv, Empty
<1>5. space_frames' = space_frames \ {n}
  BY DEF vmm_map_begin, n
<1>6. Elsewhere(c, s)
  BY <1>2, <1>3 DEF Elsewhere
<1>7. ASSUME NEW f \in SpaceFrame, Distinct(c, s, f) PROVE Conserved(c, s, f)
  BY <1>1, <1>2, <1>3, <1>4, <1>5, <1>7, Constant
     DEF Conserved, Distinct, Claimed, InSpace, InOperation
<1>8. Owned'
  BY <1>6, <1>7, MovesOwned DEF FrameInv
<1>9. Empty'
  BY <1>2, <1>3, Constant DEF FrameInv, Empty
<1> QED BY <1>8, <1>9 DEF FrameInv

LEMMA ReserveFrames ==
    ASSUME SpaceInv, FrameInv, NEW c \in Cpu, vmm_map_reserve(c)
    PROVE  FrameInv'
<1> DEFINE n == Min(space_frames)
<1>1. /\ vm_op[c].pc = "reserve" /\ space' = space /\ Working(c)
      /\ vm_op \in [Cpu -> Operation] /\ vm_op[c] \in Operation
  BY DEF vmm_map_reserve, SpaceInv, SpaceTypes, Operations
<1>2. PICK s \in Slot : s = vm_op[c].s
  BY <1>1 DEF Working, Operation, Telling
<1>3. CASE space_frames = {}
  <2>1. SpaceGoto(c, "reserve_failure") /\ space_frames' = space_frames
    BY <1>3 DEF vmm_map_reserve
  <2>2. "reserve_failure" \in Locked \cup Releasing \cup {"idle"}
    BY DEF Locked, Mapping
  <2>3. /\ vm_op'[c].pc = "reserve_failure" /\ vm_op'[c].s = vm_op[c].s
        /\ vm_op'[c].frame = vm_op[c].frame /\ vm_op'[c].reserved = vm_op[c].reserved
        /\ \A x \in Cpu : x # c => vm_op'[x] = vm_op[x]
    BY <2>1, <2>2, GotoTyped
  <2>4. Still
    BY <1>1, <2>1, <2>3 DEF Still
  <2>5. Empty'
    BY <1>1, <2>3 DEF FrameInv, Empty
  <2> QED BY <2>4, <2>5, StillOwned DEF FrameInv
<1>4. CASE space_frames # {}
  <2>1. n \in space_frames /\ n \in SpaceFrame
    BY <1>4, MinIn, Constant, ZenonT(30) DEF SpaceInv, SpaceTypes
  <2>2. /\ vm_op'[c].pc \in {"insert", "reserve"} /\ vm_op'[c].s = s
        /\ vm_op'[c].frame = vm_op[c].frame
        /\ vm_op'[c].reserved = vm_op[c].reserved \cup {n}
        /\ \A x \in Cpu : x # c => vm_op'[x] = vm_op[x]
    <3> DEFINE l == IF Cardinality(vm_op[c].reserved) + 1 = TableLevels
                    THEN "insert" ELSE "reserve"
               o == [vm_op[c] EXCEPT !.reserved = @ \cup {n}, !.pc = l]
    <3>1. vm_op' = [vm_op EXCEPT ![c] = o]
      BY <1>1, <1>4, ZenonT(30) DEF vmm_map_reserve
    <3>2. l \in {"insert", "reserve"}
      OBVIOUS
    <3> HIDE DEF l, n
    <3>3. /\ o.pc \in {"insert", "reserve"} /\ o.s = s /\ o.frame = vm_op[c].frame
          /\ o.reserved = vm_op[c].reserved \cup {n}
      BY <1>1, <1>2, <3>2, ZenonT(30) DEF Operation
    <3> HIDE DEF o
    <3> QED BY <1>1, <3>1, <3>3
  <2>3. space_frames' = space_frames \ {n}
    BY <1>4 DEF vmm_map_reserve
  <2> HIDE DEF n
  <2>4. Elsewhere(c, s)
    BY <1>1, <2>2 DEF Elsewhere
  <2>5. ASSUME NEW f \in SpaceFrame, Distinct(c, s, f) PROVE Conserved(c, s, f)
    <3>1. InSpace(s, f)' <=> InSpace(s, f)
      BY <1>1 DEF InSpace
    <3>2. InOperation(c, f)' <=> (InOperation(c, f) \/ f = n)
      BY <2>2 DEF InOperation
    <3>3. f = n => ~InOperation(c, f)
      BY <2>1, <2>5 DEF Distinct
    <3>4. f = vm_op'[c].frame => f \notin vm_op'[c].reserved
      BY <2>2, <2>5, <3>3 DEF Distinct, InOperation
    <3> QED BY <1>1, <2>1, <2>3, <2>5, <3>1, <3>2, <3>4, ZenonT(30) DEF Conserved, Distinct, Claimed
  <2>6. Owned'
    BY <1>2, <2>4, <2>5, MovesOwned DEF FrameInv
  <2>7. Empty'
    BY <1>1, <1>2, <2>2, Constant DEF FrameInv, Empty
  <2> QED BY <2>6, <2>7 DEF FrameInv
<1> QED BY <1>3, <1>4

\* An operation ends and what it still has goes back to the bitmap.
LEMMA EndFrames ==
    ASSUME SpaceInv, FrameInv, NEW c \in Cpu, NEW s \in Slot, vm_op[c].s = s,
           SpaceDone(c), NEW freed \in SUBSET (SpaceFrame \cup {0}),
           space_frames' \in SUBSET SpaceFrame,
           \A f \in SpaceFrame : f \in freed <=> InOperation(c, f),
           \A f \in SpaceFrame :
             f \in space_frames' <=> f \in space_frames \/ f \in freed,
           \A t \in Slot : /\ space'[t].root = space[t].root
                           /\ space'[t].tables = space[t].tables
                           /\ space'[t].leaves = space[t].leaves
    PROVE  FrameInv'
<1>1. /\ vm_op'[c].frame = 0 /\ vm_op'[c].reserved = {}
      /\ \A x \in Cpu : x # c => vm_op'[x] = vm_op[x]
  BY ZenonT(30) DEF SpaceDone, NoOperation, SpaceInv, SpaceTypes
<1>2. Elsewhere(c, s)
  BY <1>1, ZenonT(30) DEF Elsewhere
<1>3. ASSUME NEW f \in SpaceFrame, Distinct(c, s, f) PROVE Conserved(c, s, f)
  <2>1. ~InOperation(c, f)'
    BY <1>1, Constant, ZenonT(30) DEF InOperation
  <2>2. InSpace(s, f)' <=> InSpace(s, f)
    BY ZenonT(30) DEF InSpace
  <2> QED BY <1>1, <1>3, <2>1, <2>2, Constant, ZenonT(30) DEF Conserved, Distinct, Claimed
<1>4. Owned'
  BY <1>2, <1>3, MovesOwned, ZenonT(30) DEF FrameInv
<1>5. Empty'
  BY <1>1, ZenonT(30) DEF FrameInv, Empty
<1> QED BY <1>4, <1>5 DEF FrameInv

LEMMA FailureFrames ==
    ASSUME SpaceInv, FrameInv, NEW c \in Cpu, vmm_map_reserve_failure(c)
    PROVE  FrameInv'
<1> DEFINE s == vm_op[c].s
<1>1. /\ vm_op[c].pc = "reserve_failure" /\ Working(c) /\ vm_op[c] \in Operation
      /\ SpaceDone(c) /\ space' = [space EXCEPT ![s].lock = NoCpu]
      /\ space_frames' = space_frames \cup Unreserved(c)
  BY DEF vmm_map_reserve_failure, SpaceInv, SpaceTypes, Operations
<1>2. s \in Slot /\ vm_op[c].frame \in SpaceFrame
  BY <1>1 DEF Working, Operation, Mapping, Telling
<1>3. /\ Unreserved(c) \in SUBSET (SpaceFrame \cup {0})
      /\ \A f \in SpaceFrame : f \in Unreserved(c) <=> InOperation(c, f)
      /\ space_frames' \in SUBSET SpaceFrame
  BY <1>1, <1>2 DEF Unreserved, InOperation, Operation, SpaceInv, SpaceTypes
<1> HIDE DEF s
<1>4. \A t \in Slot : /\ space'[t].root = space[t].root
                      /\ space'[t].tables = space[t].tables
                      /\ space'[t].leaves = space[t].leaves
  BY <1>1, <1>2, LockFrames
<1>5. vm_op[c].s = s
  BY DEF s
<1>6. \A f \in SpaceFrame :
        f \in space_frames' <=> f \in space_frames \/ f \in Unreserved(c)
  BY <1>1
<1> QED BY <1>1, <1>2, <1>3, <1>4, <1>5, <1>6, EndFrames

LEMMA FinishFrames ==
    ASSUME SpaceInv, FrameInv, NEW c \in Cpu, vmm_operation_finish(c)
    PROVE  FrameInv'
<1> DEFINE s == vm_op[c].s
           freed == vm_op[c].reserved \cup ({vm_op[c].frame} \ {0})
<1>1. /\ vm_op[c].pc = "finish" /\ vm_op[c] \in Operation /\ SpaceDone(c)
      /\ space_frames' = space_frames \cup vm_op[c].reserved
                           \cup ({vm_op[c].frame} \ {0})
      /\ s = 0 => space' = space
      /\ s # 0 => space' = [space EXCEPT ![s].lock = NoCpu]
  BY DEF vmm_operation_finish, SpaceInv, SpaceTypes
<1>2. /\ freed \in SUBSET (SpaceFrame \cup {0})
      /\ \A f \in SpaceFrame : f \in freed <=> InOperation(c, f)
      /\ space_frames' \in SUBSET SpaceFrame
      /\ \A f \in SpaceFrame : f \in space_frames' <=> f \in space_frames \/ f \in freed
  BY <1>1, Constant DEF InOperation, Operation, SpaceInv, SpaceTypes
<1>3. s \in Slot \cup {0}
  BY <1>1 DEF Operation
<1>4. CASE s = 0
  <2>1. vm_op[c].frame = 0 /\ vm_op[c].reserved = {}
    BY <1>4 DEF FrameInv, Empty
  <2>2. /\ vm_op'[c].frame = 0 /\ vm_op'[c].reserved = {}
        /\ \A x \in Cpu : x # c => vm_op'[x] = vm_op[x]
    BY <1>1 DEF SpaceDone, NoOperation, SpaceInv, SpaceTypes
  <2>3. Still
    BY <1>1, <1>4, <2>1, <2>2, ZenonT(30) DEF Still
  <2>4. Empty'
    BY <1>1, <1>4, <2>2 DEF FrameInv, Empty
  <2> QED BY <2>3, <2>4, StillOwned DEF FrameInv
<1>5. CASE s # 0
  <2>1. s \in Slot /\ vm_op[c].s = s
    BY <1>3, <1>5
  <2> HIDE DEF s, freed
  <2>2. \A t \in Slot : /\ space'[t].root = space[t].root
                        /\ space'[t].tables = space[t].tables
                        /\ space'[t].leaves = space[t].leaves
    BY <1>1, <1>5, <2>1, LockFrames
  <2> QED BY <1>1, <1>2, <2>1, <2>2, EndFrames
<1> QED BY <1>4, <1>5

LEMMA ReleaseFrames ==
    ASSUME SpaceInv, FrameInv, NEW c \in Cpu, vmm_destroy_release(c)
    PROVE  FrameInv'
<1>1. /\ vm_op[c].pc = "release" /\ Working(c) /\ vm_op[c] \in Operation
      /\ space' = space /\ space_frames' = space_frames \cup vm_op[c].reserved
      /\ vm_op \in [Cpu -> Operation]
  BY DEF vmm_destroy_release, SpaceInv, SpaceTypes, Operations
<1>2. PICK s \in Slot : s = vm_op[c].s /\ vm_op[c].frame = 0
  BY <1>1 DEF Working, Operation, Releasing, FrameInv, Empty
<1>3. /\ vm_op'[c].pc = "released" /\ vm_op'[c].frame = 0 /\ vm_op'[c].reserved = {}
      /\ \A x \in Cpu : x # c => vm_op'[x] = vm_op[x]
  BY <1>1, <1>2, ZenonT(30) DEF vmm_destroy_release, Operation
<1>4. Elsewhere(c, s)
  BY <1>1, <1>3 DEF Elsewhere
<1>5. ASSUME NEW f \in SpaceFrame, Distinct(c, s, f) PROVE Conserved(c, s, f)
  <2>1. ~InOperation(c, f)' /\ (InOperation(c, f) <=> f \in vm_op[c].reserved)
    BY <1>2, <1>3, Constant DEF InOperation
  <2>2. InSpace(s, f)' <=> InSpace(s, f)
    BY <1>1 DEF InSpace
  <2> QED BY <1>1, <1>3, <1>5, <2>1, <2>2, ZenonT(30) DEF Conserved, Distinct, Claimed
<1>6. Owned'
  BY <1>2, <1>4, <1>5, MovesOwned DEF FrameInv
<1>7. Empty'
  BY <1>1, <1>3 DEF FrameInv, Empty
<1> QED BY <1>6, <1>7 DEF FrameInv

LEMMA DestroyEndFrames ==
    ASSUME SpaceInv, FrameInv, NEW c \in Cpu, vmm_destroy_end(c)
    PROVE  FrameInv'
<1>1. /\ vm_op[c].pc = "released" /\ SpaceDone(c) /\ space_frames' = space_frames
      /\ space' = [space EXCEPT ![vm_op[c].s].destroy_pending = FALSE]
      /\ space \in [Slot -> Metadata]
  BY DEF vmm_destroy_end, SpaceInv, SpaceTypes
<1>2. vm_op[c].frame = 0 /\ vm_op[c].reserved = {}
  BY <1>1 DEF FrameInv, Empty
<1>3. /\ vm_op'[c].frame = 0 /\ vm_op'[c].reserved = {}
      /\ \A x \in Cpu : x # c => vm_op'[x] = vm_op[x]
  BY <1>1 DEF SpaceDone, NoOperation, SpaceInv, SpaceTypes
<1>4. \A t \in Slot : /\ space'[t].root = space[t].root
                      /\ space'[t].tables = space[t].tables
                      /\ space'[t].leaves = space[t].leaves
  BY <1>1 DEF Metadata
<1>5. Still
  BY <1>1, <1>2, <1>3, <1>4, ZenonT(30) DEF Still
<1>6. Empty'
  BY <1>3, <1>4 DEF FrameInv, Empty
<1> QED BY <1>5, <1>6, StillOwned DEF FrameInv

LEMMA DestroyFrames ==
    ASSUME SpaceInv, FrameInv, NEW c \in Cpu, vmm_destroy_address_space(c)
    PROVE  FrameInv'
<1>1. /\ vm_op[c].pc = "destroy" /\ Working(c) /\ vm_op[c] \in Operation
      /\ space_frames' = space_frames
      /\ space \in [Slot -> Metadata] /\ vm_op \in [Cpu -> Operation]
  BY DEF vmm_destroy_address_space, SpaceInv, SpaceTypes, Operations
<1>2. PICK s \in Slot : /\ s = vm_op[c].s /\ space[s].root # 0
                        /\ vm_op[c].frame = 0 /\ vm_op[c].reserved = {}
  BY <1>1 DEF Working, Operation, Locked, Telling, FrameInv, Empty
<1>3. CASE space[s].mask # {}
  <2>1. vm_op' = vm_op /\ space' = [space EXCEPT ![s].destroy_pending = TRUE]
    BY <1>2, <1>3 DEF vmm_destroy_address_space, vmm_cpu_mask_empty
  <2>2. \A t \in Slot : /\ space'[t].root = space[t].root
                        /\ space'[t].tables = space[t].tables
                        /\ space'[t].leaves = space[t].leaves
    BY <1>1, <1>2, <2>1 DEF Metadata
  <2>3. Still
    BY <1>1, <2>1, <2>2 DEF Still
  <2> QED BY <2>1, <2>3, StillOwned, StillEmpty DEF FrameInv
<1>4. CASE space[s].mask = {}
  <2> DEFINE r == {space[s].root} \cup space[s].leaves \cup space[s].tables
  <2>1. /\ vm_op' = [vm_op EXCEPT ![c].pc = "release", ![c].reserved = r]
        /\ space' = [space EXCEPT ![s] = [NoMetadata EXCEPT !.destroy_pending = TRUE]]
    BY <1>2, <1>4, ZenonT(30) DEF vmm_destroy_address_space, vmm_cpu_mask_empty
  <2>2. \A f : f \in r <=> InSpace(s, f)
    BY DEF InSpace
  <2> HIDE DEF r
  <2>3. /\ vm_op'[c].pc = "release" /\ vm_op'[c].frame = 0 /\ vm_op'[c].reserved = r
        /\ vm_op'[c].s = s
        /\ \A x \in Cpu : x # c => vm_op'[x] = vm_op[x]
    BY <1>1, <1>2, <2>1, ZenonT(30) DEF Operation
  <2>4. /\ space'[s].root = 0 /\ space'[s].tables = {} /\ space'[s].leaves = {}
        /\ \A t \in Slot : t # s => space'[t] = space[t]
    BY <1>1, <1>2, <2>1, ZenonT(30) DEF NoMetadata
  <2>5. Elsewhere(c, s)
    BY <2>3, <2>4 DEF Elsewhere
  <2>6. ASSUME NEW f \in SpaceFrame, Distinct(c, s, f) PROVE Conserved(c, s, f)
    <3>1. ~InSpace(s, f)' /\ f # space'[s].root /\ f \notin space'[s].tables
      BY <2>4, Constant, ZenonT(30) DEF InSpace
    <3>2. ~InOperation(c, f) /\ (InOperation(c, f)' <=> InSpace(s, f)) /\ f # vm_op'[c].frame
      BY <1>2, <2>2, <2>3, Constant DEF InOperation
    <3> QED BY <1>1, <2>6, <3>1, <3>2, ZenonT(30) DEF Conserved, Distinct, Claimed
  <2>7. Owned'
    BY <1>2, <2>5, <2>6, MovesOwned DEF FrameInv
  <2>8. Empty'
    BY <1>2, <2>3, <2>4, Constant DEF FrameInv, Empty
  <2> QED BY <2>7, <2>8 DEF FrameInv
<1> QED BY <1>3, <1>4

LEMMA InsertFrames ==
    ASSUME SpaceInv, FrameInv, NEW c \in Cpu, vmm_map_insert(c)
    PROVE  FrameInv'
<1>1. /\ vm_op[c].pc = "insert" /\ vm_op[c] \in Operation /\ Working(c)
      /\ space_frames' = space_frames
      /\ space \in [Slot -> Metadata] /\ vm_op \in [Cpu -> Operation]
  BY ZenonT(30) DEF vmm_map_insert, SpaceInv, SpaceTypes, Operations
<1>2. PICK s \in Slot, p \in Page, g \in SpaceFrame :
        s = vm_op[c].s /\ p = vm_op[c].page /\ g = vm_op[c].frame /\ space[s].root # 0
  BY <1>1 DEF Working, Operation, Locked, Mapping, Telling
<1>3. CASE ~SpaceUsable(s) \/ ~vmm_user_path_available(s, p) \/ g \in space[s].leaves
  <2>1. SpaceGoto(c, "reserve_failure") /\ space' = space
    BY <1>2, <1>3, ZenonT(30) DEF vmm_map_insert
  <2>2. "reserve_failure" \in Locked \cup Releasing \cup {"idle"}
    BY DEF Locked, Mapping
  <2>3. /\ vm_op'[c].pc = "reserve_failure" /\ vm_op'[c].s = s
        /\ vm_op'[c].frame = vm_op[c].frame /\ vm_op'[c].reserved = vm_op[c].reserved
        /\ \A x \in Cpu : x # c => vm_op'[x] = vm_op[x]
    BY <1>2, <2>1, <2>2, GotoTyped
  <2>4. Still
    BY <1>1, <2>1, <2>3 DEF Still
  <2>5. Empty'
    BY <1>2, <2>1, <2>3, Constant DEF FrameInv, Empty
  <2> QED BY <2>4, <2>5, StillOwned DEF FrameInv
<1>4. CASE ~(~SpaceUsable(s) \/ ~vmm_user_path_available(s, p) \/ g \in space[s].leaves)
  <2>1. PICK used : used = IF space[s].tables = {} THEN vm_op[c].reserved ELSE {}
    BY ZenonT(30)
  <2>2. /\ space' = [space EXCEPT ![s].tables = @ \cup used, ![s].leaves = @ \cup {g},
                                  ![s].pte[p] = g]
        /\ vm_op' = [vm_op EXCEPT ![c].pc = "shootdown", ![c].frame = 0,
                                  ![c].reserved = @ \ used,
                                  ![c].targets = vmm_capture_active_targets_locked(c, s)]
    BY <1>2, <1>4, <2>1, ZenonT(30) DEF vmm_map_insert
  <2>3. used \subseteq vm_op[c].reserved
    BY <2>1
  <2>4. /\ vm_op'[c].pc = "shootdown" /\ vm_op'[c].s = s /\ vm_op'[c].frame = 0
        /\ vm_op'[c].reserved = vm_op[c].reserved \ used
        /\ \A x \in Cpu : x # c => vm_op'[x] = vm_op[x]
    BY <1>1, <1>2, <2>2, ZenonT(30) DEF Operation
  <2>5. /\ space'[s].root = space[s].root
        /\ space'[s].tables = space[s].tables \cup used
        /\ space'[s].leaves = space[s].leaves \cup {g}
        /\ \A t \in Slot : t # s => space'[t] = space[t]
    <3> DEFINE new == [space[s] EXCEPT !.tables = space[s].tables \cup used,
                                       !.leaves = space[s].leaves \cup {g},
                                       !.pte = [space[s].pte EXCEPT ![p] = g]]
    <3>1. space' = [space EXCEPT ![s] = new]
      <4>1. /\ space' = [space EXCEPT ![s].tables = @ \cup used, ![s].leaves = @ \cup {g},
                                      ![s].pte[p] = g]
            /\ space \in [Slot -> Metadata]
        BY <1>1, <2>2, ZenonT(30)
      <4> QED BY <4>1, ZenonT(30)
    <3>2. /\ new.root = space[s].root /\ new.tables = space[s].tables \cup used
          /\ new.leaves = space[s].leaves \cup {g}
      BY <1>1 DEF Metadata
    <3> HIDE DEF new
    <3> QED BY <1>1, <3>1, <3>2, ZenonT(30)
  <2>6. Elsewhere(c, s)
    BY <2>4, <2>5 DEF Elsewhere
  <2>7. ASSUME NEW f \in SpaceFrame, Distinct(c, s, f) PROVE Conserved(c, s, f)
    <3>1. InSpace(s, f)' <=> (InSpace(s, f) \/ f \in used \/ f = g)
      BY <2>5 DEF InSpace
    <3>2. /\ InOperation(c, f)' <=> (f \in vm_op[c].reserved /\ f \notin used)
          /\ InOperation(c, f) <=> (f \in vm_op[c].reserved \/ f = g)
          /\ f # vm_op'[c].frame
      BY <1>2, <2>4, Constant DEF InOperation
    <3>3. f = g => f \notin vm_op[c].reserved
      BY <1>2, <2>7 DEF Distinct
    <3>4. InSpace(s, f) <=>
            (f = space[s].root \/ f \in space[s].tables \/ f \in space[s].leaves)
      BY DEF InSpace
    <3>5. /\ f = space'[s].root => f \notin space'[s].tables /\ f \notin space'[s].leaves
          /\ f \in space'[s].tables => f \notin space'[s].leaves
      BY <2>3, <2>5, <2>7, <3>2, <3>3, <3>4, ZenonT(30) DEF Distinct
    <3> QED BY <1>1, <2>3, <2>7, <3>1, <3>2, <3>3, <3>5, ZenonT(30) DEF Conserved, Distinct, Claimed
  <2>8. Owned'
    BY <2>6, <2>7, MovesOwned DEF FrameInv
  <2>9. Empty'
    BY <1>2, <2>4, <2>5, Constant DEF FrameInv, Empty
  <2> QED BY <2>8, <2>9 DEF FrameInv
<1> QED BY <1>3, <1>4

LEMMA UnmapFrames ==
    ASSUME SpaceInv, FrameInv, NEW c \in Cpu, vmm_unmap_user_page(c)
    PROVE  FrameInv'
<1>1. /\ vm_op[c].pc = "unmap" /\ vm_op[c] \in Operation /\ Working(c)
      /\ space_frames' = space_frames
      /\ space \in [Slot -> Metadata] /\ vm_op \in [Cpu -> Operation]
  BY ZenonT(30) DEF vmm_unmap_user_page, SpaceInv, SpaceTypes, Operations
<1>2. PICK s \in Slot, p \in Page : /\ s = vm_op[c].s /\ p = vm_op[c].page
                                    /\ space[s].root # 0
  BY <1>1 DEF Working, Operation, Locked, Mapping, Telling
<1>3. PICK g : g = space[s].pte[p]
  OBVIOUS
<1>4. vm_op[c].frame = 0 /\ vm_op[c].reserved = {}
  BY <1>1 DEF FrameInv, Empty
<1>5. CASE ~SpaceUsable(s) \/ g = 0
  <2>1. space' = [space EXCEPT ![s].lock = NoCpu] /\ SpaceDone(c)
    BY <1>2, <1>3, <1>5, ZenonT(30) DEF vmm_unmap_user_page
  <2>2. /\ vm_op'[c].frame = 0 /\ vm_op'[c].reserved = {}
        /\ \A x \in Cpu : x # c => vm_op'[x] = vm_op[x]
    BY <1>1, <2>1 DEF SpaceDone, NoOperation
  <2>3. \A t \in Slot : /\ space'[t].root = space[t].root
                        /\ space'[t].tables = space[t].tables
                        /\ space'[t].leaves = space[t].leaves
    BY <2>1, LockFrames
  <2>4. Still
    BY <1>1, <1>4, <2>2, <2>3, ZenonT(30) DEF Still
  <2>5. Empty'
    BY <2>2, <2>3 DEF FrameInv, Empty
  <2> QED BY <2>4, <2>5, StillOwned DEF FrameInv
<1>6. CASE ~(~SpaceUsable(s) \/ g = 0)
  <2>1. /\ space' = [space EXCEPT ![s].leaves = @ \ {g}, ![s].pte[p] = 0]
        /\ vm_op' = [vm_op EXCEPT ![c].pc = "shootdown", ![c].frame = g,
                                  ![c].targets = vmm_capture_active_targets_locked(c, s)]
    BY <1>2, <1>3, <1>6, ZenonT(30) DEF vmm_unmap_user_page
  <2>2. g \in space[s].leaves /\ g # 0
    BY <1>2, <1>3, <1>6 DEF SpaceInv, Tables
  <2>3. /\ vm_op'[c].pc = "shootdown" /\ vm_op'[c].s = s /\ vm_op'[c].frame = g
        /\ vm_op'[c].reserved = {}
        /\ \A x \in Cpu : x # c => vm_op'[x] = vm_op[x]
    BY <1>1, <1>2, <1>4, <2>1, ZenonT(30) DEF Operation
  <2>4. /\ space'[s].root = space[s].root /\ space'[s].tables = space[s].tables
        /\ space'[s].leaves = space[s].leaves \ {g}
        /\ \A t \in Slot : t # s => space'[t] = space[t]
    <3> DEFINE new == [space[s] EXCEPT !.leaves = space[s].leaves \ {g},
                                       !.pte = [space[s].pte EXCEPT ![p] = 0]]
    <3>1. space' = [space EXCEPT ![s] = new]
      <4>1. /\ space' = [space EXCEPT ![s].leaves = @ \ {g}, ![s].pte[p] = 0]
            /\ space \in [Slot -> Metadata]
        BY <1>1, <2>1, ZenonT(30)
      <4> QED BY <4>1, ZenonT(30)
    <3>2. /\ new.root = space[s].root /\ new.tables = space[s].tables
          /\ new.leaves = space[s].leaves \ {g}
      BY <1>1 DEF Metadata
    <3> HIDE DEF new
    <3> QED BY <1>1, <3>1, <3>2, ZenonT(30)
  <2>5. Elsewhere(c, s)
    BY <2>3, <2>4 DEF Elsewhere
  <2>6. ASSUME NEW f \in SpaceFrame, Distinct(c, s, f) PROVE Conserved(c, s, f)
    <3>1. /\ f = g => InSpace(s, f) /\ ~InSpace(s, f)'
          /\ f # g => (InSpace(s, f)' <=> InSpace(s, f))
      BY <2>2, <2>4, <2>6 DEF InSpace, Distinct
    <3>2. ~InOperation(c, f) /\ (InOperation(c, f)' <=> f = g) /\ f \notin vm_op'[c].reserved
      BY <1>4, <2>3, Constant DEF InOperation
    <3>3. /\ f = space'[s].root => f \notin space'[s].tables /\ f \notin space'[s].leaves
          /\ f \in space'[s].tables => f \notin space'[s].leaves
      BY <2>4, <2>6 DEF Distinct
    <3> QED BY <1>1, <2>6, <3>1, <3>2, <3>3, ZenonT(30) DEF Conserved, Distinct, Claimed
  <2>7. Owned'
    BY <2>5, <2>6, MovesOwned DEF FrameInv
  <2>8. Empty'
    BY <1>2, <2>3, <2>4, Constant DEF FrameInv, Empty
  <2> QED BY <2>7, <2>8 DEF FrameInv
<1> QED BY <1>5, <1>6

LEMMA FrameInvNext ==
    SpaceInv /\ FrameInv /\ [SpaceNext]_spaceVars => FrameInv'
<1> SUFFICES ASSUME SpaceInv, FrameInv, [SpaceNext]_spaceVars PROVE FrameInv'
  OBVIOUS
<1>1. CASE UNCHANGED spaceVars
  <2>1. Still /\ vm_op' = vm_op
    BY <1>1 DEF Still, spaceVars
  <2> QED BY <2>1, StillOwned, StillEmpty DEF FrameInv
<1>2. CASE SpaceNext
  <2>1. PICK c \in Cpu :
      \/ vmm_create_address_space(c)
      \/ \E s \in Slot \cup {0} : vmm_switch_address_space(c, s)
      \/ \E p \in Page : TlbFill(c, p)
      \/ \E s \in Slot, p \in Page : vmm_map_begin(c, s, p) \/ vmm_unmap_begin(c, s, p)
      \/ vmm_map_reserve(c)
      \/ vmm_map_reserve_failure(c)
      \/ vmm_map_insert(c)
      \/ vmm_unmap_user_page(c)
      \/ vmm_tlb_shootdown(c)
      \/ vmm_tlb_acknowledged(c)
      \/ vmm_tlb_shootdown_handler(c)
      \/ vmm_operation_finish(c)
      \/ vmm_publish_kernel_mappings(c)
      \/ \E s \in Slot : vmm_destroy_begin(c, s)
      \/ vmm_destroy_address_space(c)
      \/ vmm_destroy_release(c)
      \/ vmm_destroy_end(c)
    BY <1>2, ZenonT(30) DEF SpaceNext
  <2> QED BY <2>1, CreateFrames, ProcessorFrames, MapBeginFrames, BeginFrames,
             ReserveFrames, FailureFrames, InsertFrames, UnmapFrames,
             TellingFrames, FinishFrames, DestroyFrames, ReleaseFrames,
             DestroyEndFrames
<1> QED BY <1>1, <1>2

\* How many elements a set with at most one has.
LEMMA AtMostOne ==
    ASSUME NEW S, \A x, y \in S : x = y
    PROVE  Cardinality(S) = IF S = {} THEN 0 ELSE 1
<1>1. CASE S = {}
  BY <1>1, FS_EmptySet
<1>2. CASE S # {}
  <2>1. PICK x : S = {x}
    BY <1>2
  <2> QED BY <1>2, <2>1, FS_Singleton
<1> QED BY <1>1, <1>2

\* The owners counted.
LEMMA FrameInvCounts == FrameInv => FramesOwnedOnce
<1> SUFFICES ASSUME FrameInv, NEW f \in SpaceFrame PROVE FrameOwners(f) = 1
  BY DEF FramesOwnedOnce
<1> DEFINE R == {s \in Slot : space[s].root = f}
           T == {s \in Slot : f \in space[s].tables}
           L == {s \in Slot : f \in space[s].leaves}
           V == {c \in Cpu : f \in vm_op[c].reserved}
           W == {c \in Cpu : vm_op[c].frame = f}
<1>1. OneOwner(f)
  BY DEF FrameInv, Owned
<1>2. /\ \A x, y \in R : x = y
      /\ \A x, y \in T : x = y
      /\ \A x, y \in L : x = y
      /\ \A x, y \in V : x = y
      /\ \A x, y \in W : x = y
  BY <1>1 DEF OneOwner, InSpace, InOperation
<1>3. /\ f \in space_frames => R = {} /\ T = {} /\ L = {} /\ V = {} /\ W = {}
      /\ R # {} => T = {} /\ L = {} /\ V = {} /\ W = {}
      /\ T # {} => L = {} /\ V = {} /\ W = {}
      /\ L # {} => V = {} /\ W = {}
      /\ V # {} => W = {}
      /\ f \in space_frames \/ R # {} \/ T # {} \/ L # {} \/ V # {} \/ W # {}
  <2>1. \A s \in Slot : InSpace(s, f) <=> s \in R \/ s \in T \/ s \in L
    BY DEF InSpace
  <2>2. \A c \in Cpu : InOperation(c, f) <=> c \in V \/ c \in W
    BY DEF InOperation
  <2>3. /\ \A s, t \in Slot : s \in R => t \notin T /\ t \notin L
        /\ \A s, t \in Slot : s \in T => t \notin L
    BY <1>1, <2>1 DEF OneOwner
  <2>4. \A c, d \in Cpu : c \in V => d \notin W
    BY <1>1, <2>2 DEF OneOwner
  <2>5. /\ f \in space_frames => \A s \in Slot : ~InSpace(s, f)
        /\ f \in space_frames => \A c \in Cpu : ~InOperation(c, f)
        /\ \A c \in Cpu, s \in Slot : ~(InSpace(s, f) /\ InOperation(c, f))
        /\ \/ f \in space_frames
           \/ \E s \in Slot : InSpace(s, f)
           \/ \E c \in Cpu : InOperation(c, f)
    BY <1>1 DEF OneOwner
  <2>6. R \subseteq Slot /\ T \subseteq Slot /\ L \subseteq Slot /\ V \subseteq Cpu /\ W \subseteq Cpu
    OBVIOUS
  <2> HIDE DEF R, T, L, V, W
  <2> QED BY <2>1, <2>2, <2>3, <2>4, <2>5, <2>6
<1>4. FrameOwners(f) = (IF f \in space_frames THEN 1 ELSE 0) + Cardinality(R) + Cardinality(T)
                         + Cardinality(L) + Cardinality(V) + Cardinality(W)
  BY DEF FrameOwners
<1> HIDE DEF R, T, L, V, W
<1>5. /\ Cardinality(R) = IF R = {} THEN 0 ELSE 1
      /\ Cardinality(T) = IF T = {} THEN 0 ELSE 1
      /\ Cardinality(L) = IF L = {} THEN 0 ELSE 1
      /\ Cardinality(V) = IF V = {} THEN 0 ELSE 1
      /\ Cardinality(W) = IF W = {} THEN 0 ELSE 1
  BY <1>2, AtMostOne
<1> QED BY <1>3, <1>4, <1>5
-----------------------------------------------------------------------------
(* The theorems.                                                           *)

\* The invariant holds in every reachable state of vmm.c's protocol.
THEOREM SpaceInvariant == SpaceInit /\ [][SpaceNext]_spaceVars => []SpaceInv
BY SpaceInvInit, SpaceInvNext, PTL

\* Every variable keeps its type; acknowledgements come from processors the
\* shootdown asked (vmm_tlb_shootdown_handler).
THEOREM SpaceTypeCorrect == SpaceInit /\ [][SpaceNext]_spaceVars => []SpaceTypeOK
BY SpaceInvariant, SpaceInvTypes, PTL

\* No processor translates through a mapping whose frame was given back:
\* vmm_unmap_user_page() returns only after every processor that may have
\* cached it dropped it.
THEOREM NoStaleUse == SpaceInit /\ [][SpaceNext]_spaceVars => []NoStaleTranslation
BY SpaceInvariant, SpaceInvStale, PTL

\* active_cpu_mask names exactly the processors that run in an address space,
\* so vmm_destroy_address_space() frees no table a processor walks.
THEOREM RootsLive == SpaceInit /\ [][SpaceNext]_spaceVars => []ActiveRootLives
BY SpaceInvariant, SpaceInvRoots, PTL

\* Every frame is free, or the root, a table or a leaf of one address space,
\* or in the hands of one operation: no failure path of vmm_map_user_page(),
\* vmm_unmap_user_page() or vmm_destroy_address_space() leaks a frame or
\* frees one twice.
THEOREM FramesAccountedFor ==
    SpaceInit /\ [][SpaceNext]_spaceVars => []FramesOwnedOnce
<1>1. SpaceInit => SpaceInv /\ FrameInv
  BY SpaceInvInit, FrameInvInit
<1>2. SpaceInv /\ FrameInv /\ [SpaceNext]_spaceVars => (SpaceInv /\ FrameInv)'
  BY SpaceInvNext, FrameInvNext
<1>3. FrameInv => FramesOwnedOnce
  BY FrameInvCounts
<1> QED BY <1>1, <1>2, <1>3, PTL
=============================================================================
