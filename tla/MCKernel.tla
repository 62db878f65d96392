------------------------------ MODULE MCKernel ------------------------------
(***************************************************************************)
(* The kernel services that share no state, side by side for TLC: the      *)
(* sleeping mutex, address spaces, physical memory and the heap, the       *)
(* handle table, anonymous mappings, the console, the terminal, and        *)
(* process lifetimes under sprout. A behaviour follows one of them, the    *)
(* one in focus; the others rest in their initial states or are absent. A  *)
(* mutex call always has a way on, so for the mutex deadlock is checked;   *)
(* the bounded workloads of the others may end.                            *)
(***************************************************************************)
EXTENDS Integers, Sequences, FiniteSets, TLC, Mutex, AddressSpace, Handles,
        Console

CONSTANTS t1, t2, t3, p1, p2, p3, p4, Task, NoTask, MemoryMaps, LowFrames,
    PageUnits, GrowPages, MaxHeapPages, Sizes, MaxHeld, AnonPages, AnonFrames,
    MapSizes, TermRows, TermCols, RingRows, Glyph, MaxDepth, MaxTermOps, Proc,
    NoProc, Sprout, Role, ProcessCpus, HandleSlots, MaxSessionRecords, MaxPid,
    MaxSession, Table, Essential, FailureLimit

VARIABLES focus, memory_map, pmm, blocks, heap_frames, growth, task, mappings,
    anon_pte, anon_free, term, termOps, runtime, starting, pt, next_pid,
    session_records, next_session_id, pcall

Interchangeable == Permutations({p1, p2, p3, p4})

ServiceTable == <<"sessiond", "logind", "netd">>

Region(start, pages, usable) ==
    [start |-> start, pages |-> pages, usable |-> usable]
FirmwareMaps ==
    { <<Region(0, 1, TRUE), Region(1, 1, FALSE), Region(2, 6, TRUE)>>,
      <<Region(0, 2, FALSE), Region(2, 5, TRUE)>> }

Mem == INSTANCE Memory
Term == INSTANCE Terminal
Svc == INSTANCE Supervisor WITH
           MaxRecords <- MaxSessionRecords, call <- pcall

ASSUME
    /\ Mem!MemoryAssumption
    /\ Mem!ProcessMemoryAssumption
    /\ Term!TerminalAssumption
    /\ Svc!ProcessAssumption
    /\ Svc!SupervisorAssumption

\* The state of a component that is not the one in focus.
Absent == "absent"

memoryVars == <<memory_map, pmm, blocks, heap_frames, growth, task>>
AbsentMemory ==
    /\ memory_map = Absent /\ pmm = Absent /\ blocks = Absent
    /\ heap_frames = Absent /\ growth = Absent /\ task = Absent
anonVars == <<mappings, anon_pte, anon_free>>
AbsentAnon == mappings = Absent /\ anon_pte = Absent /\ anon_free = Absent
terminalVars == <<term, termOps>>
AbsentTerminal == term = Absent /\ termOps = Absent
sproutVars == <<runtime, starting, pt, next_pid, session_records,
                next_session_id, pcall>>
AbsentProcess ==
    /\ runtime = Absent /\ starting = Absent /\ pt = Absent
    /\ next_pid = Absent /\ session_records = Absent
    /\ next_session_id = Absent /\ pcall = Absent

KernelInit ==
    /\ focus \in {"mutex", "space", "memory", "handle", "anon", "console",
                 "terminal", "process"}
    /\ MutexInit
    /\ SpaceInit
    /\ IF focus = "memory" THEN Mem!MemoryInit ELSE AbsentMemory
    /\ HandleInit
    /\ IF focus = "anon" THEN Mem!AnonInit ELSE AbsentAnon
    /\ ConsoleInit
    /\ IF focus = "terminal" THEN Term!TerminalInit ELSE AbsentTerminal
    /\ IF focus = "process" THEN Svc!SproutInit ELSE AbsentProcess

KernelNext ==
    /\ UNCHANGED focus
    /\ \/ /\ focus = "mutex" /\ MutexNext
          /\ UNCHANGED <<spaceVars, memoryVars, handleVars, anonVars,
                         consoleVars, terminalVars, sproutVars>>
       \/ /\ focus = "space" /\ SpaceNext
          /\ UNCHANGED <<mutexState, memoryVars, handleVars, anonVars,
                         consoleVars, terminalVars, sproutVars>>
       \/ /\ focus = "memory" /\ Mem!MemoryNext
          /\ UNCHANGED <<mutexState, spaceVars, handleVars, anonVars,
                         consoleVars, terminalVars, sproutVars>>
       \/ /\ focus = "handle" /\ HandleNext
          /\ UNCHANGED <<mutexState, spaceVars, memoryVars, anonVars,
                         consoleVars, terminalVars, sproutVars>>
       \/ /\ focus = "anon" /\ Mem!AnonNext
          /\ UNCHANGED <<mutexState, spaceVars, memoryVars, handleVars,
                         consoleVars, terminalVars, sproutVars>>
       \/ /\ focus = "console" /\ ConsoleNext
          /\ UNCHANGED <<mutexState, spaceVars, memoryVars, handleVars,
                         anonVars, terminalVars, sproutVars>>
       \/ /\ focus = "terminal" /\ Term!TerminalNext
          /\ UNCHANGED <<mutexState, spaceVars, memoryVars, handleVars,
                         anonVars, consoleVars, sproutVars>>
       \/ /\ focus = "process" /\ Svc!SproutNext
          /\ UNCHANGED <<mutexState, spaceVars, memoryVars, handleVars,
                         anonVars, consoleVars, terminalVars>>
       \/ /\ focus # "mutex"
          /\ UNCHANGED <<mutexState, spaceVars, memoryVars, handleVars,
                         anonVars, consoleVars, terminalVars, sproutVars>>

kernelVars == <<focus, mutexState, spaceVars, memoryVars, handleVars,
                 anonVars, consoleVars, terminalVars, sproutVars>>
KernelSpec == KernelInit /\ [][KernelNext]_kernelVars

\* The two waiting protocols alone, fair to the one in focus.
LiveInit == KernelInit /\ focus \in {"mutex", "space"}
LiveSpec ==
    /\ LiveInit
    /\ [][KernelNext]_kernelVars
    /\ (focus = "mutex" => MutexFairness)
    /\ (focus = "space" => SpaceFairness)

-----------------------------------------------------------------------------
\* Every frame has one purpose, and the root in CR3 is live (vmm.c); the
\* bitmap and the block list account for every frame and every byte, also
\* when heap_lock is left to grow the heap (pmm.c, heap.c); the mappings of a
\* process are what its calls made, in the first gap that fits.
MemorySound ==
    /\ SpaceTypeOK /\ ActiveRootLives /\ FramesOwnedOnce
    /\ focus = "memory" => /\ Mem!MemoryTypeOK /\ Mem!HeapTiles
                           /\ Mem!NoFreeNeighbours /\ Mem!FramesAccounted
                           /\ Mem!ReservedKept
    /\ focus = "anon" => Mem!MappingsExact /\ Mem!FirstFit

\* The reference count of an object is the number of slots that refer to it,
\* on every success and failure path of open, close, redirect and restore,
\* and a closed handle names nothing until its generation comes round
\* (process.c).
HandlesSound ==
    HandleTypeOK /\ RefsMatchSlots /\ ClosedHandleDead

\* No reader sleeps over input, raw input is on only for the owner of the
\* screen, no released key repeats (console.c, keyboard.c); the cursor stays
\* on the grid and what was written is drawn (terminal.c).
ConsoleSound ==
    /\ ConsoleTypeOK /\ NoSleepOverInput /\ RawHasScreen /\ NoGhostRepeat
    /\ focus = "terminal" => Term!CursorOnScreen /\ Term!NothingLost

\* References, parents and session members are exact through every spawn,
\* exit and reap; a parent in wait is woken, no member of a dead session is
\* left, and sprout has one instance of a service and knows which (process.c,
\* session.c, sprout).
ProcessesSound ==
    focus = "process" => /\ Svc!SproutTypeOK /\ Svc!RefsCounted
                         /\ Svc!FamilySound /\ Svc!WaitNotLost
                         /\ Svc!NoStrandedMember /\ Svc!OneInstance
                         /\ Svc!RuntimeBacked

=============================================================================
