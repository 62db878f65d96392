------------------------------ MODULE Process ------------------------------
(***************************************************************************)
(* Processes and login sessions: kernel/src/process.c, the reference       *)
(* counts of kernel/src/object.c and kernel/src/session.c.                 *)
(*                                                                         *)
(* pt is the process table: one record per process_t.  A process whose     *)
(* memory was freed is "free" and may be allocated again.  A process has   *)
(* one thread (main_thread); call says where that thread is in process.c.  *)
(* System calls run with interrupts masked, so on one CPU a call is only   *)
(* interrupted where it sleeps: in process_wait() and while a new image is *)
(* read from disk.  With ProcessCpus > 1 the steps of two calls interleave.   *)
(***************************************************************************)
EXTENDS Naturals, FiniteSets, FiniteSetsExt

CONSTANTS
    Proc,         \* process_t objects
    NoProc,       \* a NULL process pointer
    Sprout,       \* PID 1, the service supervisor
    Role,         \* the services Sprout starts; "logind" and "sessiond" are two
    ProcessCpus,
    HandleSlots,  \* PROCESS_HANDLE_SLOTS left for process handles
    MaxRecords,   \* SESSION_MAX_ACTIVE
    MaxPid,       \* bound on next_pid
    MaxSession    \* bound on next_session_id

ProcessAssumption ==
    /\ Sprout \in Proc /\ NoProc \notin Proc
    /\ {"logind", "sessiond"} \subseteq Role
    /\ ProcessCpus \in Nat \ {0} /\ HandleSlots \in Nat /\ MaxRecords \in Nat
    /\ MaxPid \in Nat /\ MaxSession \in Nat

VARIABLES pt, next_pid, session_records, next_session_id, call

procVars == <<pt, next_pid, session_records, next_session_id, call>>

NoSession == 0
Free == [state |-> "free", pid |-> 0, role |-> "none", parent |-> NoProc, kids |-> {},
         session |-> NoSession, refs |-> 0, held |-> FALSE, collected |-> FALSE,
         handles |-> {}, waiting |-> NoProc, thread |-> "none"]

Active(T, p) == T[p].state = "active"
Is(p, role) == Active(pt, p) /\ pt[p].role = role
Members(T, id) == {q \in Proc : Active(T, q) /\ T[q].session = id}

\* Threads executing kernel code on a CPU.
InKernel == {p \in Proc : call[p].at \in {"block", "launch", "term", "switching"}}
OnCpu(p) == p \in InKernel \/ Cardinality(InKernel) < ProcessCpus
CanCall(p) == /\ Active(pt, p) /\ pt[p].thread = "ready"
              /\ call[p].at = "user" /\ OnCpu(p)

\* scheduler_thread_is_running() of a thread that is in a system call.
IsRunning(p) == p \in InKernel
\* The threads that may be running user code on the CPUs caller p leaves.
RunningSets(p) == {R \in SUBSET {q \in Proc \ {p} : pt[q].thread = "ready"
                                                 /\ call[q].at = "user"} :
                      Cardinality(R) + Cardinality(InKernel \cup {p}) <= ProcessCpus}

ContinueAt(p, label, arg) == call' = [call EXCEPT ![p] = [at |-> label, arg |-> arg]]
ReturnToUser(p) == ContinueAt(p, "user", NoProc)

-----------------------------------------------------------------------------
(* object_release() to zero, process_object_destroy(): the children of a   *)
(* freed process lose their parent pointer.                                *)
process_object_destroy(T) ==
    LET D == {p \in Proc : T[p].state # "free" /\ T[p].refs = 0}
    IN [p \in Proc |->
          IF p \in D THEN Free
          ELSE [T[p] EXCEPT !.parent = IF \E d \in D : p \in T[d].kids
                                       THEN NoProc ELSE @]]

object_release(T, p) ==
    process_object_destroy([T EXCEPT ![p].refs = @ - 1])

\* A mutant: the child stays in the list of its parent.
UnlinkOneWay(T, p) == [T EXCEPT ![p].parent = NoProc]
process_unlink_locked(T, p) ==
    LET up == T[p].parent
        U  == IF up = NoProc THEN T ELSE [T EXCEPT ![up].kids = @ \ {p}]
    IN [U EXCEPT ![p].parent = NoProc]

\* A mutant: the exit of a process wakes nobody.
NobodyWaits(T, p, Q) == FALSE
WaitsFor(T, p, Q) == Active(T, p) /\ T[p].waiting \in Q

(* process_exit() of the processes Q: they are zombies, their handles are  *)
(* closed, and an active parent that waits for one of them is woken when   *)
(* its thread is BLOCKED; scheduler_unblock() does nothing otherwise.      *)
process_exit_effect(T, Q) ==
    LET Waits(p) == WaitsFor(T, p, Q)
        Holders(p) == Cardinality({q \in Q : p \in T[q].handles})
    IN process_object_destroy(
         [p \in Proc |->
            [T[p] EXCEPT !.state = IF p \in Q THEN "terminated" ELSE @,
                         !.handles = IF p \in Q THEN {} ELSE @,
                         !.refs = @ - Holders(p),
                         !.waiting = IF Waits(p) THEN NoProc ELSE @,
                         !.thread = IF Waits(p) /\ @ = "blocked"
                                    THEN "ready" ELSE @]])

(* process_terminate_session_members(): newest process first, and it stops *)
(* at the first member whose thread is on a CPU.                           *)
Terminated(T, id, running) ==
    {q \in Members(T, id) :
        \A s \in Members(T, id) \cap running : T[s].pid < T[q].pid}

process_terminate_session_members(T, id, running) ==
    LET Q == Terminated(T, id, running)
    IN process_exit_effect([p \in Proc |->
           IF p \in Q THEN [T[p] EXCEPT !.thread = "dead"] ELSE T[p]], Q)

(* process_reap_session_members(): zombies nobody has a handle to.         *)
process_reap_session_members(T, id) ==
    LET Z == {q \in Proc : /\ T[q].session = id /\ T[q].state = "terminated"
                           /\ T[q].held /\ T[q].refs = 1 /\ ~IsRunning(q)}
    IN process_object_destroy(
         [p \in Proc |->
            [T[p] EXCEPT !.kids = @ \ Z,
                         !.refs = IF p \in Z THEN 0 ELSE @,
                         !.held = IF p \in Z THEN FALSE ELSE @]])

\* A mutant: the members of an ended session are left alone.
ReapOnly(T, id, running) == process_reap_session_members(T, id)
EndSession(T, id, running) ==
    process_reap_session_members(
        process_terminate_session_members(T, id, running), id)

(* session_process_exited(): the sessions a service takes with it.         *)
EndedSessions(p) ==
    {r \in session_records : r.owner = pt[p].pid \/ pt[p].role = "sessiond"}

process_exit(p, T, running) ==
    LET ended == EndedSessions(p)
        U     == FoldSet(LAMBDA r, V : EndSession(V, r.id, running), T, ended)
    IN /\ pt' = process_exit_effect(U, {p})
       /\ session_records' = session_records \ ended

-----------------------------------------------------------------------------
\* The kernel has started Sprout.
ProcInit ==
    /\ pt = [p \in Proc |->
          IF p = Sprout THEN [Free EXCEPT !.state = "active", !.pid = 1, !.refs = 1,
                              !.role = "sprout", !.held = TRUE, !.thread = "ready"]
          ELSE Free]
    /\ next_pid = 2
    /\ session_records = {} /\ next_session_id = 1
    /\ call = [p \in Proc |-> [at |-> "user", arg |-> NoProc]]

\* The child c in the registry, with the role and session of its creation.
Created(T, p, c, role, id) ==
    [T EXCEPT
        ![c] = [Free EXCEPT !.state = "active", !.pid = next_pid, !.role = role,
                !.parent = p, !.session = IF id = NoSession THEN T[p].session ELSE id,
                !.refs = 1, !.held = TRUE, !.thread = "suspended"],
        ![p].kids = @ \cup {c}]

(* process_create() by process_spawn_args_with_context_internal(): the     *)
(* child is in the registry, with a suspended thread, before its image is  *)
(* loaded.                                                                 *)
process_create(p, c, role, id) ==
    /\ CanCall(p) /\ next_pid <= MaxPid /\ pt[c].state = "free"
    /\ pt' = Created(pt, p, c, role, id)
    /\ next_pid' = next_pid + 1
    /\ call' = [call EXCEPT ![p] = [at |-> "load", arg |-> c],
                             ![c] = [at |-> "user", arg |-> NoProc]]
    /\ UNCHANGED <<session_records, next_session_id>>

\* A service may not spawn without credentials; other processes may.
process_spawn(p, c) ==
    pt[p].role = "none" /\ process_create(p, c, "none", NoSession)

process_spawn_service(c, role) == process_create(Sprout, c, role, NoSession)

session_launch_process(p, c) ==
    \E r \in session_records :
        /\ Is(p, "logind")
        /\ r.owner = pt[p].pid /\ r.state = "ACTIVE" /\ r.shell = 0
        /\ process_create(p, c, "none", r.id)

process_abort(T, c) ==
    IF ~Active(T, c) THEN T
    ELSE object_release([process_unlink_locked(T, c) EXCEPT
             ![c].state = "terminated", ![c].handles = {}, ![c].held = FALSE], c)

(* elf_load_process() returns, possibly after it slept for the disk; the   *)
(* parent gets a handle and the thread is made READY.  The end of its      *)
(* session may have freed the child meanwhile: what the spawn then does    *)
(* with the dangling pointer is not modelled.                              *)
process_spawn_loaded(p, loaded) ==
    LET c  == call[p].arg
        ok == loaded /\ Active(pt, c) /\ Cardinality(pt[p].handles) < HandleSlots
    IN /\ call[p].at = "load" /\ Active(pt, p) /\ OnCpu(p)
       /\ c \in pt[p].kids
       /\ pt' = IF ok THEN [pt EXCEPT ![c].refs = @ + 1, ![c].thread = "ready",
                                      ![p].handles = @ \cup {c}]
                ELSE process_abort(pt, c)
       /\ IF ok /\ Is(p, "logind") THEN ContinueAt(p, "launch", c) ELSE ReturnToUser(p)
       /\ UNCHANGED <<next_pid, session_records, next_session_id>>

(* The second half of session_launch_process(): the record may have ended  *)
(* while the shell was loaded.                                             *)
process_handle_close_effect(T, p, c) ==
    object_release([T EXCEPT ![p].handles = @ \ {c}], c)

session_launched(p, running) ==
    LET c    == call[p].arg
        id   == pt[c].session
        Mine(r) == r.id = id /\ r.owner = pt[p].pid
                             /\ r.state = "ACTIVE" /\ r.shell = 0
    IN /\ call[p].at = "launch" /\ Active(pt, p)
       /\ IF \E r \in session_records : Mine(r)
          THEN /\ session_records' = {IF Mine(r) THEN [r EXCEPT !.shell = pt[c].pid]
                                                 ELSE r : r \in session_records}
               /\ UNCHANGED pt
          ELSE /\ pt' = process_reap_session_members(
                            process_handle_close_effect(
                                process_terminate_session_members(pt, id, running),
                                p, c), id)
               /\ session_records' = {r \in session_records : r.id # id}
       /\ ReturnToUser(p)
       /\ UNCHANGED <<next_pid, next_session_id>>

(* process_exit() by the process itself: a system call, a return from main *)
(* or a CPU exception; its thread still has to leave the CPU.              *)
process_exit_self(p, running) ==
    /\ CanCall(p) /\ p # Sprout
    /\ process_exit(p, pt, running \cup {p})
    /\ ContinueAt(p, "term", NoProc)
    /\ UNCHANGED <<next_pid, next_session_id>>

scheduler_terminate(p) ==
    /\ call[p].at = "term" /\ ContinueAt(p, "switching", NoProc)
    /\ UNCHANGED <<pt, next_pid, session_records, next_session_id>>

\* The next thread's first step clears context_switch_pending.
scheduler_switched(p) ==
    /\ call[p].at = "switching" /\ ReturnToUser(p)
    /\ pt' = IF pt[p].state = "free" THEN pt ELSE [pt EXCEPT ![p].thread = "dead"]
    /\ UNCHANGED <<next_pid, session_records, next_session_id>>

(* process_terminate_child(), which only Sprout may call: the child is an  *)
(* active process and its thread is on no CPU.                             *)
CanTerminate(p, c, running) ==
    pt[c].parent = p /\ Active(pt, c) /\ c \notin running \cup InKernel

process_terminate_child(p, c, running) ==
    /\ CanCall(p) /\ c \in pt[p].handles /\ CanTerminate(p, c, running)
    /\ process_exit(c, [pt EXCEPT ![c].thread = "dead"], running \cup {p})
    /\ call' = [call EXCEPT ![c] = [at |-> "user", arg |-> NoProc]]
    /\ UNCHANGED <<next_pid, next_session_id>>

-----------------------------------------------------------------------------
(* process_wait() *)
\* A mutant: the owner reference is dropped and still recorded.
CollectKeepsHeld(T, c) ==
    object_release([process_unlink_locked(T, c) EXCEPT ![c].collected = TRUE], c)
Collect(T, c) ==
    object_release([process_unlink_locked(T, c) EXCEPT
                        ![c].collected = TRUE, ![c].held = FALSE], c)

IsChild(p, c) == c # p /\ pt[c].parent = p /\ ~pt[c].collected

process_wait(p, c) ==
    /\ CanCall(p) /\ c \in pt[p].handles /\ IsChild(p, c)
    /\ IF Active(pt, c)
       THEN /\ pt[p].waiting = NoProc
            /\ pt' = [pt EXCEPT ![p].waiting = c]
            /\ ContinueAt(p, "block", c)
       ELSE /\ ~IsRunning(c)
            /\ pt' = Collect(pt, c)
            /\ UNCHANGED call
    /\ UNCHANGED <<next_pid, session_records, next_session_id>>

process_wait_block(p, ok) ==
    /\ call[p].at = "block" /\ Active(pt, p)
    /\ IF ok
       THEN /\ pt' = [pt EXCEPT ![p].thread = "blocked"]
            /\ ContinueAt(p, "asleep", call[p].arg)
       ELSE /\ pt' = [pt EXCEPT ![p].waiting = IF @ = call[p].arg THEN NoProc ELSE @]
            /\ ReturnToUser(p)
    /\ UNCHANGED <<next_pid, session_records, next_session_id>>

process_wait_return(p) ==
    LET c == call[p].arg
        T == [pt EXCEPT ![p].waiting = IF @ = c THEN NoProc ELSE @]
    IN /\ call[p].at = "asleep" /\ Active(pt, p) /\ pt[p].thread = "ready" /\ OnCpu(p)
       /\ pt' = IF pt[c].state = "terminated" THEN Collect(T, c) ELSE T
       /\ ReturnToUser(p)
       /\ UNCHANGED <<next_pid, session_records, next_session_id>>

\* What process_poll() answers.
process_poll(p, c) ==
    IF ~IsChild(p, c) THEN "NOT_CHILD"
    ELSE IF Active(pt, c) \/ IsRunning(c) THEN "WOULD_BLOCK" ELSE "OK"

process_handle_close_call(p, c) ==
    /\ CanCall(p) /\ c \in pt[p].handles
    /\ pt' = process_handle_close_effect(pt, p, c)
    /\ UNCHANGED <<next_pid, session_records, next_session_id, call>>

-----------------------------------------------------------------------------
(* session.c, called by sessiond for a request of logind                   *)
session_create_process(s, p) ==
    /\ Is(s, "sessiond") /\ CanCall(s)
    /\ Is(p, "logind") /\ call[p].at = "user"
    /\ Cardinality(session_records) < MaxRecords /\ next_session_id <= MaxSession
    /\ session_records' = session_records \cup
          {[id |-> next_session_id, owner |-> pt[p].pid, shell |-> 0,
            state |-> "ACTIVE"]}
    /\ next_session_id' = next_session_id + 1
    /\ UNCHANGED <<pt, next_pid, call>>

session_end_process(s, p, r, running) ==
    LET on == running \cup InKernel \cup {s}
    IN /\ Is(s, "sessiond") /\ CanCall(s)
       /\ Is(p, "logind") /\ call[p].at = "user"
       /\ IF Members(pt, r.id) \cap on = {}
          THEN /\ pt' = EndSession(pt, r.id, on)
               /\ session_records' = session_records \ {r}
          ELSE /\ pt' = process_terminate_session_members(pt, r.id, on)
               /\ session_records' = (session_records \ {r})
                                     \cup {[r EXCEPT !.state = "ENDING"]}
       /\ UNCHANGED <<next_pid, next_session_id, call>>

-----------------------------------------------------------------------------
\* The steps of every process but the calls only Sprout makes.
ProcNext ==
    \/ \E p, c \in Proc : process_spawn(p, c)
    \/ \E p, c \in Proc : session_launch_process(p, c)
    \/ \E p \in Proc \ {Sprout}, loaded \in BOOLEAN : process_spawn_loaded(p, loaded)
    \/ \E p \in Proc : \E R \in RunningSets(p) : session_launched(p, R)
    \/ \E p \in Proc : \E R \in RunningSets(p) : process_exit_self(p, R)
    \/ \E p \in Proc : scheduler_terminate(p)
    \/ \E p \in Proc : scheduler_switched(p)
    \/ \E p \in Proc \ {Sprout}, c \in Proc : process_wait(p, c)
    \/ \E p \in Proc, ok \in BOOLEAN : process_wait_block(p, ok)
    \/ \E p \in Proc : process_wait_return(p)
    \/ \E p \in Proc \ {Sprout}, c \in Proc : process_handle_close_call(p, c)
    \/ \E s, p \in Proc : session_create_process(s, p)
    \/ \E s, p \in Proc, r \in session_records : \E R \in RunningSets(s) :
           session_end_process(s, p, r, R)

-----------------------------------------------------------------------------
ProcTypeOK ==
    /\ \A p \in Proc :
         /\ pt[p].state \in {"free", "active", "terminated"}
         /\ pt[p].parent \in Proc \cup {NoProc} /\ pt[p].waiting \in Proc \cup {NoProc}
         /\ pt[p].kids \subseteq Proc /\ pt[p].handles \subseteq Proc
         /\ pt[p].refs \in Nat
         /\ pt[p].thread \in {"none", "suspended", "ready", "blocked", "dead"}
    /\ next_pid \in 1..MaxPid+1 /\ next_session_id \in 1..MaxSession+1
    /\ Cardinality(session_records) <= MaxRecords

(* A process object is referenced exactly by its owner reference and by    *)
(* the handles to it: the spawn, wait, abort, reap and exit paths take and *)
(* drop one reference each (object_reference, object_release).             *)
RefsCounted ==
    \A p \in Proc : pt[p].state # "free" =>
        pt[p].refs = (IF pt[p].held THEN 1 ELSE 0)
                     + Cardinality({q \in Proc : p \in pt[q].handles})

(* The family tree has no pointer to freed memory and its two directions   *)
(* agree: p is in the child list of its parent and of nobody else.         *)
FamilySound ==
    \A p, q \in Proc :
        /\ p \in pt[q].kids <=> (pt[p].parent = q /\ pt[p].state # "free")
        /\ p \in pt[q].kids \cup pt[q].handles \cup {pt[q].waiting} =>
               pt[p].state # "free"
        /\ pt[p].parent = q => pt[q].state # "free"

(* A parent asleep in process_wait() waits for a process that is still     *)
(* active: the exit of the child is not lost between the check of its      *)
(* state and scheduler_block().                                            *)
WaitNotLost ==
    \A p \in Proc : Active(pt, p) /\ pt[p].thread = "blocked" =>
        /\ pt[p].waiting = call[p].arg
        /\ Active(pt, call[p].arg)

(* session.c:319: no active process belongs to a session that was          *)
(* released, so the death of a service strands no login shell.             *)
NoStrandedMember ==
    \A p \in Proc : Active(pt, p) /\ pt[p].session # NoSession =>
        \E r \in session_records : r.id = pt[p].session

(* Sprout never has two instances of a service alive.                      *)
OneInstance ==
    \A p, q \in Proc : Active(pt, p) /\ Active(pt, q) /\ pt[p].role = pt[q].role
                           /\ pt[p].role # "none" => p = q
=============================================================================
