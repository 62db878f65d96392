----------------------------- MODULE Scheduler -----------------------------
(***************************************************************************)
(* The SMP thread scheduler (kernel/src/scheduler.c and context_switch.s). *)
(*                                                                         *)
(* Every critical section of scheduler_lock is one action.  A context      *)
(* switch is three steps of its CPU, because the lock is released between  *)
(* them and other CPUs run:                                                *)
(*   "saving"   scheduler_handoff() has unlocked; the CPU pushes the       *)
(*              outgoing frame and has not entered                         *)
(*              scheduler_context_switch_saved() yet;                      *)
(*   "leaving"  the frame is published, and the CPU still returns through  *)
(*              the outgoing stack;                                        *)
(*   "thread"   RSP is the incoming stack; the incoming thread owes the    *)
(*              call of scheduler_context_switch_complete().               *)
(* "irq" is the tail of an interrupt handler, before                       *)
(* scheduler_prepare_preemption(); an "offline" CPU has not entered its    *)
(* idle thread.                                                            *)
(*                                                                         *)
(* Left out: statistics, FPU state, names, and the address-space switch.   *)
(***************************************************************************)
EXTENDS ThreadLists, FiniteSetsExt

CONSTANTS
    CPU,               \* CPU indices
    BSP,               \* the bootstrap processor
    Worker,            \* thread objects the heap can hold
    bootstrap_thread,  \* the boot context, later PID 1; runs on the BSP only
    idle_thread,       \* [CPU -> thread]: each CPU's idle thread
    NoThread,          \* a NULL kernel_thread_t *
    NoCpu,             \* THREAD_CPU_NONE
    UserThread,        \* threads that enter system calls
    Started,           \* CPUs that run the scheduler in the initial state
    CreatePriorities,  \* priorities threads are created with
    SleepTicks,        \* arguments of scheduler_sleep()
    MaxTick,           \* ~(u64)0, where the tick counter saturates
    TimeSlice,         \* [Priority -> Nat]: THREAD_TIME_SLICE_*
    BACKGROUND_STARVATION_THRESHOLD,
    NORMAL_STARVATION_THRESHOLD,
    BACKGROUND_HIGH_RESCUE_THRESHOLD

HIGH == 0
NORMAL == 1
BACKGROUND == 2
Priority == {HIGH, NORMAL, BACKGROUND}
IdleThreads == {idle_thread[c] : c \in CPU}
Thread == Worker \cup {bootstrap_thread} \cup IdleThreads

ASSUME CpuAssumption ==
    /\ BSP \in CPU /\ NoCpu \notin CPU
    /\ Started \subseteq CPU /\ BSP \in Started
ASSUME ThreadAssumption ==
    /\ NoThread \notin Thread
    /\ bootstrap_thread \notin Worker
    /\ IdleThreads \cap (Worker \cup {bootstrap_thread}) = {}
    /\ DOMAIN idle_thread = CPU
    /\ \A c, d \in CPU : idle_thread[c] = idle_thread[d] => c = d
ASSUME BoundAssumption ==
    /\ CreatePriorities \subseteq Priority
    /\ MaxTick \in Nat
    /\ SleepTicks \subseteq 0 .. MaxTick
    /\ TimeSlice \in [Priority -> Nat \ {0}]
    /\ BACKGROUND_STARVATION_THRESHOLD \in Nat \ {0}
    /\ NORMAL_STARVATION_THRESHOLD \in Nat \ {0}
    /\ BACKGROUND_HIGH_RESCUE_THRESHOLD \in Nat \ {0}

VARIABLES
    \* kernel_thread_t, one function per field
    state, running_cpu, saved_context_valid, context_switch_pending,
    base_priority, effective_priority, wakeup_boosted, queued,
    ready_wait_ticks, remaining_time_slice, sleeping, wakeup_tick,
    syscall_active,
    \* globals under scheduler_lock
    ready_queues, sleeping_threads, scheduler_tick_count,
    \* cpu_local_t
    online, current_thread, preemption_pending, context_switching,
    \* where each CPU executes, and whose stack it is leaving
    pc, outgoing,
    \* per thread: the completions it still has to call (innermost last), and
    \* whether the flags its saved frame restores have IF set
    owed, frame_if,
    \* the message of the panic() that stopped the machine, or "none"
    panicked

lifeVars == <<state, running_cpu, saved_context_valid, context_switch_pending>>
prioVars == <<effective_priority, wakeup_boosted, ready_wait_ticks>>
readyVars == <<ready_queues, queued>>
sleepVars == <<sleeping_threads, sleeping, wakeup_tick, scheduler_tick_count>>
fixedVars == <<base_priority, remaining_time_slice, syscall_active>>
cpuVars == <<online, current_thread, preemption_pending, context_switching>>
execVars == <<pc, outgoing, owed, frame_if, panicked>>
vars == <<lifeVars, prioVars, readyVars, sleepVars, fixedVars, cpuVars,
          execVars>>

-----------------------------------------------------------------------------
(* scheduler_validate_locked(), as CPU c evaluates it. *)

thread_priority_state_valid(t) ==
    /\ effective_priority[t] <= base_priority[t]
    /\ wakeup_boosted[t] => /\ base_priority[t] = BACKGROUND
                            /\ effective_priority[t] = NORMAL

CpuValid(d) ==
    /\ IF context_switching[d]
       THEN current_thread[d] # NoThread =>
              /\ running_cpu[current_thread[d]] = d
              /\ ~queued[current_thread[d]]
       ELSE /\ current_thread[d] # NoThread
            /\ state[current_thread[d]] = "RUNNING"
            /\ running_cpu[current_thread[d]] = d
            /\ ~queued[current_thread[d]]
    /\ state[idle_thread[d]] # "UNUSED"
    /\ ~queued[idle_thread[d]]
    /\ ~(running_cpu[idle_thread[d]] = NoCpu
         /\ state[idle_thread[d]] = "RUNNING")

ReadyListsValid(c) ==
    /\ \A p \in Priority : \A i \in DOMAIN ready_queues[p] :
         LET t == ready_queues[p][i] IN
         /\ queued[t] /\ state[t] = "READY" /\ effective_priority[t] = p
         /\ thread_priority_state_valid(t)
         /\ ~sleeping[t] /\ running_cpu[t] = NoCpu /\ t # idle_thread[c]
    /\ \A p \in Priority : IsInjective(ready_queues[p])
    /\ \A p, r \in Priority :
         p # r => Range(ready_queues[p]) \cap Range(ready_queues[r]) = {}

SleepListValid(c) ==
    /\ IsInjective(sleeping_threads)
    /\ \A t \in Range(sleeping_threads) :
         /\ state[t] = "BLOCKED" /\ ~queued[t] /\ sleeping[t]
         /\ thread_priority_state_valid(t)
         /\ running_cpu[t] = NoCpu /\ t # idle_thread[c]
         /\ \A p \in Priority : t \notin Range(ready_queues[p])

scheduler_validate_locked(c) ==
    /\ current_thread[c] # NoThread =>
         /\ ~queued[current_thread[c]]
         /\ thread_priority_state_valid(current_thread[c])
    /\ base_priority[idle_thread[c]] = BACKGROUND
    /\ effective_priority[idle_thread[c]] = BACKGROUND
    /\ \A d \in CPU : online[d] => CpuValid(d)
    /\ ReadyListsValid(c)
    /\ SleepListValid(c)

-----------------------------------------------------------------------------
(* Selection. *)

scheduler_thread_eligible(c, t) == t # bootstrap_thread \/ c = BSP

\* Mutant: the saved frame is not checked.
SelectableUnsaved(c, t) ==
    state[t] = "READY" /\ running_cpu[t] = NoCpu
      /\ scheduler_thread_eligible(c, t)

Selectable(c, t) ==
    /\ state[t] = "READY"
    /\ running_cpu[t] = NoCpu
    /\ scheduler_thread_eligible(c, t)
    /\ saved_context_valid[t]

\* Priority order, then FIFO; the idle thread when no queued thread will do.
\* An idle thread is never its own successor: its frame is not saved.
scheduler_select_next_locked(c) ==
    LET order == ready_queues[HIGH] \o ready_queues[NORMAL]
                   \o ready_queues[BACKGROUND]
        ready == {i \in DOMAIN order : Selectable(c, order[i])}
        idle == idle_thread[c]
    IN  IF ~scheduler_validate_locked(c) THEN NoThread
        ELSE IF ready # {} THEN order[Min(ready)]
        ELSE IF /\ state[idle] = "READY" /\ ~queued[idle]
                /\ saved_context_valid[idle]
                /\ running_cpu[idle] \in {NoCpu, c}
             THEN idle ELSE NoThread

\* Mutant: the bootstrap context is looked for in the queues only.
BootstrapWaitsQueued(c) == c = BSP /\ queued[bootstrap_thread]

\* A saved bootstrap context is in no queue: it runs when the BSP would idle.
BootstrapWaits(c) ==
    /\ c = BSP /\ current_thread[c] # bootstrap_thread
    /\ state[bootstrap_thread] = "READY" /\ ~queued[bootstrap_thread]
    /\ running_cpu[bootstrap_thread] = NoCpu

\* The choice of scheduler_prepare_dispatch_locked() on CPU c; action is the
\* state its current thread leaves RUNNING for.
DispatchTarget(c, action) ==
    LET chosen == scheduler_select_next_locked(c)
    IN  IF chosen # idle_thread[c] THEN chosen
        ELSE IF BootstrapWaits(c) THEN bootstrap_thread
        ELSE IF action = "READY" /\ current_thread[c] # idle_thread[c]
             THEN current_thread[c] ELSE chosen

-----------------------------------------------------------------------------
(* Dispatch: scheduler_prepare_dispatch_locked() and scheduler_handoff().  *)
(* With no target, or the outgoing thread itself, every change is undone   *)
(* and the thread keeps running; that case is Undispatched.                *)

Undispatched(c, action) ==
    DispatchTarget(c, action) \in {NoThread, current_thread[c]}

\* Mutant: the thread is unlinked and keeps its flag.
UnqueueKeepsFlag(t) ==
    IF queued[t]
    THEN /\ ready_queues' = [ready_queues EXCEPT
                               ![effective_priority[t]] = Without(@, t)]
         /\ UNCHANGED queued
    ELSE UNCHANGED readyVars

\* scheduler_remove_queued_locked()
Unqueue(t) ==
    IF queued[t]
    THEN /\ ready_queues' = [ready_queues EXCEPT
                               ![effective_priority[t]] = Without(@, t)]
         /\ queued' = [queued EXCEPT ![t] = FALSE]
    ELSE UNCHANGED readyVars

\* Mutant: the boost survives the turn it was given for.
TakeKeepsBoost(t) == Unqueue(t) /\ UNCHANGED prioVars

\* Selection takes t off its queue and ends its wakeup or rescue boost.
TakeFromQueue(t) ==
    /\ Unqueue(t)
    /\ IF queued[t]
       THEN /\ effective_priority' = [effective_priority EXCEPT
                                        ![t] = base_priority[t]]
            /\ wakeup_boosted' = [wakeup_boosted EXCEPT ![t] = FALSE]
            /\ ready_wait_ticks' = [ready_wait_ticks EXCEPT ![t] = 0]
       ELSE UNCHANGED prioVars

\* Mutant: the outgoing frame counts as saved before the helper has run.
FramesEarly(out) == [saved_context_valid EXCEPT ![out] = TRUE]

\* No frame becomes valid before scheduler_context_switch_saved().
FramesKept(out) == saved_context_valid

\* CPU c switches from its current thread, which becomes action, to the
\* target; irq_on is the IF bit of the flags saved in the outgoing frame.
Dispatch(c, action, irq_on) ==
    LET out == current_thread[c]
        target == DispatchTarget(c, action)
    IN  /\ ~Undispatched(c, action)
        /\ TakeFromQueue(target)
        /\ IF saved_context_valid[target]
           THEN /\ state' = [state EXCEPT ![out] = action,
                                          ![target] = "RUNNING"]
                /\ running_cpu' = [running_cpu EXCEPT
                                     ![out] = IF action = "READY" THEN c
                                                                  ELSE NoCpu,
                                     ![target] = c]
                /\ current_thread' = [current_thread EXCEPT ![c] = target]
                /\ context_switching' = [context_switching EXCEPT ![c] = TRUE]
                /\ context_switch_pending' =
                     [context_switch_pending EXCEPT ![out] = TRUE]
                /\ pc' = [pc EXCEPT ![c] = "saving"]
                /\ outgoing' = [outgoing EXCEPT ![c] = out]
                /\ frame_if' = [frame_if EXCEPT
                                  ![out] = irq_on /\ action # "TERMINATED"]
                /\ UNCHANGED panicked
           ELSE /\ panicked' = "selected thread has no saved context"
                /\ UNCHANGED <<state, running_cpu, current_thread,
                               context_switching, context_switch_pending, pc,
                               outgoing, frame_if>>
        /\ saved_context_valid' = FramesKept(out)
        /\ UNCHANGED <<base_priority, online, owed, remaining_time_slice,
                       syscall_active>>

-----------------------------------------------------------------------------
(* Who may act.  Executing: the thread on CPU c runs its own code.         *)
(* IrqWindow: an interrupt can be taken; popfq opens the window before the *)
(* completion is called when the restored flags have IF set.               *)

Executing(c) ==
    /\ panicked = "none" /\ pc[c] = "thread"
    /\ owed[current_thread[c]] = <<>>

IrqWindow(c) ==
    /\ panicked = "none" /\ pc[c] = "thread"
    /\ \/ owed[current_thread[c]] = <<>>
       \/ Len(owed[current_thread[c]]) = 1 /\ frame_if[current_thread[c]]

\* The IF bit of a thread that calls into the scheduler.  System calls run
\* with interrupts masked; for other callers IF set allows every behaviour
\* that IF clear does.
CallerIf(c) == ~syscall_active[current_thread[c]]

NotIdle(c) == current_thread[c] # idle_thread[c]

-----------------------------------------------------------------------------
(* Operations of the running thread. *)

scheduler_yield(c) ==
    /\ Executing(c) /\ NotIdle(c)
    /\ Dispatch(c, "READY", CallerIf(c))
    /\ UNCHANGED <<sleepVars, preemption_pending>>

scheduler_block(c) ==
    /\ Executing(c) /\ NotIdle(c)
    /\ Dispatch(c, "BLOCKED", CallerIf(c))
    /\ UNCHANGED <<sleepVars, preemption_pending>>

scheduler_terminate(c) ==
    /\ Executing(c) /\ NotIdle(c)
    /\ Dispatch(c, "TERMINATED", CallerIf(c))
    /\ UNCHANGED <<sleepVars, preemption_pending>>

\* Mutant: the deadline is not saturated.
WakeupTickUnbounded(ticks) == scheduler_tick_count + ticks

\* The deadline saturates instead of wrapping.
WakeupTick(ticks) ==
    IF scheduler_tick_count > MaxTick - ticks
    THEN MaxTick ELSE scheduler_tick_count + ticks

scheduler_sleep(c, ticks) ==
    LET t == current_thread[c] IN
    /\ Executing(c) /\ NotIdle(c) /\ ticks > 0 /\ ~sleeping[t]
    /\ Dispatch(c, "BLOCKED", CallerIf(c))
    /\ wakeup_tick' = [wakeup_tick EXCEPT ![t] = WakeupTick(ticks)]
    /\ sleeping_threads' = <<t>> \o sleeping_threads
    /\ sleeping' = [sleeping EXCEPT ![t] = TRUE]
    /\ UNCHANGED <<scheduler_tick_count, preemption_pending>>

scheduler_syscall_enter(c) ==
    /\ Executing(c) /\ current_thread[c] \in UserThread
    /\ ~syscall_active[current_thread[c]]
    /\ syscall_active' = [syscall_active EXCEPT ![current_thread[c]] = TRUE]
    /\ UNCHANGED <<lifeVars, prioVars, readyVars, sleepVars, base_priority,
                   remaining_time_slice, cpuVars, execVars>>

scheduler_syscall_leave(c) ==
    /\ Executing(c) /\ syscall_active[current_thread[c]]
    /\ syscall_active' = [syscall_active EXCEPT ![current_thread[c]] = FALSE]
    /\ UNCHANGED <<lifeVars, prioVars, readyVars, sleepVars, base_priority,
                   remaining_time_slice, cpuVars, execVars>>

-----------------------------------------------------------------------------
(* Creation, reclamation and termination of other threads. *)

\* memset, then thread_prepare_context(): a resumable frame with IF set.
Construct(t, p) ==
    /\ state' = [state EXCEPT ![t] = "READY"]
    /\ running_cpu' = [running_cpu EXCEPT ![t] = NoCpu]
    /\ saved_context_valid' = [saved_context_valid EXCEPT ![t] = TRUE]
    /\ context_switch_pending' = [context_switch_pending EXCEPT ![t] = FALSE]
    /\ base_priority' = [base_priority EXCEPT ![t] = p]
    /\ effective_priority' = [effective_priority EXCEPT ![t] = p]
    /\ wakeup_boosted' = [wakeup_boosted EXCEPT ![t] = FALSE]
    /\ remaining_time_slice' = [remaining_time_slice EXCEPT ![t] = TimeSlice[p]]
    /\ syscall_active' = [syscall_active EXCEPT ![t] = FALSE]
    /\ owed' = [owed EXCEPT ![t] = <<>>]
    /\ frame_if' = [frame_if EXCEPT ![t] = TRUE]
    /\ ready_wait_ticks' = [ready_wait_ticks EXCEPT ![t] = 0]
    /\ UNCHANGED <<sleepVars, cpuVars, pc, outgoing, panicked>>

\* The insertion of scheduler_enqueue_locked(); its validation is the
\* caller's guard.  Inserting a valid thread keeps valid lists valid.
Insert(t, p) ==
    /\ ready_queues' = [ready_queues EXCEPT ![p] = Append(@, t)]
    /\ queued' = [queued EXCEPT ![t] = TRUE]

thread_create_with_priority(c, t, p) ==
    /\ Executing(c) /\ state[t] = "UNUSED"
    /\ scheduler_validate_locked(c)
    /\ Construct(t, p)
    /\ Insert(t, p)

thread_create_suspended_with_priority(c, t, p) ==
    /\ Executing(c) /\ state[t] = "UNUSED"
    /\ Construct(t, p)
    /\ UNCHANGED readyVars

scheduler_enqueue(c, t) ==
    /\ Executing(c)
    /\ state[t] = "READY" /\ ~queued[t] /\ running_cpu[t] = NoCpu
    /\ scheduler_validate_locked(c)
    /\ Insert(t, effective_priority[t])
    /\ ready_wait_ticks' = [ready_wait_ticks EXCEPT ![t] = 0]
    /\ UNCHANGED <<lifeVars, effective_priority, wakeup_boosted, sleepVars,
                   fixedVars, cpuVars, execVars>>

\* sleeping_remove()
Unsleep(t) ==
    IF sleeping[t]
    THEN /\ sleeping_threads' = Without(sleeping_threads, t)
         /\ sleeping' = [sleeping EXCEPT ![t] = FALSE]
         /\ wakeup_tick' = [wakeup_tick EXCEPT ![t] = 0]
         /\ UNCHANGED scheduler_tick_count
    ELSE UNCHANGED sleepVars

\* The fields of freed memory get fixed values.
thread_destroy(c, t) ==
    /\ Executing(c)
    /\ ~sleeping[t] /\ running_cpu[t] = NoCpu /\ ~context_switch_pending[t]
    /\ state[t] \in {"READY", "TERMINATED"}
    /\ Unqueue(t)
    /\ state' = [state EXCEPT ![t] = "FREED"]
    /\ effective_priority' = [effective_priority EXCEPT ![t] = NORMAL]
    /\ base_priority' = [base_priority EXCEPT ![t] = NORMAL]
    /\ wakeup_boosted' = [wakeup_boosted EXCEPT ![t] = FALSE]
    /\ ready_wait_ticks' = [ready_wait_ticks EXCEPT ![t] = 0]
    /\ syscall_active' = [syscall_active EXCEPT ![t] = FALSE]
    /\ owed' = [owed EXCEPT ![t] = <<>>]
    /\ frame_if' = [frame_if EXCEPT ![t] = FALSE]
    /\ UNCHANGED <<running_cpu, saved_context_valid, context_switch_pending,
                   remaining_time_slice, sleepVars, cpuVars, pc, outgoing,
                   panicked>>

scheduler_terminate_thread(c, t) ==
    /\ Executing(c)
    /\ state[t] \notin {"UNUSED", "FREED", "TERMINATED"}
    /\ running_cpu[t] = NoCpu
    /\ Unqueue(t)
    /\ Unsleep(t)
    /\ state' = [state EXCEPT ![t] = "TERMINATED"]
    /\ UNCHANGED <<running_cpu, saved_context_valid, context_switch_pending,
                   prioVars, fixedVars, cpuVars, execVars>>

-----------------------------------------------------------------------------
(* Wakeups. *)

\* The priority a woken thread is queued with: one NORMAL turn for BACKGROUND.
WakePriority(t) == IF base_priority[t] = BACKGROUND THEN NORMAL
                                                   ELSE base_priority[t]

\* When validation fails the thread stays BLOCKED, and a sleeper is put back
\* at the head of the sleeping list.
Wake(c, t) ==
    /\ state[t] = "BLOCKED" /\ ~queued[t] /\ t # idle_thread[c]
    /\ IF scheduler_validate_locked(c)
       THEN /\ Unsleep(t)
            /\ Insert(t, WakePriority(t))
            /\ state' = [state EXCEPT ![t] = "READY"]
            /\ running_cpu' = [running_cpu EXCEPT ![t] = NoCpu]
            /\ effective_priority' = [effective_priority EXCEPT
                                        ![t] = WakePriority(t)]
            /\ wakeup_boosted' = [wakeup_boosted EXCEPT
                                    ![t] = base_priority[t] = BACKGROUND]
            /\ ready_wait_ticks' = [ready_wait_ticks EXCEPT ![t] = 0]
            /\ preemption_pending' = [preemption_pending EXCEPT
                                        ![c] = @ \/ ~NotIdle(c)]
       ELSE /\ sleeping_threads' =
                 IF sleeping[t]
                 THEN <<t>> \o Without(sleeping_threads, t)
                 ELSE sleeping_threads
            /\ UNCHANGED <<state, running_cpu, prioVars, readyVars, sleeping,
                           wakeup_tick, scheduler_tick_count,
                           preemption_pending>>
    /\ UNCHANGED <<saved_context_valid, context_switch_pending, fixedVars,
                   online, current_thread, context_switching>>

scheduler_unblock(c, t) ==
    /\ Executing(c)
    /\ Wake(c, t)
    /\ UNCHANGED execVars

\* A device interrupt, all of which the BSP takes, whose handler wakes t.
DeviceInterrupt(t) ==
    /\ IrqWindow(BSP)
    /\ Wake(BSP, t)
    /\ pc' = [pc EXCEPT ![BSP] = "irq"]
    /\ UNCHANGED <<outgoing, owed, frame_if, panicked>>

-----------------------------------------------------------------------------
(* Timer interrupts. *)

\* Ticks a thread in the NORMAL or BACKGROUND queue waits for its promotion.
StarvationThreshold(t, effective, boosted) ==
    IF effective = NORMAL /\ base_priority[t] = NORMAL
    THEN NORMAL_STARVATION_THRESHOLD
    ELSE IF effective = BACKGROUND \/ boosted
         THEN BACKGROUND_STARVATION_THRESHOLD
         ELSE BACKGROUND_HIGH_RESCUE_THRESHOLD

\* Mutant: a sleeper is due only after its deadline has passed.
SleepPast(t, now) == sleeping[t] /\ wakeup_tick[t] < now

SleepDue(t, now) == sleeping[t] /\ wakeup_tick[t] <= now

\* scheduler_global_tick() wakes the due sleepers in list order, then
\* scheduler_age_ready_threads_locked() ages the NORMAL queue and the
\* BACKGROUND queue.  While validation fails a due sleeper returns to the
\* list, due at once, and a promoted thread drops out of every queue.
scheduler_global_tick ==
    LET now == IF scheduler_tick_count = MaxTick THEN MaxTick
                                                 ELSE scheduler_tick_count + 1
        ok == scheduler_validate_locked(BSP)
        due == {t \in Thread : SleepDue(t, now)}
        awake == IF ok THEN due ELSE {}
        effective == [t \in Thread |->
                        IF t \in due THEN WakePriority(t)
                                     ELSE effective_priority[t]]
        boosted == [t \in Thread |->
                      IF t \in due THEN base_priority[t] = BACKGROUND
                                   ELSE wakeup_boosted[t]]
        woken == [p \in Priority |-> ready_queues[p] \o
                    Filter(sleeping_threads, {t \in awake : effective[t] = p})]
        aged == {t \in Thread : /\ queued[t] \/ t \in awake
                                /\ effective[t] # HIGH}
        waited == [t \in Thread |->
                     (IF t \in awake THEN 0 ELSE ready_wait_ticks[t])
                       + (IF t \in aged THEN 1 ELSE 0)]
        promoted == {t \in aged : waited[t] >=
                       StarvationThreshold(t, effective[t], boosted[t])}
        idle == ~NotIdle(BSP)
    IN  /\ IrqWindow(BSP)
        /\ scheduler_tick_count' = now
        /\ sleeping_threads' =
             (IF ok THEN <<>> ELSE Backwards(Filter(sleeping_threads, due)))
               \o Filter(sleeping_threads, Thread \ due)
        /\ sleeping' = [t \in Thread |-> sleeping[t] /\ t \notin awake]
        /\ wakeup_tick' = [t \in Thread |-> IF t \in due THEN 0
                                                        ELSE wakeup_tick[t]]
        /\ state' = [t \in Thread |-> IF t \in awake THEN "READY"
                                                    ELSE state[t]]
        /\ running_cpu' = [t \in Thread |-> IF t \in due THEN NoCpu
                                                        ELSE running_cpu[t]]
        /\ ready_queues' = [p \in Priority |->
             Filter(woken[p], Thread \ promoted) \o
             (IF ok /\ p # BACKGROUND THEN Filter(woken[p + 1], promoted)
                                     ELSE <<>>)]
        /\ queued' = [t \in Thread |->
             (queued[t] \/ t \in awake) /\ (t \in promoted => ok)]
        /\ effective_priority' = [t \in Thread |->
             IF ok /\ t \in promoted THEN effective[t] - 1 ELSE effective[t]]
        /\ wakeup_boosted' = [t \in Thread |->
             boosted[t] /\ ~(t \in promoted /\ effective[t] = NORMAL)]
        /\ ready_wait_ticks' = [t \in Thread |-> IF t \in promoted THEN 0
                                                             ELSE waited[t]]
        /\ preemption_pending' = [preemption_pending EXCEPT ![BSP] =
             \/ @
             \/ /\ awake # {}
                /\ idle \/ effective_priority[current_thread[BSP]] > HIGH
             \/ idle /\ promoted # {}]
        /\ pc' = [pc EXCEPT ![BSP] = "irq"]
        /\ UNCHANGED <<saved_context_valid, context_switch_pending, fixedVars,
                       online, current_thread, context_switching, outgoing,
                       owed, frame_if, panicked>>

\* Mutant: only an idle CPU asks for preemption.
TickPreemptsIdle(c, expired, eligible) == ~NotIdle(c) /\ eligible

TickPreempts(c, expired, eligible) == expired \/ (~NotIdle(c) /\ eligible)

\* The local timer of CPU c charges its thread's time slice.
scheduler_timer_tick(c) ==
    LET t == current_thread[c]
        expired == remaining_time_slice[t] = 1
        eligible == \E p \in Priority : \E u \in Range(ready_queues[p]) :
                      /\ state[u] = "READY" /\ running_cpu[u] = NoCpu
                      /\ scheduler_thread_eligible(c, u)
    IN  /\ IrqWindow(c)
        /\ remaining_time_slice' = [remaining_time_slice EXCEPT ![t] =
             IF expired THEN TimeSlice[base_priority[t]] ELSE @ - 1]
        /\ preemption_pending' = [preemption_pending EXCEPT ![c] =
             @ \/ TickPreempts(c, expired, eligible)]
        /\ pc' = [pc EXCEPT ![c] = "irq"]
        /\ UNCHANGED <<lifeVars, prioVars, readyVars, sleepVars,
                       base_priority, syscall_active, online, current_thread,
                       context_switching, outgoing, owed, frame_if, panicked>>

\* The common interrupt exit: scheduler_prepare_preemption(), and the
\* reschedule it calls or arranges through the return trampoline.
scheduler_prepare_preemption(c) ==
    LET t == current_thread[c] IN
    /\ panicked = "none" /\ pc[c] = "irq"
    /\ preemption_pending' = [preemption_pending EXCEPT ![c] = FALSE]
    /\ IF \/ ~preemption_pending[c] \/ syscall_active[t]
          \/ Undispatched(c, "READY")
       THEN /\ pc' = [pc EXCEPT ![c] = "thread"]
            /\ UNCHANGED <<lifeVars, prioVars, readyVars, fixedVars, online,
                           current_thread, context_switching, outgoing, owed,
                           frame_if, panicked>>
       ELSE Dispatch(c, "READY", FALSE)
    /\ UNCHANGED sleepVars

-----------------------------------------------------------------------------
(* The context switch of context_switch.s. *)

\* Mutant: the state is compared with the one before the dispatch.
PublishesRunning(c, out) ==
    /\ state[out] = "RUNNING" /\ ~queued[out]
    /\ out \notin {bootstrap_thread, idle_thread[c]}

\* A frame saved for a thread that stays runnable is published by queueing
\* it; bootstrap and idle threads are never queued here.
Publishes(c, out) ==
    /\ state[out] = "READY" /\ ~queued[out]
    /\ out \notin {bootstrap_thread, idle_thread[c]}

\* Mutant: the incoming frame is not marked as consumed.
FramesReusable(c) ==
    [saved_context_valid EXCEPT ![outgoing[c]] = TRUE]

\* The outgoing frame is complete, and the incoming one is consumed.
FramesSwapped(c) ==
    [saved_context_valid EXCEPT ![outgoing[c]] = TRUE,
                                ![current_thread[c]] = FALSE]

scheduler_context_switch_saved(c) ==
    LET out == outgoing[c]
        publish == Publishes(c, out)
    IN  /\ panicked = "none" /\ pc[c] = "saving"
        /\ running_cpu' = [running_cpu EXCEPT ![out] = NoCpu]
        /\ IF publish /\ ~scheduler_validate_locked(c)
           THEN /\ panicked' = "failed to publish saved outgoing context"
                /\ saved_context_valid' = [saved_context_valid EXCEPT
                                             ![out] = TRUE]
                /\ UNCHANGED <<readyVars, ready_wait_ticks, context_switching,
                               pc>>
           ELSE /\ IF publish
                   THEN /\ Insert(out, effective_priority[out])
                        /\ ready_wait_ticks' = [ready_wait_ticks EXCEPT
                                                  ![out] = 0]
                   ELSE UNCHANGED <<readyVars, ready_wait_ticks>>
                /\ saved_context_valid' = FramesSwapped(c)
                /\ context_switching' = [context_switching EXCEPT ![c] = FALSE]
                /\ pc' = [pc EXCEPT ![c] = "leaving"]
                /\ UNCHANGED panicked
        /\ UNCHANGED <<state, context_switch_pending, effective_priority,
                       wakeup_boosted, sleepVars, fixedVars, online,
                       current_thread, preemption_pending, outgoing, owed,
                       frame_if>>

\* The helper returns through the outgoing stack, then RSP becomes the
\* incoming stack and its registers and flags are popped.
SwitchStack(c) ==
    LET t == current_thread[c] IN
    /\ panicked = "none" /\ pc[c] = "leaving"
    /\ owed' = [owed EXCEPT ![t] = Append(@, outgoing[c])]
    /\ outgoing' = [outgoing EXCEPT ![c] = NoThread]
    /\ pc' = [pc EXCEPT ![c] = "thread"]
    /\ UNCHANGED <<lifeVars, prioVars, readyVars, sleepVars, fixedVars,
                   cpuVars, frame_if, panicked>>

\* A thread preempted before its completion owes a second one when it
\* resumes; the first was interruptible, so its flags have IF set.
scheduler_context_switch_complete(c) ==
    LET t == current_thread[c] IN
    /\ panicked = "none" /\ pc[c] = "thread" /\ owed[t] # <<>>
    /\ context_switch_pending' = [context_switch_pending EXCEPT
                                    ![owed[t][Len(owed[t])]] = FALSE]
    /\ owed' = [owed EXCEPT ![t] = SubSeq(@, 1, Len(@) - 1)]
    /\ frame_if' = [frame_if EXCEPT ![t] = Len(owed[t]) > 1]
    /\ UNCHANGED <<state, running_cpu, saved_context_valid, prioVars,
                   readyVars, sleepVars, fixedVars, cpuVars, pc, outgoing,
                   panicked>>

-----------------------------------------------------------------------------
(* Bring-up of an application processor.  smp_ap_entry() publishes the CPU *)
(* as online before scheduler_start_cpu() gives it a current thread.       *)

scheduler_prepare_idle_cpu(c, d) ==
    /\ Executing(c) /\ current_thread[c] = bootstrap_thread
    /\ d # BSP /\ state[idle_thread[d]] = "UNUSED"
    /\ Construct(idle_thread[d], BACKGROUND)
    /\ UNCHANGED readyVars

cpu_mark_online(d) ==
    /\ panicked = "none" /\ pc[d] = "offline" /\ ~online[d]
    /\ state[idle_thread[d]] # "UNUSED"
    /\ online' = [online EXCEPT ![d] = TRUE]
    /\ UNCHANGED <<lifeVars, prioVars, readyVars, sleepVars, fixedVars,
                   current_thread, preemption_pending, context_switching,
                   execVars>>

scheduler_start_cpu(d) ==
    LET idle == idle_thread[d] IN
    /\ panicked = "none" /\ pc[d] = "offline" /\ online[d]
    /\ state[idle] = "READY" /\ ~queued[idle] /\ running_cpu[idle] = NoCpu
    /\ saved_context_valid[idle]
    /\ state' = [state EXCEPT ![idle] = "RUNNING"]
    /\ running_cpu' = [running_cpu EXCEPT ![idle] = d]
    /\ saved_context_valid' = [saved_context_valid EXCEPT ![idle] = FALSE]
    /\ current_thread' = [current_thread EXCEPT ![d] = idle]
    /\ pc' = [pc EXCEPT ![d] = "thread"]
    /\ UNCHANGED <<context_switch_pending, prioVars, readyVars, sleepVars,
                   fixedVars, online, preemption_pending, context_switching,
                   outgoing, owed, frame_if, panicked>>

-----------------------------------------------------------------------------
(* scheduler_init() on the BSP; the other started CPUs are in their idle   *)
(* threads.                                                                *)

InitCurrent(c) == IF c = BSP THEN bootstrap_thread ELSE idle_thread[c]

Init ==
    LET running == {InitCurrent(c) : c \in Started}
        built == running \cup {idle_thread[c] : c \in Started}
        prio == [t \in Thread |-> IF t \in IdleThreads THEN BACKGROUND
                                                       ELSE NORMAL]
    IN  /\ state = [t \in Thread |->
             IF t \in running THEN "RUNNING"
             ELSE IF t \in built THEN "READY" ELSE "UNUSED"]
        /\ running_cpu = [t \in Thread |->
             IF t \in running
             THEN CHOOSE c \in Started : InitCurrent(c) = t ELSE NoCpu]
        /\ saved_context_valid = [t \in Thread |-> t \in built \ running]
        /\ context_switch_pending = [t \in Thread |-> FALSE]
        /\ base_priority = prio /\ effective_priority = prio
        /\ wakeup_boosted = [t \in Thread |-> FALSE]
        /\ queued = [t \in Thread |-> FALSE]
        /\ ready_wait_ticks = [t \in Thread |-> 0]
        /\ remaining_time_slice = [t \in Thread |-> TimeSlice[prio[t]]]
        /\ sleeping = [t \in Thread |-> FALSE]
        /\ wakeup_tick = [t \in Thread |-> 0]
        /\ syscall_active = [t \in Thread |-> FALSE]
        /\ ready_queues = [p \in Priority |-> <<>>]
        /\ sleeping_threads = <<>>
        /\ scheduler_tick_count = 0
        /\ online = [c \in CPU |-> c \in Started]
        /\ current_thread = [c \in CPU |-> IF c \in Started THEN InitCurrent(c)
                                                            ELSE NoThread]
        /\ preemption_pending = [c \in CPU |-> FALSE]
        /\ context_switching = [c \in CPU |-> FALSE]
        /\ pc = [c \in CPU |-> IF c \in Started THEN "thread" ELSE "offline"]
        /\ outgoing = [c \in CPU |-> NoThread]
        /\ owed = [t \in Thread |-> <<>>]
        /\ frame_if = [t \in Thread |-> t \in built \ running]
        /\ panicked = "none"

\* A critical section or handler of CPU c.
CpuStep(c) ==
    \/ scheduler_yield(c) \/ scheduler_block(c) \/ scheduler_terminate(c)
    \/ \E ticks \in SleepTicks : scheduler_sleep(c, ticks)
    \/ scheduler_syscall_enter(c) \/ scheduler_syscall_leave(c)
    \/ \E t \in Worker, p \in CreatePriorities :
         \/ thread_create_with_priority(c, t, p)
         \/ thread_create_suspended_with_priority(c, t, p)
    \/ \E t \in Worker :
         \/ scheduler_enqueue(c, t) \/ thread_destroy(c, t)
         \/ scheduler_terminate_thread(c, t)
    \/ \E t \in Thread : scheduler_unblock(c, t)
    \/ scheduler_timer_tick(c) \/ scheduler_prepare_preemption(c)
    \/ scheduler_context_switch_saved(c) \/ SwitchStack(c)
    \/ scheduler_context_switch_complete(c)
    \/ \E d \in CPU : scheduler_prepare_idle_cpu(c, d)
    \/ cpu_mark_online(c) \/ scheduler_start_cpu(c)

Next ==
    \/ scheduler_global_tick
    \/ \E t \in Thread : DeviceInterrupt(t)
    \/ \E c \in CPU : CpuStep(c)

Spec == Init /\ [][Next]_vars

\* A CPU that has started a context switch or an interrupt exit finishes it,
\* and the timers keep interrupting: an interrupt that arrives while IF is
\* clear stays pending and is taken when the window opens.
Fairness ==
    /\ SF_vars(scheduler_global_tick)
    /\ \A c \in CPU :
         /\ SF_vars(scheduler_timer_tick(c))
         /\ WF_vars(\/ scheduler_prepare_preemption(c)
                    \/ scheduler_context_switch_saved(c)
                    \/ SwitchStack(c)
                    \/ scheduler_context_switch_complete(c))

FairSpec == Spec /\ Fairness

-----------------------------------------------------------------------------
(* Properties. *)

\* UNUSED memory was never a thread; FREED memory is not allocated again.
ThreadState == {"UNUSED", "READY", "RUNNING", "BLOCKED", "TERMINATED", "FREED"}
Panics == {"none", "selected thread has no saved context",
           "failed to publish saved outgoing context"}

\* The types of the thread fields, the CPU records and the lists.
TypeOK ==
    /\ state \in [Thread -> ThreadState]
    /\ running_cpu \in [Thread -> CPU \cup {NoCpu}]
    /\ saved_context_valid \in [Thread -> BOOLEAN]
    /\ context_switch_pending \in [Thread -> BOOLEAN]
    /\ base_priority \in [Thread -> Priority]
    /\ effective_priority \in [Thread -> Priority]
    /\ wakeup_boosted \in [Thread -> BOOLEAN]
    /\ queued \in [Thread -> BOOLEAN]
    /\ ready_wait_ticks \in [Thread -> Nat]
    /\ remaining_time_slice \in [Thread -> Nat \ {0}]
    /\ sleeping \in [Thread -> BOOLEAN]
    /\ wakeup_tick \in [Thread -> 0 .. MaxTick]
    /\ syscall_active \in [Thread -> BOOLEAN]
    /\ ready_queues \in [Priority -> Seq(Thread)]
    /\ sleeping_threads \in Seq(Thread)
    /\ scheduler_tick_count \in 0 .. MaxTick
    /\ online \in [CPU -> BOOLEAN]
    /\ current_thread \in [CPU -> Thread \cup {NoThread}]
    /\ preemption_pending \in [CPU -> BOOLEAN]
    /\ context_switching \in [CPU -> BOOLEAN]
    /\ pc \in [CPU -> {"offline", "thread", "irq", "saving", "leaving"}]
    /\ outgoing \in [CPU -> Thread \cup {NoThread}]
    /\ owed \in [Thread -> Seq(Thread)]
    /\ frame_if \in [Thread -> BOOLEAN]
    /\ panicked \in Panics

\* An application processor between cpu_mark_online() and its first thread.
BringUp == \E c \in CPU : online[c] /\ pc[c] = "offline"

\* scheduler_validate_locked() succeeds on every scheduling CPU in every state
\* except while a processor is online without a current thread: no sequence of
\* critical sections of several CPUs corrupts the lists or the ownership.
ValidateHolds ==
    BringUp \/ \A c \in CPU : pc[c] # "offline" =>
                              scheduler_validate_locked(c)

\* Two CPUs never own one thread, and none owns a thread that another CPU has
\* not finished saving: running_cpu "serializes running ownership"
\* (docs/architecture/smp.md).
SingleOwner ==
    \A c, d \in CPU : c # d =>
      /\ current_thread[c] # NoThread => current_thread[c] # current_thread[d]
      /\ pc[c] = "saving" => current_thread[d] # outgoing[c]

\* A frame is resumed once: the thread a CPU executes has no saved frame that
\* another selection could resume, and a thread in nobody's hands has one.
FrameResumedOnce ==
    /\ \A c \in CPU : pc[c] \in {"thread", "irq", "leaving"} =>
         ~saved_context_valid[current_thread[c]]
    /\ \A t \in Thread :
         \/ state[t] \in {"UNUSED", "FREED"} \/ saved_context_valid[t]
         \/ \E c \in CPU :
              t = current_thread[c] \/ (pc[c] = "saving" /\ t = outgoing[c])

\* The BSP never idles while the bootstrap context waits outside the queues,
\* from where no timer tick would fetch it.
BootstrapNotStranded ==
    current_thread[BSP] = idle_thread[BSP] =>
      ~(state[bootstrap_thread] = "READY" /\ ~queued[bootstrap_thread])

\* Boosts last one turn: a running thread is back at its base priority.
BoostIsOneShot ==
    \A t \in Thread : state[t] = "RUNNING" =>
      effective_priority[t] = base_priority[t] /\ ~wakeup_boosted[t]

\* No panic() of the scheduler is reached.
NoPanic == panicked = "none"

\* The only panic is that of a switch that ends while an application processor
\* is online without a current thread.
PanicOnlyInBringUp == NoPanic \/ BringUp

Tracked(t) == queued[t] \/ running_cpu[t] # NoCpu

\* A step never makes a thread runnable, or keeps it runnable, without leaving
\* it in a ready queue or in the hands of a CPU (a suspended thread waits for
\* scheduler_enqueue()), unless validation fails during a bring-up.
NoRunnableLost ==
    [][\A t \in Worker :
         /\ ~BringUp
         /\ state[t] # "UNUSED" /\ (state[t] = "READY" => Tracked(t))
         /\ state'[t] = "READY"
         => Tracked(t)']_vars

\* A sleeping thread is woken, also when its deadline or the tick counter has
\* saturated.
SleeperWakes == \A t \in Thread : sleeping[t] ~> ~sleeping[t]

\* Aging and time slices let every queued thread leave its queue, whatever
\* threads of higher priority do.
QueuedThreadLeaves == \A t \in Worker : queued[t] ~> ~queued[t]

\* The thread on whose kernel stack CPU c executes.
StackOf(c) ==
    IF pc[c] \in {"saving", "leaving"} THEN outgoing[c] ELSE current_thread[c]

\* No two CPUs execute on one kernel stack.
StackExclusive ==
    \A c, d \in CPU : c # d /\ StackOf(c) # NoThread => StackOf(c) # StackOf(d)
=============================================================================
