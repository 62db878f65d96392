-------------------------- MODULE SchedulerDispatch --------------------------
(***************************************************************************)
(* Ownership of threads and of their saved frames, for any number of CPUs, *)
(* threads and priorities.                                                 *)
(*                                                                         *)
(* SingleOwner and FrameResumedOnce are not inductive: they do not say why *)
(* a thread that a selector may choose is in no CPU's hands.  Inv adds     *)
(* that (Owned), that the frame of an outgoing thread is invalid until it  *)
(* has been saved (Unsaved), and that a sleeping thread is BLOCKED, so the *)
(* tick handler never makes a running thread READY (Sleepers).             *)
(***************************************************************************)
EXTENDS Scheduler, ListProofs

USE SMTT(30), ZenonT(30)

\* A CPU that runs the scheduler owns its current thread.
Owned ==
    \A c \in CPU :
      IF pc[c] = "offline"
      THEN current_thread[c] = NoThread
      ELSE /\ current_thread[c] \in Thread
           /\ state[current_thread[c]] = "RUNNING"
           /\ running_cpu[current_thread[c]] = c

\* The thread a CPU is leaving, and that no other CPU leaves or runs it.
Leaving ==
    /\ \A c \in CPU : pc[c] \in {"saving", "leaving"} => outgoing[c] \in Thread
    /\ \A c \in CPU : pc[c] = "saving" =>
         /\ outgoing[c] # current_thread[c]
         /\ state[outgoing[c]] # "UNUSED"
         /\ \A d \in CPU : d # c =>
              /\ current_thread[d] # outgoing[c]
              /\ pc[d] = "saving" => outgoing[d] # outgoing[c]

Unsaved ==
    panicked = "none" =>
      \A c \in CPU : pc[c] = "saving" => ~saved_context_valid[outgoing[c]]

Sleepers ==
    panicked = "none" =>
      \A t \in Thread : sleeping[t] => state[t] = "BLOCKED"

Ownership == Owned /\ Leaving /\ Unsaved /\ Sleepers /\ FrameResumedOnce

Inv == TypeOK /\ Ownership

-----------------------------------------------------------------------------
(* Selection and dispatch. *)

\* The constants of the module have the types their uses need.
LEMMA Constants ==
    /\ \A c \in CPU : idle_thread[c] \in Thread
    /\ bootstrap_thread \in Thread
    /\ Worker \subseteq Thread
    /\ NoThread \notin Thread /\ NoCpu \notin CPU
BY CpuAssumption, ThreadAssumption DEF Thread, IdleThreads

\* scheduler_select_next_locked() returns NULL or a READY thread.
LEMMA SelectReady ==
    ASSUME NEW c \in CPU, TypeOK
    PROVE  LET s == scheduler_select_next_locked(c)
           IN  s = NoThread \/ (s \in Thread /\ state[s] = "READY")
<1> DEFINE order == ready_queues[HIGH] \o ready_queues[NORMAL]
                      \o ready_queues[BACKGROUND]
           ready == {i \in DOMAIN order : Selectable(c, order[i])}
           idle == idle_thread[c]
<1>1. order \in Seq(Thread)
  BY DEF TypeOK, Priority, HIGH, NORMAL, BACKGROUND
<1>2. scheduler_select_next_locked(c) =
        IF ~scheduler_validate_locked(c) THEN NoThread
        ELSE IF ready # {} THEN order[Min(ready)]
        ELSE IF /\ state[idle] = "READY" /\ ~queued[idle]
                /\ saved_context_valid[idle]
                /\ running_cpu[idle] \in {NoCpu, c}
             THEN idle ELSE NoThread
  BY DEF scheduler_select_next_locked
<1> HIDE DEF order
<1>3. ready # {} => Min(ready) \in ready
  <2>1. ready \in SUBSET Nat
    BY <1>1
  <2> HIDE DEF ready
  <2> QED BY <2>1, NatMin, ZenonT(30) DEF Min
<1>4. ready # {} => /\ order[Min(ready)] \in Thread
                    /\ state[order[Min(ready)]] = "READY"
  <2>1. \A i \in ready : order[i] \in Thread /\ state[order[i]] = "READY"
    BY <1>1 DEF Selectable
  <2> HIDE DEF ready
  <2> QED BY <1>3, <2>1
<1> HIDE DEF ready
<1> QED BY <1>2, <1>4, Constants

\* A dispatch that switches threads switches to another, READY thread.
LEMMA TargetReady ==
    ASSUME NEW c \in CPU, NEW action, TypeOK, ~Undispatched(c, action)
    PROVE  LET t == DispatchTarget(c, action)
           IN  /\ t \in Thread /\ t # current_thread[c]
               /\ state[t] = "READY"
<1> DEFINE s == scheduler_select_next_locked(c)
<1>1. s = NoThread \/ (s \in Thread /\ state[s] = "READY")
  BY SelectReady
<1> QED BY <1>1, Constants DEF Undispatched, DispatchTarget, BootstrapWaits

\* scheduler_remove_queued_locked() and the reset of a boost keep the types.
LEMMA UnqueueType ==
    ASSUME TypeOK, NEW t \in Thread, Unqueue(t)
    PROVE  /\ ready_queues' \in [Priority -> Seq(Thread)]
           /\ queued' \in [Thread -> BOOLEAN]
<1> DEFINE p == effective_priority[t]
<1>1. p \in Priority /\ ready_queues[p] \in Seq(Thread)
  BY DEF TypeOK
<1>2. Without(ready_queues[p], t) \in Seq(Thread)
  BY <1>1, WithoutType
<1>3. /\ ready_queues \in [Priority -> Seq(Thread)]
      /\ queued \in [Thread -> BOOLEAN]
  BY DEF TypeOK
<1>4. CASE queued[t]
  <2>1. ready_queues' = [ready_queues EXCEPT
                           ![p] = Without(ready_queues[p], t)]
    BY <1>4 DEF Unqueue
  <2>2. queued' = [queued EXCEPT ![t] = FALSE]
    BY <1>4 DEF Unqueue
  <2> HIDE DEF p
  <2> QED BY <1>1, <1>2, <1>3, <2>1, <2>2
<1>5. CASE ~queued[t]
  BY <1>3, <1>5 DEF Unqueue, readyVars
<1> QED BY <1>4, <1>5

\* The dispatcher removes its target from the ready queue and ends its boost.
LEMMA TakeFromQueueType ==
    ASSUME TypeOK, NEW t \in Thread, TakeFromQueue(t)
    PROVE  /\ ready_queues' \in [Priority -> Seq(Thread)]
           /\ queued' \in [Thread -> BOOLEAN]
           /\ effective_priority' \in [Thread -> Priority]
           /\ wakeup_boosted' \in [Thread -> BOOLEAN]
           /\ ready_wait_ticks' \in [Thread -> Nat]
<1>1. Unqueue(t)
  BY DEF TakeFromQueue
<1>2. /\ ready_queues' \in [Priority -> Seq(Thread)]
      /\ queued' \in [Thread -> BOOLEAN]
  BY <1>1, UnqueueType
<1>3. /\ base_priority \in [Thread -> Priority]
      /\ effective_priority \in [Thread -> Priority]
      /\ wakeup_boosted \in [Thread -> BOOLEAN]
      /\ ready_wait_ticks \in [Thread -> Nat]
  BY DEF TypeOK
<1>4. CASE queued[t]
  <2>1. /\ effective_priority' = [effective_priority EXCEPT
                                    ![t] = base_priority[t]]
        /\ wakeup_boosted' = [wakeup_boosted EXCEPT ![t] = FALSE]
        /\ ready_wait_ticks' = [ready_wait_ticks EXCEPT ![t] = 0]
    BY <1>4 DEF TakeFromQueue
  <2> QED BY <1>2, <1>3, <2>1
<1>5. CASE ~queued[t]
  <2>1. UNCHANGED prioVars
    BY <1>5 DEF TakeFromQueue
  <2> QED BY <1>2, <1>3, <2>1 DEF prioVars
<1> QED BY <1>4, <1>5

\* The variables a dispatch assigns keep their types.
LEMMA DispatchType ==
    ASSUME TypeOK, Owned, NEW c \in CPU, pc[c] # "offline",
           NEW action \in {"READY", "BLOCKED", "TERMINATED"},
           NEW irq_on \in BOOLEAN,
           Dispatch(c, action, irq_on),
           UNCHANGED scheduler_tick_count,
           sleeping_threads' \in Seq(Thread),
           sleeping' \in [Thread -> BOOLEAN],
           wakeup_tick' \in [Thread -> 0 .. MaxTick],
           preemption_pending' \in [CPU -> BOOLEAN]
    PROVE  TypeOK'
<1> DEFINE out == current_thread[c]
           target == DispatchTarget(c, action)
<1>1. target \in Thread /\ out \in Thread
  BY TargetReady DEF Dispatch, FramesKept, Owned
<1>2. TakeFromQueue(target)
  BY DEF Dispatch, FramesKept
<1>3. /\ ready_queues' \in [Priority -> Seq(Thread)]
      /\ queued' \in [Thread -> BOOLEAN]
      /\ effective_priority' \in [Thread -> Priority]
      /\ wakeup_boosted' \in [Thread -> BOOLEAN]
      /\ ready_wait_ticks' \in [Thread -> Nat]
  BY <1>1, <1>2, TakeFromQueueType
<1>4. /\ state \in [Thread -> ThreadState]
      /\ running_cpu \in [Thread -> CPU \cup {NoCpu}]
      /\ current_thread \in [CPU -> Thread \cup {NoThread}]
      /\ outgoing \in [CPU -> Thread \cup {NoThread}]
      /\ context_switching \in [CPU -> BOOLEAN]
      /\ context_switch_pending \in [Thread -> BOOLEAN]
      /\ pc \in [CPU -> {"offline", "thread", "irq", "saving", "leaving"}]
      /\ frame_if \in [Thread -> BOOLEAN]
      /\ panicked \in Panics
  BY DEF TypeOK
<1>5. /\ state' \in [Thread -> ThreadState]
      /\ running_cpu' \in [Thread -> CPU \cup {NoCpu}]
      /\ current_thread' \in [CPU -> Thread \cup {NoThread}]
      /\ outgoing' \in [CPU -> Thread \cup {NoThread}]
      /\ context_switching' \in [CPU -> BOOLEAN]
      /\ context_switch_pending' \in [Thread -> BOOLEAN]
      /\ pc' \in [CPU -> {"offline", "thread", "irq", "saving", "leaving"}]
      /\ frame_if' \in [Thread -> BOOLEAN]
      /\ panicked' \in Panics
  <2>1. CASE saved_context_valid[target]
    <3>1. /\ state' = [state EXCEPT ![out] = action, ![target] = "RUNNING"]
          /\ running_cpu' = [running_cpu EXCEPT
                               ![out] = IF action = "READY" THEN c ELSE NoCpu,
                               ![target] = c]
          /\ current_thread' = [current_thread EXCEPT ![c] = target]
          /\ context_switching' = [context_switching EXCEPT ![c] = TRUE]
          /\ context_switch_pending' =
               [context_switch_pending EXCEPT ![out] = TRUE]
          /\ pc' = [pc EXCEPT ![c] = "saving"]
          /\ outgoing' = [outgoing EXCEPT ![c] = out]
          /\ frame_if' = [frame_if EXCEPT
                            ![out] = irq_on /\ action # "TERMINATED"]
          /\ UNCHANGED panicked
      BY <2>1 DEF Dispatch, FramesKept
    <3> HIDE DEF out, target
    <3> QED BY <1>1, <1>4, <3>1, ZenonT(30) DEF ThreadState
  <2>2. CASE ~saved_context_valid[target]
    <3>1. /\ panicked' = "selected thread has no saved context"
          /\ UNCHANGED <<state, running_cpu, current_thread,
                         context_switching, context_switch_pending, pc,
                         outgoing, frame_if>>
      BY <2>2 DEF Dispatch, FramesKept
    <3> QED BY <1>4, <3>1 DEF Panics
  <2> QED BY <2>1, <2>2
<1>6. UNCHANGED <<saved_context_valid, base_priority, online, owed,
                  remaining_time_slice, syscall_active>>
  BY DEF Dispatch, FramesKept
<1> QED BY <1>3, <1>5, <1>6, ZenonT(30) DEF TypeOK

\* A dispatch keeps the ownership and the frames consistent: the outgoing
\* thread stays unselectable, and the target was in no CPU's hands.
LEMMA DispatchOwnership ==
    ASSUME Inv, NEW c \in CPU, pc[c] \in {"thread", "irq"},
           panicked = "none",
           NEW action \in {"READY", "BLOCKED", "TERMINATED"},
           NEW irq_on \in BOOLEAN,
           Dispatch(c, action, irq_on)
    PROVE  /\ Owned' /\ Leaving' /\ Unsaved' /\ FrameResumedOnce'
           /\ \A t \in Thread : sleeping[t] => state'[t] = "BLOCKED"
<1> DEFINE out == current_thread[c]
           target == DispatchTarget(c, action)
<1>1. /\ target \in Thread /\ target # out /\ state[target] = "READY"
      /\ out \in Thread /\ state[out] = "RUNNING" /\ running_cpu[out] = c
  BY TargetReady DEF Dispatch, FramesKept, Owned, Inv, Ownership
<1>2. CASE ~saved_context_valid[target]
  <2>1. /\ UNCHANGED <<state, running_cpu, current_thread, pc, outgoing,
                       saved_context_valid>>
        /\ panicked' # "none"
    BY <1>2 DEF Dispatch, FramesKept
  <2> QED BY <2>1 DEF Inv, Ownership, Owned, Leaving, Unsaved, FrameResumedOnce, Sleepers
<1>3. CASE saved_context_valid[target]
  <2>1. /\ state' = [state EXCEPT ![out] = action, ![target] = "RUNNING"]
        /\ running_cpu' = [running_cpu EXCEPT
                             ![out] = IF action = "READY" THEN c ELSE NoCpu,
                             ![target] = c]
        /\ current_thread' = [current_thread EXCEPT ![c] = target]
        /\ pc' = [pc EXCEPT ![c] = "saving"]
        /\ outgoing' = [outgoing EXCEPT ![c] = out]
        /\ UNCHANGED <<panicked, saved_context_valid>>
    BY <1>3 DEF Dispatch, FramesKept
  <2>2. ASSUME NEW d \in CPU, d # c
        PROVE  /\ current_thread[d] # out /\ current_thread[d] # target
               /\ pc[d] = "saving" => outgoing[d] # target /\ outgoing[d] # out
    BY <1>1, <1>3, <2>2, Constants DEF Inv, Ownership, Owned, Leaving, Unsaved
  <2> HIDE DEF target, out
  <2>8. /\ state'[out] = action /\ state'[target] = "RUNNING"
        /\ running_cpu'[target] = c
        /\ running_cpu'[out] = IF action = "READY" THEN c ELSE NoCpu
        /\ \A t \in Thread : t # out /\ t # target =>
             state'[t] = state[t] /\ running_cpu'[t] = running_cpu[t]
    BY <1>1, <2>1 DEF Inv, TypeOK
  <2>9. /\ pc'[c] = "saving" /\ current_thread'[c] = target /\ outgoing'[c] = out
        /\ \A d \in CPU : d # c =>
             /\ pc'[d] = pc[d] /\ current_thread'[d] = current_thread[d]
             /\ outgoing'[d] = outgoing[d]
    BY <2>1 DEF Inv, TypeOK
  <2>10. Owned /\ Leaving
    BY DEF Inv, Ownership
  <2>3. Owned'
    <3> SUFFICES ASSUME NEW d \in CPU
                 PROVE  IF pc'[d] = "offline"
                        THEN current_thread'[d] = NoThread
                        ELSE /\ current_thread'[d] \in Thread
                             /\ state'[current_thread'[d]] = "RUNNING"
                             /\ running_cpu'[current_thread'[d]] = d
      BY DEF Owned
    <3>1. CASE d = c
      BY <1>1, <2>8, <2>9, <3>1
    <3>2. CASE d # c
      BY <2>2, <2>8, <2>9, <2>10, <3>2 DEF Owned
    <3> QED BY <3>1, <3>2
  <2>4. Leaving'
    <3>1. ASSUME NEW d \in CPU, pc'[d] \in {"saving", "leaving"}
          PROVE  outgoing'[d] \in Thread
      BY <1>1, <2>9, <2>10, <3>1 DEF Leaving
    <3>2. ASSUME NEW d \in CPU, pc'[d] = "saving"
          PROVE  /\ outgoing'[d] # current_thread'[d]
                 /\ state'[outgoing'[d]] # "UNUSED"
      <4>1. CASE d = c
        BY <1>1, <2>8, <2>9, <4>1
      <4>2. CASE d # c
        BY <1>1, <2>2, <2>8, <2>9, <2>10, <3>2, <4>2 DEF Leaving
      <4> QED BY <4>1, <4>2
    <3>3. ASSUME NEW d \in CPU, pc'[d] = "saving", NEW e \in CPU, e # d
          PROVE  /\ current_thread'[e] # outgoing'[d]
                 /\ pc'[e] = "saving" => outgoing'[e] # outgoing'[d]
      <4>1. CASE d = c
        BY <2>2, <2>9, <3>3, <4>1
      <4>2. CASE e = c
        BY <2>2, <2>9, <3>3, <4>2
      <4>3. CASE d # c /\ e # c
        BY <2>9, <2>10, <3>3, <4>3 DEF Leaving
      <4> QED BY <4>1, <4>2, <4>3
    <3> QED BY <3>1, <3>2, <3>3 DEF Leaving
  <2>5. Unsaved'
    BY <1>1, <2>1, <2>2 DEF Inv, Ownership, Unsaved, FrameResumedOnce, TypeOK, out
  <2>6. \A t \in Thread : sleeping[t] => state'[t] = "BLOCKED"
    BY <1>1, <2>1, ZenonT(30) DEF Inv, Ownership, Sleepers, TypeOK
  <2>7. FrameResumedOnce'
    <3>1. ASSUME NEW d \in CPU, pc'[d] \in {"thread", "irq", "leaving"}
          PROVE  ~saved_context_valid'[current_thread'[d]]
      BY <3>1, <2>1 DEF Inv, Ownership, FrameResumedOnce, TypeOK
    <3>2. ASSUME NEW t \in Thread, state'[t] \notin {"UNUSED", "FREED"},
                 ~saved_context_valid'[t]
          PROVE  \E d \in CPU :
                   t = current_thread'[d] \/ (pc'[d] = "saving" /\ t = outgoing'[d])
      <4>1. CASE t = out
        BY <4>1, <2>1 DEF Inv, Ownership, TypeOK
      <4>2. CASE t = target
        <5>1. t = current_thread'[c]
          BY <4>2, <2>1 DEF Inv, Ownership, TypeOK
        <5> QED BY <5>1
      <4>3. CASE t # out /\ t # target
        <5>1. PICK d \in CPU :
                t = current_thread[d] \/ (pc[d] = "saving" /\ t = outgoing[d])
          BY <3>2, <4>3, <2>1 DEF Inv, Ownership, FrameResumedOnce, TypeOK
        <5>2. d # c
          BY <5>1, <4>3 DEF out
        <5>3. /\ current_thread'[d] = current_thread[d]
              /\ pc'[d] = pc[d] /\ outgoing'[d] = outgoing[d]
          BY <5>2, <2>1 DEF Inv, Ownership, TypeOK
        <5> QED BY <5>1, <5>3
      <4> QED BY <4>1, <4>2, <4>3
    <3> QED BY <3>1, <3>2 DEF FrameResumedOnce
  <2> QED BY <2>3, <2>4, <2>5, <2>6, <2>7
<1> QED BY <1>2, <1>3

-----------------------------------------------------------------------------
(* Steps that leave every CPU with the thread and the frame it has. *)

\* A CPU enters or leaves the interrupt exit path, or stays where it is.
SamePlace ==
    \A c \in CPU : \/ pc'[c] = pc[c]
                   \/ pc[c] \in {"thread", "irq"} /\ pc'[c] \in {"thread", "irq"}

\* Changes to threads that no CPU runs keep the ownership: creation,
\* reclamation, termination and wakeup of the threads in T.
LEMMA OtherThreads ==
    ASSUME Inv, TypeOK', NEW T \in SUBSET Thread, SamePlace,
           UNCHANGED <<current_thread, outgoing, panicked>>,
           \A t \in T :
             /\ state[t] # "FREED" /\ state'[t] # "UNUSED"
             /\ state[t] # "RUNNING" \/ running_cpu[t] = NoCpu
             /\ sleeping'[t] => state'[t] = "BLOCKED"
             /\ IF state[t] = "UNUSED"
                THEN saved_context_valid'[t]
                ELSE saved_context_valid'[t] = saved_context_valid[t],
           \A t \in Thread \ T :
             /\ state'[t] = state[t] /\ running_cpu'[t] = running_cpu[t]
             /\ saved_context_valid'[t] = saved_context_valid[t]
             /\ sleeping'[t] => sleeping[t]
    PROVE  Ownership'
<1>1. \A c \in CPU : pc[c] # "offline" => current_thread[c] \in Thread \ T
  BY Constants DEF Inv, Ownership, Owned
<1>2. \A c \in CPU : pc[c] = "saving" =>
        /\ outgoing[c] \in Thread
        /\ state[outgoing[c]] # "UNUSED" /\ state'[outgoing[c]] # "UNUSED"
        /\ saved_context_valid'[outgoing[c]] = saved_context_valid[outgoing[c]]
  BY DEF Inv, Ownership, Leaving
<1>3. Owned'
  BY <1>1 DEF Inv, Ownership, Owned, SamePlace
<1>4. Leaving'
  BY <1>2, SMTT(30) DEF Inv, Ownership, Leaving, SamePlace
<1>5. Unsaved'
  BY <1>2 DEF Inv, Ownership, Unsaved, SamePlace
<1>6. Sleepers'
  BY DEF Inv, Ownership, Sleepers
<1>7. FrameResumedOnce'
  <2>1. ASSUME NEW c \in CPU, pc'[c] \in {"thread", "irq", "leaving"}
        PROVE  ~saved_context_valid'[current_thread'[c]]
    BY <1>1, <2>1 DEF Inv, Ownership, FrameResumedOnce, SamePlace
  <2>2. ASSUME NEW t \in Thread, state'[t] \notin {"UNUSED", "FREED"},
               ~saved_context_valid'[t]
        PROVE  \E c \in CPU :
                 t = current_thread'[c] \/ (pc'[c] = "saving" /\ t = outgoing'[c])
    <3>1. state[t] \notin {"UNUSED", "FREED"} /\ ~saved_context_valid[t]
      BY <2>2
    <3>2. PICK c \in CPU :
            t = current_thread[c] \/ (pc[c] = "saving" /\ t = outgoing[c])
      BY <3>1 DEF Inv, Ownership, FrameResumedOnce
    <3> QED BY <3>2 DEF SamePlace
  <2> QED BY <2>1, <2>2 DEF FrameResumedOnce
<1> QED BY <1>3, <1>4, <1>5, <1>6, <1>7 DEF Ownership

-----------------------------------------------------------------------------
(* One lemma per operation. *)

\* scheduler_yield(), scheduler_block(), scheduler_terminate() and a
\* preemption: a dispatch that leaves the sleeping list alone.
LEMMA DispatchInv ==
    ASSUME Inv, NEW c \in CPU, pc[c] \in {"thread", "irq"},
           panicked = "none",
           NEW action \in {"READY", "BLOCKED", "TERMINATED"},
           NEW irq_on \in BOOLEAN,
           Dispatch(c, action, irq_on),
           UNCHANGED sleepVars, preemption_pending' \in [CPU -> BOOLEAN]
    PROVE  Inv'
<1>1. TypeOK'
  BY DispatchType, ZenonT(30) DEF Inv, Ownership, TypeOK, sleepVars
<1>2. /\ Owned' /\ Leaving' /\ Unsaved' /\ FrameResumedOnce'
      /\ \A t \in Thread : sleeping[t] => state'[t] = "BLOCKED"
  BY DispatchOwnership
<1>3. Sleepers'
  BY <1>2 DEF Sleepers, sleepVars
<1> QED BY <1>1, <1>2, <1>3 DEF Inv, Ownership

-----------------------------------------------------------------------------
(* One lemma per critical section of the scheduler: each preserves Inv.    *)

\* A step that leaves the threads' places and frames alone.
LEMMA Untouched ==
    ASSUME Ownership,
           UNCHANGED <<state, running_cpu, saved_context_valid, sleeping,
                       current_thread, pc, outgoing, panicked>>
    PROVE  Ownership'
<1>1. Owned' /\ Unsaved' /\ Sleepers'
  BY DEF Ownership, Owned, Unsaved, Sleepers
<1>2. Leaving'
  BY DEF Ownership, Leaving
<1>3. FrameResumedOnce'
  BY DEF Ownership, FrameResumedOnce
<1> QED BY <1>1, <1>2, <1>3 DEF Ownership

\* The flags a thread calls the scheduler with.
LEMMA CallerIfType ==
    ASSUME TypeOK, NEW c \in CPU
    PROVE  CallerIf(c) \in BOOLEAN
BY DEF CallerIf

\* scheduler_yield(), scheduler_block() and scheduler_terminate() dispatch.
LEMMA SwitchInv ==
    ASSUME Inv, NEW c \in CPU,
           scheduler_yield(c) \/ scheduler_block(c) \/ scheduler_terminate(c)
    PROVE  Inv'
<1>1. PICK action \in {"READY", "BLOCKED", "TERMINATED"} :
        /\ Dispatch(c, action, CallerIf(c))
        /\ pc[c] = "thread" /\ panicked = "none"
        /\ UNCHANGED <<sleepVars, preemption_pending>>
  BY DEF scheduler_yield, scheduler_block, scheduler_terminate, Executing
<1>2. CallerIf(c) \in BOOLEAN /\ preemption_pending' \in [CPU -> BOOLEAN]
  BY <1>1, CallerIfType DEF Inv, TypeOK
<1> QED BY <1>1, <1>2, DispatchInv

\* scheduler_sleep() lists the caller as a sleeper and dispatches.
LEMMA SleepInv ==
    ASSUME Inv, NEW c \in CPU, NEW ticks \in SleepTicks,
           scheduler_sleep(c, ticks)
    PROVE  Inv'
<1> DEFINE t == current_thread[c]
<1>1. /\ Dispatch(c, "BLOCKED", CallerIf(c))
      /\ pc[c] = "thread" /\ panicked = "none" /\ t \in Thread
      /\ wakeup_tick' = [wakeup_tick EXCEPT ![t] = WakeupTick(ticks)]
      /\ sleeping_threads' = <<t>> \o sleeping_threads
      /\ sleeping' = [sleeping EXCEPT ![t] = TRUE]
      /\ UNCHANGED <<scheduler_tick_count, preemption_pending>>
  BY DEF scheduler_sleep, Executing, Inv, Ownership, Owned
<1>2. CallerIf(c) \in BOOLEAN
  BY CallerIfType DEF Inv
<1>3. WakeupTick(ticks) \in 0 .. MaxTick
  BY BoundAssumption DEF WakeupTick, Inv, TypeOK
<1>4. /\ sleeping_threads' \in Seq(Thread)
      /\ sleeping' \in [Thread -> BOOLEAN]
      /\ wakeup_tick' \in [Thread -> 0 .. MaxTick]
      /\ preemption_pending' \in [CPU -> BOOLEAN]
  <2>1. /\ sleeping_threads \in Seq(Thread)
        /\ sleeping \in [Thread -> BOOLEAN]
        /\ wakeup_tick \in [Thread -> 0 .. MaxTick]
        /\ preemption_pending \in [CPU -> BOOLEAN]
    BY DEF Inv, TypeOK
  <2> HIDE DEF t
  <2> QED BY <1>1, <1>3, <2>1
<1>5. TypeOK'
  BY <1>1, <1>2, <1>4, DispatchType, ZenonT(30) DEF Inv, Ownership
<1>6. /\ Owned' /\ Leaving' /\ Unsaved' /\ FrameResumedOnce'
      /\ \A u \in Thread : sleeping[u] => state'[u] = "BLOCKED"
  BY <1>1, <1>2, DispatchOwnership
<1>7. panicked' = "none" => state'[t] = "BLOCKED"
  <2>1. DispatchTarget(c, "BLOCKED") # t
    BY <1>1, TargetReady DEF Inv, Dispatch, FramesKept
  <2>2. panicked' = "none" =>
          state' = [state EXCEPT ![t] = "BLOCKED",
                                 ![DispatchTarget(c, "BLOCKED")] = "RUNNING"]
    BY <1>1 DEF Dispatch, FramesKept
  <2>3. state \in [Thread -> ThreadState]
    BY DEF Inv, TypeOK
  <2> HIDE DEF t
  <2> QED BY <1>1, <2>1, <2>2, <2>3
<1>8. Sleepers'
  <2>1. \A u \in Thread : sleeping'[u] => u = t \/ sleeping[u]
    <3> HIDE DEF t
    <3> QED BY <1>1 DEF Inv, TypeOK
  <2> QED BY <1>6, <1>7, <2>1 DEF Sleepers
<1> QED BY <1>5, <1>6, <1>8 DEF Inv, Ownership

\* System call entry and exit touch no ownership.
LEMMA SyscallInv ==
    ASSUME Inv, NEW c \in CPU,
           scheduler_syscall_enter(c) \/ scheduler_syscall_leave(c)
    PROVE  Inv'
<1>1. /\ UNCHANGED <<lifeVars, prioVars, readyVars, sleepVars, base_priority,
                     remaining_time_slice, cpuVars, execVars>>
      /\ syscall_active' = [syscall_active EXCEPT ![current_thread[c]] = TRUE]
         \/ syscall_active' = [syscall_active EXCEPT ![current_thread[c]] = FALSE]
  BY DEF scheduler_syscall_enter, scheduler_syscall_leave
<1>2. syscall_active' \in [Thread -> BOOLEAN]
  BY <1>1, ZenonT(30) DEF Inv, TypeOK
<1>3. TypeOK'
  BY <1>1, <1>2 DEF Inv, TypeOK, lifeVars, prioVars, readyVars, sleepVars,
                    cpuVars, execVars
<1>4. Ownership'
  BY <1>1, Untouched DEF Inv, lifeVars, sleepVars, cpuVars, execVars
<1> QED BY <1>3, <1>4 DEF Inv

\* Insertion at the tail of a ready queue.
LEMMA InsertType ==
    ASSUME TypeOK, NEW t \in Thread, NEW p \in Priority, Insert(t, p)
    PROVE  /\ ready_queues' \in [Priority -> Seq(Thread)]
           /\ queued' \in [Thread -> BOOLEAN]
<1>1. /\ ready_queues \in [Priority -> Seq(Thread)]
      /\ queued \in [Thread -> BOOLEAN]
  BY DEF TypeOK
<1>2. Append(ready_queues[p], t) \in Seq(Thread)
  BY <1>1
<1> QED BY <1>1, <1>2 DEF Insert

\* A new thread, suspended or queued.
LEMMA ConstructInv ==
    ASSUME Inv, NEW t \in Thread, NEW p \in Priority,
           state[t] = "UNUSED", panicked = "none", Construct(t, p),
           ready_queues' \in [Priority -> Seq(Thread)],
           queued' \in [Thread -> BOOLEAN]
    PROVE  Inv'
<1>1. TypeOK /\ ~sleeping[t]
  BY DEF Inv, Ownership, Sleepers
<1>2. /\ state' \in [Thread -> ThreadState]
      /\ running_cpu' \in [Thread -> CPU \cup {NoCpu}]
      /\ base_priority' \in [Thread -> Priority]
      /\ effective_priority' \in [Thread -> Priority]
      /\ remaining_time_slice' \in [Thread -> Nat \ {0}]
      /\ ready_wait_ticks' \in [Thread -> Nat]
      /\ owed' \in [Thread -> Seq(Thread)]
  BY <1>1, BoundAssumption, SMTT(30) DEF Construct, TypeOK, ThreadState
<1>3. /\ saved_context_valid' \in [Thread -> BOOLEAN]
      /\ context_switch_pending' \in [Thread -> BOOLEAN]
      /\ wakeup_boosted' \in [Thread -> BOOLEAN]
      /\ syscall_active' \in [Thread -> BOOLEAN]
      /\ frame_if' \in [Thread -> BOOLEAN]
  BY <1>1 DEF Construct, TypeOK
<1>4. TypeOK'
  BY <1>1, <1>2, <1>3, ZenonT(30) DEF Construct, TypeOK, sleepVars, cpuVars
<1>5. Ownership'
  <2>1. /\ state' = [state EXCEPT ![t] = "READY"]
        /\ running_cpu' = [running_cpu EXCEPT ![t] = NoCpu]
        /\ saved_context_valid' = [saved_context_valid EXCEPT ![t] = TRUE]
        /\ UNCHANGED <<sleeping, current_thread, outgoing, panicked, pc>>
    BY DEF Construct, sleepVars, cpuVars
  <2>2. SamePlace
    BY <2>1 DEF SamePlace
  <2>3. {t} \in SUBSET Thread
    OBVIOUS
  <2>4. \A u \in {t} :
          /\ state[u] # "FREED" /\ state'[u] # "UNUSED"
          /\ state[u] # "RUNNING" \/ running_cpu[u] = NoCpu
          /\ sleeping'[u] => state'[u] = "BLOCKED"
          /\ IF state[u] = "UNUSED"
             THEN saved_context_valid'[u]
             ELSE saved_context_valid'[u] = saved_context_valid[u]
    BY <1>1, <2>1 DEF TypeOK
  <2>5. \A u \in Thread \ {t} :
          /\ state'[u] = state[u] /\ running_cpu'[u] = running_cpu[u]
          /\ saved_context_valid'[u] = saved_context_valid[u]
          /\ sleeping'[u] => sleeping[u]
    BY <1>1, <2>1 DEF TypeOK
  <2> QED BY <1>4, <2>1, <2>2, <2>3, <2>4, <2>5, OtherThreads, ZenonT(30)
<1> QED BY <1>4, <1>5 DEF Inv

\* thread_create*() builds a thread with a frame in unused memory.
LEMMA CreateInv ==
    ASSUME Inv, NEW c \in CPU, NEW t \in Worker, NEW p \in CreatePriorities,
           \/ thread_create_with_priority(c, t, p)
           \/ thread_create_suspended_with_priority(c, t, p)
    PROVE  Inv'
<1>1. t \in Thread /\ p \in Priority /\ TypeOK
  BY Constants, BoundAssumption DEF Inv
<1>2. state[t] = "UNUSED" /\ panicked = "none" /\ Construct(t, p)
  BY DEF thread_create_with_priority, thread_create_suspended_with_priority,
         Executing
<1>3. Insert(t, p) \/ UNCHANGED readyVars
  BY DEF thread_create_with_priority, thread_create_suspended_with_priority
<1>4. /\ ready_queues' \in [Priority -> Seq(Thread)]
      /\ queued' \in [Thread -> BOOLEAN]
  BY <1>1, <1>3, InsertType, ZenonT(30) DEF TypeOK, readyVars
<1> QED BY <1>1, <1>2, <1>4, ConstructInv

\* scheduler_prepare_idle_cpu() builds the idle thread of another CPU.
LEMMA PrepareIdleInv ==
    ASSUME Inv, NEW c \in CPU, NEW d \in CPU, scheduler_prepare_idle_cpu(c, d)
    PROVE  Inv'
<1>1. idle_thread[d] \in Thread /\ BACKGROUND \in Priority
  BY Constants DEF Priority
<1>2. /\ state[idle_thread[d]] = "UNUSED" /\ panicked = "none"
      /\ Construct(idle_thread[d], BACKGROUND) /\ UNCHANGED readyVars
  BY DEF scheduler_prepare_idle_cpu, Executing
<1>3. /\ ready_queues' \in [Priority -> Seq(Thread)]
      /\ queued' \in [Thread -> BOOLEAN]
  BY <1>2 DEF Inv, TypeOK, readyVars
<1> QED BY <1>1, <1>2, <1>3, ConstructInv

\* scheduler_enqueue() publishes a suspended thread in its ready queue.
LEMMA EnqueueInv ==
    ASSUME Inv, NEW c \in CPU, NEW t \in Worker, scheduler_enqueue(c, t)
    PROVE  Inv'
<1>1. t \in Thread /\ effective_priority[t] \in Priority /\ TypeOK
  BY Constants, ZenonT(30) DEF Inv, TypeOK
<1>2. /\ Insert(t, effective_priority[t])
      /\ ready_wait_ticks' = [ready_wait_ticks EXCEPT ![t] = 0]
      /\ UNCHANGED <<lifeVars, effective_priority, wakeup_boosted, sleepVars,
                     fixedVars, cpuVars, execVars>>
  BY DEF scheduler_enqueue
<1>3. /\ ready_queues' \in [Priority -> Seq(Thread)]
      /\ queued' \in [Thread -> BOOLEAN]
  BY <1>1, <1>2, InsertType
<1>4. ready_wait_ticks' \in [Thread -> Nat]
  BY <1>1, <1>2 DEF TypeOK
<1>5. TypeOK'
  BY <1>1, <1>2, <1>3, <1>4, ZenonT(30) DEF TypeOK, lifeVars, sleepVars, fixedVars,
                                cpuVars, execVars
<1>6. Ownership'
  BY <1>2, Untouched DEF Inv, lifeVars, sleepVars, cpuVars, execVars
<1> QED BY <1>5, <1>6 DEF Inv

\* thread_destroy() reclaims a thread that no CPU runs.
LEMMA DestroyInv ==
    ASSUME Inv, NEW c \in CPU, NEW t \in Worker, thread_destroy(c, t)
    PROVE  Inv'
<1>1. t \in Thread /\ TypeOK
  BY Constants DEF Inv
<1>2. Unqueue(t)
  BY DEF thread_destroy
<1>3. /\ ready_queues' \in [Priority -> Seq(Thread)]
      /\ queued' \in [Thread -> BOOLEAN]
  BY <1>1, <1>2, UnqueueType
<1>4. /\ state' \in [Thread -> ThreadState]
      /\ effective_priority' \in [Thread -> Priority]
      /\ base_priority' \in [Thread -> Priority]
      /\ ready_wait_ticks' \in [Thread -> Nat]
      /\ owed' \in [Thread -> Seq(Thread)]
  BY <1>1 DEF thread_destroy, TypeOK, ThreadState, Priority
<1>5. /\ wakeup_boosted' \in [Thread -> BOOLEAN]
      /\ syscall_active' \in [Thread -> BOOLEAN]
      /\ frame_if' \in [Thread -> BOOLEAN]
  BY <1>1 DEF thread_destroy, TypeOK
<1>6. UNCHANGED <<running_cpu, saved_context_valid, context_switch_pending,
                  remaining_time_slice, sleepVars, cpuVars, pc, outgoing,
                  panicked>>
  BY DEF thread_destroy
<1>7. TypeOK'
  BY <1>1, <1>3, <1>4, <1>5, <1>6, ZenonT(30) DEF TypeOK, sleepVars, cpuVars
<1>8. Ownership'
  <2>1. /\ state[t] \in {"READY", "TERMINATED"} /\ ~sleeping[t]
        /\ state' = [state EXCEPT ![t] = "FREED"]
        /\ UNCHANGED <<running_cpu, saved_context_valid, sleeping,
                       current_thread, outgoing, panicked, pc>>
    BY <1>6 DEF thread_destroy, sleepVars, cpuVars
  <2>2. SamePlace
    BY <2>1 DEF SamePlace
  <2>3. {t} \in SUBSET Thread
    BY <1>1
  <2>4. \A u \in {t} :
          /\ state[u] # "FREED" /\ state'[u] # "UNUSED"
          /\ state[u] # "RUNNING" \/ running_cpu[u] = NoCpu
          /\ sleeping'[u] => state'[u] = "BLOCKED"
          /\ IF state[u] = "UNUSED"
             THEN saved_context_valid'[u]
             ELSE saved_context_valid'[u] = saved_context_valid[u]
    BY <1>1, <2>1 DEF TypeOK
  <2>5. \A u \in Thread \ {t} :
          /\ state'[u] = state[u] /\ running_cpu'[u] = running_cpu[u]
          /\ saved_context_valid'[u] = saved_context_valid[u]
          /\ sleeping'[u] => sleeping[u]
    BY <1>1, <2>1 DEF TypeOK
  <2> QED BY <1>7, <2>1, <2>2, <2>3, <2>4, <2>5, OtherThreads, ZenonT(30)
<1> QED BY <1>7, <1>8 DEF Inv

\* sleeping_remove()
LEMMA UnsleepType ==
    ASSUME TypeOK, NEW t \in Thread, Unsleep(t)
    PROVE  /\ sleeping_threads' \in Seq(Thread)
           /\ sleeping' \in [Thread -> BOOLEAN]
           /\ wakeup_tick' \in [Thread -> 0 .. MaxTick]
           /\ UNCHANGED scheduler_tick_count
           /\ ~sleeping'[t]
           /\ \A u \in Thread : sleeping'[u] => sleeping[u]
<1>1. /\ sleeping_threads \in Seq(Thread)
      /\ sleeping \in [Thread -> BOOLEAN]
      /\ wakeup_tick \in [Thread -> 0 .. MaxTick]
      /\ 0 \in 0 .. MaxTick
  BY BoundAssumption DEF TypeOK
<1>2. Without(sleeping_threads, t) \in Seq(Thread)
  BY <1>1, WithoutType
<1>3. CASE sleeping[t]
  <2>1. /\ sleeping_threads' = Without(sleeping_threads, t)
        /\ sleeping' = [sleeping EXCEPT ![t] = FALSE]
        /\ wakeup_tick' = [wakeup_tick EXCEPT ![t] = 0]
        /\ UNCHANGED scheduler_tick_count
    BY <1>3 DEF Unsleep
  <2> QED BY <1>1, <1>2, <2>1
<1>4. CASE ~sleeping[t]
  BY <1>1, <1>4 DEF Unsleep, sleepVars
<1> QED BY <1>3, <1>4

\* scheduler_terminate_thread() ends a thread that no CPU owns.
LEMMA TerminateThreadInv ==
    ASSUME Inv, NEW c \in CPU, NEW t \in Worker,
           scheduler_terminate_thread(c, t)
    PROVE  Inv'
<1>1. t \in Thread /\ TypeOK
  BY Constants DEF Inv
<1>2. /\ Unqueue(t) /\ Unsleep(t)
      /\ state[t] \notin {"UNUSED", "FREED"} /\ running_cpu[t] = NoCpu
      /\ state' = [state EXCEPT ![t] = "TERMINATED"]
      /\ UNCHANGED <<running_cpu, saved_context_valid, context_switch_pending,
                     prioVars, fixedVars, cpuVars, execVars>>
      /\ panicked = "none"
  BY DEF scheduler_terminate_thread, Executing
<1>3. /\ ready_queues' \in [Priority -> Seq(Thread)]
      /\ queued' \in [Thread -> BOOLEAN]
  BY <1>1, <1>2, UnqueueType
<1>4. /\ sleeping_threads' \in Seq(Thread)
      /\ sleeping' \in [Thread -> BOOLEAN]
      /\ wakeup_tick' \in [Thread -> 0 .. MaxTick]
      /\ UNCHANGED scheduler_tick_count
      /\ ~sleeping'[t]
      /\ \A u \in Thread : sleeping'[u] => sleeping[u]
  BY <1>1, <1>2, UnsleepType
<1>5. state' \in [Thread -> ThreadState]
  BY <1>1, <1>2 DEF TypeOK, ThreadState
<1>6. TypeOK'
  BY <1>1, <1>2, <1>3, <1>4, <1>5, ZenonT(30) DEF TypeOK, prioVars, fixedVars, cpuVars,
                                      execVars
<1>7. UNCHANGED <<current_thread, outgoing, panicked, pc>>
  BY <1>2 DEF cpuVars, execVars
<1>8. Ownership'
  <2>1. SamePlace
    BY <1>7 DEF SamePlace
  <2>2. {t} \in SUBSET Thread
    BY <1>1
  <2>3. \A u \in {t} :
          /\ state[u] # "FREED" /\ state'[u] # "UNUSED"
          /\ state[u] # "RUNNING" \/ running_cpu[u] = NoCpu
          /\ sleeping'[u] => state'[u] = "BLOCKED"
          /\ IF state[u] = "UNUSED"
             THEN saved_context_valid'[u]
             ELSE saved_context_valid'[u] = saved_context_valid[u]
    BY <1>1, <1>2, <1>4 DEF TypeOK
  <2>4. \A u \in Thread \ {t} :
          /\ state'[u] = state[u] /\ running_cpu'[u] = running_cpu[u]
          /\ saved_context_valid'[u] = saved_context_valid[u]
          /\ sleeping'[u] => sleeping[u]
    BY <1>1, <1>2, <1>4, ZenonT(30) DEF TypeOK
  <2> QED BY <1>6, <1>7, <2>1, <2>2, <2>3, <2>4, OtherThreads, ZenonT(30)
<1> QED BY <1>6, <1>8 DEF Inv
=============================================================================
