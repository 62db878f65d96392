--------------------------- MODULE SchedulerProofs ---------------------------
(***************************************************************************)
(* What Scheduler guarantees for every set of processors and threads: one  *)
(* lemma per wakeup, interrupt and step of the context switch, each        *)
(* preserving the invariant Inv, and the theorems that follow from it.     *)
(***************************************************************************)
EXTENDS SchedulerDispatch

USE SMTT(30), ZenonT(30)

\* A wakeup, whether it comes from a thread or from an interrupt handler.
LEMMA WakeInv ==
    ASSUME Inv, NEW c \in CPU, NEW t \in Thread, panicked = "none",
           Wake(c, t), SamePlace,
           pc' \in [CPU -> {"offline", "thread", "irq", "saving", "leaving"}],
           UNCHANGED <<outgoing, owed, frame_if, panicked>>
    PROVE  Inv'
<1>1. /\ TypeOK /\ state[t] = "BLOCKED"
      /\ UNCHANGED <<saved_context_valid, context_switch_pending, fixedVars,
                     online, current_thread, context_switching>>
  BY DEF Inv, Wake
<1>2. CASE scheduler_validate_locked(c)
  <2>1. /\ Unsleep(t) /\ Insert(t, WakePriority(t))
        /\ state' = [state EXCEPT ![t] = "READY"]
        /\ running_cpu' = [running_cpu EXCEPT ![t] = NoCpu]
        /\ effective_priority' = [effective_priority EXCEPT
                                    ![t] = WakePriority(t)]
        /\ wakeup_boosted' = [wakeup_boosted EXCEPT
                                ![t] = base_priority[t] = BACKGROUND]
        /\ ready_wait_ticks' = [ready_wait_ticks EXCEPT ![t] = 0]
        /\ preemption_pending' = [preemption_pending EXCEPT
                                    ![c] = preemption_pending[c] \/ ~NotIdle(c)]
    BY <1>2 DEF Wake
  <2>2. WakePriority(t) \in Priority
    BY <1>1 DEF WakePriority, TypeOK, Priority
  <2>3. /\ ready_queues' \in [Priority -> Seq(Thread)]
        /\ queued' \in [Thread -> BOOLEAN]
    BY <1>1, <2>1, <2>2, InsertType
  <2>4. /\ sleeping_threads' \in Seq(Thread)
        /\ sleeping' \in [Thread -> BOOLEAN]
        /\ wakeup_tick' \in [Thread -> 0 .. MaxTick]
        /\ UNCHANGED scheduler_tick_count
        /\ ~sleeping'[t]
        /\ \A u \in Thread : sleeping'[u] => sleeping[u]
    BY <1>1, <2>1, UnsleepType
  <2>5. /\ state' \in [Thread -> ThreadState]
        /\ running_cpu' \in [Thread -> CPU \cup {NoCpu}]
        /\ effective_priority' \in [Thread -> Priority]
        /\ ready_wait_ticks' \in [Thread -> Nat]
    BY <1>1, <2>1, <2>2 DEF TypeOK, ThreadState
  <2>6. /\ wakeup_boosted' \in [Thread -> BOOLEAN]
        /\ preemption_pending' \in [CPU -> BOOLEAN]
    BY <1>1, <2>1 DEF TypeOK
  <2>7. TypeOK'
    BY <1>1, <2>3, <2>4, <2>5, <2>6, ZenonT(30) DEF TypeOK, fixedVars
  <2>8. {t} \in SUBSET Thread
    OBVIOUS
  <2>9. \A u \in {t} :
          /\ state[u] # "FREED" /\ state'[u] # "UNUSED"
          /\ state[u] # "RUNNING" \/ running_cpu[u] = NoCpu
          /\ sleeping'[u] => state'[u] = "BLOCKED"
          /\ IF state[u] = "UNUSED"
             THEN saved_context_valid'[u]
             ELSE saved_context_valid'[u] = saved_context_valid[u]
    BY <1>1, <2>1, <2>4 DEF TypeOK
  <2>10. \A u \in Thread \ {t} :
          /\ state'[u] = state[u] /\ running_cpu'[u] = running_cpu[u]
          /\ saved_context_valid'[u] = saved_context_valid[u]
          /\ sleeping'[u] => sleeping[u]
    BY <1>1, <2>1, <2>4 DEF TypeOK
  <2>11. Ownership'
    BY <1>1, <2>7, <2>8, <2>9, <2>10, OtherThreads, ZenonT(30)
  <2> QED BY <2>7, <2>11 DEF Inv
<1>3. CASE ~scheduler_validate_locked(c)
  <2>1. /\ sleeping_threads' =
             IF sleeping[t] THEN <<t>> \o Without(sleeping_threads, t)
                            ELSE sleeping_threads
        /\ UNCHANGED <<state, running_cpu, prioVars, readyVars, sleeping,
                       wakeup_tick, scheduler_tick_count, preemption_pending>>
    BY <1>3 DEF Wake
  <2>2. Without(sleeping_threads, t) \in Seq(Thread)
    BY <1>1, WithoutType DEF TypeOK
  <2>3. sleeping_threads' \in Seq(Thread)
    <3>1. sleeping_threads \in Seq(Thread) /\ t \in Thread
      BY <1>1 DEF TypeOK
    <3>2. <<t>> \o Without(sleeping_threads, t) \in Seq(Thread)
      BY <2>2, <3>1
    <3> QED BY <2>1, <3>1, <3>2
  <2>4. TypeOK'
    BY <1>1, <2>1, <2>3, ZenonT(30) DEF TypeOK, prioVars, readyVars, fixedVars
  <2>5. {} \in SUBSET Thread
    OBVIOUS
  <2>6. \A u \in Thread \ {} :
          /\ state'[u] = state[u] /\ running_cpu'[u] = running_cpu[u]
          /\ saved_context_valid'[u] = saved_context_valid[u]
          /\ sleeping'[u] => sleeping[u]
    BY <1>1, <2>1
  <2>7. Ownership'
    BY <1>1, <2>4, <2>5, <2>6, OtherThreads, ZenonT(30)
  <2> QED BY <2>4, <2>7 DEF Inv
<1> QED BY <1>2, <1>3

\* scheduler_unblock() called by a thread.
LEMMA UnblockInv ==
    ASSUME Inv, NEW c \in CPU, NEW t \in Thread, scheduler_unblock(c, t)
    PROVE  Inv'
<1>1. Wake(c, t) /\ panicked = "none" /\ UNCHANGED execVars
  BY DEF scheduler_unblock, Executing
<1>2. /\ SamePlace /\ UNCHANGED <<outgoing, owed, frame_if, panicked>>
      /\ pc' \in [CPU -> {"offline", "thread", "irq", "saving", "leaving"}]
  BY <1>1 DEF SamePlace, execVars, Inv, TypeOK
<1> QED BY <1>1, <1>2, WakeInv

\* Taking an interrupt moves its CPU to the interrupt exit path.
LEMMA InterruptPlace ==
    ASSUME Inv, NEW c \in CPU, IrqWindow(c), pc' = [pc EXCEPT ![c] = "irq"]
    PROVE  /\ SamePlace
           /\ pc' \in [CPU -> {"offline", "thread", "irq", "saving", "leaving"}]
           /\ panicked = "none" /\ pc[c] = "thread"
<1>1. /\ pc[c] = "thread" /\ panicked = "none"
      /\ pc \in [CPU -> {"offline", "thread", "irq", "saving", "leaving"}]
  BY DEF IrqWindow, Inv, TypeOK
<1> QED BY <1>1 DEF SamePlace

\* scheduler_unblock() called by a device interrupt on the BSP.
LEMMA DeviceInterruptInv ==
    ASSUME Inv, NEW t \in Thread, DeviceInterrupt(t)
    PROVE  Inv'
<1>1. /\ BSP \in CPU /\ IrqWindow(BSP) /\ Wake(BSP, t)
      /\ pc' = [pc EXCEPT ![BSP] = "irq"]
      /\ UNCHANGED <<outgoing, owed, frame_if, panicked>>
  BY CpuAssumption DEF DeviceInterrupt
<1> QED BY <1>1, InterruptPlace, WakeInv, ZenonT(30)

\* scheduler_timer_tick() charges a slice and requests preemption.
LEMMA TimerTickInv ==
    ASSUME Inv, NEW c \in CPU, scheduler_timer_tick(c)
    PROVE  Inv'
<1> DEFINE t == current_thread[c]
<1>1. /\ IrqWindow(c) /\ pc' = [pc EXCEPT ![c] = "irq"]
      /\ UNCHANGED <<lifeVars, prioVars, readyVars, sleepVars,
                     base_priority, syscall_active, online, current_thread,
                     context_switching, outgoing, owed, frame_if, panicked>>
      /\ remaining_time_slice' = [remaining_time_slice EXCEPT ![t] =
            IF remaining_time_slice[t] = 1 THEN TimeSlice[base_priority[t]]
                                           ELSE remaining_time_slice[t] - 1]
      /\ \E b \in BOOLEAN :
           preemption_pending' = [preemption_pending EXCEPT ![c] = b]
  BY ZenonT(30) DEF scheduler_timer_tick, TickPreempts
<1>2. /\ SamePlace
      /\ pc' \in [CPU -> {"offline", "thread", "irq", "saving", "leaving"}]
      /\ pc[c] = "thread"
  BY <1>1, InterruptPlace, ZenonT(30)
<1>3. t \in Thread /\ TypeOK
  BY <1>2 DEF Inv, Ownership, Owned
<1>4. remaining_time_slice' \in [Thread -> Nat \ {0}]
  <2>1. /\ remaining_time_slice \in [Thread -> Nat \ {0}]
        /\ TimeSlice[base_priority[t]] \in Nat \ {0}
    BY <1>3, BoundAssumption DEF TypeOK
  <2> HIDE DEF t
  <2> QED BY <1>1, <1>3, <2>1
<1>5. preemption_pending' \in [CPU -> BOOLEAN]
  BY <1>1, <1>3 DEF TypeOK
<1>6. TypeOK'
  BY <1>1, <1>2, <1>3, <1>4, <1>5 DEF TypeOK, lifeVars, prioVars, readyVars,
                                      sleepVars
<1>7. \A u \in Thread \ {} :
        /\ state'[u] = state[u] /\ running_cpu'[u] = running_cpu[u]
        /\ saved_context_valid'[u] = saved_context_valid[u]
        /\ sleeping'[u] => sleeping[u]
  BY <1>1 DEF lifeVars, sleepVars
<1>8. UNCHANGED <<current_thread, outgoing, panicked>> /\ {} \in SUBSET Thread
  BY <1>1
<1>9. Ownership'
  BY <1>2, <1>6, <1>7, <1>8, OtherThreads, ZenonT(30)
<1> QED BY <1>6, <1>9 DEF Inv

\* scheduler_prepare_preemption() dispatches, or returns to the thread.
LEMMA PreemptionInv ==
    ASSUME Inv, NEW c \in CPU, scheduler_prepare_preemption(c)
    PROVE  Inv'
<1> DEFINE stay == \/ ~preemption_pending[c] \/ syscall_active[current_thread[c]]
                  \/ Undispatched(c, "READY")
<1>1. /\ panicked = "none" /\ pc[c] = "irq" /\ UNCHANGED sleepVars
      /\ preemption_pending' = [preemption_pending EXCEPT ![c] = FALSE]
  BY DEF scheduler_prepare_preemption
<1>2. preemption_pending' \in [CPU -> BOOLEAN]
  BY <1>1 DEF Inv, TypeOK
<1>3. CASE stay
  <2>1. /\ pc' = [pc EXCEPT ![c] = "thread"]
        /\ UNCHANGED <<lifeVars, prioVars, readyVars, fixedVars, online,
                       current_thread, context_switching, outgoing, owed,
                       frame_if, panicked>>
    BY <1>3, ZenonT(30) DEF scheduler_prepare_preemption
  <2>2. /\ SamePlace
        /\ pc' \in [CPU -> {"offline", "thread", "irq", "saving", "leaving"}]
    <3>1. pc \in [CPU -> {"offline", "thread", "irq", "saving", "leaving"}]
      BY DEF Inv, TypeOK
    <3> QED BY <1>1, <2>1, <3>1 DEF SamePlace
  <2>3. TypeOK'
    BY <1>1, <1>2, <2>1, <2>2 DEF Inv, TypeOK, lifeVars, prioVars, readyVars,
                                  fixedVars, sleepVars
  <2>4. \A u \in Thread \ {} :
          /\ state'[u] = state[u] /\ running_cpu'[u] = running_cpu[u]
          /\ saved_context_valid'[u] = saved_context_valid[u]
          /\ sleeping'[u] => sleeping[u]
    BY <1>1, <2>1 DEF lifeVars, sleepVars
  <2>5. UNCHANGED <<current_thread, outgoing, panicked>> /\ {} \in SUBSET Thread
    BY <2>1
  <2>6. Ownership'
    BY <2>2, <2>3, <2>4, <2>5, OtherThreads, ZenonT(30)
  <2> QED BY <2>3, <2>6 DEF Inv
<1>4. CASE ~stay
  <2>1. Dispatch(c, "READY", FALSE)
    BY <1>4, ZenonT(30) DEF scheduler_prepare_preemption
  <2> QED BY <1>1, <1>2, <2>1, DispatchInv, ZenonT(30)
<1> QED BY <1>3, <1>4

\* Publishing the outgoing frame gives the outgoing thread up; no other CPU
\* runs it or leaves it.
LEMMA SavedInv ==
    ASSUME Inv, NEW c \in CPU, scheduler_context_switch_saved(c)
    PROVE  Inv'
<1> DEFINE out == outgoing[c]
           publish == Publishes(c, out)
           in == current_thread[c]
<1>1. /\ TypeOK /\ panicked = "none" /\ pc[c] = "saving"
      /\ out \in Thread /\ in \in Thread /\ out # in
      /\ running_cpu' = [running_cpu EXCEPT ![out] = NoCpu]
      /\ UNCHANGED <<state, context_switch_pending, effective_priority,
                     wakeup_boosted, sleepVars, fixedVars, online,
                     current_thread, preemption_pending, outgoing, owed,
                     frame_if>>
  BY DEF Inv, Ownership, Owned, Leaving, scheduler_context_switch_saved
<1>2. ASSUME NEW d \in CPU, d # c
      PROVE  /\ current_thread[d] # out /\ current_thread[d] # in
             /\ pc[d] = "saving" => outgoing[d] # out /\ outgoing[d] # in
  <2>1. /\ pc[c] = "saving" /\ current_thread[c] \in Thread
        /\ Owned /\ Leaving
    BY <1>1 DEF Inv, Ownership
  <2>2. current_thread[d] # out /\ (pc[d] = "saving" => outgoing[d] # out)
    BY <1>2, <2>1 DEF Leaving
  <2>3. current_thread[d] # in
    BY <1>2, <2>1, Constants DEF Owned
  <2>4. pc[d] = "saving" => outgoing[d] # in
    BY <1>2, <2>1 DEF Leaving
  <2> QED BY <2>2, <2>3, <2>4
<1>3. running_cpu' \in [Thread -> CPU \cup {NoCpu}]
  BY <1>1 DEF TypeOK
<1>4. /\ \A d \in CPU : pc[d] # "offline" =>
           /\ current_thread'[d] \in Thread
           /\ state'[current_thread'[d]] = "RUNNING"
           /\ running_cpu'[current_thread'[d]] = d
      /\ \A d \in CPU : pc[d] = "offline" => current_thread'[d] = NoThread
  <2> HIDE DEF out, in
  <2> QED BY <1>1, <1>2 DEF Inv, Ownership, Owned, TypeOK, in
<1>5. CASE publish /\ ~scheduler_validate_locked(c)
  <2>1. /\ panicked' = "failed to publish saved outgoing context"
        /\ saved_context_valid' = [saved_context_valid EXCEPT ![out] = TRUE]
        /\ UNCHANGED <<readyVars, ready_wait_ticks, context_switching, pc>>
    BY <1>5 DEF scheduler_context_switch_saved
  <2>2. saved_context_valid' \in [Thread -> BOOLEAN] /\ panicked' \in Panics
    BY <1>1, <2>1 DEF TypeOK, Panics
  <2>3. TypeOK'
    BY <1>1, <1>3, <2>1, <2>2 DEF TypeOK, sleepVars, fixedVars, readyVars
  <2>4. Owned'
    BY <1>4, <2>1 DEF Owned
  <2>5. Leaving' /\ Unsaved' /\ Sleepers'
    BY <1>1, <2>1 DEF Inv, Ownership, Leaving, Unsaved, Sleepers
  <2>6. FrameResumedOnce'
    <3>1. \A t \in Thread : t # out =>
            saved_context_valid'[t] = saved_context_valid[t]
      BY <2>1, <1>1 DEF TypeOK
    <3>2. saved_context_valid'[out]
      BY <2>1, <1>1 DEF TypeOK
    <3>3. ASSUME NEW d \in CPU, pc'[d] \in {"thread", "irq", "leaving"}
          PROVE  ~saved_context_valid'[current_thread'[d]]
      BY <1>1, <1>2, <2>1, <3>1, <3>3
         DEF Inv, Ownership, Owned, FrameResumedOnce
    <3>4. ASSUME NEW t \in Thread
          PROVE  \/ state'[t] \in {"UNUSED", "FREED"} \/ saved_context_valid'[t]
                 \/ \E d \in CPU : t = current_thread'[d] \/
                                    (pc'[d] = "saving" /\ t = outgoing'[d])
      BY <1>1, <2>1, <3>1, <3>2 DEF Inv, Ownership, FrameResumedOnce
    <3> QED BY <3>3, <3>4 DEF FrameResumedOnce
  <2> QED BY <2>3, <2>4, <2>5, <2>6 DEF Inv, Ownership
<1>6. CASE ~(publish /\ ~scheduler_validate_locked(c))
  <2>1. /\ IF publish
           THEN /\ Insert(out, effective_priority[out])
                /\ ready_wait_ticks' = [ready_wait_ticks EXCEPT ![out] = 0]
           ELSE UNCHANGED <<readyVars, ready_wait_ticks>>
        /\ saved_context_valid' = [saved_context_valid EXCEPT ![out] = TRUE,
                                                              ![in] = FALSE]
        /\ context_switching' = [context_switching EXCEPT ![c] = FALSE]
        /\ pc' = [pc EXCEPT ![c] = "leaving"]
        /\ UNCHANGED panicked
    BY <1>6 DEF scheduler_context_switch_saved, FramesSwapped
  <2>2. /\ ready_queues' \in [Priority -> Seq(Thread)]
        /\ queued' \in [Thread -> BOOLEAN]
        /\ ready_wait_ticks' \in [Thread -> Nat]
    <3>1. CASE publish
      <4>1. effective_priority[out] \in Priority
        BY <1>1 DEF TypeOK
      <4>2. Insert(out, effective_priority[out])
        BY <2>1, <3>1
      <4>3. ready_wait_ticks' = [ready_wait_ticks EXCEPT ![out] = 0]
        BY <2>1, <3>1
      <4>4. ready_wait_ticks' \in [Thread -> Nat]
        BY <4>3, <1>1 DEF TypeOK
      <4> QED BY <1>1, <4>1, <4>2, <4>4, InsertType
    <3>2. CASE ~publish
      BY <1>1, <2>1, <3>2 DEF TypeOK, readyVars
    <3> QED BY <3>1, <3>2
  <2>3. saved_context_valid' \in [Thread -> BOOLEAN]
    BY <1>1, <2>1, ZenonT(30) DEF TypeOK
  <2>4. /\ context_switching' \in [CPU -> BOOLEAN]
        /\ pc' \in [CPU -> {"offline", "thread", "irq", "saving", "leaving"}]
    BY <1>1, <2>1 DEF TypeOK
  <2>5. TypeOK'
    BY <1>1, <1>3, <2>1, <2>2, <2>3, <2>4, ZenonT(30) DEF TypeOK, sleepVars, fixedVars
  <2>6. /\ pc'[c] = "leaving"
        /\ \A d \in CPU : d # c => pc'[d] = pc[d]
    BY <1>1, <2>1 DEF TypeOK
  <2>7. /\ saved_context_valid'[out] /\ ~saved_context_valid'[in]
        /\ \A t \in Thread : t \notin {in, out} =>
             saved_context_valid'[t] = saved_context_valid[t]
    BY <1>1, <2>1, ZenonT(30) DEF TypeOK
  <2>8. Owned'
    <3>1. \A d \in CPU : pc'[d] = "offline" <=> pc[d] = "offline"
      BY <1>1, <2>6
    <3> QED BY <1>4, <3>1 DEF Owned
  <2>9. Leaving' /\ Sleepers'
    <3>1. /\ Leaving /\ Sleepers /\ panicked = "none" /\ pc[c] = "saving"
          /\ UNCHANGED <<state, current_thread, outgoing, sleeping>>
      BY <1>1 DEF Inv, Ownership, sleepVars
    <3>2. Leaving'
      BY <2>6, <3>1, ZenonT(60) DEF Leaving
    <3>3. Sleepers'
      BY <3>1 DEF Sleepers
    <3> QED BY <3>2, <3>3
  <2>10. Unsaved'
    BY <1>1, <1>2, <2>1, <2>6, <2>7, ZenonT(30) DEF Inv, Ownership, Unsaved, Leaving
  <2>11. FrameResumedOnce'
    <3>1. ASSUME NEW d \in CPU, pc'[d] \in {"thread", "irq", "leaving"}
          PROVE  ~saved_context_valid'[current_thread'[d]]
      <4>1. CASE d = c
        BY <1>1, <2>7, <4>1
      <4>2. CASE d # c
        BY <1>1, <1>2, <2>6, <2>7, <3>1, <4>2
           DEF Inv, Ownership, Owned, FrameResumedOnce
      <4> QED BY <4>1, <4>2
    <3>2. ASSUME NEW t \in Thread, state'[t] \notin {"UNUSED", "FREED"},
                 ~saved_context_valid'[t]
          PROVE  \E d \in CPU :
                   t = current_thread'[d] \/ (pc'[d] = "saving" /\ t = outgoing'[d])
      <4>1. CASE t = in
        BY <1>1, <4>1
      <4>2. CASE t # in
        <5>1. t # out /\ ~saved_context_valid[t]
          BY <2>7, <3>2, <4>2
        <5>2. PICK d \in CPU :
                t = current_thread[d] \/ (pc[d] = "saving" /\ t = outgoing[d])
          BY <1>1, <3>2, <5>1 DEF Inv, Ownership, FrameResumedOnce
        <5>3. d # c
          BY <5>1, <5>2, <4>2
        <5> QED BY <1>1, <2>6, <5>2, <5>3
      <4> QED BY <4>1, <4>2
    <3> QED BY <3>1, <3>2 DEF FrameResumedOnce
  <2> QED BY <2>5, <2>8, <2>9, <2>10, <2>11 DEF Inv, Ownership
<1> QED BY <1>5, <1>6

\* The CPU moves to the incoming stack, whose thread owes a completion.
LEMMA SwitchStackInv ==
    ASSUME Inv, NEW c \in CPU, SwitchStack(c)
    PROVE  Inv'
<1> DEFINE t == current_thread[c]
<1>1. /\ TypeOK /\ pc[c] = "leaving" /\ t \in Thread /\ outgoing[c] \in Thread
      /\ owed' = [owed EXCEPT ![t] = Append(owed[t], outgoing[c])]
      /\ outgoing' = [outgoing EXCEPT ![c] = NoThread]
      /\ pc' = [pc EXCEPT ![c] = "thread"]
      /\ UNCHANGED <<lifeVars, prioVars, readyVars, sleepVars, fixedVars,
                     cpuVars, frame_if, panicked>>
  BY DEF SwitchStack, Inv, Ownership, Owned, Leaving
<1>2. /\ outgoing' \in [CPU -> Thread \cup {NoThread}]
      /\ pc' \in [CPU -> {"offline", "thread", "irq", "saving", "leaving"}]
      /\ owed' \in [Thread -> Seq(Thread)]
  <2>1. /\ outgoing \in [CPU -> Thread \cup {NoThread}]
        /\ pc \in [CPU -> {"offline", "thread", "irq", "saving", "leaving"}]
        /\ owed \in [Thread -> Seq(Thread)]
    BY <1>1 DEF TypeOK
  <2>2. Append(owed[t], outgoing[c]) \in Seq(Thread)
    BY <1>1, <2>1
  <2> HIDE DEF t
  <2> QED BY <1>1, <2>1, <2>2
<1>3. TypeOK'
  BY <1>1, <1>2, ZenonT(30) DEF TypeOK, lifeVars, prioVars, readyVars, sleepVars,
                    fixedVars, cpuVars
<1>4. /\ pc'[c] = "thread"
      /\ \A d \in CPU : d # c => pc'[d] = pc[d] /\ outgoing'[d] = outgoing[d]
      /\ UNCHANGED <<state, running_cpu, saved_context_valid, sleeping,
                     current_thread, panicked>>
  BY <1>1 DEF TypeOK, lifeVars, sleepVars, cpuVars
<1>5. /\ Owned /\ Leaving /\ Unsaved /\ Sleepers
      /\ pc[c] = "leaving" /\ outgoing[c] \in Thread
  BY <1>1 DEF Inv, Ownership
<1>6. \A d \in CPU : /\ pc'[d] = "offline" <=> pc[d] = "offline"
                     /\ pc'[d] = "saving" <=> pc[d] = "saving"
  BY <1>4, <1>5
<1>7. Owned'
  BY <1>4, <1>5, <1>6 DEF Owned
<1>8. Leaving'
  <2>1. ASSUME NEW d \in CPU, pc'[d] \in {"saving", "leaving"}
        PROVE  outgoing'[d] \in Thread
    BY <1>4, <1>5, <2>1 DEF Leaving
  <2>2. ASSUME NEW d \in CPU, pc'[d] = "saving"
        PROVE  /\ outgoing'[d] # current_thread'[d]
               /\ state'[outgoing'[d]] # "UNUSED"
               /\ \A e \in CPU : e # d =>
                    /\ current_thread'[e] # outgoing'[d]
                    /\ pc'[e] = "saving" => outgoing'[e] # outgoing'[d]
    <3>1. d # c /\ pc[d] = "saving" /\ outgoing'[d] = outgoing[d]
      BY <1>4, <2>2
    <3>2. \A e \in CPU : pc'[e] = "saving" =>
            pc[e] = "saving" /\ outgoing'[e] = outgoing[e]
      BY <1>4
    <3> QED BY <1>4, <1>5, <3>1, <3>2, ZenonT(60) DEF Leaving
  <2> QED BY <2>1, <2>2 DEF Leaving
<1>9. Unsaved' /\ Sleepers'
  <2>1. Unsaved'
    BY <1>4, <1>5, <1>6 DEF Unsaved
  <2>2. Sleepers'
    BY <1>4, <1>5 DEF Sleepers
  <2> QED BY <2>1, <2>2
<1>10. FrameResumedOnce'
  <2>1. FrameResumedOnce
    BY DEF Inv, Ownership
  <2>2. \A d \in CPU : pc'[d] \in {"thread", "irq", "leaving"} =>
          ~saved_context_valid'[current_thread'[d]]
    BY <1>4, <1>5, <2>1 DEF FrameResumedOnce
  <2>3. ASSUME NEW u \in Thread
        PROVE  \/ state'[u] \in {"UNUSED", "FREED"} \/ saved_context_valid'[u]
               \/ \E d \in CPU : \/ u = current_thread'[d]
                                 \/ pc'[d] = "saving" /\ u = outgoing'[d]
    <3>1. \A d \in CPU : pc[d] = "saving" =>
            pc'[d] = "saving" /\ outgoing'[d] = outgoing[d]
      BY <1>4, <1>5
    <3>2. \/ state[u] \in {"UNUSED", "FREED"} \/ saved_context_valid[u]
          \/ \E d \in CPU : \/ u = current_thread[d]
                            \/ pc[d] = "saving" /\ u = outgoing[d]
      BY <2>1 DEF FrameResumedOnce
    <3>3. UNCHANGED <<state, saved_context_valid, current_thread>>
      BY <1>4
    <3> QED BY <3>1, <3>2, <3>3
  <2> QED BY <2>2, <2>3 DEF FrameResumedOnce
<1> QED BY <1>3, <1>7, <1>8, <1>9, <1>10 DEF Inv, Ownership

\* scheduler_context_switch_complete() clears the reclamation barrier.
LEMMA CompleteInv ==
    ASSUME Inv, NEW c \in CPU, scheduler_context_switch_complete(c)
    PROVE  Inv'
<1> DEFINE t == current_thread[c]
<1>1. /\ TypeOK /\ t \in Thread /\ owed[t] # <<>>
      /\ context_switch_pending' = [context_switch_pending EXCEPT
                                      ![owed[t][Len(owed[t])]] = FALSE]
      /\ owed' = [owed EXCEPT ![t] = SubSeq(owed[t], 1, Len(owed[t]) - 1)]
      /\ frame_if' = [frame_if EXCEPT ![t] = Len(owed[t]) > 1]
      /\ UNCHANGED <<state, running_cpu, saved_context_valid, prioVars,
                     readyVars, sleepVars, fixedVars, cpuVars, pc, outgoing,
                     panicked>>
  BY DEF scheduler_context_switch_complete, Inv, Ownership, Owned
<1>2. /\ context_switch_pending' \in [Thread -> BOOLEAN]
      /\ frame_if' \in [Thread -> BOOLEAN]
  <2> DEFINE out == owed[t][Len(owed[t])]
             more == Len(owed[t]) > 1
  <2>1. /\ context_switch_pending' = [context_switch_pending EXCEPT ![out] = FALSE]
        /\ frame_if' = [frame_if EXCEPT ![t] = more]
        /\ more \in BOOLEAN
    <3>1. more \in BOOLEAN
      OBVIOUS
    <3>2. context_switch_pending' = [context_switch_pending EXCEPT ![out] = FALSE]
      BY <1>1
    <3>3. frame_if' = [frame_if EXCEPT ![t] = more]
      BY <1>1
    <3> QED BY <3>1, <3>2, <3>3
  <2>2. /\ context_switch_pending \in [Thread -> BOOLEAN]
        /\ frame_if \in [Thread -> BOOLEAN]
    BY <1>1, ZenonT(30) DEF TypeOK
  <2> HIDE DEF t, out, more
  <2> QED BY <2>1, <2>2, ZenonT(30)
<1>3. owed' \in [Thread -> Seq(Thread)]
  <2>1. owed \in [Thread -> Seq(Thread)]
    BY <1>1 DEF TypeOK
  <2>2. SubSeq(owed[t], 1, Len(owed[t]) - 1) \in Seq(Thread)
    <3> HIDE DEF t
    <3> QED BY <1>1, <2>1
  <2> HIDE DEF t
  <2> QED BY <1>1, <2>1, <2>2
<1>4. TypeOK'
  BY <1>1, <1>2, <1>3, ZenonT(30) DEF TypeOK, prioVars, readyVars, sleepVars, fixedVars,
                          cpuVars
<1>5. Ownership'
  BY <1>1, Untouched DEF Inv, sleepVars, cpuVars
<1> QED BY <1>4, <1>5 DEF Inv

\* cpu_mark_online() publishes a processor that has no thread yet.
LEMMA MarkOnlineInv ==
    ASSUME Inv, NEW c \in CPU, cpu_mark_online(c)
    PROVE  Inv'
<1>1. /\ online' = [online EXCEPT ![c] = TRUE]
      /\ UNCHANGED <<lifeVars, prioVars, readyVars, sleepVars, fixedVars,
                     current_thread, preemption_pending, context_switching,
                     execVars>>
  BY DEF cpu_mark_online
<1>2. online' \in [CPU -> BOOLEAN]
  BY <1>1 DEF Inv, TypeOK
<1>3. TypeOK'
  BY <1>1, <1>2 DEF Inv, TypeOK, lifeVars, prioVars, readyVars, sleepVars,
                    fixedVars, execVars
<1>4. Ownership'
  BY <1>1, Untouched DEF Inv, lifeVars, sleepVars, execVars
<1> QED BY <1>3, <1>4 DEF Inv

\* An application processor takes its idle thread, which nobody runs.
LEMMA StartCpuInv ==
    ASSUME Inv, NEW c \in CPU, scheduler_start_cpu(c)
    PROVE  Inv'
<1> DEFINE idle == idle_thread[c]
<1>1. /\ TypeOK /\ panicked = "none" /\ pc[c] = "offline" /\ idle \in Thread
      /\ state[idle] = "READY" /\ saved_context_valid[idle]
      /\ state' = [state EXCEPT ![idle] = "RUNNING"]
      /\ running_cpu' = [running_cpu EXCEPT ![idle] = c]
      /\ saved_context_valid' = [saved_context_valid EXCEPT ![idle] = FALSE]
      /\ current_thread' = [current_thread EXCEPT ![c] = idle]
      /\ pc' = [pc EXCEPT ![c] = "thread"]
      /\ UNCHANGED <<context_switch_pending, prioVars, readyVars, sleepVars,
                     fixedVars, online, preemption_pending, context_switching,
                     outgoing, owed, frame_if, panicked>>
  BY Constants DEF scheduler_start_cpu, Inv
<1> HIDE DEF idle
<1>2. /\ state' \in [Thread -> ThreadState]
      /\ running_cpu' \in [Thread -> CPU \cup {NoCpu}]
      /\ current_thread' \in [CPU -> Thread \cup {NoThread}]
      /\ pc' \in [CPU -> {"offline", "thread", "irq", "saving", "leaving"}]
  BY <1>1 DEF TypeOK, ThreadState
<1>3. saved_context_valid' \in [Thread -> BOOLEAN]
  BY <1>1 DEF TypeOK
<1>4. TypeOK'
  BY <1>1, <1>2, <1>3 DEF TypeOK, prioVars, readyVars, sleepVars, fixedVars
<1>5. /\ state'[idle] = "RUNNING" /\ running_cpu'[idle] = c
      /\ ~saved_context_valid'[idle]
      /\ \A t \in Thread : t # idle =>
           /\ state'[t] = state[t] /\ running_cpu'[t] = running_cpu[t]
           /\ saved_context_valid'[t] = saved_context_valid[t]
      /\ pc'[c] = "thread" /\ current_thread'[c] = idle
      /\ \A d \in CPU : d # c => /\ pc'[d] = pc[d]
                                 /\ current_thread'[d] = current_thread[d]
      /\ UNCHANGED <<outgoing, panicked, sleeping>>
  BY <1>1 DEF TypeOK, sleepVars
<1>11. Owned /\ Leaving /\ Unsaved /\ Sleepers /\ FrameResumedOnce
  BY DEF Inv, Ownership
<1>12. /\ pc[c] = "offline" /\ idle \in Thread /\ state[idle] = "READY"
       /\ panicked = "none" /\ saved_context_valid[idle]
  BY <1>1
<1>6. \A d \in CPU : /\ current_thread[d] # idle
                     /\ pc[d] = "saving" => outgoing[d] # idle
  <2>1. NoThread \notin Thread
    BY Constants
  <2>2. \A d \in CPU : current_thread[d] # idle
    BY <1>11, <1>12, <2>1 DEF Owned
  <2>3. \A d \in CPU : pc[d] = "saving" => outgoing[d] # idle
    BY <1>11, <1>12 DEF Unsaved
  <2> QED BY <2>2, <2>3
<1>7. Owned'
  <2>1. /\ idle # NoThread /\ NoThread \notin Thread
        /\ \A d \in CPU : current_thread[d] \in Thread \cup {NoThread}
    BY <1>1, Constants DEF TypeOK
  <2> SUFFICES ASSUME NEW d \in CPU
               PROVE  IF pc'[d] = "offline"
                      THEN current_thread'[d] = NoThread
                      ELSE /\ current_thread'[d] \in Thread
                           /\ state'[current_thread'[d]] = "RUNNING"
                           /\ running_cpu'[current_thread'[d]] = d
    BY DEF Owned
  <2>2. CASE d = c
    BY <1>5, <1>12, <2>1, <2>2
  <2>3. CASE d # c
    <3>1. pc'[d] = pc[d] /\ current_thread'[d] = current_thread[d]
      BY <1>5, <2>3
    <3>2. CASE pc[d] = "offline"
      BY <1>11, <3>1, <3>2 DEF Owned
    <3>3. CASE pc[d] # "offline"
      <4>1. /\ current_thread[d] \in Thread /\ current_thread[d] # idle
            /\ state[current_thread[d]] = "RUNNING"
            /\ running_cpu[current_thread[d]] = d
        BY <1>6, <1>11, <3>3 DEF Owned
      <4>2. /\ state'[current_thread[d]] = "RUNNING"
            /\ running_cpu'[current_thread[d]] = d
        BY <1>5, <4>1
      <4> QED BY <3>1, <3>3, <4>1, <4>2
    <3> QED BY <3>2, <3>3
  <2> QED BY <2>2, <2>3
<1>8. Leaving'
  <2>1. ASSUME NEW d \in CPU, pc'[d] \in {"saving", "leaving"}
        PROVE  /\ d # c /\ pc'[d] = pc[d] /\ outgoing'[d] = outgoing[d]
               /\ outgoing[d] \in Thread /\ current_thread'[d] = current_thread[d]
    BY <1>5, <1>11, <2>1 DEF Leaving
  <2>2. ASSUME NEW d \in CPU, pc'[d] = "saving"
        PROVE  /\ outgoing'[d] # current_thread'[d]
               /\ state'[outgoing'[d]] # "UNUSED"
    <3>1. /\ pc[d] = "saving" /\ outgoing'[d] = outgoing[d]
          /\ outgoing[d] \in Thread /\ current_thread'[d] = current_thread[d]
      BY <2>1, <2>2
    <3>2. outgoing[d] # current_thread[d] /\ state[outgoing[d]] # "UNUSED"
      BY <1>11, <3>1 DEF Leaving
    <3> QED BY <1>5, <3>1, <3>2
  <2>3. ASSUME NEW d \in CPU, pc'[d] = "saving", NEW e \in CPU, e # d
        PROVE  /\ current_thread'[e] # outgoing'[d]
               /\ pc'[e] = "saving" => outgoing'[e] # outgoing'[d]
    <3>1. pc[d] = "saving" /\ outgoing'[d] = outgoing[d]
      BY <2>1, <2>3
    <3>2. CASE e = c
      BY <1>5, <1>6, <3>1, <3>2
    <3>3. CASE e # c
      <4>1. /\ current_thread'[e] = current_thread[e]
            /\ pc'[e] = pc[e] /\ outgoing'[e] = outgoing[e]
        BY <1>5, <3>3
      <4>2. /\ current_thread[e] # outgoing[d]
            /\ pc[e] = "saving" => outgoing[e] # outgoing[d]
        BY <1>11, <2>3, <3>1 DEF Leaving
      <4> QED BY <3>1, <4>1, <4>2
    <3> QED BY <3>2, <3>3
  <2> QED BY <2>1, <2>2, <2>3 DEF Leaving
<1>9. Unsaved' /\ Sleepers'
  <2>1. Unsaved'
    BY <1>5, <1>6, <1>11, <1>12, ZenonT(60) DEF Unsaved, Leaving
  <2>2. Sleepers'
    BY <1>5, <1>11, <1>12 DEF Sleepers
  <2> QED BY <2>1, <2>2
<1>10. FrameResumedOnce'
  <2>1. ASSUME NEW d \in CPU, pc'[d] \in {"thread", "irq", "leaving"}
        PROVE  ~saved_context_valid'[current_thread'[d]]
    <3>1. CASE d = c
      BY <1>5, <3>1
    <3>2. CASE d # c
      BY <1>5, <1>6, <1>11, <2>1, <3>2 DEF Owned, FrameResumedOnce
    <3> QED BY <3>1, <3>2
  <2>2. ASSUME NEW t \in Thread, state'[t] \notin {"UNUSED", "FREED"},
               ~saved_context_valid'[t]
        PROVE  \E d \in CPU :
                 t = current_thread'[d] \/ (pc'[d] = "saving" /\ t = outgoing'[d])
    <3>1. CASE t = idle
      BY <1>5, <3>1
    <3>2. CASE t # idle
      <4>1. PICK d \in CPU :
              t = current_thread[d] \/ (pc[d] = "saving" /\ t = outgoing[d])
        BY <1>5, <2>2, <3>2 DEF Inv, Ownership, FrameResumedOnce
      <4>2. d # c
        BY <1>1, <4>1, Constants DEF Inv, Ownership, Owned
      <4> QED BY <1>5, <4>1, <4>2
    <3> QED BY <3>1, <3>2
  <2> QED BY <2>1, <2>2 DEF FrameResumedOnce
<1> QED BY <1>4, <1>7, <1>8, <1>9, <1>10 DEF Inv, Ownership

-----------------------------------------------------------------------------
(* The global tick: sleepers become READY, queued threads are promoted. *)

\* The tick rebuilds every list from threads and keeps the priorities in range.
LEMMA GlobalTickType ==
    ASSUME TypeOK, scheduler_global_tick
    PROVE  TypeOK'
<1> DEFINE now == IF scheduler_tick_count = MaxTick THEN MaxTick
                                                   ELSE scheduler_tick_count + 1
           ok == scheduler_validate_locked(BSP)
           due == {t \in Thread : SleepDue(t, now)}
           awake == IF ok THEN due ELSE {}
           effective == [t \in Thread |->
                           IF t \in due THEN WakePriority(t)
                                        ELSE effective_priority[t]]
           boosted == [t \in Thread |->
                         IF t \in due THEN base_priority[t] = BACKGROUND
                                      ELSE wakeup_boosted[t]]
           woken == [p \in Priority |-> ready_queues[p] \o
                       Filter(sleeping_threads, {t \in awake : effective[t] = p})]
           aged == {t \in Thread : /\ queued[t] \/ t \in awake
                                   /\ effective[t] # HIGH}
           waited == [t \in Thread |->
                        (IF t \in awake THEN 0 ELSE ready_wait_ticks[t])
                          + (IF t \in aged THEN 1 ELSE 0)]
           promoted == {t \in aged : waited[t] >=
                          StarvationThreshold(t, effective[t], boosted[t])}
           idle == ~NotIdle(BSP)
<1>1. /\ scheduler_tick_count' = now
      /\ sleeping_threads' =
           (IF ok THEN <<>> ELSE Backwards(Filter(sleeping_threads, due)))
             \o Filter(sleeping_threads, Thread \ due)
      /\ sleeping' = [t \in Thread |-> sleeping[t] /\ t \notin awake]
      /\ wakeup_tick' = [t \in Thread |-> IF t \in due THEN 0
                                                      ELSE wakeup_tick[t]]
      /\ state' = [t \in Thread |-> IF t \in awake THEN "READY" ELSE state[t]]
      /\ running_cpu' = [t \in Thread |-> IF t \in due THEN NoCpu
                                                      ELSE running_cpu[t]]
      /\ ready_queues' = [p \in Priority |->
           Filter(woken[p], Thread \ promoted) \o
           (IF ok /\ p # BACKGROUND THEN Filter(woken[p + 1], promoted)
                                   ELSE <<>>)]
  BY ZenonT(30) DEF scheduler_global_tick
<1>2. /\ queued' = [t \in Thread |->
           (queued[t] \/ t \in awake) /\ (t \in promoted => ok)]
      /\ effective_priority' = [t \in Thread |->
           IF ok /\ t \in promoted THEN effective[t] - 1 ELSE effective[t]]
      /\ wakeup_boosted' = [t \in Thread |->
           boosted[t] /\ ~(t \in promoted /\ effective[t] = NORMAL)]
      /\ ready_wait_ticks' = [t \in Thread |-> IF t \in promoted THEN 0
                                                           ELSE waited[t]]
  BY ZenonT(30) DEF scheduler_global_tick
<1>3. /\ preemption_pending' = [preemption_pending EXCEPT ![BSP] =
           \/ @
           \/ /\ awake # {}
              /\ idle \/ effective_priority[current_thread[BSP]] > HIGH
           \/ idle /\ promoted # {}]
      /\ pc' = [pc EXCEPT ![BSP] = "irq"]
      /\ UNCHANGED <<saved_context_valid, context_switch_pending, fixedVars,
                     online, current_thread, context_switching, outgoing,
                     owed, frame_if, panicked>>
  BY ZenonT(30) DEF scheduler_global_tick
<1>4. /\ scheduler_tick_count' \in 0 .. MaxTick
      /\ wakeup_tick' \in [Thread -> 0 .. MaxTick]
  <2>1. /\ scheduler_tick_count \in 0 .. MaxTick /\ MaxTick \in Nat
        /\ wakeup_tick \in [Thread -> 0 .. MaxTick]
    BY BoundAssumption DEF TypeOK
  <2>2. now \in 0 .. MaxTick
    BY <2>1
  <2>3. 0 \in 0 .. MaxTick
    BY <2>1
  <2> HIDE DEF now, due
  <2>4. wakeup_tick' \in [Thread -> 0 .. MaxTick]
    BY <1>1, <2>1, <2>3, ZenonT(30)
  <2> QED BY <1>1, <2>2, <2>4, ZenonT(30)
<1>5. /\ state' \in [Thread -> ThreadState]
      /\ running_cpu' \in [Thread -> CPU \cup {NoCpu}]
  <2> HIDE DEF due, awake
  <2> QED BY <1>1, ZenonT(30) DEF TypeOK, ThreadState
<1>6. sleeping' \in [Thread -> BOOLEAN] /\ queued' \in [Thread -> BOOLEAN]
  <2> HIDE DEF due, awake, promoted
  <2> QED BY <1>1, <1>2, Zenon DEF TypeOK
<1>7. effective \in [Thread -> Priority]
  <2> HIDE DEF due
  <2> QED BY DEF TypeOK, WakePriority, Priority, NORMAL, BACKGROUND
<1>8. boosted \in [Thread -> BOOLEAN]
  <2> HIDE DEF due
  <2> QED BY Zenon DEF TypeOK
<1>9. waited \in [Thread -> Nat]
  <2> HIDE DEF awake, aged
  <2> QED BY DEF TypeOK
<1>10. promoted \subseteq Thread /\ \A t \in promoted : effective[t] # HIGH
  OBVIOUS
<1>11. effective_priority' \in [Thread -> Priority]
  <2> HIDE DEF effective, promoted, ok
  <2> QED BY <1>2, <1>7, <1>10 DEF Priority, HIGH, NORMAL, BACKGROUND
<1>12. wakeup_boosted' \in [Thread -> BOOLEAN]
  <2> HIDE DEF boosted, promoted, effective
  <2> QED BY <1>2, <1>8
<1>13. ready_wait_ticks' \in [Thread -> Nat]
  <2> HIDE DEF waited, promoted
  <2> QED BY <1>2, <1>9
<1>14. woken \in [Priority -> Seq(Thread)]
  <2>1. \A K : Filter(sleeping_threads, K) \in Seq(Thread)
    BY FilterType DEF TypeOK
  <2> HIDE DEF awake, effective
  <2> QED BY <2>1 DEF TypeOK
<1>15. ready_queues' \in [Priority -> Seq(Thread)]
  <2>1. \A K : \A p \in Priority : Filter(woken[p], K) \in Seq(Thread)
    BY <1>14, FilterType, ZenonT(30)
  <2>2. \A p \in Priority : p # BACKGROUND => p + 1 \in Priority
    BY DEF Priority, HIGH, NORMAL, BACKGROUND
  <2>3. << >> \in Seq(Thread)
    OBVIOUS
  <2> HIDE DEF woken, promoted, ok
  <2>4. \A p \in Priority :
          Filter(woken[p], Thread \ promoted) \o
           (IF ok /\ p # BACKGROUND THEN Filter(woken[p + 1], promoted)
                                   ELSE <<>>) \in Seq(Thread)
    <3> TAKE p \in Priority
    <3> DEFINE kept == Filter(woken[p], Thread \ promoted)
               below == Filter(woken[p + 1], promoted)
    <3>1. kept \in Seq(Thread)
      BY <2>1
    <3>2. p # BACKGROUND => below \in Seq(Thread)
      BY <2>1, <2>2, ZenonT(30)
    <3> HIDE DEF kept, below
    <3>3. CASE ok /\ p # BACKGROUND
      <4>1. kept \o below \in Seq(Thread)
        BY <3>1, <3>2, <3>3
      <4> QED BY <3>3, <4>1 DEF kept, below
    <3>4. CASE ~(ok /\ p # BACKGROUND)
      <4>1. kept \o << >> \in Seq(Thread)
        BY <2>3, <3>1
      <4> QED BY <3>4, <4>1 DEF kept
    <3> QED BY <3>3, <3>4
  <2> QED BY <1>1, <2>4, ZenonT(30)
<1>16. sleeping_threads' \in Seq(Thread)
  <2>1. /\ Filter(sleeping_threads, due) \in Seq(Thread)
        /\ Filter(sleeping_threads, Thread \ due) \in Seq(Thread)
    BY FilterType DEF TypeOK
  <2>2. Backwards(Filter(sleeping_threads, due)) \in Seq(Thread)
    BY <2>1, BackwardsType
  <2> HIDE DEF due, ok
  <2> DEFINE back == Backwards(Filter(sleeping_threads, due))
             rest == Filter(sleeping_threads, Thread \ due)
  <2>3. sleeping_threads' = (IF ok THEN <<>> ELSE back) \o rest
    BY <1>1, ZenonT(30)
  <2>4. << >> \in Seq(Thread) /\ back \in Seq(Thread) /\ rest \in Seq(Thread)
    BY <2>1, <2>2
  <2> HIDE DEF back, rest
  <2>5. (IF ok THEN <<>> ELSE back) \in Seq(Thread)
    BY <2>4
  <2>6. \A r, s \in Seq(Thread) : r \o s \in Seq(Thread)
    OBVIOUS
  <2> QED BY <2>3, <2>4, <2>5, <2>6
<1>17. /\ pc' \in [CPU -> {"offline", "thread", "irq", "saving", "leaving"}]
       /\ preemption_pending' \in [CPU -> BOOLEAN]
  <2> HIDE DEF awake, promoted, idle
  <2> QED BY <1>3, CpuAssumption DEF TypeOK
<1> QED BY <1>3, <1>4, <1>5, <1>6, <1>11, <1>12, <1>13, <1>15, <1>16, <1>17, ZenonT(30)
        DEF TypeOK, fixedVars

\* Only threads that sleep, and so are BLOCKED, change their state.
LEMMA GlobalTickInv ==
    ASSUME Inv, scheduler_global_tick
    PROVE  Inv'
<1> DEFINE now == IF scheduler_tick_count = MaxTick THEN MaxTick
                                                   ELSE scheduler_tick_count + 1
           due == {t \in Thread : SleepDue(t, now)}
           awake == IF scheduler_validate_locked(BSP) THEN due ELSE {}
<1>1. TypeOK /\ TypeOK'
  BY GlobalTickType DEF Inv
<1>2. /\ IrqWindow(BSP) /\ pc' = [pc EXCEPT ![BSP] = "irq"]
      /\ sleeping' = [t \in Thread |-> sleeping[t] /\ t \notin awake]
      /\ state' = [t \in Thread |-> IF t \in awake THEN "READY" ELSE state[t]]
      /\ running_cpu' = [t \in Thread |-> IF t \in due THEN NoCpu
                                                      ELSE running_cpu[t]]
      /\ UNCHANGED <<saved_context_valid, current_thread, outgoing, panicked>>
  BY ZenonT(30) DEF scheduler_global_tick
<1>3. SamePlace
  BY <1>2, InterruptPlace, CpuAssumption, ZenonT(30)
<1>4. due \in SUBSET Thread /\ awake \subseteq due /\ \A t \in due : sleeping[t]
  BY DEF SleepDue
<1> HIDE DEF due, awake
<1>5. \A t \in due : state[t] = "BLOCKED"
  BY <1>2, <1>4 DEF Inv, Ownership, Sleepers, IrqWindow
<1>6. \A t \in due :
        /\ state[t] # "FREED" /\ state'[t] # "UNUSED"
        /\ state[t] # "RUNNING" \/ running_cpu[t] = NoCpu
        /\ sleeping'[t] => state'[t] = "BLOCKED"
        /\ IF state[t] = "UNUSED"
           THEN saved_context_valid'[t]
           ELSE saved_context_valid'[t] = saved_context_valid[t]
  BY <1>2, <1>4, <1>5, ZenonT(30)
<1>7. \A t \in Thread \ due :
        /\ state'[t] = state[t] /\ running_cpu'[t] = running_cpu[t]
        /\ saved_context_valid'[t] = saved_context_valid[t]
        /\ sleeping'[t] => sleeping[t]
  BY <1>2, <1>4, ZenonT(30)
<1>8. Ownership'
  BY <1>1, <1>2, <1>3, <1>4, <1>6, <1>7, OtherThreads, ZenonT(30)
<1> QED BY <1>1, <1>8 DEF Inv

-----------------------------------------------------------------------------
(* The theorems. *)

\* The state scheduler_init() leaves satisfies the invariant.
LEMMA InitInv ==
    ASSUME Init
    PROVE  Inv
<1> DEFINE running == {InitCurrent(c) : c \in Started}
           built == running \cup {idle_thread[c] : c \in Started}
           prio == [t \in Thread |-> IF t \in IdleThreads THEN BACKGROUND
                                                         ELSE NORMAL]
<1>1. /\ state = [t \in Thread |->
           IF t \in running THEN "RUNNING"
           ELSE IF t \in built THEN "READY" ELSE "UNUSED"]
      /\ running_cpu = [t \in Thread |->
           IF t \in running
           THEN CHOOSE c \in Started : InitCurrent(c) = t ELSE NoCpu]
      /\ saved_context_valid = [t \in Thread |-> t \in built \ running]
      /\ base_priority = prio /\ effective_priority = prio
      /\ remaining_time_slice = [t \in Thread |-> TimeSlice[prio[t]]]
      /\ frame_if = [t \in Thread |-> t \in built \ running]
  BY DEF Init
<1>2. /\ current_thread = [c \in CPU |-> IF c \in Started THEN InitCurrent(c)
                                                         ELSE NoThread]
      /\ pc = [c \in CPU |-> IF c \in Started THEN "thread" ELSE "offline"]
      /\ sleeping = [t \in Thread |-> FALSE]
      /\ panicked = "none"
  BY DEF Init
<1>3. Started \subseteq CPU /\ \A c \in CPU : InitCurrent(c) \in Thread
  BY Constants, CpuAssumption DEF InitCurrent
<1>4. \A c, d \in CPU : InitCurrent(c) = InitCurrent(d) => c = d
  BY ThreadAssumption, Constants DEF InitCurrent, IdleThreads
<1>5. \A c \in Started : /\ InitCurrent(c) \in running
                         /\ running_cpu[InitCurrent(c)] = c
  <2> SUFFICES ASSUME NEW c \in Started
               PROVE  /\ InitCurrent(c) \in running
                      /\ running_cpu[InitCurrent(c)] = c
    OBVIOUS
  <2>1. InitCurrent(c) \in running /\ InitCurrent(c) \in Thread /\ c \in CPU
    BY <1>3
  <2>2. running_cpu[InitCurrent(c)] =
          CHOOSE d \in Started : InitCurrent(d) = InitCurrent(c)
    <3> HIDE DEF running
    <3> QED BY <1>1, <2>1
  <2>3. \A d \in Started : InitCurrent(d) = InitCurrent(c) <=> d = c
    BY <1>3, <1>4
  <2> QED BY <2>1, <2>2, <2>3
<1>6. running_cpu \in [Thread -> CPU \cup {NoCpu}]
  <2>1. \A t \in running : \E c \in Started : InitCurrent(c) = t
    OBVIOUS
  <2> HIDE DEF running
  <2> QED BY <1>1, <1>3, <2>1
<1>7. /\ prio \in [Thread -> Priority]
      /\ remaining_time_slice \in [Thread -> Nat \ {0}]
  <2>1. prio \in [Thread -> Priority]
    BY DEF Priority, NORMAL, BACKGROUND
  <2> HIDE DEF prio
  <2> QED BY <1>1, <2>1, BoundAssumption
<1>8. /\ state \in [Thread -> ThreadState]
      /\ saved_context_valid \in [Thread -> BOOLEAN]
      /\ frame_if \in [Thread -> BOOLEAN]
  <2> HIDE DEF running, built
  <2> QED BY <1>1 DEF ThreadState
<1>9. /\ current_thread \in [CPU -> Thread \cup {NoThread}]
      /\ pc \in [CPU -> {"offline", "thread", "irq", "saving", "leaving"}]
  BY <1>2, <1>3
<1>10. TypeOK
  <2>0. /\ context_switch_pending = [t \in Thread |-> FALSE]
        /\ wakeup_boosted = [t \in Thread |-> FALSE]
        /\ queued = [t \in Thread |-> FALSE]
        /\ ready_wait_ticks = [t \in Thread |-> 0]
        /\ wakeup_tick = [t \in Thread |-> 0]
        /\ syscall_active = [t \in Thread |-> FALSE]
        /\ ready_queues = [p \in Priority |-> <<>>]
        /\ sleeping_threads = <<>>
        /\ scheduler_tick_count = 0
        /\ online = [c \in CPU |-> c \in Started]
        /\ preemption_pending = [c \in CPU |-> FALSE]
        /\ context_switching = [c \in CPU |-> FALSE]
        /\ outgoing = [c \in CPU |-> NoThread]
        /\ owed = [t \in Thread |-> <<>>]
    BY DEF Init
  <2>1. /\ context_switch_pending \in [Thread -> BOOLEAN]
        /\ wakeup_boosted \in [Thread -> BOOLEAN]
        /\ queued \in [Thread -> BOOLEAN]
        /\ ready_wait_ticks \in [Thread -> Nat]
        /\ sleeping \in [Thread -> BOOLEAN]
        /\ syscall_active \in [Thread -> BOOLEAN]
    BY <1>2, <2>0
  <2>2. /\ wakeup_tick \in [Thread -> 0 .. MaxTick]
        /\ scheduler_tick_count \in 0 .. MaxTick
    <3>1. 0 \in 0 .. MaxTick
      BY BoundAssumption
    <3> QED BY <2>0, <3>1
  <2>3. /\ ready_queues \in [Priority -> Seq(Thread)]
        /\ sleeping_threads \in Seq(Thread)
        /\ owed \in [Thread -> Seq(Thread)]
    <3>1. <<>> \in Seq(Thread)
      OBVIOUS
    <3> QED BY <2>0, <3>1
  <2>4. /\ online \in [CPU -> BOOLEAN]
        /\ preemption_pending \in [CPU -> BOOLEAN]
        /\ context_switching \in [CPU -> BOOLEAN]
        /\ outgoing \in [CPU -> Thread \cup {NoThread}]
        /\ panicked \in Panics
    BY <1>2, <2>0 DEF Panics
  <2> HIDE DEF prio
  <2> QED BY <1>1, <1>6, <1>7, <1>8, <1>9, <2>1, <2>2, <2>3, <2>4 DEF TypeOK
<1>11. \A t \in running : \E c \in Started : t = InitCurrent(c)
  OBVIOUS
<1> HIDE DEF running, prio
<1>12. Owned
  BY <1>1, <1>2, <1>3, <1>5, ZenonT(30) DEF Owned
<1>13. Leaving /\ Unsaved /\ Sleepers
  BY <1>2 DEF Leaving, Unsaved, Sleepers
<1>14. FrameResumedOnce
  <2> HIDE DEF built
  <2>1. \A t \in running : \E c \in CPU : t = current_thread[c]
    BY <1>2, <1>3, <1>11
  <2>2. \A t \in Thread : /\ t \in running => ~saved_context_valid[t]
                          /\ t \in built \ running => saved_context_valid[t]
                          /\ t \notin built \cup running => state[t] = "UNUSED"
    BY <1>1, ZenonT(30)
  <2>3. \A c \in CPU : pc[c] = "thread" => /\ current_thread[c] \in running
                                           /\ current_thread[c] \in Thread
    BY <1>2, <1>3, <1>5
  <2>4. \A c \in CPU : pc[c] \in {"thread", "offline"}
    BY <1>2
  <2> QED BY <2>1, <2>2, <2>3, <2>4 DEF FrameResumedOnce
<1> QED BY <1>10, <1>12, <1>13, <1>14 DEF Inv, Ownership

\* Every critical section, interrupt and switch step preserves the invariant.
LEMMA NextInv ==
    ASSUME Inv, Next
    PROVE  Inv'
<1>1. CASE scheduler_global_tick
  BY <1>1, GlobalTickInv
<1>2. CASE \E t \in Thread : DeviceInterrupt(t)
  BY <1>2, DeviceInterruptInv
<1>3. ASSUME NEW c \in CPU, CpuStep(c)
      PROVE  Inv'
  <2>1. CASE scheduler_yield(c) \/ scheduler_block(c) \/ scheduler_terminate(c)
    BY <2>1, SwitchInv
  <2>2. CASE \E ticks \in SleepTicks : scheduler_sleep(c, ticks)
    BY <2>2, SleepInv
  <2>3. CASE scheduler_syscall_enter(c) \/ scheduler_syscall_leave(c)
    BY <2>3, SyscallInv
  <2>4. CASE \E t \in Worker, p \in CreatePriorities :
               \/ thread_create_with_priority(c, t, p)
               \/ thread_create_suspended_with_priority(c, t, p)
    BY <2>4, CreateInv
  <2>5. CASE \E t \in Worker : scheduler_enqueue(c, t)
    BY <2>5, EnqueueInv
  <2>6. CASE \E t \in Worker : thread_destroy(c, t)
    BY <2>6, DestroyInv
  <2>7. CASE \E t \in Worker : scheduler_terminate_thread(c, t)
    BY <2>7, TerminateThreadInv
  <2>8. CASE \E t \in Thread : scheduler_unblock(c, t)
    BY <2>8, UnblockInv
  <2>9. CASE scheduler_timer_tick(c)
    BY <2>9, TimerTickInv
  <2>10. CASE scheduler_prepare_preemption(c)
    BY <2>10, PreemptionInv
  <2>11. CASE scheduler_context_switch_saved(c)
    BY <2>11, SavedInv
  <2>12. CASE SwitchStack(c)
    BY <2>12, SwitchStackInv
  <2>13. CASE scheduler_context_switch_complete(c)
    BY <2>13, CompleteInv
  <2>14. CASE \E d \in CPU : scheduler_prepare_idle_cpu(c, d)
    BY <2>14, PrepareIdleInv
  <2>15. CASE cpu_mark_online(c)
    BY <2>15, MarkOnlineInv
  <2>16. CASE scheduler_start_cpu(c)
    BY <2>16, StartCpuInv
  <2> QED BY <1>3, <2>1, <2>2, <2>3, <2>4, <2>5, <2>6, <2>7, <2>8, <2>9, <2>10,
             <2>11, <2>12, <2>13, <2>14, <2>15, <2>16 DEF CpuStep
<1> QED BY <1>1, <1>2, <1>3 DEF Next

\* The inductive invariant holds in every reachable state, for any number of
\* CPUs and threads.
THEOREM Invariance == Spec => []Inv
<1>1. Init => Inv
  BY InitInv
<1>2. Inv /\ [Next]_vars => Inv'
  <2>1. ASSUME Inv, Next PROVE Inv'
    BY <2>1, NextInv
  <2>2. ASSUME Inv, UNCHANGED vars PROVE Inv'
    <3> USE <2>2 DEF vars, lifeVars, prioVars, readyVars, sleepVars, fixedVars,
                     cpuVars, execVars
    <3>1. TypeOK'
      BY DEF Inv, TypeOK
    <3>2. Owned' /\ Leaving'
      BY DEF Inv, Ownership, Owned, Leaving
    <3>3. Unsaved' /\ Sleepers'
      BY DEF Inv, Ownership, Unsaved, Sleepers
    <3>4. FrameResumedOnce'
      BY DEF Inv, Ownership, FrameResumedOnce
    <3> QED BY <3>1, <3>2, <3>3, <3>4 DEF Inv, Ownership
  <2> QED BY <2>1, <2>2
<1> QED BY <1>1, <1>2, PTL DEF Spec

\* Every field of a thread and of a CPU record keeps its type.
THEOREM TypeCorrect == Spec => []TypeOK
<1>1. Inv => TypeOK
  BY DEF Inv
<1> QED BY <1>1, Invariance, PTL

\* No two CPUs own one thread, and no CPU runs a thread that another has not
\* finished saving: scheduler_select_next_locked(), the handoff and the
\* publication of the saved frame keep running ownership exclusive.
THEOREM OwnershipExclusive == Spec => []SingleOwner
<1>1. Inv => SingleOwner
  <2> SUFFICES ASSUME Owned, Leaving, NEW c \in CPU, NEW d \in CPU, c # d
               PROVE  /\ current_thread[c] # NoThread =>
                           current_thread[c] # current_thread[d]
                      /\ pc[c] = "saving" => current_thread[d] # outgoing[c]
    BY DEF Inv, Ownership, SingleOwner
  <2>1. current_thread[c] # NoThread => current_thread[c] # current_thread[d]
    BY Constants DEF Owned
  <2>2. pc[c] = "saving" => current_thread[d] # outgoing[c]
    BY DEF Leaving
  <2> QED BY <2>1, <2>2
<1> QED BY <1>1, Invariance, PTL

\* A saved frame is resumed at most once, and a thread that no CPU holds has a
\* frame to resume.
THEOREM FramesResumedOnce == Spec => []FrameResumedOnce
<1>1. Inv => FrameResumedOnce
  BY DEF Inv, Ownership
<1> QED BY <1>1, Invariance, PTL
=============================================================================
