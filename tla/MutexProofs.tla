---------------------------- MODULE MutexProofs ----------------------------
(***************************************************************************)
(* The mutex for any number of threads, mutexes and processors.            *)
(*                                                                         *)
(* MutualExclusion is not inductive: that a handoff does not take the      *)
(* mutex from a thread inside depends on the mutex being without owner for *)
(* as long as state_lock is held (Handing), and that a killer does not     *)
(* take it from one depends on a waiter not being inside (Waits).  That    *)
(* nobody is forgotten needs in addition that whoever is named by          *)
(* waiting_mutex is on the chain, owns the mutex or is in the hands of the *)
(* thread that unlocks (Known).                                            *)
(***************************************************************************)
EXTENDS MutexSteps

USE SMTT(30), ZenonT(30)
USE DEF InLock, InHandoff, InCancel, Masked

\* mutex_handoff_locked() finds the chain empty.
LEMMA HandoffEnds ==
    ASSUME MutexInv, NEW t \in Thread, HandoffPop(t), waiters[arg[t]] = <<>>
    PROVE  MutexInv'
<1> USE MutexAssumption
    DEF HandoffPop, At, Goto, Return, Running, Unlocked, SchedulerUnlocked,
        mutexVars, threadVars, callVars, validation
<1> DEFINE m == arg[t]
<1>m. m \in Mutex /\ waiters[m] \in Seq(Thread) /\ IsInjective(waiters[m])
  BY ZenonT(30) DEF MutexInv, MutexTypeOK, Calls, ChainSound
<1>1. MutexTypeOK'
  BY <1>m DEF MutexInv, MutexTypeOK, Labels
<1>2. Calls'
  BY <1>m DEF MutexInv, MutexTypeOK, Labels, Calls
<1>3. Handing'
  BY <1>m DEF MutexInv, MutexTypeOK, Labels, Handing
<1>4. Waits'
  BY <1>m DEF MutexInv, MutexTypeOK, Labels, Waits
<1>5. ChainSound'
  BY <1>m DEF MutexInv, MutexTypeOK, Labels, ChainSound
<1>6. Hands'
  BY <1>m DEF MutexInv, MutexTypeOK, Labels, Hands
<1>7. Known'
  BY <1>m DEF MutexInv, MutexTypeOK, Labels, Known
<1>8. MutualExclusion'
  BY <1>m DEF MutexInv, MutexTypeOK, Labels, MutualExclusion
<1>9. FreeHasNoWaiters'
  BY <1>m DEF MutexInv, MutexTypeOK, Labels, FreeHasNoWaiters
<1>10. Undisturbed'
  BY <1>m
    DEF MutexInv, MutexTypeOK, Labels, Undisturbed, Calls, Hands, Handing
<1>11. OwnerAware'
  BY <1>m DEF MutexInv, MutexTypeOK, Labels, OwnerAware
<1> QED
  BY <1>1, <1>2, <1>3, <1>4, <1>5, <1>6, <1>7, <1>8, <1>9, <1>10, <1>11
    DEF MutexInv

\* mutex_handoff_locked() unlinks the head of the chain.
LEMMA HandoffPops ==
    ASSUME MutexInv, NEW t \in Thread, HandoffPop(t), waiters[arg[t]] # <<>>
    PROVE  MutexInv'
<1> USE MutexAssumption
<1> DEFINE m == arg[t]
<1>m. m \in Mutex /\ waiters[m] \in Seq(Thread) /\ IsInjective(waiters[m])
  BY ZenonT(30) DEF MutexInv, MutexTypeOK, Calls, ChainSound, HandoffPop
<1> DEFINE w == Head(waiters[m])
<1>a. /\ Tail(waiters[m]) \in Seq(Thread) /\ w \in Thread
      /\ Range(waiters[m]) = Range(Tail(waiters[m])) \cup {w}
      /\ IsInjective(Tail(waiters[m])) /\ w \notin Range(Tail(waiters[m]))
  BY <1>m, TailRange
<1>e. PICK c \in Seq(Thread), v \in Thread, l \in {"publish", "wake"} :
        /\ waiters' = [waiters EXCEPT ![m] = c]
        /\ Range(waiters[m]) = Range(c) \cup {v}
        /\ IsInjective(c) /\ v \notin Range(c)
        /\ waiting_mutex[v] = m
        /\ state[v] = "RUNNING" \/ l = "wake"
        /\ l = "wake" => state[v] # "RUNNING"
        /\ pc' = [pc EXCEPT ![t] = l]
        /\ arg' = [arg EXCEPT ![t] = m]
        /\ target' = [target EXCEPT ![t] = v]
        /\ pc[t] = "handoff"
        /\ UNCHANGED <<owner, state_lock, state, waiting_mutex,
                       mutex_wake_pending, held, bringups, valid>>
  BY <1>m, <1>a, ZenonT(30)
    DEF HandoffPop, ChainSound, MutexInv, MutexTypeOK, At, Goto, Return,
        Running, Unlocked, SchedulerUnlocked, mutexVars, threadVars, callVars,
        validation
<1>1. MutexTypeOK'
  BY <1>e, <1>m DEF MutexInv, MutexTypeOK, Labels, Calls
<1>2. Calls'
  BY <1>e, <1>m DEF MutexInv, MutexTypeOK, Labels, Calls
<1>3. Handing'
  BY <1>e, <1>m DEF MutexInv, MutexTypeOK, Labels, Handing
<1>4. Waits'
  BY <1>e, <1>m DEF MutexInv, MutexTypeOK, Labels, Waits
<1>5. ChainSound'
  BY <1>e, <1>m, Chains
    DEF MutexInv, MutexTypeOK, Labels, ChainSound, Waits, Hands, Calls
<1>6. Hands'
  BY <1>e, <1>m, Chains
    DEF MutexInv, MutexTypeOK, Labels, Hands, Calls, Handing, ChainSound,
        Waits
<1>7. Known'
  BY <1>e, <1>m, Chains
    DEF MutexInv, MutexTypeOK, Labels, Known, Calls, Waits, Hands
<1>8. MutualExclusion'
  BY <1>e, <1>m DEF MutexInv, MutexTypeOK, Labels, MutualExclusion
<1>9. FreeHasNoWaiters'
  BY <1>e, <1>m DEF MutexInv, MutexTypeOK, Labels, Unlocked, FreeHasNoWaiters
<1>10. Undisturbed'
  BY <1>e, <1>m
    DEF MutexInv, MutexTypeOK, Labels, Undisturbed, Calls, Hands, Handing
<1>11. OwnerAware'
  BY <1>e, <1>m DEF MutexInv, MutexTypeOK, Labels, OwnerAware
<1> QED
  BY <1>1, <1>2, <1>3, <1>4, <1>5, <1>6, <1>7, <1>8, <1>9, <1>10, <1>11
    DEF MutexInv

\* mutex_handoff_locked() hands the mutex to a RUNNING waiter.
LEMMA HandoffPublishes ==
    ASSUME MutexInv, NEW t \in Thread, HandoffPublish(t)
    PROVE  MutexInv'
<1> USE MutexAssumption
<1> DEFINE m == arg[t]
<1>m. m \in Mutex /\ waiters[m] \in Seq(Thread) /\ IsInjective(waiters[m])
  BY ZenonT(30) DEF MutexInv, MutexTypeOK, Calls, ChainSound, HandoffPublish
<1> DEFINE w == target[t]
<1>w. /\ w \in Thread /\ waiting_mutex[w] = m
      /\ state_lock[m] = t /\ owner[m] = NoThread
  BY InHands DEF HandoffPublish
<1>e. /\ pc[t] = "publish"
      /\ owner' = [owner EXCEPT ![m] = w]
      /\ mutex_wake_pending' \in [Thread -> BOOLEAN]
      /\ state_lock' = [state_lock EXCEPT ![m] = NoThread]
      /\ pc' = [pc EXCEPT ![t] = "run"]
      /\ arg' = [arg EXCEPT ![t] = NoMutex]
      /\ target' = [target EXCEPT ![t] = NoThread]
      /\ UNCHANGED <<waiters, state, waiting_mutex, held, bringups, valid>>
  BY <1>m, <1>w
    DEF HandoffPublish, MutexInv, MutexTypeOK, At, Goto, Return, Running,
        Unlocked, SchedulerUnlocked, mutexVars, threadVars, callVars,
        validation
<1>1. MutexTypeOK'
  BY <1>e, <1>m, <1>w DEF MutexInv, MutexTypeOK, Labels
<1>2. Calls'
  BY <1>e, <1>m, <1>w DEF MutexInv, MutexTypeOK, Labels, Calls
<1>3. Handing'
  BY <1>e, <1>m, <1>w DEF MutexInv, MutexTypeOK, Labels, Handing
<1>4. Waits'
  BY <1>e, <1>m, <1>w DEF MutexInv, MutexTypeOK, Labels, Waits
<1>5. ChainSound'
  BY <1>e, <1>m, <1>w DEF MutexInv, MutexTypeOK, Labels, ChainSound
<1>6. Hands'
  BY <1>e, <1>m, <1>w DEF MutexInv, MutexTypeOK, Labels, Hands
<1>7. Known'
  BY <1>e, <1>m, <1>w, Chains
    DEF MutexInv, MutexTypeOK, Labels, Known, Calls, Waits, Hands
<1>8. MutualExclusion'
  BY <1>e, <1>m, <1>w
    DEF MutexInv, MutexTypeOK, Labels, MutualExclusion, Calls, Waits, Handing
<1>9. FreeHasNoWaiters'
  BY <1>e, <1>m, <1>w
    DEF MutexInv, MutexTypeOK, Labels, Unlocked, FreeHasNoWaiters, Calls,
        Handing
<1>10. Undisturbed'
  BY <1>e, <1>m, <1>w DEF MutexInv, MutexTypeOK, Labels, Undisturbed
<1>11. OwnerAware'
  BY <1>e, <1>m, <1>w
    DEF MutexInv, MutexTypeOK, Labels, OwnerAware, Calls, Hands, Undisturbed,
        Waits
<1> QED
  BY <1>1, <1>2, <1>3, <1>4, <1>5, <1>6, <1>7, <1>8, <1>9, <1>10, <1>11
    DEF MutexInv

\* mutex_handoff_locked() wakes the waiter and hands it the mutex.
LEMMA HandoffWakes ==
    ASSUME MutexInv, NEW t \in Thread, HandoffWake(t),
           state[target[t]] = "BLOCKED", valid
    PROVE  MutexInv'
<1> USE MutexAssumption
<1> DEFINE m == arg[t]
<1>m. m \in Mutex /\ waiters[m] \in Seq(Thread) /\ IsInjective(waiters[m])
  BY ZenonT(30) DEF MutexInv, MutexTypeOK, Calls, ChainSound, HandoffWake
<1> DEFINE w == target[t]
<1>w. /\ w \in Thread /\ waiting_mutex[w] = m
      /\ state_lock[m] = t /\ owner[m] = NoThread
  BY InHands DEF HandoffWake
<1>e. /\ pc[t] = "wake" /\ state[w] = "BLOCKED"
      /\ \A k \in Thread : pc[k] \notin {"exchanged", "undispatched"}
      /\ owner' = [owner EXCEPT ![m] = w]
      /\ state' = [state EXCEPT ![w] = "READY"]
      /\ state_lock' = [state_lock EXCEPT ![m] = NoThread]
      /\ pc' = [pc EXCEPT ![t] = "run"]
      /\ arg' = [arg EXCEPT ![t] = NoMutex]
      /\ target' = [target EXCEPT ![t] = NoThread]
      /\ UNCHANGED <<waiters, mutex_wake_pending, waiting_mutex, held,
                     bringups, valid>>
  BY <1>m, <1>w
    DEF HandoffWake, At, Goto, Return, Running, Unlocked, SchedulerUnlocked,
        mutexVars, threadVars, callVars, validation
<1>1. MutexTypeOK'
  BY <1>e, <1>m, <1>w DEF MutexInv, MutexTypeOK, Labels, Calls
<1>2. Calls'
  BY <1>e, <1>m, <1>w DEF MutexInv, MutexTypeOK, Labels, Calls
<1>3. Handing'
  BY <1>e, <1>m, <1>w DEF MutexInv, MutexTypeOK, Labels, Handing, Calls
<1>4. Waits'
  BY <1>e, <1>m, <1>w DEF MutexInv, MutexTypeOK, Labels, Waits
<1>5. ChainSound'
  BY <1>e, <1>m, <1>w, Chains
    DEF MutexInv, MutexTypeOK, Labels, ChainSound, Waits, Hands, Calls
<1>6. Hands'
  BY <1>e, <1>m, <1>w, Chains
    DEF MutexInv, MutexTypeOK, Labels, Hands, Calls, Handing, ChainSound,
        Waits
<1>7. Known'
  BY <1>e, <1>m, <1>w, Chains
    DEF MutexInv, MutexTypeOK, Labels, Known, Calls, Waits, Hands
<1>8. MutualExclusion'
  BY <1>e, <1>m, <1>w
    DEF MutexInv, MutexTypeOK, Labels, MutualExclusion, Calls, Waits, Handing
<1>9. FreeHasNoWaiters'
  BY <1>e, <1>m, <1>w
    DEF MutexInv, MutexTypeOK, Labels, Unlocked, FreeHasNoWaiters, Calls,
        Handing
<1>10. Undisturbed'
  BY <1>e, <1>m, <1>w
    DEF MutexInv, MutexTypeOK, Labels, Undisturbed, Calls, Hands, Handing
<1>11. OwnerAware'
  BY <1>e, <1>m, <1>w
    DEF MutexInv, MutexTypeOK, Labels, OwnerAware, Calls, Hands, Undisturbed,
        Waits
<1> QED
  BY <1>1, <1>2, <1>3, <1>4, <1>5, <1>6, <1>7, <1>8, <1>9, <1>10, <1>11
    DEF MutexInv

\* mutex_handoff_locked() drops a waiter that it cannot wake.
LEMMA HandoffDrops ==
    ASSUME MutexInv, NEW t \in Thread, HandoffWake(t),
           ~ (state[target[t]] = "BLOCKED" /\ valid)
    PROVE  MutexInv'
<1> USE MutexAssumption
<1> DEFINE m == arg[t]
<1>m. m \in Mutex /\ waiters[m] \in Seq(Thread) /\ IsInjective(waiters[m])
  BY ZenonT(30) DEF MutexInv, MutexTypeOK, Calls, ChainSound, HandoffWake
<1> DEFINE w == target[t]
<1>w. /\ w \in Thread /\ waiting_mutex[w] = m
      /\ state_lock[m] = t /\ owner[m] = NoThread
  BY InHands DEF HandoffWake
<1>e. /\ pc[t] = "wake" /\ (state[w] # "BLOCKED" \/ ~ valid)
      /\ waiting_mutex' = [waiting_mutex EXCEPT ![w] = NoMutex]
      /\ pc' = [pc EXCEPT ![t] = "handoff"]
      /\ arg' = [arg EXCEPT ![t] = m]
      /\ target' = [target EXCEPT ![t] = NoThread]
      /\ UNCHANGED <<owner, waiters, state_lock, state, mutex_wake_pending,
                     held, bringups, valid>>
  BY <1>m, <1>w
    DEF HandoffWake, At, Goto, Return, Running, Unlocked, SchedulerUnlocked,
        mutexVars, threadVars, callVars, validation
<1>1. MutexTypeOK'
  BY <1>e, <1>m, <1>w DEF MutexInv, MutexTypeOK, Labels, Calls
<1>2. Calls'
  BY <1>e, <1>m, <1>w DEF MutexInv, MutexTypeOK, Labels, Calls
<1>3. Handing'
  BY <1>e, <1>m, <1>w DEF MutexInv, MutexTypeOK, Labels, Handing, Calls
<1>4. Waits'
  BY <1>e, <1>m, <1>w DEF MutexInv, MutexTypeOK, Labels, Waits, Calls
<1>5. ChainSound'
  BY <1>e, <1>m, <1>w, Chains
    DEF MutexInv, MutexTypeOK, Labels, ChainSound, Waits, Hands, Calls
<1>6. Hands'
  <2>1. \A n \in Mutex : owner'[n] \notin Range(waiters'[n])
    BY <1>e, <1>m, <1>w, Chains
      DEF MutexInv, MutexTypeOK, Hands, ChainSound, Waits
  <2>2. ASSUME NEW j \in Thread, pc'[j] \in {"publish", "wake"}
        PROVE  /\ waiting_mutex'[target'[j]] = arg'[j]
               /\ target'[j] \notin Range(waiters'[arg'[j]])
    <3>1. pc[j] = pc'[j] /\ arg[j] = arg'[j] /\ target[j] = target'[j]
      BY <2>2, <1>e, <1>m, <1>w DEF MutexInv, MutexTypeOK
    <3>2. /\ target[j] \in Thread /\ arg[j] \in Mutex
          /\ waiting_mutex[target[j]] = arg[j] /\ state_lock[arg[j]] = j
          /\ target[j] \notin Range(waiters[arg[j]])
      BY <3>1, <2>2, InHands
    <3> QED BY <3>1, <3>2, <1>e, <1>m, <1>w, Chains DEF MutexInv, MutexTypeOK
  <2> QED BY <2>1, <2>2 DEF Hands
<1>7. Known'
  BY <1>e, <1>m, <1>w, Chains
    DEF MutexInv, MutexTypeOK, Labels, Known, Calls, Waits, Hands
<1>8. MutualExclusion'
  BY <1>e, <1>m, <1>w DEF MutexInv, MutexTypeOK, Labels, MutualExclusion
<1>9. FreeHasNoWaiters'
  BY <1>e, <1>m, <1>w
    DEF MutexInv, MutexTypeOK, Labels, Unlocked, FreeHasNoWaiters, Calls,
        Handing
<1>10. Undisturbed'
  BY <1>e, <1>m, <1>w
    DEF MutexInv, MutexTypeOK, Labels, Undisturbed, Calls, Hands, Handing
<1>11. OwnerAware'
  BY <1>e, <1>m, <1>w
    DEF MutexInv, MutexTypeOK, Labels, OwnerAware, Calls, Hands, Undisturbed,
        Waits
<1> QED
  BY <1>1, <1>2, <1>3, <1>4, <1>5, <1>6, <1>7, <1>8, <1>9, <1>10, <1>11
    DEF MutexInv

\* scheduler_terminate_thread() marks a thread that does not run.
LEMMA Terminates ==
    ASSUME MutexInv, NEW k \in Thread, NEW t \in Thread,
           scheduler_terminate_thread(k, t)
    PROVE  MutexInv'
<1> USE MutexAssumption
    DEF scheduler_terminate_thread, At, Goto, Return, Running, Unlocked,
        SchedulerUnlocked, mutexVars, threadVars, callVars, validation
<1>1. MutexTypeOK'
  BY DEF MutexInv, MutexTypeOK, Labels
<1>2. Calls'
  BY DEF MutexInv, MutexTypeOK, Labels, Calls
<1>3. Handing'
  BY DEF MutexInv, MutexTypeOK, Labels, Handing
<1>4. Waits'
  BY DEF MutexInv, MutexTypeOK, Labels, Waits
<1>5. ChainSound'
  BY DEF MutexInv, MutexTypeOK, Labels, ChainSound
<1>6. Hands'
  BY DEF MutexInv, MutexTypeOK, Labels, Hands
<1>7. Known'
  BY DEF MutexInv, MutexTypeOK, Labels, Known
<1>8. MutualExclusion'
  BY DEF MutexInv, MutexTypeOK, Labels, MutualExclusion
<1>9. FreeHasNoWaiters'
  BY DEF MutexInv, MutexTypeOK, Labels, FreeHasNoWaiters
<1>10. Undisturbed'
  BY DEF MutexInv, MutexTypeOK, Labels, Undisturbed
<1>11. OwnerAware'
  BY DEF MutexInv, MutexTypeOK, Labels, OwnerAware
<1> QED
  BY <1>1, <1>2, <1>3, <1>4, <1>5, <1>6, <1>7, <1>8, <1>9, <1>10, <1>11
    DEF MutexInv

\* mutex_cancel_waiter() reads waiting_mutex before it locks.
LEMMA CancelReading ==
    ASSUME MutexInv, NEW t \in Thread, CancelReads(t)
    PROVE  MutexInv'
<1> USE MutexAssumption
    DEF CancelReads, At, Goto, Return, Running, Unlocked, SchedulerUnlocked,
        mutexVars, threadVars, callVars, validation
<1>1. MutexTypeOK'
  BY DEF MutexInv, MutexTypeOK, Labels, Calls
<1>2. Calls'
  BY DEF MutexInv, MutexTypeOK, Labels, Calls
<1>3. Handing'
  BY DEF MutexInv, MutexTypeOK, Labels, Handing
<1>4. Waits'
  BY DEF MutexInv, MutexTypeOK, Labels, Waits
<1>5. ChainSound'
  BY DEF MutexInv, MutexTypeOK, Labels, ChainSound
<1>6. Hands'
  BY DEF MutexInv, MutexTypeOK, Labels, Hands
<1>7. Known'
  BY DEF MutexInv, MutexTypeOK, Labels, Known
<1>8. MutualExclusion'
  BY DEF MutexInv, MutexTypeOK, Labels, MutualExclusion
<1>9. FreeHasNoWaiters'
  BY DEF MutexInv, MutexTypeOK, Labels, FreeHasNoWaiters
<1>10. Undisturbed'
  BY DEF MutexInv, MutexTypeOK, Labels, Undisturbed, Calls, Hands, Handing
<1>11. OwnerAware'
  BY DEF MutexInv, MutexTypeOK, Labels, OwnerAware
<1> QED
  BY <1>1, <1>2, <1>3, <1>4, <1>5, <1>6, <1>7, <1>8, <1>9, <1>10, <1>11
    DEF MutexInv

\* mutex_cancel_waiter() finds that the victim no longer waits.
LEMMA CancelsNobody ==
    ASSUME MutexInv, NEW k \in Thread, mutex_cancel_waiter(k),
           waiting_mutex[target[k]] # arg[k]
    PROVE  MutexInv'
<1> USE MutexAssumption
<1> DEFINE m == arg[k]
<1>m. m \in Mutex /\ waiters[m] \in Seq(Thread) /\ IsInjective(waiters[m])
  BY ZenonT(30) DEF MutexInv, MutexTypeOK, Calls, ChainSound, mutex_cancel_waiter
<1> DEFINE t == target[k]
<1>t. t \in Thread /\ state[t] = "TERMINATED"
  BY DEF MutexInv, Calls, mutex_cancel_waiter
<1>e. /\ pc[k] = "cancelling"
      /\ pc' = [pc EXCEPT ![k] = "run"]
      /\ arg' = [arg EXCEPT ![k] = NoMutex]
      /\ target' = [target EXCEPT ![k] = NoThread]
      /\ UNCHANGED <<owner, waiters, state_lock, state, waiting_mutex,
                     mutex_wake_pending, held, bringups, valid>>
  BY <1>m, <1>t
    DEF mutex_cancel_waiter, At, Goto, Return, Running, Unlocked,
        SchedulerUnlocked, mutexVars, threadVars, callVars, validation
<1>1. MutexTypeOK'
  BY <1>e, <1>m, <1>t DEF MutexInv, MutexTypeOK, Labels
<1>2. Calls'
  BY <1>e, <1>m, <1>t DEF MutexInv, MutexTypeOK, Labels, Calls
<1>3. Handing'
  BY <1>e, <1>m, <1>t DEF MutexInv, MutexTypeOK, Labels, Handing
<1>4. Waits'
  BY <1>e, <1>m, <1>t DEF MutexInv, MutexTypeOK, Labels, Waits
<1>5. ChainSound'
  BY <1>e, <1>m, <1>t DEF MutexInv, MutexTypeOK, Labels, ChainSound
<1>6. Hands'
  BY <1>e, <1>m, <1>t DEF MutexInv, MutexTypeOK, Labels, Hands
<1>7. Known'
  BY <1>e, <1>m, <1>t DEF MutexInv, MutexTypeOK, Labels, Known
<1>8. MutualExclusion'
  BY <1>e, <1>m, <1>t DEF MutexInv, MutexTypeOK, Labels, MutualExclusion
<1>9. FreeHasNoWaiters'
  BY <1>e, <1>m, <1>t
    DEF MutexInv, MutexTypeOK, Labels, Unlocked, FreeHasNoWaiters
<1>10. Undisturbed'
  BY <1>e, <1>m, <1>t
    DEF MutexInv, MutexTypeOK, Labels, Undisturbed, Calls, Hands, Handing
<1>11. OwnerAware'
  BY <1>e, <1>m, <1>t DEF MutexInv, MutexTypeOK, Labels, OwnerAware
<1> QED
  BY <1>1, <1>2, <1>3, <1>4, <1>5, <1>6, <1>7, <1>8, <1>9, <1>10, <1>11
    DEF MutexInv

\* mutex_cancel_waiter() passes on a mutex handed to the victim.
LEMMA CancelsOwner ==
    ASSUME MutexInv, NEW k \in Thread, mutex_cancel_waiter(k),
           waiting_mutex[target[k]] = arg[k], owner[arg[k]] = target[k]
    PROVE  MutexInv'
<1> USE MutexAssumption
<1> DEFINE m == arg[k]
<1>m. m \in Mutex /\ waiters[m] \in Seq(Thread) /\ IsInjective(waiters[m])
  BY ZenonT(30) DEF MutexInv, MutexTypeOK, Calls, ChainSound, mutex_cancel_waiter
<1> DEFINE t == target[k]
<1>t. t \in Thread /\ state[t] = "TERMINATED"
  BY DEF MutexInv, Calls, mutex_cancel_waiter
<1>e. /\ pc[k] = "cancelling" /\ state_lock[m] = NoThread
      /\ waiting_mutex[t] = m /\ owner[m] = t
      /\ waiting_mutex' = [waiting_mutex EXCEPT ![t] = NoMutex]
      /\ mutex_wake_pending' \in [Thread -> BOOLEAN]
      /\ owner' = [owner EXCEPT ![m] = NoThread]
      /\ state_lock' = [state_lock EXCEPT ![m] = k]
      /\ pc' = [pc EXCEPT ![k] = "handoff"]
      /\ arg' = [arg EXCEPT ![k] = m]
      /\ target' = [target EXCEPT ![k] = NoThread]
      /\ UNCHANGED <<waiters, state, held, bringups, valid>>
  BY <1>m, <1>t, ZenonT(30)
    DEF mutex_cancel_waiter, MutexInv, MutexTypeOK, At, Goto, Return, Running,
        Unlocked, SchedulerUnlocked, mutexVars, threadVars, callVars,
        validation
<1>1. MutexTypeOK'
  BY <1>e, <1>m, <1>t DEF MutexInv, MutexTypeOK, Labels
<1>2. Calls'
  BY <1>e, <1>m, <1>t DEF MutexInv, MutexTypeOK, Labels, Calls
<1>3. Handing'
  BY <1>e, <1>m, <1>t DEF MutexInv, MutexTypeOK, Labels, Handing, Calls
<1>4. Waits'
  BY <1>e, <1>m, <1>t DEF MutexInv, MutexTypeOK, Labels, Waits, Calls
<1>5. ChainSound'
  BY <1>e, <1>m, <1>t, Chains
    DEF MutexInv, MutexTypeOK, Labels, ChainSound, Waits, Hands, Calls
<1>6. Hands'
  <2>1. \A n \in Mutex : owner'[n] \notin Range(waiters'[n])
    BY <1>e, <1>m, <1>t, Chains
      DEF MutexInv, MutexTypeOK, Hands, ChainSound, Waits
  <2>2. ASSUME NEW j \in Thread, pc'[j] \in {"publish", "wake"}
        PROVE  /\ waiting_mutex'[target'[j]] = arg'[j]
               /\ target'[j] \notin Range(waiters'[arg'[j]])
    <3>1. pc[j] = pc'[j] /\ arg[j] = arg'[j] /\ target[j] = target'[j]
      BY <2>2, <1>e, <1>m, <1>t DEF MutexInv, MutexTypeOK
    <3>2. /\ target[j] \in Thread /\ arg[j] \in Mutex
          /\ waiting_mutex[target[j]] = arg[j] /\ state_lock[arg[j]] = j
          /\ target[j] \notin Range(waiters[arg[j]])
      BY <3>1, <2>2, InHands
    <3> QED BY <3>1, <3>2, <1>e, <1>m, <1>t, Chains DEF MutexInv, MutexTypeOK
  <2> QED BY <2>1, <2>2 DEF Hands
<1>7. Known'
  BY <1>e, <1>m, <1>t, Chains
    DEF MutexInv, MutexTypeOK, Labels, Known, Calls, Waits, Hands
<1>8. MutualExclusion'
  BY <1>e, <1>m, <1>t
    DEF MutexInv, MutexTypeOK, Labels, MutualExclusion, Calls, Waits, Handing
<1>9. FreeHasNoWaiters'
  BY <1>e, <1>m, <1>t
    DEF MutexInv, MutexTypeOK, Labels, Unlocked, FreeHasNoWaiters, Calls,
        Handing
<1>10. Undisturbed'
  BY <1>e, <1>m, <1>t
    DEF MutexInv, MutexTypeOK, Labels, Undisturbed, Calls, Hands, Handing
<1>11. OwnerAware'
  BY <1>e, <1>m, <1>t
    DEF MutexInv, MutexTypeOK, Labels, OwnerAware, Calls, Hands, Undisturbed,
        Waits
<1> QED
  BY <1>1, <1>2, <1>3, <1>4, <1>5, <1>6, <1>7, <1>8, <1>9, <1>10, <1>11
    DEF MutexInv

\* mutex_cancel_waiter() takes the victim off the chain.
LEMMA CancelsWaiter ==
    ASSUME MutexInv, NEW k \in Thread, mutex_cancel_waiter(k),
           waiting_mutex[target[k]] = arg[k], owner[arg[k]] # target[k]
    PROVE  MutexInv'
<1> USE MutexAssumption
<1> DEFINE m == arg[k]
<1>m. m \in Mutex /\ waiters[m] \in Seq(Thread) /\ IsInjective(waiters[m])
  BY ZenonT(30) DEF MutexInv, MutexTypeOK, Calls, ChainSound, mutex_cancel_waiter
<1> DEFINE t == target[k]
<1>t. t \in Thread /\ state[t] = "TERMINATED"
  BY DEF MutexInv, Calls, mutex_cancel_waiter
<1>a. /\ Without(waiters[m], t) \in Seq(Thread)
      /\ Range(Without(waiters[m], t)) = Range(waiters[m]) \ {t}
      /\ IsInjective(Without(waiters[m], t))
      /\ waiters[m] = <<>> => Without(waiters[m], t) = <<>>
  BY <1>m, WithoutRange
<1>b. /\ [owner EXCEPT ![m] = owner[m]] = owner
      /\ state_lock[m] = NoThread =>
           [state_lock EXCEPT ![m] = NoThread] = state_lock
  BY <1>m DEF MutexInv, MutexTypeOK
<1>e. PICK c \in Seq(Thread) :
        /\ pc[k] = "cancelling" /\ state_lock[m] = NoThread
        /\ waiting_mutex[t] = m /\ owner[m] # t
        /\ waiters' = [waiters EXCEPT ![m] = c]
        /\ Range(c) = Range(waiters[m]) \ {t} /\ IsInjective(c)
        /\ waiters[m] = <<>> => c = <<>>
        /\ waiting_mutex' = [waiting_mutex EXCEPT ![t] = NoMutex]
        /\ mutex_wake_pending' \in [Thread -> BOOLEAN]
        /\ pc' = [pc EXCEPT ![k] = "run"]
        /\ arg' = [arg EXCEPT ![k] = NoMutex]
        /\ target' = [target EXCEPT ![k] = NoThread]
        /\ UNCHANGED <<owner, state_lock, state, held, bringups, valid>>
  BY <1>m, <1>t, <1>a, <1>b, ZenonT(30)
    DEF mutex_cancel_waiter, Unlink, MutexInv, MutexTypeOK, At, Goto, Return,
        Running, Unlocked, SchedulerUnlocked, mutexVars, threadVars, callVars,
        validation
<1>1. MutexTypeOK'
  BY <1>e, <1>m, <1>t DEF MutexInv, MutexTypeOK, Labels
<1>2. Calls'
  BY <1>e, <1>m, <1>t DEF MutexInv, MutexTypeOK, Labels, Calls
<1>3. Handing'
  BY <1>e, <1>m, <1>t DEF MutexInv, MutexTypeOK, Labels, Handing, Calls
<1>4. Waits'
  BY <1>e, <1>m, <1>t DEF MutexInv, MutexTypeOK, Labels, Waits, Calls
<1>5. ChainSound'
  BY <1>e, <1>m, <1>t, Chains
    DEF MutexInv, MutexTypeOK, Labels, ChainSound, Waits, Hands, Calls
<1>6. Hands'
  <2>1. \A n \in Mutex : owner'[n] \notin Range(waiters'[n])
    BY <1>e, <1>m, <1>t, Chains
      DEF MutexInv, MutexTypeOK, Hands, ChainSound, Waits
  <2>2. ASSUME NEW j \in Thread, pc'[j] \in {"publish", "wake"}
        PROVE  /\ waiting_mutex'[target'[j]] = arg'[j]
               /\ target'[j] \notin Range(waiters'[arg'[j]])
    <3>1. pc[j] = pc'[j] /\ arg[j] = arg'[j] /\ target[j] = target'[j]
      BY <2>2, <1>e, <1>m, <1>t DEF MutexInv, MutexTypeOK
    <3>2. /\ target[j] \in Thread /\ arg[j] \in Mutex
          /\ waiting_mutex[target[j]] = arg[j] /\ state_lock[arg[j]] = j
          /\ target[j] \notin Range(waiters[arg[j]])
      BY <3>1, <2>2, InHands
    <3> QED BY <3>1, <3>2, <1>e, <1>m, <1>t, Chains DEF MutexInv, MutexTypeOK
  <2> QED BY <2>1, <2>2 DEF Hands
<1>7. Known'
  BY <1>e, <1>m, <1>t, Chains
    DEF MutexInv, MutexTypeOK, Labels, Known, Calls, Waits, Hands
<1>8. MutualExclusion'
  BY <1>e, <1>m, <1>t
    DEF MutexInv, MutexTypeOK, Labels, MutualExclusion, Calls, Waits, Handing
<1>9. FreeHasNoWaiters'
  BY <1>e, <1>m, <1>t
    DEF MutexInv, MutexTypeOK, Labels, Unlocked, FreeHasNoWaiters, Calls,
        Handing
<1>10. Undisturbed'
  BY <1>e, <1>m, <1>t
    DEF MutexInv, MutexTypeOK, Labels, Undisturbed, Calls, Hands, Handing
<1>11. OwnerAware'
  BY <1>e, <1>m, <1>t
    DEF MutexInv, MutexTypeOK, Labels, OwnerAware, Calls, Hands, Undisturbed,
        Waits
<1> QED
  BY <1>1, <1>2, <1>3, <1>4, <1>5, <1>6, <1>7, <1>8, <1>9, <1>10, <1>11
    DEF MutexInv

\* The dispatcher runs a READY thread.
LEMMA Runs ==
    ASSUME MutexInv, NEW t \in Thread, Run(t)
    PROVE  MutexInv'
<1> USE MutexAssumption
    DEF Run, Interruptible, At, Goto, Return, Running, Unlocked,
        SchedulerUnlocked, mutexVars, threadVars, callVars, validation
<1>1. MutexTypeOK'
  BY DEF MutexInv, MutexTypeOK, Labels
<1>2. Calls'
  BY DEF MutexInv, MutexTypeOK, Labels, Calls
<1>3. Handing'
  BY DEF MutexInv, MutexTypeOK, Labels, Handing
<1>4. Waits'
  BY DEF MutexInv, MutexTypeOK, Labels, Waits
<1>5. ChainSound'
  BY DEF MutexInv, MutexTypeOK, Labels, ChainSound
<1>6. Hands'
  BY DEF MutexInv, MutexTypeOK, Labels, Hands
<1>7. Known'
  BY DEF MutexInv, MutexTypeOK, Labels, Known
<1>8. MutualExclusion'
  BY DEF MutexInv, MutexTypeOK, Labels, MutualExclusion
<1>9. FreeHasNoWaiters'
  BY DEF MutexInv, MutexTypeOK, Labels, FreeHasNoWaiters
<1>10. Undisturbed'
  BY DEF MutexInv, MutexTypeOK, Labels, Undisturbed
<1>11. OwnerAware'
  BY DEF MutexInv, MutexTypeOK, Labels, OwnerAware
<1> QED
  BY <1>1, <1>2, <1>3, <1>4, <1>5, <1>6, <1>7, <1>8, <1>9, <1>10, <1>11
    DEF MutexInv

\* The timer ends a time slice.
LEMMA Preempts ==
    ASSUME MutexInv, NEW t \in Thread, Preempt(t)
    PROVE  MutexInv'
<1> USE MutexAssumption
    DEF Preempt, Interruptible, At, Goto, Return, Running, Unlocked,
        SchedulerUnlocked, mutexVars, threadVars, callVars, validation
<1>1. MutexTypeOK'
  BY DEF MutexInv, MutexTypeOK, Labels
<1>2. Calls'
  BY DEF MutexInv, MutexTypeOK, Labels, Calls
<1>3. Handing'
  BY DEF MutexInv, MutexTypeOK, Labels, Handing
<1>4. Waits'
  BY DEF MutexInv, MutexTypeOK, Labels, Waits
<1>5. ChainSound'
  BY DEF MutexInv, MutexTypeOK, Labels, ChainSound
<1>6. Hands'
  BY DEF MutexInv, MutexTypeOK, Labels, Hands
<1>7. Known'
  BY DEF MutexInv, MutexTypeOK, Labels, Known
<1>8. MutualExclusion'
  BY DEF MutexInv, MutexTypeOK, Labels, MutualExclusion
<1>9. FreeHasNoWaiters'
  BY DEF MutexInv, MutexTypeOK, Labels, FreeHasNoWaiters
<1>10. Undisturbed'
  BY DEF MutexInv, MutexTypeOK, Labels, Undisturbed
<1>11. OwnerAware'
  BY DEF MutexInv, MutexTypeOK, Labels, OwnerAware
<1> QED
  BY <1>1, <1>2, <1>3, <1>4, <1>5, <1>6, <1>7, <1>8, <1>9, <1>10, <1>11
    DEF MutexInv

\* Another subsystem wakes a thread that waits here.
LEMMA WakesUnrelated ==
    ASSUME MutexInv, NEW t \in Thread, UnrelatedWakeup(t)
    PROVE  MutexInv'
<1> USE MutexAssumption
    DEF UnrelatedWakeup, Interruptible, At, Goto, Return, Running, Unlocked,
        SchedulerUnlocked, mutexVars, threadVars, callVars, validation
<1>1. MutexTypeOK'
  BY DEF MutexInv, MutexTypeOK, Labels
<1>2. Calls'
  BY DEF MutexInv, MutexTypeOK, Labels, Calls
<1>3. Handing'
  BY DEF MutexInv, MutexTypeOK, Labels, Handing
<1>4. Waits'
  BY DEF MutexInv, MutexTypeOK, Labels, Waits
<1>5. ChainSound'
  BY DEF MutexInv, MutexTypeOK, Labels, ChainSound
<1>6. Hands'
  BY DEF MutexInv, MutexTypeOK, Labels, Hands
<1>7. Known'
  BY DEF MutexInv, MutexTypeOK, Labels, Known
<1>8. MutualExclusion'
  BY DEF MutexInv, MutexTypeOK, Labels, MutualExclusion
<1>9. FreeHasNoWaiters'
  BY DEF MutexInv, MutexTypeOK, Labels, FreeHasNoWaiters
<1>10. Undisturbed'
  BY DEF MutexInv, MutexTypeOK, Labels, Undisturbed
<1>11. OwnerAware'
  BY DEF MutexInv, MutexTypeOK, Labels, OwnerAware
<1> QED
  BY <1>1, <1>2, <1>3, <1>4, <1>5, <1>6, <1>7, <1>8, <1>9, <1>10, <1>11
    DEF MutexInv

\* A processor comes up or enters its idle thread.
LEMMA BringsUp ==
    ASSUME MutexInv, BringUp
    PROVE  MutexInv'
<1> USE MutexAssumption
    DEF BringUp, At, Goto, Return, Running, Unlocked, SchedulerUnlocked,
        mutexVars, threadVars, callVars, validation
<1>1. MutexTypeOK'
  BY DEF MutexInv, MutexTypeOK, Labels
<1>2. Calls'
  BY DEF MutexInv, MutexTypeOK, Labels, Calls
<1>3. Handing'
  BY DEF MutexInv, MutexTypeOK, Labels, Handing
<1>4. Waits'
  BY DEF MutexInv, MutexTypeOK, Labels, Waits
<1>5. ChainSound'
  BY DEF MutexInv, MutexTypeOK, Labels, ChainSound
<1>6. Hands'
  BY DEF MutexInv, MutexTypeOK, Labels, Hands
<1>7. Known'
  BY DEF MutexInv, MutexTypeOK, Labels, Known
<1>8. MutualExclusion'
  BY DEF MutexInv, MutexTypeOK, Labels, MutualExclusion
<1>9. FreeHasNoWaiters'
  BY DEF MutexInv, MutexTypeOK, Labels, FreeHasNoWaiters
<1>10. Undisturbed'
  BY DEF MutexInv, MutexTypeOK, Labels, Undisturbed
<1>11. OwnerAware'
  BY DEF MutexInv, MutexTypeOK, Labels, OwnerAware
<1> QED
  BY <1>1, <1>2, <1>3, <1>4, <1>5, <1>6, <1>7, <1>8, <1>9, <1>10, <1>11
    DEF MutexInv

\* No thread is in a call, and every chain is empty.
LEMMA MutexInitial ==
    MutexInit => MutexInv
<1> SUFFICES ASSUME MutexInit PROVE MutexInv
  OBVIOUS
<1> USE MutexAssumption DEF MutexInit
<1>1. MutexTypeOK
  BY DEF MutexTypeOK, Labels
<1>2. \A m \in Mutex : Range(waiters[m]) = {} /\ IsInjective(waiters[m])
  BY DEF Range, IsInjective
<1>3. Calls /\ Handing /\ Waits /\ Known
  BY DEF Calls, Handing, Waits, Known
<1>4. ChainSound /\ Hands
  BY <1>2 DEF ChainSound, Hands
<1>5. MutualExclusion /\ FreeHasNoWaiters /\ Undisturbed /\ OwnerAware
  BY DEF MutualExclusion, FreeHasNoWaiters, Undisturbed, OwnerAware
<1> QED BY <1>1, <1>3, <1>4, <1>5 DEF MutexInv

\* Every step of a thread in mutex.c, of a killer and of the scheduler keeps
\* the invariant.
LEMMA MutexStepKeeps ==
    MutexInv /\ [MutexNext]_mutexState => MutexInv'
<1> SUFFICES ASSUME MutexInv, [MutexNext]_mutexState
             PROVE  MutexInv'
  OBVIOUS
<1>1. ASSUME NEW t \in Thread, MutexStep(t)
      PROVE  MutexInv'
  <2>1. CASE HandoffPop(t)
    BY <2>1, HandoffEnds, HandoffPops
  <2>2. CASE HandoffWake(t)
    BY <2>2, HandoffWakes, HandoffDrops
  <2>3. CASE mutex_cancel_waiter(t)
    BY <2>3, CancelsNobody, CancelsOwner, CancelsWaiter
  <2> QED
    BY <1>1, <2>1, <2>2, <2>3, BlockConsumesKeeps, BlockSleepsKeeps,
       BlockUndoneKeeps, BlockReturnsKeeps, GivesUp, HandoffPublishes,
       CancelReading DEF MutexStep
<1>2. ASSUME NEW t \in Thread, NEW m \in Mutex, mutex_lock(t, m)
      PROVE  MutexInv'
  <2>1. CASE Register(t, m)
    <3>1. waiting_mutex[t] \in {NoMutex, m}
      BY <2>1 DEF Register
    <3> QED BY <3>1, <2>1, <1>2, Registers, WaitsAgain
  <2> QED
    BY <1>2, <2>1, Acquires, AcceptsHandoff, Refuses DEF mutex_lock
<1>3. CASE UNCHANGED mutexState
  BY <1>3
  DEF mutexState, mutexVars, threadVars, callVars, validation, MutexInv,
      MutexTypeOK, Calls, Handing, Waits, ChainSound, Hands, Known,
      MutualExclusion, FreeHasNoWaiters, Unlocked, Undisturbed, OwnerAware
<1> QED
  BY <1>1, <1>2, <1>3, TryLock, Unlocks, Terminates, Runs, Preempts,
     WakesUnrelated, BringsUp DEF MutexNext

-----------------------------------------------------------------------------
(* The theorems. *)

\* The strengthening holds in every state.
THEOREM MutexInvariant == MutexSpec => []MutexInv
BY MutexInitial, MutexStepKeeps, PTL DEF MutexSpec

\* The fields of mutexes and threads have their types.
THEOREM MutexTypeCorrect == MutexSpec => []MutexTypeOK
<1>1. MutexInv => MutexTypeOK
  BY DEF MutexInv
<1> QED BY <1>1, MutexInvariant, PTL

\* No two threads are between mutex_lock() and mutex_unlock() of one mutex,
\* whatever handoffs, terminations and failed scheduler calls happen.
THEOREM MutexExcludes == MutexSpec => []MutualExclusion
<1>1. MutexInv => MutualExclusion
  BY DEF MutexInv
<1> QED BY <1>1, MutexInvariant, PTL

\* mutex_unlock() and mutex_cancel_waiter() leave no waiter behind a mutex
\* that has no owner.
THEOREM MutexFreeUnwaited == MutexSpec => []FreeHasNoWaiters
<1>1. MutexInv => FreeHasNoWaiters
  BY DEF MutexInv
<1> QED BY <1>1, MutexInvariant, PTL

\* The chain of a mutex holds each of its waiters once and nobody else.
THEOREM MutexChainSound == MutexSpec => []ChainSound
<1>1. MutexInv => ChainSound
  BY DEF MutexInv
<1> QED BY <1>1, MutexInvariant, PTL

\* While the set of processors is stable, no thread is left with a mutex it
\* does not know of.
THEOREM MutexOwnerAware == MutexSpec => []OwnerAware
<1>1. MutexInv => OwnerAware
  BY DEF MutexInv
<1> QED BY <1>1, MutexInvariant, PTL

\* While the set of processors is stable, no handoff forgets a thread that
\* sleeps in mutex_lock().
THEOREM MutexSleeperKnown == MutexSpec => []SleeperKnown
<1>1. MutexInv => SleeperKnown
  <2> SUFFICES ASSUME MutexInv, bringups = 0,
                      NEW t \in Thread, pc[t] = "blocked", state[t] = "BLOCKED"
               PROVE  \/ t \in Range(waiters[arg[t]])
                      \/ owner[arg[t]] = t
                      \/ \E k \in Thread : /\ pc[k] \in {"publish", "wake"}
                                           /\ target[k] = t
    BY DEF SleeperKnown
  <2>1. arg[t] \in Mutex /\ waiting_mutex[t] = arg[t]
    BY DEF MutexInv, Calls, Undisturbed
  <2> QED BY <2>1 DEF MutexInv, Known
<1> QED BY <1>1, MutexInvariant, PTL
=============================================================================
