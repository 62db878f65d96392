------------------------------- MODULE Mutex -------------------------------
(***************************************************************************)
(* The sleeping mutex (kernel/src/mutex.c) over the part of the scheduler  *)
(* it uses.                                                                *)
(*                                                                         *)
(* A critical section of a mutex's state_lock is one action, except the    *)
(* loop of mutex_handoff_locked(): it reads the state of a waiter without  *)
(* scheduler_lock, so the read and its use are two steps, with state_lock  *)
(* held in between.  scheduler_block() is two steps for the same reason,   *)
(* with scheduler_lock held: it takes the pending wakeup, then it makes    *)
(* the thread BLOCKED.                                                     *)
(*                                                                         *)
(* held is what the callers know: the mutexes they locked and have not     *)
(* unlocked.  Callers lock in ascending order, as mutex.h asks, and only   *)
(* unlock what they hold.                                                  *)
(***************************************************************************)
EXTENDS Naturals, ThreadLists

CONSTANTS
    Thread,      \* kernel_thread_t objects
    Mutex,       \* mutexes, numbered in their lock order
    NoThread,    \* a NULL thread pointer
    NoMutex,     \* a NULL mutex pointer
    CpuCount,    \* how many threads can be RUNNING
    Killer,      \* threads that terminate others
    Spurious,    \* whether other subsystems wake a thread that waits here
    MaxBringUps  \* how often scheduler_validate_locked() changes its answer

ASSUME MutexAssumption ==
    /\ Mutex \subseteq Nat /\ NoMutex \notin Mutex
    /\ NoThread \notin Thread
    /\ CpuCount \in Nat \ {0}
    /\ Killer \subseteq Thread
    /\ Spurious \in BOOLEAN /\ MaxBringUps \in Nat

VARIABLES
    \* mutex_t
    owner, waiters, state_lock,
    \* kernel_thread_t
    state, waiting_mutex, mutex_wake_pending,
    \* where a thread is in mutex.c, the mutex and the thread it works on
    pc, arg, target,
    held,
    bringups,  \* how often its answer has changed
    valid      \* what scheduler_validate_locked() returns

mutexVars == <<owner, waiters, state_lock>>
threadVars == <<state, waiting_mutex, mutex_wake_pending>>
callVars == <<pc, arg, target>>
validation == <<bringups, valid>>
mutexState == <<mutexVars, threadVars, callVars, held, validation>>

Running(t) == state[t] = "RUNNING"
Unlocked(m) == state_lock[m] = NoThread
SchedulerUnlocked == \A t \in Thread : pc[t] \notin {"exchanged", "undispatched"}

\* Thread t continues at a label of mutex.c, working on mutex m and thread w.
At(t, label, m, w) == /\ pc' = [pc EXCEPT ![t] = label]
                      /\ arg' = [arg EXCEPT ![t] = m]
                      /\ target' = [target EXCEPT ![t] = w]
Goto(t, label) == At(t, label, arg[t], target[t])
Return(t) == At(t, "run", NoMutex, NoThread)

\* The interrupt flag is set outside the sections mutex.c runs with it clear.
Interruptible(t) == pc[t] \in {"run", "loop"}

-----------------------------------------------------------------------------
(* mutex_lock(), mutex_try_lock() *)

\* Mutant: the stale link of a woken waiter stays in the wait chain.
LeaveLinked(m, t) == waiters

\* Mutant: the waiters behind the removed one are cut off.
UnlinkTail(m, t) ==
    [waiters EXCEPT ![m] =
       IF t \in Range(@) THEN SubSeq(@, 1, (CHOOSE i \in DOMAIN @ : @[i] = t) - 1)
                         ELSE @]

\* mutex_waiter_remove_locked(); a thread has one link, so it is on a chain
\* once.
Unlink(m, t) == [waiters EXCEPT ![m] = Without(@, t)]

Acquire(t, m) ==
    /\ owner[m] = NoThread
    /\ IF waiting_mutex[t] = m
       THEN /\ waiters' = Unlink(m, t)
            /\ waiting_mutex' = [waiting_mutex EXCEPT ![t] = NoMutex]
       ELSE UNCHANGED <<waiters, waiting_mutex>>
    /\ mutex_wake_pending' = [mutex_wake_pending EXCEPT ![t] = FALSE]
    /\ owner' = [owner EXCEPT ![m] = t]
    /\ held' = [held EXCEPT ![t] = @ \cup {m}]
    /\ Return(t)

\* unlock() handed the mutex over while t waited.
AcceptHandoff(t, m) ==
    /\ owner[m] = t /\ waiting_mutex[t] = m
    /\ waiting_mutex' = [waiting_mutex EXCEPT ![t] = NoMutex]
    /\ mutex_wake_pending' = [mutex_wake_pending EXCEPT ![t] = FALSE]
    /\ held' = [held EXCEPT ![t] = @ \cup {m}]
    /\ Return(t)
    /\ UNCHANGED <<owner, waiters>>

\* A recursive lock, or a waiter of another mutex.
Refuse(t, m) ==
    /\ owner[m] # NoThread
    /\ IF owner[m] = t THEN waiting_mutex[t] # m
                       ELSE waiting_mutex[t] \notin {NoMutex, m}
    /\ Return(t)
    /\ UNCHANGED <<owner, waiters, waiting_mutex, mutex_wake_pending, held>>

\* The thread waits, and will call scheduler_block() with interrupts masked.
Register(t, m) ==
    /\ owner[m] \notin {NoThread, t} /\ waiting_mutex[t] \in {NoMutex, m}
    /\ IF waiting_mutex[t] = NoMutex
       THEN /\ mutex_wake_pending' = [mutex_wake_pending EXCEPT ![t] = FALSE]
            /\ waiting_mutex' = [waiting_mutex EXCEPT ![t] = m]
            /\ waiters' = [waiters EXCEPT ![m] = Append(@, t)]
       ELSE UNCHANGED <<mutex_wake_pending, waiting_mutex, waiters>>
    /\ At(t, "block", m, NoThread)
    /\ UNCHANGED <<owner, held>>

\* The first iteration of the loop is the call, the others follow a wakeup.
mutex_lock(t, m) ==
    /\ Running(t) /\ Unlocked(m)
    /\ \/ pc[t] = "run" /\ \A h \in held[t] : h <= m
       \/ pc[t] = "loop" /\ arg[t] = m
    /\ Acquire(t, m) \/ AcceptHandoff(t, m) \/ Refuse(t, m) \/ Register(t, m)
    /\ UNCHANGED <<state_lock, state, validation>>

\* Mutant: mutex_try_lock() takes the mutex from a waiter it was handed to.
TryLockSteals(t, m) ==
    /\ Running(t) /\ pc[t] = "run" /\ Unlocked(m)
    /\ owner' = [owner EXCEPT ![m] = t]
    /\ held' = [held EXCEPT ![t] = @ \cup {m}]
    /\ UNCHANGED <<waiters, state_lock, threadVars, callVars, validation>>

mutex_try_lock(t, m) ==
    /\ Running(t) /\ pc[t] = "run" /\ Unlocked(m) /\ owner[m] = NoThread
    /\ owner' = [owner EXCEPT ![m] = t]
    /\ held' = [held EXCEPT ![t] = @ \cup {m}]
    /\ UNCHANGED <<waiters, state_lock, threadVars, callVars, validation>>

\* scheduler_block() takes a pending wakeup and returns at once.
BlockConsumes(t) ==
    /\ pc[t] = "block" /\ SchedulerUnlocked
    /\ mutex_wake_pending' = [mutex_wake_pending EXCEPT ![t] = FALSE]
    /\ Goto(t, IF mutex_wake_pending[t] THEN "loop" ELSE "exchanged")
    /\ UNCHANGED <<mutexVars, state, waiting_mutex, held, validation>>

\* The dispatcher leaves the thread BLOCKED.  When validation fails it undoes
\* that, and scheduler_block() fails; a reader of the state may see either.
BlockSleeps(t) ==
    /\ pc[t] = "exchanged"
    /\ state' = [state EXCEPT ![t] = "BLOCKED"]
    /\ Goto(t, IF valid THEN "blocked" ELSE "undispatched")
    /\ UNCHANGED <<mutexVars, waiting_mutex, mutex_wake_pending, held, validation>>

BlockUndone(t) ==
    /\ pc[t] = "undispatched"
    /\ state' = [state EXCEPT ![t] = "RUNNING"]
    /\ Goto(t, "failed")
    /\ UNCHANGED <<mutexVars, waiting_mutex, mutex_wake_pending, held, validation>>

BlockReturns(t) ==
    /\ pc[t] = "blocked" /\ Running(t)
    /\ Goto(t, "loop")
    /\ UNCHANGED <<mutexVars, threadVars, held, validation>>

\* mutex_lock() after scheduler_block() failed: it gives up.
LockGivesUp(t) ==
    LET m == arg[t] IN
    /\ pc[t] = "failed" /\ Unlocked(m)
    /\ waiters' = Unlink(m, t)
    /\ waiting_mutex' = [waiting_mutex EXCEPT ![t] = IF @ = m THEN NoMutex
                                                            ELSE @]
    /\ mutex_wake_pending' = [mutex_wake_pending EXCEPT ![t] = FALSE]
    /\ Return(t)
    /\ UNCHANGED <<owner, state_lock, state, held, validation>>

-----------------------------------------------------------------------------
(* mutex_handoff_locked(), one iteration: HandoffPop unlinks the head of   *)
(* the chain and reads its state for the first time.  The second read and  *)
(* scheduler_unblock() are one step: a waiter that is not BLOCKED at either *)
(* is dropped from the chain in the same way.                              *)

HandoffPop(t) ==
    LET m == arg[t]
        w == Head(waiters[m])
    IN  /\ pc[t] = "handoff"
        /\ IF waiters[m] = <<>>
           THEN /\ state_lock' = [state_lock EXCEPT ![m] = NoThread]
                /\ Return(t)
                /\ UNCHANGED waiters
           ELSE /\ waiters' = [waiters EXCEPT ![m] = Tail(@)]
                /\ At(t, IF waiting_mutex[w] # m THEN "handoff"
                         ELSE IF Running(w) THEN "publish" ELSE "wake", m, w)
                /\ UNCHANGED state_lock
        /\ UNCHANGED <<owner, threadVars, held, validation>>

\* The waiter was RUNNING: it owns the mutex, and finds a pending wakeup.
HandoffPublish(t) ==
    LET m == arg[t] IN
    /\ pc[t] = "publish"
    /\ owner' = [owner EXCEPT ![m] = target[t]]
    /\ mutex_wake_pending' = [mutex_wake_pending EXCEPT ![target[t]] = TRUE]
    /\ state_lock' = [state_lock EXCEPT ![m] = NoThread]
    /\ Return(t)
    /\ UNCHANGED <<waiters, state, waiting_mutex, held, validation>>

\* Mutant: a waiter that cannot be woken ends the handoff.
WakeOnce(t) ==
    LET m == arg[t]
        w == target[t]
        ok == state[w] = "BLOCKED" /\ valid
    IN  /\ pc[t] = "wake" /\ SchedulerUnlocked
        /\ owner' = [owner EXCEPT ![m] = IF ok THEN w ELSE NoThread]
        /\ state' = [state EXCEPT ![w] = IF ok THEN "READY" ELSE @]
        /\ waiting_mutex' = [waiting_mutex EXCEPT ![w] = IF ok THEN @ ELSE NoMutex]
        /\ state_lock' = [state_lock EXCEPT ![m] = NoThread]
        /\ Return(t)
        /\ UNCHANGED <<waiters, mutex_wake_pending, held, validation>>

HandoffWake(t) ==
    LET m == arg[t]
        w == target[t]
    IN  /\ pc[t] = "wake" /\ SchedulerUnlocked
        /\ IF state[w] = "BLOCKED" /\ valid
           THEN /\ owner' = [owner EXCEPT ![m] = w]
                /\ state' = [state EXCEPT ![w] = "READY"]
                /\ state_lock' = [state_lock EXCEPT ![m] = NoThread]
                /\ Return(t)
                /\ UNCHANGED waiting_mutex
           ELSE /\ waiting_mutex' = [waiting_mutex EXCEPT ![w] = NoMutex]
                /\ At(t, "handoff", m, NoThread)
                /\ UNCHANGED <<owner, state, state_lock>>
        /\ UNCHANGED <<waiters, mutex_wake_pending, held, validation>>

\* Mutant: the mutex is released and nobody is woken.
UnlockOnly(t, m) ==
    /\ Running(t) /\ pc[t] = "run" /\ m \in held[t] /\ Unlocked(m)
    /\ held' = [held EXCEPT ![t] = @ \ {m}]
    /\ owner' = [owner EXCEPT ![m] = IF @ = t THEN NoThread ELSE @]
    /\ UNCHANGED <<waiters, state_lock, threadVars, callVars, validation>>

mutex_unlock(t, m) ==
    /\ Running(t) /\ pc[t] = "run" /\ m \in held[t] /\ Unlocked(m)
    /\ held' = [held EXCEPT ![t] = @ \ {m}]
    /\ IF owner[m] = t
       THEN /\ owner' = [owner EXCEPT ![m] = NoThread]
            /\ state_lock' = [state_lock EXCEPT ![m] = t]
            /\ At(t, "handoff", m, NoThread)
       ELSE UNCHANGED <<owner, state_lock, callVars>>
    /\ UNCHANGED <<waiters, threadVars, validation>>

-----------------------------------------------------------------------------
(* Termination of a thread that waits: scheduler_terminate_thread(), then  *)
(* mutex_cancel_waiter(), which reads waiting_mutex before it locks.       *)

scheduler_terminate_thread(k, t) ==
    /\ k \in Killer /\ Running(k) /\ pc[k] = "run" /\ SchedulerUnlocked
    /\ state[t] \in {"READY", "BLOCKED"}
    /\ state' = [state EXCEPT ![t] = "TERMINATED"]
    /\ At(k, "cancel", NoMutex, t)
    /\ UNCHANGED <<mutexVars, waiting_mutex, mutex_wake_pending, held, validation>>

CancelReads(k) ==
    LET m == waiting_mutex[target[k]] IN
    /\ pc[k] = "cancel"
    /\ IF m = NoMutex THEN Return(k) ELSE At(k, "cancelling", m, target[k])
    /\ UNCHANGED <<mutexVars, threadVars, held, validation>>

\* Mutant: a victim that was handed the mutex is only taken off the chain.
CancelKeepsOwner(k) ==
    LET m == arg[k]
        t == target[k]
    IN  /\ pc[k] = "cancelling" /\ Unlocked(m)
        /\ waiters' = Unlink(m, t)
        /\ waiting_mutex' = [waiting_mutex EXCEPT ![t] = NoMutex]
        /\ Return(k)
        /\ UNCHANGED <<owner, state_lock, state, mutex_wake_pending, held,
                       validation>>

mutex_cancel_waiter(k) ==
    LET m == arg[k]
        t == target[k]
        owns == owner[m] = t
    IN  /\ pc[k] = "cancelling" /\ Unlocked(m)
        /\ IF waiting_mutex[t] = m
           THEN /\ mutex_wake_pending' = [mutex_wake_pending EXCEPT ![t] = FALSE]
                /\ waiting_mutex' = [waiting_mutex EXCEPT ![t] = NoMutex]
                /\ owner' = [owner EXCEPT ![m] = IF owns THEN NoThread ELSE @]
                /\ waiters' = IF owns THEN waiters ELSE Unlink(m, t)
                /\ state_lock' = [state_lock EXCEPT
                                    ![m] = IF owns THEN k ELSE NoThread]
                /\ IF owns THEN At(k, "handoff", m, NoThread) ELSE Return(k)
           ELSE /\ Return(k)
                /\ UNCHANGED <<mutexVars, mutex_wake_pending, waiting_mutex>>
        /\ UNCHANGED <<state, held, validation>>

-----------------------------------------------------------------------------
(* The scheduler, as far as mutex.c can tell. *)

RunningCount == Cardinality({t \in Thread : Running(t)})

Run(t) ==
    /\ state[t] = "READY" /\ SchedulerUnlocked /\ RunningCount < CpuCount
    /\ state' = [state EXCEPT ![t] = "RUNNING"]
    /\ UNCHANGED <<mutexVars, waiting_mutex, mutex_wake_pending, callVars, held,
                   validation>>

Preempt(t) ==
    /\ Running(t) /\ Interruptible(t) /\ SchedulerUnlocked
    /\ state' = [state EXCEPT ![t] = "READY"]
    /\ UNCHANGED <<mutexVars, waiting_mutex, mutex_wake_pending, callVars, held,
                   validation>>

\* "An unrelated wakeup may have returned this thread to the scheduler."
UnrelatedWakeup(t) ==
    /\ Spurious /\ state[t] = "BLOCKED" /\ SchedulerUnlocked /\ valid
    /\ state' = [state EXCEPT ![t] = "READY"]
    /\ UNCHANGED <<mutexVars, waiting_mutex, mutex_wake_pending, callVars, held,
                   validation>>

\* A processor is online without a thread, or has entered its idle thread.
BringUp ==
    /\ bringups < MaxBringUps /\ SchedulerUnlocked
    /\ valid' = ~valid
    /\ bringups' = bringups + 1
    /\ UNCHANGED <<mutexVars, threadVars, callVars, held>>

MutexInit ==
    /\ owner = [m \in Mutex |-> NoThread]
    /\ waiters = [m \in Mutex |-> <<>>]
    /\ state_lock = [m \in Mutex |-> NoThread]
    /\ state = [t \in Thread |-> "READY"]
    /\ waiting_mutex = [t \in Thread |-> NoMutex]
    /\ mutex_wake_pending = [t \in Thread |-> FALSE]
    /\ pc = [t \in Thread |-> "run"]
    /\ arg = [t \in Thread |-> NoMutex]
    /\ target = [t \in Thread |-> NoThread]
    /\ held = [t \in Thread |-> {}]
    /\ bringups = 0
    /\ valid = TRUE

\* A step of thread t inside mutex.c or scheduler_block().
MutexStep(t) ==
    \/ BlockConsumes(t) \/ BlockSleeps(t) \/ BlockUndone(t) \/ BlockReturns(t)
    \/ LockGivesUp(t)
    \/ HandoffPop(t) \/ HandoffPublish(t) \/ HandoffWake(t)
    \/ CancelReads(t) \/ mutex_cancel_waiter(t)

MutexNext ==
    \/ \E t \in Thread :
         \/ MutexStep(t) \/ Run(t) \/ Preempt(t) \/ UnrelatedWakeup(t)
         \/ \E m \in Mutex : \/ mutex_lock(t, m) \/ mutex_try_lock(t, m)
                             \/ mutex_unlock(t, m)
         \/ \E v \in Thread : scheduler_terminate_thread(t, v)
    \/ BringUp

MutexSpec == MutexInit /\ [][MutexNext]_mutexState

\* A thread inside mutex.c has its CPU until it sleeps or returns; time slices
\* end, and every READY thread gets turns long enough to retry its lock or to
\* release what it holds.
MutexFairness ==
    \A t \in Thread :
      /\ WF_mutexState(MutexStep(t))
      /\ SF_mutexState(Run(t)) /\ SF_mutexState(Preempt(t))
      /\ \A m \in Mutex : /\ SF_mutexState(pc[t] = "loop" /\ mutex_lock(t, m))
                          /\ SF_mutexState(mutex_unlock(t, m))

MutexFairSpec == MutexSpec /\ MutexFairness

-----------------------------------------------------------------------------
(* Properties. *)

Labels == {"run", "block", "exchanged", "blocked", "undispatched", "failed",
           "loop", "handoff", "publish", "wake", "cancel", "cancelling"}

\* The types of the mutex and thread fields.
MutexTypeOK ==
    /\ owner \in [Mutex -> Thread \cup {NoThread}]
    /\ waiters \in [Mutex -> Seq(Thread)]
    /\ state_lock \in [Mutex -> Thread \cup {NoThread}]
    /\ state \in [Thread -> {"READY", "RUNNING", "BLOCKED", "TERMINATED"}]
    /\ waiting_mutex \in [Thread -> Mutex \cup {NoMutex}]
    /\ mutex_wake_pending \in [Thread -> BOOLEAN]
    /\ pc \in [Thread -> Labels]
    /\ arg \in [Thread -> Mutex \cup {NoMutex}]
    /\ target \in [Thread -> Thread \cup {NoThread}]
    /\ held \in [Thread -> SUBSET Mutex]
    /\ bringups \in 0..MaxBringUps /\ valid \in BOOLEAN

\* A thread between a successful lock and its unlock is the owner, whatever
\* handoffs, wakeups and terminations happen: no two threads are inside.
MutualExclusion ==
    \A t \in Thread : \A m \in held[t] : owner[m] = t

\* mutex_handoff_locked() loops until the chain is empty: nobody waits for a
\* mutex that has no owner.
FreeHasNoWaiters ==
    \A m \in Mutex : Unlocked(m) /\ owner[m] = NoThread => waiters[m] = <<>>

\* An owner knows that it owns, or will find out when it takes the handoff:
\* a terminated waiter or one that gave up is never left with the mutex,
\* until a processor is brought up, when scheduler_unblock() can fail.
OwnerAware ==
    bringups = 0 => \A t \in Thread, m \in Mutex :
      owner[m] = t => m \in held[t] \/ waiting_mutex[t] = m

\* The chain holds each waiter once, and only threads that wait for it.
ChainSound ==
    \A m \in Mutex : /\ IsInjective(waiters[m])
                     /\ \A t \in Range(waiters[m]) : waiting_mutex[t] = m

\* A thread asleep in mutex_lock() is on the chain of its mutex, owns it, or
\* is in the hands of the thread that unlocks: no handoff forgets it, until
\* a processor is brought up.
SleeperKnown ==
    bringups = 0 => \A t \in Thread : pc[t] = "blocked" /\ state[t] = "BLOCKED" =>
      \/ t \in Range(waiters[arg[t]])
      \/ owner[arg[t]] = t
      \/ \E k \in Thread : pc[k] \in {"publish", "wake"} /\ target[k] = t

\* Every mutex_lock() and mutex_unlock() call returns, on one processor, if
\* the holders release.
CallsReturn == \A t \in Thread : pc[t] # "run" ~> pc[t] = "run"
=============================================================================
