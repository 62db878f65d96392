----------------------------- MODULE MutexSteps -----------------------------
(***************************************************************************)
(* The inductive invariant of the kernel mutexes, and that the steps of    *)
(* the calls of mutex_lock(), mutex_try_lock() and mutex_unlock() before a *)
(* handoff keep it.                                                        *)
(***************************************************************************)
EXTENDS Integers, Mutex, TLAPS

USE SMTT(30), ZenonT(30)

-----------------------------------------------------------------------------
(* The chain of waiters as a list. *)

\* Unlinking an element of a list without duplicates takes it, and nothing
\* else, off the list: mutex_waiter_remove_locked().
LEMMA WithoutRange ==
    ASSUME NEW S, NEW s \in Seq(S), NEW e, IsInjective(s)
    PROVE  /\ Without(s, e) \in Seq(S)
           /\ Range(Without(s, e)) = Range(s) \ {e}
           /\ IsInjective(Without(s, e))
           /\ s = <<>> => Without(s, e) = <<>>
<1>1. CASE e \notin Range(s)
  BY <1>1 DEF Without
<1>2. CASE e \in Range(s)
  <2> DEFINE i == CHOOSE i \in DOMAIN s : s[i] = e
             w == Without(s, e)
  <2>1. i \in DOMAIN s /\ s[i] = e
    BY <1>2 DEF Range
  <2> DEFINE from(n) == IF n < i THEN n ELSE n + 1
  <2>2. w = [n \in 1 .. (Len(s) - 1) |-> s[from(n)]]
    BY <1>2 DEF Without
  <2> HIDE DEF i, w
  <2>3. i \in 1 .. Len(s) /\ Len(s) - 1 \in Nat /\ DOMAIN s = 1 .. Len(s)
    BY <2>1
  <2>4. w \in Seq(S) /\ DOMAIN w = 1 .. (Len(s) - 1)
    <3>1. w \in [1 .. (Len(s) - 1) -> S]
      BY <2>2, <2>3
    <3> QED BY <2>3, <3>1
  <2>5. \A j \in DOMAIN w : from(j) \in DOMAIN s /\ from(j) # i /\ w[j] = s[from(j)]
    BY <2>2, <2>3, <2>4
  <2>6. \A j \in DOMAIN s : j # i => \E k \in DOMAIN w : from(k) = j
    <3>1. ASSUME NEW j \in DOMAIN s, j # i
          PROVE  \E k \in DOMAIN w : from(k) = j
      <4>1. CASE j < i
        BY <4>1, <3>1, <2>3, <2>4
      <4>2. CASE j > i
        <5>1. j - 1 \in DOMAIN w /\ from(j - 1) = j
          BY <4>2, <3>1, <2>3, <2>4
        <5> QED BY <5>1
      <4> QED BY <3>1, <2>3, <4>1, <4>2
    <3> QED BY <3>1
  <2>7. \A j, k \in DOMAIN w : from(j) = from(k) => j = k
    BY <2>3, <2>4
  <2> HIDE DEF from
  <2>8. Range(w) = Range(s) \ {e}
    <3>1. \A j \in DOMAIN s : s[j] = e => j = i
      BY <2>1 DEF IsInjective
    <3>2. \A x \in Range(w) : x \in Range(s) /\ x # e
      BY <3>1, <2>5 DEF Range
    <3>3. ASSUME NEW x \in Range(s), x # e
          PROVE  x \in Range(w)
      <4>1. PICK j \in DOMAIN s : s[j] = x
        BY DEF Range
      <4>2. PICK k \in DOMAIN w : from(k) = j
        BY <4>1, <3>3, <2>1, <2>6
      <4> QED BY <4>1, <4>2, <2>5 DEF Range
    <3> QED BY <3>2, <3>3
  <2>9. IsInjective(w)
    <3>1. ASSUME NEW j \in DOMAIN w, NEW k \in DOMAIN w, w[j] = w[k]
          PROVE  j = k
      <4>1. from(j) = from(k)
        BY <3>1, <2>5 DEF IsInjective
      <4> QED BY <4>1, <2>7
    <3> QED BY <3>1 DEF IsInjective
  <2>10. s # <<>>
    BY <2>1
  <2> QED BY <2>4, <2>8, <2>9, <2>10 DEF w
<1> QED BY <1>1, <1>2

\* Appending an element puts it on the list.
LEMMA AppendRange ==
    ASSUME NEW S, NEW s \in Seq(S), NEW e \in S
    PROVE  /\ Append(s, e) \in Seq(S)
           /\ Range(Append(s, e)) = Range(s) \cup {e}
           /\ IsInjective(s) /\ e \notin Range(s) => IsInjective(Append(s, e))
<1>1. /\ Append(s, e) \in Seq(S) /\ Len(Append(s, e)) = Len(s) + 1
      /\ DOMAIN Append(s, e) = 1 .. (Len(s) + 1) /\ DOMAIN s = 1 .. Len(s)
      /\ Append(s, e)[Len(s) + 1] = e
      /\ \A i \in 1 .. Len(s) : Append(s, e)[i] = s[i]
  OBVIOUS
<1>2. Len(s) \in Nat
  OBVIOUS
<1>3. \A i : i \in 1 .. (Len(s) + 1) <=> i \in 1 .. Len(s) \/ i = Len(s) + 1
  BY <1>2
<1> DEFINE a == Append(s, e)
           l == Len(s) + 1
<1> HIDE DEF a, l
<1>4. /\ DOMAIN a = 1 .. l /\ DOMAIN s = 1 .. Len(s) /\ a[l] = e
      /\ \A i \in DOMAIN s : a[i] = s[i]
      /\ \A i : i \in DOMAIN a <=> i \in DOMAIN s \/ i = l
  BY <1>1, <1>3 DEF a, l
<1>5. Range(a) = Range(s) \cup {e}
  BY <1>4, Zenon DEF Range
<1>6. IsInjective(s) /\ e \notin Range(s) => IsInjective(a)
  BY <1>4 DEF Range, IsInjective
<1> QED BY <1>1, <1>5, <1>6 DEF a

\* The head of a list and the rest of it.
LEMMA TailRange ==
    ASSUME NEW S, NEW s \in Seq(S), s # <<>>
    PROVE  /\ Tail(s) \in Seq(S) /\ Head(s) \in S
           /\ Range(s) = Range(Tail(s)) \cup {Head(s)}
           /\ IsInjective(s) => IsInjective(Tail(s)) /\ Head(s) \notin Range(Tail(s))
<1>1. /\ Tail(s) \in Seq(S) /\ Head(s) = s[1] /\ 1 \in DOMAIN s
      /\ DOMAIN s = 1 .. Len(s) /\ Len(s) \in Nat \ {0}
      /\ DOMAIN Tail(s) = 1 .. (Len(s) - 1)
      /\ \A i \in DOMAIN Tail(s) : Tail(s)[i] = s[i + 1]
  OBVIOUS
<1>2. Head(s) \in S
  BY <1>1
<1>3. /\ \A i \in DOMAIN Tail(s) : i + 1 \in DOMAIN s /\ i + 1 # 1
      /\ \A i \in DOMAIN s : i # 1 => i - 1 \in DOMAIN Tail(s) /\ (i - 1) + 1 = i
      /\ \A i, j \in DOMAIN Tail(s) : i + 1 = j + 1 => i = j
  BY <1>1
<1>4. Range(s) = Range(Tail(s)) \cup {Head(s)}
  <2>1. \A x \in Range(Tail(s)) : x \in Range(s)
    BY <1>1, <1>3 DEF Range
  <2>2. ASSUME NEW i \in DOMAIN s, i # 1
        PROVE  s[i] \in Range(Tail(s))
    BY <2>2, <1>1, <1>3 DEF Range
  <2> QED BY <1>1, <2>1, <2>2 DEF Range
<1>5. ASSUME IsInjective(s)
      PROVE  IsInjective(Tail(s)) /\ Head(s) \notin Range(Tail(s))
  BY <1>1, <1>3, <1>5 DEF IsInjective, Range
<1> QED BY <1>1, <1>2, <1>4, <1>5

-----------------------------------------------------------------------------
(* The inductive invariant. *)

\* Labels of a call of mutex_lock() that has registered, of
\* mutex_handoff_locked(), and of the sections with interrupts masked.
InLock == {"block", "exchanged", "blocked", "undispatched", "failed", "loop"}
InHandoff == {"handoff", "publish", "wake"}
InCancel == {"cancel", "cancelling"}
Masked == {"block", "exchanged", "failed"} \cup InHandoff \cup InCancel

\* What a call keeps in its local variables, and that it has a processor.
Calls ==
    \A t \in Thread :
      /\ pc[t] \in InLock \cup InHandoff \cup {"cancelling"} =>
           arg[t] \in Mutex
      /\ pc[t] \in {"publish", "wake"} \cup InCancel => target[t] \in Thread
      /\ pc[t] \in Masked => state[t] = "RUNNING"
      /\ pc[t] = "undispatched" => state[t] = "BLOCKED"
      /\ pc[t] \in InCancel => state[target[t]] = "TERMINATED"

\* state_lock is held by the thread in the handoff of the mutex, which has no
\* owner meanwhile.
Handing ==
    /\ \A t \in Thread, m \in Mutex :
         state_lock[m] = t <=> pc[t] \in InHandoff /\ arg[t] = m
    /\ \A m \in Mutex : state_lock[m] # NoThread => owner[m] = NoThread

\* A thread waits for the mutex it is locking, and is not inside it.
Waits ==
    \A t \in Thread : waiting_mutex[t] # NoMutex =>
      /\ pc[t] \in InLock /\ arg[t] = waiting_mutex[t]
      /\ waiting_mutex[t] \notin held[t]

\* The waiter a handoff works on waits for the mutex and is off the chain, and
\* the owner is off the chain.
Hands ==
    /\ \A m \in Mutex : owner[m] \notin Range(waiters[m])
    /\ \A k \in Thread : pc[k] \in {"publish", "wake"} =>
         /\ waiting_mutex[target[k]] = arg[k]
         /\ target[k] \notin Range(waiters[arg[k]])

\* Nobody who waits is forgotten.
Known ==
    \A t \in Thread, m \in Mutex : waiting_mutex[t] = m =>
      \/ t \in Range(waiters[m])
      \/ owner[m] = t
      \/ \E k \in Thread : pc[k] \in {"publish", "wake"} /\ target[k] = t

\* Until a processor is brought up, scheduler calls succeed: a thread that
\* sleeps or is about to waits, and is not dropped by a handoff.
Undisturbed ==
    bringups = 0 =>
      /\ valid
      /\ \A t \in Thread :
           /\ pc[t] \notin {"undispatched", "failed"}
           /\ \/ pc[t] \in {"block", "exchanged"}
              \/ pc[t] = "blocked" /\ state[t] = "BLOCKED"
              => waiting_mutex[t] = arg[t]
           /\ pc[t] = "wake" => pc[target[t]] \notin {"block", "exchanged"}

MutexInv ==
    /\ MutexTypeOK /\ Calls /\ Handing /\ Waits /\ ChainSound /\ Hands /\ Known
    /\ MutualExclusion /\ FreeHasNoWaiters
    /\ Undisturbed /\ OwnerAware

USE DEF InLock, InHandoff, InCancel, Masked

\* A chain is a sequence of threads.
LEMMA Chains ==
    ASSUME MutexInv
    PROVE  \A m \in Mutex : /\ waiters[m] \in Seq(Thread)
                             /\ Range(waiters[m]) \subseteq Thread
                             /\ IsInjective(waiters[m])
BY DEF MutexInv, MutexTypeOK, ChainSound, Range

\* The waiter of a handoff, and the mutex.
LEMMA InHands ==
    ASSUME MutexInv, NEW t \in Thread, pc[t] \in {"publish", "wake"}
    PROVE  /\ target[t] \in Thread /\ arg[t] \in Mutex
           /\ waiting_mutex[target[t]] = arg[t]
           /\ target[t] \notin Range(waiters[arg[t]])
           /\ state_lock[arg[t]] = t /\ owner[arg[t]] = NoThread
<1>1. target[t] \in Thread /\ arg[t] \in Mutex
  BY DEF MutexInv, Calls
<1>2. state_lock[arg[t]] = t
  BY <1>1 DEF MutexInv, Handing
<1>3. owner[arg[t]] = NoThread
  <2>1. \A m \in Mutex : state_lock[m] # NoThread => owner[m] = NoThread
    BY DEF MutexInv, Handing
  <2>2. t # NoThread
    BY MutexAssumption
  <2> QED BY <1>1, <1>2, <2>1, <2>2
<1> QED BY <1>1, <1>2, <1>3 DEF MutexInv, Hands

\* mutex_try_lock() takes a mutex nobody owns.
LEMMA TryLock ==
    ASSUME MutexInv, NEW t \in Thread, NEW m \in Mutex, mutex_try_lock(t, m)
    PROVE  MutexInv'
<1> USE MutexAssumption
    DEF mutex_try_lock, Running, Unlocked, mutexVars, threadVars, callVars,
        validation
<1>1. MutexTypeOK'
  BY DEF MutexInv, MutexTypeOK, Labels
<1>2. Calls'
  BY DEF MutexInv, MutexTypeOK, Labels, Calls
<1>3. Handing'
  BY DEF MutexInv, MutexTypeOK, Labels, Handing
<1>4. Waits'
  BY DEF MutexInv, MutexTypeOK, Labels, Waits
<1>5. ChainSound'
  BY DEF MutexInv, MutexTypeOK, Labels, ChainSound
<1>6. Hands'
  BY Chains
    DEF MutexInv, MutexTypeOK, Labels, Hands, Calls, Handing, ChainSound,
        Waits
<1>7. Known'
  BY DEF MutexInv, MutexTypeOK, Labels, Known
<1>8. MutualExclusion'
  BY DEF MutexInv, MutexTypeOK, Labels, MutualExclusion
<1>9. FreeHasNoWaiters'
  BY DEF MutexInv, MutexTypeOK, Labels, FreeHasNoWaiters
<1>10. Undisturbed'
  BY DEF MutexInv, MutexTypeOK, Labels, Undisturbed
<1>11. OwnerAware'
  BY DEF MutexInv, MutexTypeOK, Labels, OwnerAware
<1> QED
  BY <1>1, <1>2, <1>3, <1>4, <1>5, <1>6, <1>7, <1>8, <1>9, <1>10, <1>11
    DEF MutexInv

\* mutex_lock() takes a mutex nobody owns, and leaves its chain.
LEMMA Acquires ==
    ASSUME MutexInv, NEW t \in Thread, NEW m \in Mutex, mutex_lock(t, m),
           Acquire(t, m)
    PROVE  MutexInv'
<1> USE MutexAssumption
    DEF mutex_lock, Acquire, At, Return, Unlink, Running, Unlocked, mutexVars,
        threadVars, callVars, validation
<1>a. /\ Without(waiters[m], t) \in Seq(Thread)
      /\ Range(Without(waiters[m], t)) = Range(waiters[m]) \ {t}
      /\ IsInjective(Without(waiters[m], t))
  <2>1. waiters[m] \in Seq(Thread) /\ IsInjective(waiters[m])
    BY DEF MutexInv, MutexTypeOK, ChainSound
  <2> QED BY <2>1, WithoutRange
<1>1. MutexTypeOK'
  BY <1>a DEF MutexInv, MutexTypeOK, Labels
<1>2. Calls'
  BY <1>a DEF MutexInv, MutexTypeOK, Labels, Calls
<1>3. Handing'
  BY <1>a DEF MutexInv, MutexTypeOK, Labels, Handing
<1>4. Waits'
  BY <1>a DEF MutexInv, MutexTypeOK, Labels, Waits
<1>5. ChainSound'
  BY <1>a, Chains
    DEF MutexInv, MutexTypeOK, Labels, ChainSound, Waits, Hands, Calls
<1>6. Hands'
  <2>1. \A n \in Mutex : owner'[n] \notin Range(waiters'[n])
    BY <1>a, Chains DEF MutexInv, MutexTypeOK, Hands, ChainSound, Waits
  <2>2. ASSUME NEW j \in Thread, pc'[j] \in {"publish", "wake"}
        PROVE  /\ waiting_mutex'[target'[j]] = arg'[j]
               /\ target'[j] \notin Range(waiters'[arg'[j]])
    <3>1. pc[j] = pc'[j] /\ arg[j] = arg'[j] /\ target[j] = target'[j]
      BY <2>2, <1>a DEF MutexInv, MutexTypeOK
    <3>2. /\ target[j] \in Thread /\ arg[j] \in Mutex
          /\ waiting_mutex[target[j]] = arg[j] /\ state_lock[arg[j]] = j
          /\ target[j] \notin Range(waiters[arg[j]])
      BY <3>1, <2>2, InHands
    <3>3. arg[j] # m /\ waiters'[arg[j]] = waiters[arg[j]]
      BY <3>2, ZenonT(30) DEF MutexInv, MutexTypeOK
    <3>4. waiting_mutex'[target[j]] = waiting_mutex[target[j]]
      BY <3>2, <3>3 DEF MutexInv, MutexTypeOK
    <3> QED BY <3>1, <3>2, <3>3, <3>4
  <2> QED BY <2>1, <2>2 DEF Hands
<1>7. Known'
  BY <1>a DEF MutexInv, MutexTypeOK, Labels, Known
<1>8. MutualExclusion'
  BY <1>a DEF MutexInv, MutexTypeOK, Labels, MutualExclusion
<1>9. FreeHasNoWaiters'
  BY <1>a DEF MutexInv, MutexTypeOK, Labels, FreeHasNoWaiters
<1>10. Undisturbed'
  BY <1>a DEF MutexInv, MutexTypeOK, Labels, Undisturbed
<1>11. OwnerAware'
  BY <1>a DEF MutexInv, MutexTypeOK, Labels, OwnerAware
<1> QED
  BY <1>1, <1>2, <1>3, <1>4, <1>5, <1>6, <1>7, <1>8, <1>9, <1>10, <1>11
    DEF MutexInv

\* mutex_lock() finds that the mutex was handed to it.
LEMMA AcceptsHandoff ==
    ASSUME MutexInv, NEW t \in Thread, NEW m \in Mutex, mutex_lock(t, m),
           AcceptHandoff(t, m)
    PROVE  MutexInv'
<1> USE MutexAssumption
    DEF mutex_lock, AcceptHandoff, At, Return, Running, Unlocked, mutexVars,
        threadVars, callVars, validation
<1>1. MutexTypeOK'
  BY DEF MutexInv, MutexTypeOK, Labels
<1>2. Calls'
  BY DEF MutexInv, MutexTypeOK, Labels, Calls
<1>3. Handing'
  BY DEF MutexInv, MutexTypeOK, Labels, Handing
<1>4. Waits'
  BY DEF MutexInv, MutexTypeOK, Labels, Waits
<1>5. ChainSound'
  BY Chains DEF MutexInv, MutexTypeOK, Labels, ChainSound, Waits, Hands, Calls
<1>6. Hands'
  BY Chains
    DEF MutexInv, MutexTypeOK, Labels, Hands, Calls, Handing, ChainSound,
        Waits
<1>7. Known'
  BY DEF MutexInv, MutexTypeOK, Labels, Known
<1>8. MutualExclusion'
  BY DEF MutexInv, MutexTypeOK, Labels, MutualExclusion
<1>9. FreeHasNoWaiters'
  BY DEF MutexInv, MutexTypeOK, Labels, FreeHasNoWaiters
<1>10. Undisturbed'
  BY DEF MutexInv, MutexTypeOK, Labels, Undisturbed
<1>11. OwnerAware'
  BY DEF MutexInv, MutexTypeOK, Labels, OwnerAware
<1> QED
  BY <1>1, <1>2, <1>3, <1>4, <1>5, <1>6, <1>7, <1>8, <1>9, <1>10, <1>11
    DEF MutexInv

\* mutex_lock() fails on a recursive lock, and for a waiter of another mutex.
LEMMA Refuses ==
    ASSUME MutexInv, NEW t \in Thread, NEW m \in Mutex, mutex_lock(t, m),
           Refuse(t, m)
    PROVE  MutexInv'
<1> USE MutexAssumption
    DEF mutex_lock, Refuse, At, Return, Running, Unlocked, mutexVars,
        threadVars, callVars, validation
<1>1. MutexTypeOK'
  BY DEF MutexInv, MutexTypeOK, Labels
<1>2. Calls'
  BY DEF MutexInv, MutexTypeOK, Labels, Calls
<1>3. Handing'
  BY DEF MutexInv, MutexTypeOK, Labels, Handing
<1>4. Waits'
  BY DEF MutexInv, MutexTypeOK, Labels, Waits
<1>5. ChainSound'
  BY DEF MutexInv, MutexTypeOK, Labels, ChainSound
<1>6. Hands'
  BY DEF MutexInv, MutexTypeOK, Labels, Hands
<1>7. Known'
  BY DEF MutexInv, MutexTypeOK, Labels, Known
<1>8. MutualExclusion'
  BY DEF MutexInv, MutexTypeOK, Labels, MutualExclusion
<1>9. FreeHasNoWaiters'
  BY DEF MutexInv, MutexTypeOK, Labels, FreeHasNoWaiters
<1>10. Undisturbed'
  BY DEF MutexInv, MutexTypeOK, Labels, Undisturbed
<1>11. OwnerAware'
  BY DEF MutexInv, MutexTypeOK, Labels, OwnerAware
<1> QED
  BY <1>1, <1>2, <1>3, <1>4, <1>5, <1>6, <1>7, <1>8, <1>9, <1>10, <1>11
    DEF MutexInv

\* mutex_lock() puts the thread on the chain.
LEMMA Registers ==
    ASSUME MutexInv, NEW t \in Thread, NEW m \in Mutex, mutex_lock(t, m),
           Register(t, m),
           waiting_mutex[t] = NoMutex
    PROVE  MutexInv'
<1> USE MutexAssumption
<1>a. /\ Append(waiters[m], t) \in Seq(Thread)
      /\ Range(Append(waiters[m], t)) = Range(waiters[m]) \cup {t}
      /\ t \notin Range(waiters[m]) => IsInjective(Append(waiters[m], t))
  <2>1. waiters[m] \in Seq(Thread) /\ IsInjective(waiters[m])
    BY DEF MutexInv, MutexTypeOK, ChainSound
  <2> QED BY <2>1, AppendRange
<1>e. PICK c \in Seq(Thread) :
        /\ waiters' = [waiters EXCEPT ![m] = c]
        /\ Range(c) = Range(waiters[m]) \cup {t}
        /\ t \notin Range(waiters[m]) => IsInjective(c)
        /\ waiting_mutex' = [waiting_mutex EXCEPT ![t] = m]
        /\ mutex_wake_pending' \in [Thread -> BOOLEAN]
        /\ pc' = [pc EXCEPT ![t] = "block"]
        /\ arg' = [arg EXCEPT ![t] = m]
        /\ target' = [target EXCEPT ![t] = NoThread]
        /\ pc[t] \in {"run", "loop"} /\ state[t] = "RUNNING"
        /\ state_lock[m] = NoThread /\ owner[m] \notin {NoThread, t}
        /\ UNCHANGED <<owner, held, state_lock, state, bringups, valid>>
  BY <1>a, ZenonT(30)
    DEF mutex_lock, Register, At, Running, Unlocked, validation, MutexInv,
        MutexTypeOK
<1>1. MutexTypeOK'
  BY <1>e DEF MutexInv, MutexTypeOK, Labels, Calls
<1>2. Calls'
  BY <1>e DEF MutexInv, MutexTypeOK, Labels, Calls
<1>3. Handing'
  BY <1>e DEF MutexInv, MutexTypeOK, Labels, Handing
<1>4. Waits'
  BY <1>e DEF MutexInv, MutexTypeOK, Labels, Waits, MutualExclusion
<1>5. ChainSound'
  BY <1>e, Chains
    DEF MutexInv, MutexTypeOK, Labels, ChainSound, Waits, Hands, Calls
<1>6. Hands'
  BY <1>e, Chains
    DEF MutexInv, MutexTypeOK, Labels, Hands, Calls, Handing, ChainSound,
        Waits
<1>7. Known'
  <2> SUFFICES ASSUME NEW u \in Thread, NEW n \in Mutex, waiting_mutex'[u] = n
               PROVE  \/ u \in Range(waiters'[n])
                      \/ owner'[n] = u
                      \/ \E j \in Thread : /\ pc'[j] \in {"publish", "wake"}
                                           /\ target'[j] = u
    BY DEF Known
  <2>1. CASE waiting_mutex[u] = n
    <3>1. \/ u \in Range(waiters[n])
          \/ owner[n] = u
          \/ \E j \in Thread : pc[j] \in {"publish", "wake"} /\ target[j] = u
      BY <2>1 DEF MutexInv, Known
    <3> QED BY <3>1, <2>1, <1>e, Chains DEF MutexInv, MutexTypeOK, Waits
  <2>2. CASE waiting_mutex[u] # n
    BY <2>2, <1>e, Chains DEF MutexInv, MutexTypeOK
  <2> QED BY <2>1, <2>2
<1>8. MutualExclusion'
  BY <1>e DEF MutexInv, MutexTypeOK, Labels, MutualExclusion
<1>9. FreeHasNoWaiters'
  BY <1>e DEF MutexInv, MutexTypeOK, Labels, Unlocked, FreeHasNoWaiters
<1>10. Undisturbed'
  BY <1>e
    DEF MutexInv, MutexTypeOK, Labels, Undisturbed, Calls, Hands, Handing
<1>11. OwnerAware'
  BY <1>e DEF MutexInv, MutexTypeOK, Labels, OwnerAware
<1> QED
  BY <1>1, <1>2, <1>3, <1>4, <1>5, <1>6, <1>7, <1>8, <1>9, <1>10, <1>11
    DEF MutexInv

\* mutex_lock() finds the thread registered and blocks again.
LEMMA WaitsAgain ==
    ASSUME MutexInv, NEW t \in Thread, NEW m \in Mutex, mutex_lock(t, m),
           Register(t, m),
           waiting_mutex[t] = m
    PROVE  MutexInv'
<1> USE MutexAssumption
    DEF mutex_lock, Register, At, Running, Unlocked, mutexVars, threadVars,
        callVars, validation
<1>1. MutexTypeOK'
  BY DEF MutexInv, MutexTypeOK, Labels
<1>2. Calls'
  BY DEF MutexInv, MutexTypeOK, Labels, Calls
<1>3. Handing'
  BY DEF MutexInv, MutexTypeOK, Labels, Handing
<1>4. Waits'
  BY DEF MutexInv, MutexTypeOK, Labels, Waits
<1>5. ChainSound'
  BY DEF MutexInv, MutexTypeOK, Labels, ChainSound
<1>6. Hands'
  BY Chains
    DEF MutexInv, MutexTypeOK, Labels, Hands, Calls, Handing, ChainSound,
        Waits
<1>7. Known'
  BY DEF MutexInv, MutexTypeOK, Labels, Known
<1>8. MutualExclusion'
  BY DEF MutexInv, MutexTypeOK, Labels, MutualExclusion
<1>9. FreeHasNoWaiters'
  BY DEF MutexInv, MutexTypeOK, Labels, FreeHasNoWaiters
<1>10. Undisturbed'
  BY DEF MutexInv, MutexTypeOK, Labels, Undisturbed, Calls, Hands, Handing
<1>11. OwnerAware'
  BY DEF MutexInv, MutexTypeOK, Labels, OwnerAware
<1> QED
  BY <1>1, <1>2, <1>3, <1>4, <1>5, <1>6, <1>7, <1>8, <1>9, <1>10, <1>11
    DEF MutexInv

\* mutex_unlock() clears the owner and starts the handoff.
LEMMA Unlocks ==
    ASSUME MutexInv, NEW t \in Thread, NEW m \in Mutex, mutex_unlock(t, m)
    PROVE  MutexInv'
<1> USE MutexAssumption
    DEF mutex_unlock, At, Running, Unlocked, mutexVars, threadVars, callVars,
        validation
<1>1. MutexTypeOK'
  BY DEF MutexInv, MutexTypeOK, Labels
<1>2. Calls'
  BY DEF MutexInv, MutexTypeOK, Labels, Calls
<1>3. Handing'
  BY DEF MutexInv, MutexTypeOK, Labels, Handing
<1>4. Waits'
  BY DEF MutexInv, MutexTypeOK, Labels, Waits
<1>5. ChainSound'
  BY DEF MutexInv, MutexTypeOK, Labels, ChainSound
<1>6. Hands'
  <2>1. \A n \in Mutex : owner'[n] \notin Range(waiters'[n])
    BY Chains DEF MutexInv, MutexTypeOK, Hands, ChainSound, Waits
  <2>2. ASSUME NEW j \in Thread, pc'[j] \in {"publish", "wake"}
        PROVE  /\ waiting_mutex'[target'[j]] = arg'[j]
               /\ target'[j] \notin Range(waiters'[arg'[j]])
    <3>1. pc[j] = pc'[j] /\ arg[j] = arg'[j] /\ target[j] = target'[j]
      BY <2>2 DEF MutexInv, MutexTypeOK
    <3>2. /\ target[j] \in Thread /\ arg[j] \in Mutex
          /\ waiting_mutex[target[j]] = arg[j] /\ state_lock[arg[j]] = j
          /\ target[j] \notin Range(waiters[arg[j]])
      BY <3>1, <2>2, InHands
    <3> QED BY <3>1, <3>2, Chains DEF MutexInv, MutexTypeOK
  <2> QED BY <2>1, <2>2 DEF Hands
<1>7. Known'
  <2> SUFFICES ASSUME NEW u \in Thread, NEW n \in Mutex, waiting_mutex'[u] = n
               PROVE  \/ u \in Range(waiters'[n])
                      \/ owner'[n] = u
                      \/ \E j \in Thread : /\ pc'[j] \in {"publish", "wake"}
                                           /\ target'[j] = u
    BY DEF Known
  <2>1. CASE waiting_mutex[u] = n
    <3>1. \/ u \in Range(waiters[n])
          \/ owner[n] = u
          \/ \E j \in Thread : pc[j] \in {"publish", "wake"} /\ target[j] = u
      BY <2>1 DEF MutexInv, Known
    <3> QED BY <3>1, <2>1, Chains DEF MutexInv, MutexTypeOK, Waits
  <2>2. CASE waiting_mutex[u] # n
    BY <2>2, Chains DEF MutexInv, MutexTypeOK
  <2> QED BY <2>1, <2>2
<1>8. MutualExclusion'
  BY DEF MutexInv, MutexTypeOK, Labels, MutualExclusion
<1>9. FreeHasNoWaiters'
  BY DEF MutexInv, MutexTypeOK, Labels, FreeHasNoWaiters
<1>10. Undisturbed'
  BY DEF MutexInv, MutexTypeOK, Labels, Undisturbed, Calls, Hands, Handing
<1>11. OwnerAware'
  BY DEF MutexInv, MutexTypeOK, Labels, OwnerAware
<1> QED
  BY <1>1, <1>2, <1>3, <1>4, <1>5, <1>6, <1>7, <1>8, <1>9, <1>10, <1>11
    DEF MutexInv

\* scheduler_block() takes a pending wakeup.
LEMMA BlockConsumesKeeps ==
    ASSUME MutexInv, NEW t \in Thread, BlockConsumes(t)
    PROVE  MutexInv'
<1> USE MutexAssumption
    DEF BlockConsumes, At, Goto, Return, Running, Unlocked, SchedulerUnlocked,
        mutexVars, threadVars, callVars, validation
<1>1. MutexTypeOK'
  BY DEF MutexInv, MutexTypeOK, Labels
<1>2. Calls'
  BY DEF MutexInv, MutexTypeOK, Labels, Calls
<1>3. Handing'
  BY DEF MutexInv, MutexTypeOK, Labels, Handing
<1>4. Waits'
  BY DEF MutexInv, MutexTypeOK, Labels, Waits
<1>5. ChainSound'
  BY DEF MutexInv, MutexTypeOK, Labels, ChainSound
<1>6. Hands'
  BY DEF MutexInv, MutexTypeOK, Labels, Hands
<1>7. Known'
  BY DEF MutexInv, MutexTypeOK, Labels, Known
<1>8. MutualExclusion'
  BY DEF MutexInv, MutexTypeOK, Labels, MutualExclusion
<1>9. FreeHasNoWaiters'
  BY DEF MutexInv, MutexTypeOK, Labels, FreeHasNoWaiters
<1>10. Undisturbed'
  BY DEF MutexInv, MutexTypeOK, Labels, Undisturbed
<1>11. OwnerAware'
  BY DEF MutexInv, MutexTypeOK, Labels, OwnerAware
<1> QED
  BY <1>1, <1>2, <1>3, <1>4, <1>5, <1>6, <1>7, <1>8, <1>9, <1>10, <1>11
    DEF MutexInv

\* scheduler_block() makes the thread BLOCKED.
LEMMA BlockSleepsKeeps ==
    ASSUME MutexInv, NEW t \in Thread, BlockSleeps(t)
    PROVE  MutexInv'
<1> USE MutexAssumption
    DEF BlockSleeps, At, Goto, Return, Running, Unlocked, SchedulerUnlocked,
        mutexVars, threadVars, callVars, validation
<1>1. MutexTypeOK'
  BY DEF MutexInv, MutexTypeOK, Labels
<1>2. Calls'
  BY DEF MutexInv, MutexTypeOK, Labels, Calls
<1>3. Handing'
  BY DEF MutexInv, MutexTypeOK, Labels, Handing
<1>4. Waits'
  BY DEF MutexInv, MutexTypeOK, Labels, Waits
<1>5. ChainSound'
  BY DEF MutexInv, MutexTypeOK, Labels, ChainSound
<1>6. Hands'
  BY DEF MutexInv, MutexTypeOK, Labels, Hands
<1>7. Known'
  BY DEF MutexInv, MutexTypeOK, Labels, Known
<1>8. MutualExclusion'
  BY DEF MutexInv, MutexTypeOK, Labels, MutualExclusion
<1>9. FreeHasNoWaiters'
  BY DEF MutexInv, MutexTypeOK, Labels, FreeHasNoWaiters
<1>10. Undisturbed'
  BY DEF MutexInv, MutexTypeOK, Labels, Undisturbed
<1>11. OwnerAware'
  BY DEF MutexInv, MutexTypeOK, Labels, OwnerAware
<1> QED
  BY <1>1, <1>2, <1>3, <1>4, <1>5, <1>6, <1>7, <1>8, <1>9, <1>10, <1>11
    DEF MutexInv

\* scheduler_block() fails validation and makes the thread RUNNING again.
LEMMA BlockUndoneKeeps ==
    ASSUME MutexInv, NEW t \in Thread, BlockUndone(t)
    PROVE  MutexInv'
<1> USE MutexAssumption
    DEF BlockUndone, At, Goto, Return, Running, Unlocked, SchedulerUnlocked,
        mutexVars, threadVars, callVars, validation
<1>1. MutexTypeOK'
  BY DEF MutexInv, MutexTypeOK, Labels
<1>2. Calls'
  BY DEF MutexInv, MutexTypeOK, Labels, Calls
<1>3. Handing'
  BY DEF MutexInv, MutexTypeOK, Labels, Handing
<1>4. Waits'
  BY DEF MutexInv, MutexTypeOK, Labels, Waits
<1>5. ChainSound'
  BY DEF MutexInv, MutexTypeOK, Labels, ChainSound
<1>6. Hands'
  BY DEF MutexInv, MutexTypeOK, Labels, Hands
<1>7. Known'
  BY DEF MutexInv, MutexTypeOK, Labels, Known
<1>8. MutualExclusion'
  BY DEF MutexInv, MutexTypeOK, Labels, MutualExclusion
<1>9. FreeHasNoWaiters'
  BY DEF MutexInv, MutexTypeOK, Labels, FreeHasNoWaiters
<1>10. Undisturbed'
  BY DEF MutexInv, MutexTypeOK, Labels, Undisturbed
<1>11. OwnerAware'
  BY DEF MutexInv, MutexTypeOK, Labels, OwnerAware
<1> QED
  BY <1>1, <1>2, <1>3, <1>4, <1>5, <1>6, <1>7, <1>8, <1>9, <1>10, <1>11
    DEF MutexInv

\* scheduler_block() returns after a wakeup.
LEMMA BlockReturnsKeeps ==
    ASSUME MutexInv, NEW t \in Thread, BlockReturns(t)
    PROVE  MutexInv'
<1> USE MutexAssumption
    DEF BlockReturns, At, Goto, Return, Running, Unlocked, SchedulerUnlocked,
        mutexVars, threadVars, callVars, validation
<1>1. MutexTypeOK'
  BY DEF MutexInv, MutexTypeOK, Labels
<1>2. Calls'
  BY DEF MutexInv, MutexTypeOK, Labels, Calls
<1>3. Handing'
  BY DEF MutexInv, MutexTypeOK, Labels, Handing
<1>4. Waits'
  BY DEF MutexInv, MutexTypeOK, Labels, Waits
<1>5. ChainSound'
  BY DEF MutexInv, MutexTypeOK, Labels, ChainSound
<1>6. Hands'
  BY DEF MutexInv, MutexTypeOK, Labels, Hands
<1>7. Known'
  BY DEF MutexInv, MutexTypeOK, Labels, Known
<1>8. MutualExclusion'
  BY DEF MutexInv, MutexTypeOK, Labels, MutualExclusion
<1>9. FreeHasNoWaiters'
  BY DEF MutexInv, MutexTypeOK, Labels, FreeHasNoWaiters
<1>10. Undisturbed'
  BY DEF MutexInv, MutexTypeOK, Labels, Undisturbed
<1>11. OwnerAware'
  BY DEF MutexInv, MutexTypeOK, Labels, OwnerAware
<1> QED
  BY <1>1, <1>2, <1>3, <1>4, <1>5, <1>6, <1>7, <1>8, <1>9, <1>10, <1>11
    DEF MutexInv

\* mutex_lock() leaves the chain after scheduler_block() failed.
LEMMA GivesUp ==
    ASSUME MutexInv, NEW t \in Thread, LockGivesUp(t)
    PROVE  MutexInv'
<1> USE MutexAssumption
<1> DEFINE m == arg[t]
<1>m. m \in Mutex /\ waiters[m] \in Seq(Thread) /\ IsInjective(waiters[m])
  BY ZenonT(30) DEF MutexInv, MutexTypeOK, Calls, ChainSound, LockGivesUp
<1>a. /\ Without(waiters[m], t) \in Seq(Thread)
      /\ Range(Without(waiters[m], t)) = Range(waiters[m]) \ {t}
      /\ IsInjective(Without(waiters[m], t))
      /\ waiters[m] = <<>> => Without(waiters[m], t) = <<>>
  BY <1>m, WithoutRange
<1>e. PICK c \in Seq(Thread) :
        /\ waiters' = [waiters EXCEPT ![m] = c]
        /\ Range(c) = Range(waiters[m]) \ {t} /\ IsInjective(c)
        /\ waiters[m] = <<>> => c = <<>>
        /\ waiting_mutex' = [waiting_mutex EXCEPT ![t] =
                IF waiting_mutex[t] = m THEN NoMutex ELSE waiting_mutex[t]]
        /\ mutex_wake_pending' \in [Thread -> BOOLEAN]
        /\ pc' = [pc EXCEPT ![t] = "run"]
        /\ arg' = [arg EXCEPT ![t] = NoMutex]
        /\ target' = [target EXCEPT ![t] = NoThread]
        /\ pc[t] = "failed" /\ state_lock[m] = NoThread
        /\ UNCHANGED <<owner, held, state_lock, state, bringups, valid>>
  BY <1>m, <1>a, ZenonT(30)
    DEF LockGivesUp, Unlink, MutexInv, MutexTypeOK, At, Goto, Return, Running,
        Unlocked, SchedulerUnlocked, mutexVars, threadVars, callVars,
        validation
<1>1. MutexTypeOK'
  BY <1>e, <1>m DEF MutexInv, MutexTypeOK, Labels
<1>2. Calls'
  BY <1>e, <1>m DEF MutexInv, MutexTypeOK, Labels, Calls
<1>3. Handing'
  BY <1>e, <1>m DEF MutexInv, MutexTypeOK, Labels, Handing
<1>4. Waits'
  BY <1>e, <1>m DEF MutexInv, MutexTypeOK, Labels, Waits
<1>5. ChainSound'
  BY <1>e, <1>m DEF MutexInv, MutexTypeOK, Labels, ChainSound
<1>6. Hands'
  <2>1. \A n \in Mutex : owner'[n] \notin Range(waiters'[n])
    BY <1>e, <1>m, Chains DEF MutexInv, MutexTypeOK, Hands, ChainSound, Waits
  <2>2. ASSUME NEW j \in Thread, pc'[j] \in {"publish", "wake"}
        PROVE  /\ waiting_mutex'[target'[j]] = arg'[j]
               /\ target'[j] \notin Range(waiters'[arg'[j]])
    <3>1. pc[j] = pc'[j] /\ arg[j] = arg'[j] /\ target[j] = target'[j]
      BY <2>2, <1>e, <1>m DEF MutexInv, MutexTypeOK
    <3>2. /\ target[j] \in Thread /\ arg[j] \in Mutex
          /\ waiting_mutex[target[j]] = arg[j] /\ state_lock[arg[j]] = j
          /\ target[j] \notin Range(waiters[arg[j]])
      BY <3>1, <2>2, InHands
    <3> QED BY <3>1, <3>2, <1>e, <1>m, Chains DEF MutexInv, MutexTypeOK
  <2> QED BY <2>1, <2>2 DEF Hands
<1>7. Known'
  BY <1>e, <1>m, Chains
    DEF MutexInv, MutexTypeOK, Labels, Known, Calls, Waits, Hands
<1>8. MutualExclusion'
  BY <1>e, <1>m DEF MutexInv, MutexTypeOK, Labels, MutualExclusion
<1>9. FreeHasNoWaiters'
  BY <1>e, <1>m
    DEF MutexInv, MutexTypeOK, Labels, Unlocked, FreeHasNoWaiters, Calls,
        Handing
<1>10. Undisturbed'
  BY <1>e, <1>m DEF MutexInv, MutexTypeOK, Labels, Undisturbed
<1>11. OwnerAware'
  BY <1>e, <1>m
    DEF MutexInv, MutexTypeOK, Labels, OwnerAware, Calls, Hands, Undisturbed,
        Waits
<1> QED
  BY <1>1, <1>2, <1>3, <1>4, <1>5, <1>6, <1>7, <1>8, <1>9, <1>10, <1>11
    DEF MutexInv
=============================================================================
