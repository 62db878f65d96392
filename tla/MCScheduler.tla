---------------------------- MODULE MCScheduler ----------------------------
(* Small instances of Scheduler: one or two CPUs, c0 being the BSP. *)
EXTENDS Scheduler, TLC

CONSTANTS c0, c1, i0, i1, boot, Slice

MCIdle == [c \in CPU |-> IF c = c0 THEN i0 ELSE i1]
MCSlices == [p \in Priority |-> Slice]

\* For the liveness run: workers are created
\* runnable and stay alive, and the bootstrap thread does not block.
ThreadsStay ==
    /\ state'[bootstrap_thread] # "BLOCKED"
    /\ \A t \in Thread :
         /\ state'[t] \notin {"TERMINATED", "FREED"}
         /\ state[t] = "UNUSED" /\ state'[t] = "READY" => queued'[t]

\* Workers differ in nothing but their names.
WorkerSymmetry == Permutations(Worker)
=============================================================================
