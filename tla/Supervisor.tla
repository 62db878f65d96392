----------------------------- MODULE Supervisor -----------------------------
(***************************************************************************)
(* Sprout (userspace/sprout/main.c), the service supervisor, over the      *)
(* processes of module Process.                                            *)
(*                                                                         *)
(* runtime[r] is the service_runtime_t of service r.  A restart deadline   *)
(* is "none", "pending" or, once the delay has passed, "due"; backoff is   *)
(* the delay schedule_restart() chose.  asked is the control request in    *)
(* progress: Sprout handles one request at a time and, while it stops a    *)
(* service, does nothing but poll it.                                      *)
(***************************************************************************)
EXTENDS Process, Sequences

CONSTANTS
    Table,         \* the order of service_definitions[]
    Essential,     \* services that may not be stopped or restarted
    FailureLimit   \* SERVICE_FAILURE_LIMIT

SupervisorAssumption ==
    /\ Table \in Seq(Role) /\ {Table[i] : i \in DOMAIN Table} = Role
    /\ Essential \subseteq Role /\ FailureLimit \in Nat \ {0}

VARIABLES runtime, starting

sproutVars == <<runtime, starting, procVars>>
NoRole == "none"

\* A mutant: the failure count is not reset after the long delay.
CountsOn(rt) ==
    IF rt.wanted # "RUNNING" THEN rt
    ELSE [rt EXCEPT !.failures = @ + 1, !.deadline = "pending"]
schedule_restart(rt) ==
    IF rt.wanted # "RUNNING" THEN rt
    ELSE LET n == rt.failures + 1
         IN [rt EXCEPT !.failures = IF n >= FailureLimit THEN 0 ELSE n,
                       !.deadline = "pending"]

Failed(rt) == schedule_restart([rt EXCEPT !.state = "FAILED"])
Set(r, rt) == runtime' = [runtime EXCEPT ![r] = rt]

Booted == \A r \in Role : runtime[r].booted
\* The main loop, not waiting for a service to stop or for an image to load.
Idle == /\ starting = NoRole /\ Booted
        /\ \A r \in Role : runtime[r].state # "STOPPING"

SproutInit ==
    /\ ProcInit
    /\ starting = NoRole
    /\ runtime = [r \in Role |-> [state |-> "STOPPED", wanted |-> "RUNNING",
                    process |-> NoProc, failures |-> 0, deadline |-> "none",
                    after_stop |-> FALSE, booted |-> FALSE]]

(* start_runtime(): service_start() sleeps while the image is loaded.      *)
start_runtime(r, rt) ==
    \E c \in Proc :
        /\ Set(r, [rt EXCEPT !.wanted = "RUNNING", !.state = "STARTING",
                             !.booted = TRUE])
        /\ starting' = r
        /\ process_spawn_service(c, r)

\* The first loop of main().
boot_start ==
    \E i \in DOMAIN Table :
        /\ starting = NoRole /\ ~runtime[Table[i]].booted
        /\ \A j \in 1..i-1 : runtime[Table[j]].booted
        /\ start_runtime(Table[i], runtime[Table[i]])

\* A mutant: the result of service_start() is not looked at.
StartedAnyway(rt, c) == [rt EXCEPT !.process = c, !.state = "RUNNING", !.deadline = "none"]
Started(rt, c) ==
    IF c \in pt'[Sprout].handles
    THEN [rt EXCEPT !.process = c, !.state = "RUNNING", !.deadline = "none"]
    ELSE Failed(rt)

service_started(loaded) ==
    /\ starting # NoRole
    /\ process_spawn_loaded(Sprout, loaded)
    /\ Set(starting, Started(runtime[starting], call[Sprout].arg))
    /\ starting' = NoRole

\* uptime_ms() reaches a restart deadline.
deadline_passes(r) ==
    /\ runtime[r].deadline = "pending"
    /\ Set(r, [runtime[r] EXCEPT !.deadline = "due"])
    /\ UNCHANGED <<starting, procVars>>

(* finish_runtime(): process_wait() collects the child, which process_poll *)
(* found to have ended, and its handle is closed.                          *)
finish_runtime(r) ==
    LET rt == [runtime[r] EXCEPT !.process = NoProc, !.after_stop = FALSE]
        c  == runtime[r].process
        T  == process_handle_close_effect(Collect(pt, c), Sprout, c)
    IN IF runtime[r].after_stop
       THEN \E d \in Proc :
              /\ T[d].state = "free" /\ next_pid <= MaxPid
              /\ pt' = Created(T, Sprout, d, r, NoSession)
              /\ next_pid' = next_pid + 1
              /\ call' = [call EXCEPT ![Sprout] = [at |-> "load", arg |-> d],
                                      ![d] = [at |-> "user", arg |-> NoProc]]
              /\ Set(r, [rt EXCEPT !.wanted = "RUNNING", !.state = "STARTING"])
              /\ starting' = r
              /\ UNCHANGED <<session_records, next_session_id>>
       ELSE /\ pt' = T
            /\ Set(r, IF rt.wanted = "STOPPED"
                      THEN [rt EXCEPT !.state = "STOPPED", !.deadline = "none"]
                      ELSE Failed(rt))
            /\ UNCHANGED <<starting, next_pid, call, session_records, next_session_id>>

poll_runtime(r) ==
    /\ starting = NoRole /\ Booted /\ CanCall(Sprout)
    /\ runtime[r].state \in {"RUNNING", "STOPPING"}
    /\ process_poll(Sprout, runtime[r].process) = "OK"
    /\ finish_runtime(r)

\* The second half of service_tick().
restart_due(r) ==
    /\ Idle /\ runtime[r].state = "FAILED" /\ runtime[r].wanted = "RUNNING"
    /\ runtime[r].deadline = "due"
    /\ start_runtime(r, runtime[r])

-----------------------------------------------------------------------------
(* handle_control(): start, stop and restart requests that were authorized *)
\* A mutant: a service that runs is started again.
StartAgain(r) ==
    /\ Idle /\ CanCall(Sprout)
    /\ start_runtime(r, [runtime[r] EXCEPT !.failures = 0, !.deadline = "none"])
request_start(r) ==
    /\ Idle /\ CanCall(Sprout)
    /\ runtime[r].state \notin {"RUNNING", "STARTING"}
    /\ start_runtime(r, [runtime[r] EXCEPT !.failures = 0, !.deadline = "none"])

\* process_terminate() of a running service; rt is its runtime by then.
terminate_running(r, rt, running) ==
    IF CanTerminate(Sprout, rt.process, running)
    THEN /\ process_terminate_child(Sprout, rt.process, running)
         /\ Set(r, [rt EXCEPT !.state = "STOPPING"])
    ELSE /\ Set(r, [rt EXCEPT !.state = "FAILED", !.after_stop = FALSE])
         /\ UNCHANGED procVars

stop_runtime(r, running) ==
    LET rt == [runtime[r] EXCEPT !.wanted = "STOPPED", !.deadline = "none"]
    IN /\ Idle /\ CanCall(Sprout) /\ r \notin Essential /\ rt.state # "STOPPED"
       /\ IF rt.state = "FAILED"
          THEN Set(r, [rt EXCEPT !.state = "STOPPED"]) /\ UNCHANGED procVars
          ELSE terminate_running(r, rt, running)
       /\ UNCHANGED starting

restart_runtime(r, running) ==
    LET rt == [runtime[r] EXCEPT !.failures = 0, !.deadline = "none"]
    IN /\ Idle /\ CanCall(Sprout) /\ r \notin Essential
       /\ IF rt.state # "RUNNING"
          THEN start_runtime(r, rt)
          ELSE /\ terminate_running(r, [rt EXCEPT !.wanted = "RUNNING",
                                                  !.after_stop = TRUE], running)
               /\ UNCHANGED starting

SproutNext ==
    \/ boot_start
    \/ \E loaded \in BOOLEAN : service_started(loaded)
    \/ \E r \in Role : deadline_passes(r)
    \/ \E r \in Role : poll_runtime(r)
    \/ \E r \in Role : restart_due(r)
    \/ \E r \in Role : request_start(r)
    \/ \E r \in Role : \E R \in RunningSets(Sprout) : stop_runtime(r, R)
    \/ \E r \in Role : \E R \in RunningSets(Sprout) : restart_runtime(r, R)
    \/ ProcNext /\ UNCHANGED <<runtime, starting>>

-----------------------------------------------------------------------------
SproutTypeOK ==
    /\ ProcTypeOK
    /\ starting \in Role \cup {NoRole}
    /\ \A r \in Role :
         /\ runtime[r].state \in {"STOPPED", "STARTING", "RUNNING", "STOPPING", "FAILED"}
         /\ runtime[r].wanted \in {"RUNNING", "STOPPED"}
         /\ runtime[r].failures \in 0..FailureLimit-1
         /\ runtime[r].deadline \in {"none", "pending", "due"}

(* Sprout's view of its services is backed by the process table: a service *)
(* it calls running or stopping is a child it still holds a handle to, so  *)
(* the exit is noticed.                                                    *)
RuntimeBacked ==
    \A r \in Role : runtime[r].state \in {"RUNNING", "STOPPING"} =>
        LET c == runtime[r].process
        IN /\ c \in pt[Sprout].handles \cap pt[Sprout].kids
           /\ pt[c].role = r
=============================================================================
