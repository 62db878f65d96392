-------------------------------- MODULE Ipc --------------------------------
(***************************************************************************)
(* Named endpoints, synchronous requests and kernel events                 *)
(* (kernel/src/ipc.c), with the parts of process.c that end a process.     *)
(*                                                                         *)
(* A critical section of ipc_lock is one action.  A call into the kernel   *)
(* that takes the lock several times is several actions of its process,    *)
(* which meanwhile holds one of CpuCount processors: the kernel is not     *)
(* preempted inside a system call, so on one processor another process     *)
(* only gets in when the caller sleeps.  A process has one thread.         *)
(*                                                                         *)
(* Payloads, request numbers and credentials are left out: a request is    *)
(* its slot of request_pool.  Events carry no data and there is one event  *)
(* class.  A process that registers owns the endpoint of its own name, so  *)
(* an endpoint is named by its owner; a restarted service is another       *)
(* process, with the same Name.  No process sends requests to itself.      *)
(***************************************************************************)
EXTENDS Naturals, FiniteSets, Sequences, ThreadLists

CONSTANTS
    Process,     \* process_t objects
    Service,     \* those that may own an endpoint (system_service)
    Client,      \* those that send requests
    Name,        \* the endpoint name service.c gives to each service
    Slot,        \* indices of request_pool
    Depth,       \* IPC_MAX_QUEUE_DEPTH
    MaxEndpoints,    \* IPC_MAX_ENDPOINTS
    HandleCapacity,  \* handle_capacity of a process
    CpuCount,
    Event,       \* a queued kernel event
    Transients,  \* whether scheduler calls fail or return early for a while,
                 \* as they may while a processor comes online
    HeapSleeps,  \* whether kmalloc() may wait for another thread's heap growth
    None         \* a NULL pointer

ASSUME IpcAssumption ==
    /\ Service \subseteq Process /\ Client \subseteq Process
    /\ IsFiniteSet(Process)
    /\ None \notin Process /\ Slot \subseteq Nat /\ IsFiniteSet(Slot)
    /\ None \notin Slot /\ Event \notin Slot
    /\ Depth \in Nat \ {0} /\ MaxEndpoints \in Nat /\ HandleCapacity \in Nat
    /\ CpuCount \in Nat \ {0} /\ Transients \in BOOLEAN
    /\ HeapSleeps \in BOOLEAN

VARIABLES
    ep,           \* ipc_endpoint_t, by owner
    req,          \* request_pool
    outstanding,  \* process->ipc_outstanding
    handles,      \* the endpoints a process has handles to
    contexts,     \* how many request contexts on a slot a process has
    pc, slot, mode   \* where a process is in the kernel, and its locals

vars == <<ep, req, outstanding, handles, contexts, pc, slot, mode>>

Free == [state |-> "FREE", endpoint |-> None, client |-> None,
         active |-> FALSE, blocked |-> FALSE, thread |-> FALSE,
         context |-> FALSE, claimed |-> FALSE]
Fresh == [state |-> "none", queue |-> <<>>, overflow |-> FALSE,
          subscribed |-> FALSE, waiter |-> FALSE]

Live(e) == ep[e].state = "live"
Open(q) == q.state \in {"PENDING", "DELIVERED"}

-----------------------------------------------------------------------------
(* Processors and threads, as far as ipc.c can tell.                       *)

Off == {"user", "blocked", "woken", "rblocked", "rwoken", "heap", "dead"}
InKernel == {p \in Process : pc[p] \notin Off}
Masked == {p \in Process : pc[p] \in {"blocking", "rblocking"}}

\* p already has a processor, or gets one.
OnCpu(p) == p \in InKernel \/ Cardinality(InKernel) < CpuCount

Asleep(p) == pc[p] \in {"blocked", "rblocked", "heap"}

\* The sets of threads that scheduler_unblock() wakes when it is called for
\* each process of P.  One in user mode may sleep in another subsystem.
Wakes(P) == {W \in SUBSET P :
               /\ \A p \in W : Asleep(p) \/ pc[p] = "user"
               /\ ~Transients => {p \in P : Asleep(p)} \subseteq W}
Awoken(W) == [p \in Process |->
                CASE p \in W /\ pc[p] = "blocked"  -> "woken"
                  [] p \in W /\ pc[p] = "rblocked" -> "rwoken"
                  [] OTHER -> pc[p]]

Goto(p, label) == pc' = [pc EXCEPT ![p] = label]
\* p goes on at a label while the processes in W wake.
GotoWaking(p, label, W) == pc' = [Awoken(W) EXCEPT ![p] = label]
Leave(p) == /\ slot' = [slot EXCEPT ![p] = None]
            /\ mode' = [mode EXCEPT ![p] = "wait"]

-----------------------------------------------------------------------------
(* Operations on a request record.  W is the set of threads that wake.     *)

\* A mutant: a slot is freed under a live context.
FreeUnderContext(q) == IF q.active THEN q ELSE Free
request_maybe_free(q) == IF q.active \/ q.context THEN q ELSE Free

request_wake_client(q, W) ==
    IF /\ q.active /\ q.blocked /\ q.thread
       /\ Asleep(q.client) => q.client \in W
    THEN [q EXCEPT !.blocked = FALSE, !.thread = FALSE]
    ELSE q

\* A mutant: a replied request fails too.
FailAnswered(q, W) ==
    IF q.state \notin {"FREE", "FAILED"}
    THEN request_maybe_free(request_wake_client([q EXCEPT !.state = "FAILED"], W))
    ELSE q
request_fail(q, W) ==
    IF Open(q)
    THEN request_maybe_free(request_wake_client([q EXCEPT !.state = "FAILED"], W))
    ELSE q

request_context_destroy(q, W) ==
    LET detached == [q EXCEPT !.context = FALSE]
    IN  CASE q.state = "FREE" -> q
          [] Open(q) -> request_maybe_free(request_fail(detached, W))
          [] OTHER -> request_maybe_free(detached)

\* The client lets go of its request.
ClientDone(q) == [q EXCEPT !.active = FALSE, !.blocked = FALSE,
                           !.thread = FALSE, !.client = None]

\* The first free slot, or none.
request_allocate_locked ==
    LET free == {s \in Slot : req[s].state = "FREE"}
    IN  IF free = {} THEN None ELSE CHOOSE s \in free : \A t \in free : s <= t

\* A mutant: only clients whose request nobody has received yet are woken.
WaitingPending(S) == {req[s].client : s \in {t \in S : /\ req[t].state = "PENDING"
                                                       /\ req[t].active
                                                       /\ req[t].blocked
                                                       /\ req[t].thread}}
\* Whose thread request_wake_client() would unblock.
Waiting(S) == {req[s].client : s \in {t \in S : /\ Open(req[t])
                                                /\ req[t].active
                                                /\ req[t].blocked
                                                /\ req[t].thread}}

\* The slots endpoint_unregister_locked(e) fails.
SlotsOf(e) == {s \in Slot : req[s].state # "FREE" /\ req[s].endpoint = e}
\* Mutants: the requests are not failed, or keep their endpoint.
UnregisteredOpen(q, W) == [q EXCEPT !.endpoint = None]
UnregisteredStale(q, W) == request_fail(q, W)
Unregistered(q, W) == request_fail([q EXCEPT !.endpoint = None], W)

\* A mutant: the entry stays in the queue.
RemoveNothing(queue, s) == queue
\* The queue without the entry of s, if there is one.
endpoint_remove_request(queue, s) == Without(queue, s)

\* endpoint_enqueue_request() and endpoint_enqueue_event() have room.  The
\* mutant writes one entry too many.
HasRoomOneMore(e) == Len(ep[e].queue) <= Depth
HasRoom(e) == Len(ep[e].queue) < Depth

\* Entries of an endpoint's queue after endpoint_discard_events().
Discarded(e) == Filter(ep[e].queue, Slot)

\* The handle table of p has room for one more.  It also holds handles of
\* other kinds, so that it can be full before these fill it.
HandleRoom(p) ==
    LET Count[S \in SUBSET Slot] ==
          IF S = {} THEN 0
          ELSE LET s == CHOOSE s \in S : TRUE
               IN  contexts[p][s] + Count[S \ {s}]
    IN  Cardinality(handles[p]) + Count[Slot] < HandleCapacity

-----------------------------------------------------------------------------
(* Registration and lookup.                                                *)

\* ipc_service_register() up to the end of its critical section.
ipc_service_register(p) ==
    /\ pc[p] = "user" /\ OnCpu(p) /\ p \in Service
    /\ ep[p].state = "none"
    /\ \A e \in Service : Live(e) => Name[e] # Name[p]
    /\ Cardinality({e \in Service : Live(e)}) < MaxEndpoints
    /\ ep' = [ep EXCEPT ![p].state = "live"]
    /\ Goto(p, "register")
    /\ UNCHANGED <<req, outstanding, handles, contexts, slot, mode>>

\* Its second half: install the owner's handle, or unregister.
RegisterInstall(p) ==
    /\ pc[p] = "register"
    /\ \/ /\ HandleRoom(p)
          /\ handles' = [handles EXCEPT ![p] = @ \cup {p}]
          /\ Goto(p, "user")
          /\ UNCHANGED <<ep, req>>
       \/ \E W \in Wakes(Waiting(SlotsOf(p))) :
          /\ ep' = [ep EXCEPT ![p].state = "dead", ![p].waiter = FALSE]
          /\ req' = [s \in Slot |-> IF s \in SlotsOf(p)
                                    THEN Unregistered(req[s], W) ELSE req[s]]
          /\ GotoWaking(p, "user", W)
          /\ UNCHANGED handles
    /\ UNCHANGED <<outstanding, contexts, slot, mode>>

ipc_service_lookup(p, e) ==
    /\ pc[p] = "user" /\ OnCpu(p) /\ Live(e)
    /\ p \in Client /\ p # e /\ e \notin handles[p] /\ HandleRoom(p)
    /\ handles' = [handles EXCEPT ![p] = @ \cup {e}]
    /\ UNCHANGED <<ep, req, outstanding, contexts, pc, slot, mode>>

\* The object of a closed endpoint handle lives on in the registry.
CloseEndpoint(p, e) ==
    /\ pc[p] = "user" /\ OnCpu(p) /\ e \in handles[p]
    /\ handles' = [handles EXCEPT ![p] = @ \ {e}]
    /\ UNCHANGED <<ep, req, outstanding, contexts, pc, slot, mode>>

-----------------------------------------------------------------------------
(* ipc_kernel_request()                                                    *)

\* Allocate a slot, queue it and wake the receiver.
ipc_kernel_request(p, e) ==
    /\ pc[p] = "user" /\ OnCpu(p) /\ e \in handles[p] /\ e # p
    /\ outstanding[p] = None /\ Live(e) /\ HasRoom(e)
    /\ \E s \in Slot, W \in Wakes(IF ep[e].waiter THEN {e} ELSE {}) :
       /\ s = request_allocate_locked
       /\ req' = [req EXCEPT ![s] =
                    [Free EXCEPT !.state = "PENDING", !.endpoint = e,
                       !.client = p, !.active = TRUE, !.thread = TRUE]]
       /\ outstanding' = [outstanding EXCEPT ![p] = s]
       /\ slot' = [slot EXCEPT ![p] = s]
       /\ ep' = [ep EXCEPT ![e].queue = Append(@, s),
                           ![e].waiter = @ /\ e \notin W]
       /\ GotoWaking(p, "check", W)
    /\ UNCHANGED <<handles, contexts, mode>>

\* An answered request: take the answer and let go of the slot.
RequestReturns(p) ==
    /\ pc[p] \in {"check", "woken"} /\ OnCpu(p) /\ ~Open(req[slot[p]])
    /\ req' = [req EXCEPT ![slot[p]] = request_maybe_free(ClientDone(@))]
    /\ outstanding' = [outstanding EXCEPT ![p] = IF @ = slot[p] THEN None ELSE @]
    /\ Goto(p, "user") /\ Leave(p)
    /\ UNCHANGED <<ep, handles, contexts>>

\* Still open: mark the client blocked and drop ipc_lock, interrupts masked.
RequestWaits(p) ==
    /\ pc[p] \in {"check", "woken"} /\ OnCpu(p) /\ Open(req[slot[p]])
    /\ req' = [req EXCEPT ![slot[p]].blocked = TRUE]
    /\ Goto(p, "blocking")
    /\ UNCHANGED <<ep, outstanding, handles, contexts, slot, mode>>

\* scheduler_block(): TRUE at once when a mutex wakeup was left pending.
RequestBlocks(p) ==
    /\ pc[p] = "blocking"
    /\ \/ Goto(p, "blocked")
       \/ Transients /\ pc' = [pc EXCEPT ![p] = "check"]
       \/ Transients /\ pc' = [pc EXCEPT ![p] = "unblockable"]
    /\ UNCHANGED <<ep, req, outstanding, handles, contexts, slot, mode>>

\* scheduler_block() failed: fail the request and return.
RequestBusy(p) ==
    /\ pc[p] = "unblockable"
    /\ req' = [req EXCEPT ![slot[p]] =
                 LET failed == request_fail([@ EXCEPT !.blocked = FALSE], {})
                 IN  request_maybe_free(ClientDone(failed))]
    /\ outstanding' = [outstanding EXCEPT ![p] = IF @ = slot[p] THEN None ELSE @]
    /\ Goto(p, "user") /\ Leave(p)
    /\ UNCHANGED <<ep, handles, contexts>>

-----------------------------------------------------------------------------
(* ipc_kernel_receive_internal()                                           *)

ipc_kernel_receive(p, m) ==
    /\ pc[p] = "user" /\ OnCpu(p) /\ p \in handles[p]
    /\ Goto(p, "receive")
    /\ mode' = [mode EXCEPT ![p] = m]
    /\ UNCHANGED <<ep, req, outstanding, handles, contexts, slot>>

Receiving(p) == pc[p] \in {"receive", "rwoken"} /\ OnCpu(p)

\* Returns that take nothing from the queue: a dead endpoint, the overflow
\* marker, nothing there, a deadline that has passed.
ReceiveReturns(p) ==
    /\ Receiving(p)
    /\ \/ ~Live(p) /\ UNCHANGED ep
       \/ /\ Live(p) /\ ep[p].queue = <<>> /\ ep[p].overflow
          /\ ep' = [ep EXCEPT ![p].overflow = FALSE]
       \/ /\ Live(p) /\ ep[p].queue = <<>> /\ ~ep[p].overflow
          /\ mode[p] = "try"
          /\ UNCHANGED ep
       \/ /\ Live(p) /\ ep[p].queue = <<>> /\ ~ep[p].overflow
          /\ mode[p] = "timed"
          /\ ep' = [ep EXCEPT ![p].waiter = FALSE]
    /\ Goto(p, "user") /\ Leave(p)
    /\ UNCHANGED <<req, outstanding, handles, contexts>>

ReceiveDequeues(p) ==
    /\ Receiving(p) /\ Live(p) /\ ep[p].queue # <<>>
    /\ ep' = [ep EXCEPT ![p].queue = Tail(@)]
    /\ LET x == Head(ep[p].queue) IN
       \/ /\ x = Event
          /\ Goto(p, "user") /\ Leave(p)
       \/ /\ x # Event
          /\ Goto(p, "deliver")
          /\ slot' = [slot EXCEPT ![p] = x]
          /\ UNCHANGED mode
    /\ UNCHANGED <<req, outstanding, handles, contexts>>

\* A mutant: the receiver goes to sleep unregistered.
ReceiveWaitsUnseen(p) ==
    /\ Receiving(p) /\ Live(p) /\ ep[p].queue = <<>> /\ ~ep[p].overflow
    /\ mode[p] # "try"
    /\ Goto(p, "rblocking")
    /\ UNCHANGED <<ep, req, outstanding, handles, contexts, slot, mode>>

\* Register as the waiter and drop ipc_lock, interrupts masked.
ReceiveWaits(p) ==
    /\ Receiving(p) /\ Live(p) /\ ep[p].queue = <<>> /\ ~ep[p].overflow
    /\ mode[p] # "try"
    /\ ep' = [ep EXCEPT ![p].waiter = TRUE]
    /\ Goto(p, "rblocking")
    /\ UNCHANGED <<req, outstanding, handles, contexts, slot, mode>>

\* scheduler_block() or scheduler_sleep()
ReceiveBlocks(p) ==
    /\ pc[p] = "rblocking"
    /\ \/ Goto(p, "rblocked")
       \/ Transients /\ pc' = [pc EXCEPT ![p] = "receive"]
       \/ Transients /\ pc' = [pc EXCEPT ![p] = "runblockable"]
    /\ UNCHANGED <<ep, req, outstanding, handles, contexts, slot, mode>>

ReceiveBusy(p) ==
    /\ pc[p] = "runblockable"
    /\ ep' = [ep EXCEPT ![p].waiter = FALSE]
    /\ Goto(p, "user") /\ Leave(p)
    /\ UNCHANGED <<req, outstanding, handles, contexts>>

\* scheduler_global_tick() wakes a timed receiver.
TimerWakes(p) ==
    /\ pc[p] = "rblocked" /\ mode[p] = "timed"
    /\ Cardinality(Masked) < CpuCount
    /\ Goto(p, "rwoken")
    /\ UNCHANGED <<ep, req, outstanding, handles, contexts, slot, mode>>

\* The dequeued request is marked as delivered, if it is still there.
Deliver(p) ==
    /\ pc[p] = "deliver"
    /\ \/ /\ req[slot[p]].state = "PENDING"
          /\ req' = [req EXCEPT ![slot[p]].state = "DELIVERED"]
          /\ Goto(p, "alloc")
          /\ UNCHANGED <<slot, mode>>
       \/ /\ req[slot[p]].state # "PENDING"
          /\ Goto(p, "user") /\ Leave(p)
          /\ UNCHANGED req
    /\ UNCHANGED <<ep, outstanding, handles, contexts>>

\* kmalloc() of the context: it may sleep while the heap grows, and may fail.
Allocate(p) ==
    /\ \/ HeapSleeps /\ pc[p] = "alloc" /\ pc' = [pc EXCEPT ![p] = "heap"]
       \/ /\ pc[p] \in {"alloc", "heap"} /\ OnCpu(p)
          /\ pc' = [pc EXCEPT ![p] = "context"]
       \/ /\ pc[p] \in {"alloc", "heap"} /\ OnCpu(p)
          /\ pc' = [pc EXCEPT ![p] = "nomemory"]
    /\ UNCHANGED <<ep, req, outstanding, handles, contexts, slot, mode>>

NoMemory(p) ==
    /\ pc[p] = "nomemory"
    /\ \E W \in Wakes(Waiting({slot[p]})) :
       /\ req' = [req EXCEPT ![slot[p]] = request_fail(@, W)]
       /\ GotoWaking(p, "user", W)
    /\ Leave(p)
    /\ UNCHANGED <<ep, outstanding, handles, contexts>>

\* The context is attached to the request, if that is still delivered.
Attach(p) ==
    /\ pc[p] = "context"
    /\ \/ /\ req[slot[p]].state = "DELIVERED"
          /\ req' = [req EXCEPT ![slot[p]].context = TRUE]
          /\ Goto(p, "install")
          /\ UNCHANGED <<slot, mode>>
       \/ /\ req[slot[p]].state # "DELIVERED"
          /\ Goto(p, "user") /\ Leave(p)
          /\ UNCHANGED req
    /\ UNCHANGED <<ep, outstanding, handles, contexts>>

\* The handle of the context, or the first part of undoing the delivery.
InstallContext(p) ==
    /\ pc[p] = "install"
    /\ \/ /\ HandleRoom(p)
          /\ contexts' = [contexts EXCEPT ![p][slot[p]] = @ + 1]
          /\ Goto(p, "user") /\ Leave(p)
          /\ UNCHANGED req
       \/ \E W \in Wakes(Waiting({slot[p]})) :
          /\ req' = [req EXCEPT ![slot[p]] =
                       request_fail([@ EXCEPT !.context = FALSE], W)]
          /\ GotoWaking(p, "release", W)
          /\ UNCHANGED <<contexts, slot, mode>>
    /\ UNCHANGED <<ep, outstanding, handles>>

\* object_release() of the context that got no handle.
ReleaseContext(p) ==
    /\ pc[p] = "release"
    /\ \E W \in Wakes(Waiting({slot[p]})) :
       /\ req' = [req EXCEPT ![slot[p]] = request_context_destroy(@, W)]
       /\ GotoWaking(p, "user", W)
    /\ Leave(p)
    /\ UNCHANGED <<ep, outstanding, handles, contexts>>

-----------------------------------------------------------------------------
(* What a service does with a request context.                             *)

HasContext(p, s) == pc[p] = "user" /\ OnCpu(p) /\ contexts[p][s] > 0
Answerable(q) == q.context /\ q.state = "DELIVERED"

ipc_kernel_reply(p, s) ==
    /\ HasContext(p, s) /\ Answerable(req[s])
    /\ \E W \in Wakes(Waiting({s})) :
       /\ req' = [req EXCEPT ![s] =
                    request_wake_client([@ EXCEPT !.state = "REPLIED"], W)]
       /\ pc' = Awoken(W)
    /\ UNCHANGED <<ep, outstanding, handles, contexts, slot, mode>>

ipc_request_context_claim(p, s) ==
    /\ HasContext(p, s) /\ Answerable(req[s]) /\ ~req[s].claimed
    /\ req' = [req EXCEPT ![s].claimed = TRUE]
    /\ UNCHANGED <<ep, outstanding, handles, contexts, pc, slot, mode>>

CloseContext(p, s) ==
    /\ HasContext(p, s)
    /\ contexts' = [contexts EXCEPT ![p][s] = @ - 1]
    /\ \E W \in Wakes(Waiting({s})) :
       /\ req' = [req EXCEPT ![s] = request_context_destroy(@, W)]
       /\ pc' = Awoken(W)
    /\ UNCHANGED <<ep, outstanding, handles, slot, mode>>

-----------------------------------------------------------------------------
(* Kernel events.                                                          *)

MaySubscribe(p) == pc[p] = "user" /\ OnCpu(p) /\ p \in handles[p] /\ Live(p)

Resubscribe(p, on) ==
    /\ MaySubscribe(p)
    /\ ep' = [ep EXCEPT ![p].queue = Discarded(p), ![p].overflow = FALSE,
                        ![p].subscribed = on]
    /\ UNCHANGED <<req, outstanding, handles, contexts, pc, slot, mode>>

ipc_kernel_event_subscribe(p) == Resubscribe(p, TRUE)
ipc_kernel_event_unsubscribe(p) == Resubscribe(p, FALSE)

\* Called from interrupt handlers too, wherever interrupts are not masked.
ipc_publish_event ==
    LET to == {e \in Service : Live(e) /\ ep[e].subscribed}
        room == {e \in to : HasRoom(e)}
    IN  /\ Cardinality(Masked) < CpuCount /\ to # {}
        /\ \E W \in Wakes({e \in room : ep[e].waiter}) :
           /\ ep' = [e \in Service |->
                       IF e \in room
                       THEN [ep[e] EXCEPT !.queue = Append(@, Event),
                                          !.waiter = @ /\ e \notin W]
                       ELSE IF e \in to THEN [ep[e] EXCEPT !.overflow = TRUE]
                       ELSE ep[e]]
           /\ pc' = Awoken(W)
        /\ UNCHANGED <<req, outstanding, handles, contexts, slot, mode>>

-----------------------------------------------------------------------------
(* process_exit(), called by the process or by one that terminates it: a   *)
(* thread that is on a processor cannot be terminated.  The caller's       *)
(* processor is busy until the handles are closed.                         *)

process_exit(p) ==
    /\ pc[p] \in Off \ {"dead"} /\ OnCpu(p)
    /\ Goto(p, "exiting")
    /\ UNCHANGED <<ep, req, outstanding, handles, contexts, slot, mode>>

\* A mutant: an answered request is not freed.
AbandonedKept(q) == request_fail(
    ClientDone(IF q.state = "PENDING" THEN [q EXCEPT !.endpoint = None] ELSE q), {})

\* What ipc_process_exit(p) leaves of a request of p.
Abandoned(q) == request_maybe_free(request_fail(
    ClientDone(IF q.state = "PENDING" THEN [q EXCEPT !.endpoint = None] ELSE q), {}))

ipc_process_exit(p) ==
    LET mine == IF p \in Service /\ Live(p) THEN SlotsOf(p) ELSE {}
        own == {s \in Slot : req[s].client = p}
        queued == {s \in own \ mine : req[s].state = "PENDING"}
    IN  /\ pc[p] = "exiting"
        /\ \E W \in Wakes(Waiting(mine)) :
           /\ req' = [s \in Slot |->
                LET q == IF s \in mine THEN Unregistered(req[s], W) ELSE req[s]
                IN  IF q.client = p THEN Abandoned(q) ELSE q]
           /\ GotoWaking(p, "closing", W)
        /\ ep' = [e \in Service |->
             LET kept == IF \E s \in queued : req[s].endpoint = e
                         THEN endpoint_remove_request(ep[e].queue,
                                CHOOSE s \in queued : req[s].endpoint = e)
                         ELSE ep[e].queue
             IN  IF e = p /\ Live(p)
                 THEN [ep[e] EXCEPT !.state = "dead", !.waiter = FALSE]
                 ELSE [ep[e] EXCEPT !.queue = kept]]
        /\ outstanding' = [outstanding EXCEPT ![p] = None]
        /\ UNCHANGED <<handles, contexts, slot, mode>>

\* process_handle_close_all(): one handle at a time.
CloseAll(p) ==
    /\ pc[p] = "closing"
    /\ \/ \E s \in Slot, W \in SUBSET Process :
          /\ contexts[p][s] > 0 /\ W \in Wakes(Waiting({s}))
          /\ contexts' = [contexts EXCEPT ![p][s] = @ - 1]
          /\ req' = [req EXCEPT ![s] = request_context_destroy(@, W)]
          /\ pc' = Awoken(W)
          /\ UNCHANGED <<handles, slot, mode>>
       \/ /\ \A s \in Slot : contexts[p][s] = 0
          /\ handles' = [handles EXCEPT ![p] = {}]
          /\ Goto(p, "dead") /\ Leave(p)
          /\ UNCHANGED <<contexts, req>>
    /\ UNCHANGED <<ep, outstanding>>

-----------------------------------------------------------------------------

\* ipc_init(), before any service has started.
Init ==
    /\ ep = [e \in Service |-> Fresh]
    /\ req = [s \in Slot |-> Free]
    /\ outstanding = [p \in Process |-> None]
    /\ handles = [p \in Process |-> {}]
    /\ contexts = [p \in Process |-> [s \in Slot |-> 0]]
    /\ pc = [p \in Process |-> "user"]
    /\ slot = [p \in Process |-> None]
    /\ mode = [p \in Process |-> "wait"]

\* The steps of a process that the kernel takes on its own.
KernelStep(p) ==
    \/ RegisterInstall(p)
    \/ RequestReturns(p) \/ RequestWaits(p) \/ RequestBlocks(p) \/ RequestBusy(p)
    \/ ReceiveReturns(p) \/ ReceiveDequeues(p) \/ ReceiveWaits(p)
    \/ ReceiveBlocks(p) \/ ReceiveBusy(p)
    \/ Deliver(p) \/ Allocate(p) \/ NoMemory(p) \/ Attach(p)
    \/ InstallContext(p) \/ ReleaseContext(p)
    \/ ipc_process_exit(p) \/ CloseAll(p)

SystemCall(p) ==
    \/ ipc_service_register(p)
    \/ \E e \in Service : \/ ipc_service_lookup(p, e)
                          \/ CloseEndpoint(p, e)
                          \/ ipc_kernel_request(p, e)
    \/ p \in Service /\ \E m \in {"wait", "timed", "try"} : ipc_kernel_receive(p, m)
    \/ \E s \in Slot : \/ ipc_kernel_reply(p, s)
                       \/ ipc_request_context_claim(p, s)
                       \/ CloseContext(p, s)
    \/ p \in Service /\ ipc_kernel_event_subscribe(p)
    \/ p \in Service /\ ipc_kernel_event_unsubscribe(p)

Next ==
    \/ \E p \in Process : \/ KernelStep(p) \/ SystemCall(p)
                          \/ TimerWakes(p) \/ process_exit(p)
    \/ ipc_publish_event

Spec == Init /\ [][Next]_vars

\* The scheduler runs every thread that can go on, and a service that holds
\* its endpoint handle keeps receiving, answers and closes its contexts.
FairSpec ==
    /\ Spec
    /\ \A p \in Process : SF_vars(KernelStep(p))
    /\ \A p \in Service : /\ SF_vars(ipc_kernel_receive(p, "wait"))
                          /\ \A s \in Slot : SF_vars(CloseContext(p, s))

-----------------------------------------------------------------------------
(* Properties                                                              *)

Label == Off \cup {"register", "check", "blocking", "unblockable", "receive",
                   "rblocking", "runblockable", "deliver", "alloc", "context",
                   "nomemory", "install", "release", "exiting", "closing"}

Endpoint == [state : {"none", "live", "dead"}, queue : Seq(Slot \cup {Event}),
             overflow : BOOLEAN, subscribed : BOOLEAN, waiter : BOOLEAN]
Request == [state : {"FREE", "PENDING", "DELIVERED", "REPLIED", "FAILED"},
            endpoint : Service \cup {None}, client : Process \cup {None},
            active : BOOLEAN, blocked : BOOLEAN, thread : BOOLEAN,
            context : BOOLEAN, claimed : BOOLEAN]

\* Every variable has its type, and a queue never exceeds its array.
TypeOK ==
    /\ ep \in [Service -> Endpoint]
    /\ \A e \in Service : Len(ep[e].queue) <= Depth
    /\ req \in [Slot -> Request]
    /\ outstanding \in [Process -> Slot \cup {None}]
    /\ handles \in [Process -> SUBSET Service]
    /\ contexts \in [Process -> [Slot -> Nat]]
    /\ pc \in [Process -> Label]
    /\ slot \in [Process -> Slot \cup {None}]
    /\ mode \in [Process -> {"wait", "timed", "try"}]

\* A receiver that has dequeued s and has not handed out its context, or was
\* terminated before it could.
InHand(p, s) == slot[p] = s /\ pc[p] \in {"deliver", "alloc", "heap", "context",
                                         "nomemory", "install", "exiting"}

\* A client asleep in ipc_kernel_request() waits for a request that is still
\* open, can be woken through it, and that somebody is going to answer or to
\* fail: it is in the queue of a live endpoint, in the hands of its
\* receiver, or has a context.
ClientNotStranded ==
    \A p \in Process : pc[p] = "blocked" =>
      LET s == slot[p]  q == req[s] IN
      /\ Open(q) /\ q.client = p /\ q.active /\ q.blocked /\ q.thread
      /\ \/ /\ q.endpoint # None /\ Live(q.endpoint)
            /\ \E i \in DOMAIN ep[q.endpoint].queue : ep[q.endpoint].queue[i] = s
         \/ \E r \in Process : InHand(r, s) \/ contexts[r][s] > 0

\* A receiver does not sleep while there is something for it to receive.
ReceiverNotStranded ==
    \A p \in Service : pc[p] = "rblocked" =>
      ep[p].waiter /\ ep[p].queue = <<>> /\ ~ep[p].overflow

\* A queue of a live endpoint holds pending requests to that endpoint, each
\* once: no entry outlives its request.
QueueSound ==
    \A e \in Service : Live(e) =>
      LET queue == ep[e].queue IN
      \A i \in DOMAIN queue : queue[i] # Event =>
        /\ req[queue[i]].state = "PENDING" /\ req[queue[i]].endpoint = e
        /\ \A j \in DOMAIN queue : queue[j] = queue[i] => i = j

\* A request context refers to the request that was delivered to its holder:
\* the slot is still allocated, addressed to nobody else, and has no other
\* context.
ContextSound ==
    \A p \in Process, s \in Slot : contexts[p][s] > 0 =>
      /\ contexts[p][s] = 1 /\ req[s].context
      /\ req[s].endpoint \in {p, None}
      /\ \A r \in Process : contexts[r][s] > 0 => r = p

\* What refers to a request, from a queue or from a context, refers to the
\* request it was made for.
EntriesBelong == QueueSound /\ ContextSound

\* No slot of request_pool is lost: an allocated slot has a client in
\* ipc_kernel_request(), a context, or a receiver about to attach or to
\* release one.
SlotsAccountedFor ==
    \A s \in Slot : req[s].state # "FREE" =>
      \/ req[s].active /\ slot[req[s].client] = s
      \/ req[s].context /\ \E p \in Process :
                              contexts[p][s] > 0 \/ InHand(p, s)
      \/ \E p \in Process : slot[p] = s /\ pc[p] = "release"

\* Nothing in the IPC state refers to a process that has exited.
NothingOfTheDead ==
    \A p \in Process : pc[p] \in {"closing", "dead"} =>
      /\ outstanding[p] = None
      /\ p \in Service => ~Live(p) /\ ~ep[p].waiter
      /\ \A s \in Slot : req[s].client # p /\ req[s].endpoint # p

\* A step leaves an answer alone for as long as its client has not taken it.
AnswerKept ==
    \A s \in Slot : req[s].active /\ ~Open(req[s]) =>
       \/ req'[s].state = req[s].state
       \/ ~req'[s].active \/ slot'[req[s].client] # s

\* An answer is final: request_fail() and ipc_kernel_reply() leave a request
\* that is replied or failed as it is.
AnswerFinal == [][AnswerKept]_vars

\* What the daemons' main loops keep to: they do not close the handle of
\* their endpoint, and they finish with a request before they receive again.
Attentive(e) ==
    /\ Live(e) /\ pc[e] = "user" => e \in handles[e]
    /\ pc[e] = "receive" => \A s \in Slot : contexts[e][s] = 0

\* A call returns: if the services are attentive, a client asleep in
\* ipc_kernel_request() does not sleep forever.
CallReturns ==
    [](\A e \in Service : Attentive(e)) =>
      \A p \in Client : pc[p] = "blocked" ~> pc[p] # "blocked"

=============================================================================
