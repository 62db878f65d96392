------------------------------ MODULE IpcSteps ------------------------------
(***************************************************************************)
(* The inductive invariant of the IPC endpoints and requests, and that the *)
(* steps of the system calls keep it.                                      *)
(***************************************************************************)
EXTENDS Integers, Ipc, TLAPS

USE SMTT(30), ZenonT(30)

-----------------------------------------------------------------------------
(* The request operations, as relations between a record and the next.     *)

\* A record is freed as a whole, and has a client while it is active.
Tidy(q) ==
    /\ q.state = "FREE" => q = Free
    /\ q.active <=> q.client # None

\* Nobody that ipc.c names refers to the record, and it is not free.
Limbo(q) == q.state # "FREE" /\ ~q.active /\ ~q.context

\* What a record may become without its client taking part.
Settles(q, r) ==
    /\ r \in Request /\ Tidy(r)
    /\ r.active <=> q.active
    /\ r.client = q.client
    /\ r.endpoint \in {q.endpoint, None}
    /\ r.context => q.context
    /\ r.state # "FREE" => q.state # "FREE"
    /\ Limbo(r) => Limbo(q)
    /\ q.active /\ ~Open(q) => r.state = q.state

\* The record that request_free() leaves.
LEMMA FreeIsTidy == Free \in Request /\ Tidy(Free) /\ ~Limbo(Free)
BY DEF Free, Request, Tidy, Limbo

\* A record that is left alone.
LEMMA SettlesItself ==
    ASSUME NEW q \in Request, Tidy(q)
    PROVE  Settles(q, q)
BY DEF Settles

\* request_maybe_free() frees a record when neither its client nor a context
\* refers to it, and otherwise leaves it alone.
LEMMA MaybeFree ==
    ASSUME NEW q \in Request, q.active <=> q.client # None, q.state # "FREE"
    PROVE  /\ request_maybe_free(q) \in Request /\ Tidy(request_maybe_free(q))
           /\ ~Limbo(request_maybe_free(q))
           /\ \/ request_maybe_free(q) = q /\ (q.active \/ q.context)
              \/ request_maybe_free(q) = Free /\ ~q.active /\ ~q.context
BY FreeIsTidy DEF request_maybe_free, Tidy, Limbo

\* request_wake_client() changes neither the state nor the references.
LEMMA WakeClient ==
    ASSUME NEW q \in Request, NEW W
    PROVE  LET r == request_wake_client(q, W) IN
           /\ r \in Request
           /\ r.state = q.state /\ r.endpoint = q.endpoint /\ r.client = q.client
           /\ r.active = q.active /\ r.context = q.context
BY ZenonT(30) DEF request_wake_client, Request

\* request_fail() settles a record, and an open one does not stay open.
LEMMA Fails ==
    ASSUME NEW q \in Request, Tidy(q), NEW W
    PROVE  /\ Settles(q, request_fail(q, W))
           /\ ~Open(request_fail(q, W))
           /\ Open(q) => ~Limbo(request_fail(q, W))
<1> DEFINE f == [q EXCEPT !.state = "FAILED"]
           w == request_wake_client(f, W)
           r == request_maybe_free(w)
<1>1. CASE ~Open(q)
  BY <1>1, SettlesItself DEF request_fail
<1>2. CASE Open(q)
  <2>1. /\ f \in Request /\ f.state = "FAILED" /\ f.active = q.active
        /\ f.client = q.client /\ f.endpoint = q.endpoint /\ f.context = q.context
    BY DEF Request
  <2> HIDE DEF f
  <2>2. /\ w \in Request /\ w.state = "FAILED" /\ w.active = q.active
        /\ w.client = q.client /\ w.endpoint = q.endpoint /\ w.context = q.context
    BY <2>1, WakeClient
  <2>3. request_fail(q, W) = r
    BY <1>2 DEF request_fail, f
  <2> HIDE DEF w
  <2>4. /\ r \in Request /\ Tidy(r) /\ ~Limbo(r)
        /\ \/ r = w /\ (w.active \/ w.context)
           \/ r = Free /\ ~w.active /\ ~w.context
    BY <2>2, MaybeFree DEF Tidy
  <2> HIDE DEF r
  <2>5. ~Open(r) /\ Settles(q, r)
    BY <2>2, <2>4, <1>2 DEF Settles, Open, Free, Tidy
  <2> QED BY <2>3, <2>4, <2>5
<1> QED BY <1>1, <1>2

\* request_context_destroy() detaches the context and leaves no record that
\* nobody refers to.
LEMMA Destroys ==
    ASSUME NEW q \in Request, Tidy(q), NEW W
    PROVE  /\ Settles(q, request_context_destroy(q, W))
           /\ ~request_context_destroy(q, W).context
           /\ ~Limbo(request_context_destroy(q, W))
<1> DEFINE d == [q EXCEPT !.context = FALSE]
           f == request_fail(d, W)
<1>1. CASE q.state = "FREE"
  <2>1. q = Free /\ request_context_destroy(q, W) = q
    BY <1>1 DEF request_context_destroy, Tidy, Open
  <2> QED BY <2>1, SettlesItself, FreeIsTidy DEF Free
<1>2. CASE q.state # "FREE"
  <2>1. /\ d \in Request /\ d.state = q.state /\ d.active = q.active /\ Tidy(d)
        /\ d.client = q.client /\ d.endpoint = q.endpoint /\ ~d.context
    BY <1>2, ZenonT(30) DEF Request, Tidy
  <2>2. request_context_destroy(q, W) =
          IF Open(q) THEN request_maybe_free(f) ELSE request_maybe_free(d)
    BY <1>2 DEF request_context_destroy
  <2> HIDE DEF d
  <2>3. CASE ~Open(q)
    <3> DEFINE r == request_maybe_free(d)
    <3>1. /\ r \in Request /\ Tidy(r) /\ ~Limbo(r)
          /\ r = d \/ (r = Free /\ ~d.active)
      BY <2>1, <1>2, MaybeFree DEF Tidy
    <3> HIDE DEF r
    <3>2. Settles(q, r) /\ ~r.context
      BY <3>1, <2>1, <1>2 DEF Settles, Free, Tidy
    <3> QED BY <3>1, <3>2, <2>2, <2>3 DEF r
  <2>4. CASE Open(q)
    <3>1. Open(d) /\ Settles(d, f) /\ ~Limbo(f)
      BY <2>1, <2>4, Fails DEF Open
    <3> HIDE DEF f
    <3> DEFINE r == request_maybe_free(f)
    <3>2. CASE f.state = "FREE"
      <4>1. f = Free
        BY <3>1, <3>2 DEF Settles, Tidy
      <4>2. r = Free
        BY <4>1 DEF request_maybe_free
      <4>3. Settles(q, r) /\ ~r.context /\ ~Limbo(r)
        BY <4>1, <4>2, <3>1, <2>1, <2>4, FreeIsTidy DEF Settles, Free, Open
      <4> QED BY <4>3, <2>2, <2>4
    <3>3. CASE f.state # "FREE"
      <4>1. f \in Request /\ f.active /\ f.client = q.client /\ ~f.context
        BY <3>1, <3>3, <2>1 DEF Settles, Limbo
      <4>2. r = f
        BY <4>1 DEF request_maybe_free
      <4>3. Settles(q, r) /\ ~r.context /\ ~Limbo(r)
        BY <4>1, <4>2, <3>1, <3>3, <2>1, <2>4 DEF Settles, Open, Limbo
      <4> QED BY <4>3, <2>2, <2>4
    <3> QED BY <3>2, <3>3
  <2> QED BY <2>3, <2>4
<1> QED BY <1>1, <1>2

\* An endpoint that goes takes its name out of its requests and fails them.
LEMMA Unregisters ==
    ASSUME NEW q \in Request, Tidy(q), q.state # "FREE", NEW W
    PROVE  /\ Settles(q, Unregistered(q, W))
           /\ Unregistered(q, W).endpoint = None
           /\ ~Open(Unregistered(q, W))
<1> DEFINE d == [q EXCEPT !.endpoint = None]
           f == request_fail(d, W)
<1>1. /\ d \in Request /\ d.state = q.state /\ d.active = q.active /\ Tidy(d)
      /\ d.client = q.client /\ d.endpoint = None /\ d.context = q.context
  BY DEF Request, Tidy
<1>2. Unregistered(q, W) = f
  BY DEF Unregistered
<1> HIDE DEF d
<1>3. Settles(d, f) /\ ~Open(f)
  BY <1>1, Fails
<1> HIDE DEF f
<1>4. Settles(q, f) /\ f.endpoint = None
  BY <1>1, <1>3 DEF Settles, Limbo, Open
<1> QED BY <1>2, <1>3, <1>4

-----------------------------------------------------------------------------
(* The inductive invariant.                                                *)

\* Where a client of an unanswered or unread request is, and where a
\* receiver has a request in its hands.
Calling == {"check", "blocking", "blocked", "woken", "unblockable"}
Holding == {"deliver", "alloc", "heap", "context", "nomemory", "install",
            "release"}
Serving == {"register", "receive", "rblocking", "rblocked", "rwoken",
            "runblockable"}

\* A client is in the kernel with its own request, and a request is addressed
\* to a live endpoint or to none.
Requests ==
    \A s \in Slot :
      /\ Tidy(req[s])
      /\ req[s].client # None => /\ slot[req[s].client] = s
                                 /\ pc[req[s].client] \in Calling \cup {"exiting"}
      /\ req[s].endpoint # None => Live(req[s].endpoint)

\* A request with a context has somebody who destroys it, and one that
\* nobody refers to has a receiver about to free it.
Held ==
    \A s \in Slot :
      /\ req[s].context => \E p \in Process : \/ contexts[p][s] > 0
                                              \/ slot[p] = s /\ pc[p] = "install"
      /\ Limbo(req[s]) => \E p \in Process : slot[p] = s /\ pc[p] = "release"

Locals ==
    \A p \in Process :
      /\ pc[p] \in Calling => slot[p] \in Slot /\ req[slot[p]].client = p
      /\ pc[p] \in Holding => slot[p] \in Slot
      /\ pc[p] \in Serving => p \in Service
      /\ pc[p] \in {"closing", "dead"} => outstanding[p] = None

\* The endpoint of an exited process is dead, and only a live one waits.
Owners ==
    \A e \in Service :
      /\ Live(e) => pc[e] \notin {"closing", "dead"}
      /\ ep[e].waiter => Live(e)

IpcInv == TypeOK /\ Requests /\ Held /\ Locals /\ Owners

\* The processes outside P wake at most.
Elsewhere(P) ==
    /\ pc' \in [Process -> Label]
    /\ slot' \in [Process -> Slot \cup {None}]
    /\ mode' \in [Process -> {"wait", "timed", "try"}]
    /\ \A r \in Process \ P :
         /\ slot'[r] = slot[r]
         /\ \/ pc'[r] = pc[r]
            \/ pc[r] = "blocked" /\ pc'[r] = "woken"
            \/ pc[r] = "rblocked" /\ pc'[r] = "rwoken"

\* No endpoint goes, and one comes only with its owner in the middle of
\* ipc_service_register().
EndpointsKept ==
    /\ ep' \in [Service -> Endpoint]
    /\ \A e \in Service :
         /\ Len(ep'[e].queue) <= Depth
         /\ Live(e) => ep'[e].state = "live"
         /\ ep'[e].state = "live" => Live(e) \/ pc'[e] = "register"
         /\ ep'[e].waiter => ep'[e].state = "live"

\* What is asked of a process that moves without changing its own request.
Moves(p) ==
    /\ pc[p] \in Calling => pc'[p] \in Calling \cup {"exiting"} /\ slot'[p] = slot[p]
    /\ pc[p] # "exiting"
    /\ pc'[p] \in Calling => pc[p] \in Calling
    /\ pc'[p] \in Holding => slot'[p] \in Slot
    /\ pc'[p] \in Serving => p \in Service
    /\ pc'[p] \in {"closing", "dead"} => pc[p] = "closing"
    /\ pc[p] = "install" /\ req'[slot[p]].context => contexts'[p][slot[p]] > 0
    /\ pc[p] = "release" => ~Limbo(req'[slot[p]])

-----------------------------------------------------------------------------
(* What a step does to the processes and to the endpoints.                 *)

\* scheduler_unblock() leaves everybody else where they are.
LEMMA AwokenType ==
    ASSUME TypeOK, NEW W
    PROVE  /\ Awoken(W) \in [Process -> Label]
           /\ \A r \in Process :
                \/ Awoken(W)[r] = pc[r]
                \/ pc[r] = "blocked" /\ Awoken(W)[r] = "woken"
                \/ pc[r] = "rblocked" /\ Awoken(W)[r] = "rwoken"
<1>1. ASSUME NEW r \in Process
      PROVE  /\ Awoken(W)[r] \in Label
             /\ \/ Awoken(W)[r] = pc[r]
                \/ pc[r] = "blocked" /\ Awoken(W)[r] = "woken"
                \/ pc[r] = "rblocked" /\ Awoken(W)[r] = "rwoken"
  <2>1. /\ Awoken(W)[r] = CASE r \in W /\ pc[r] = "blocked"  -> "woken"
                            [] r \in W /\ pc[r] = "rblocked" -> "rwoken"
                            [] OTHER -> pc[r]
        /\ pc[r] \in Label
    BY DEF Awoken, TypeOK
  <2> QED BY <2>1 DEF Label, Off
<1> QED BY <1>1 DEF Awoken

\* A step that only wakes, as a reply does.
LEMMA WakesElsewhere ==
    ASSUME IpcInv, NEW W, pc' = Awoken(W), UNCHANGED <<slot, mode>>
    PROVE  Elsewhere({})
<1>1. TypeOK
  BY DEF IpcInv
<1> QED BY <1>1, AwokenType DEF Elsewhere, TypeOK

\* A step of p that wakes others, with its locals kept or given up.
LEMMA GotoElsewhere ==
    ASSUME IpcInv, NEW p \in Process, NEW label \in Label, NEW W,
           GotoWaking(p, label, W), Leave(p) \/ UNCHANGED <<slot, mode>>
    PROVE  Elsewhere({p}) /\ pc'[p] = label
<1>t. TypeOK
  BY DEF IpcInv
<1>1. pc' = [Awoken(W) EXCEPT ![p] = label]
  BY DEF GotoWaking
<1>2. /\ pc' \in [Process -> Label] /\ pc'[p] = label
      /\ \A r \in Process : r # p => pc'[r] = Awoken(W)[r]
  BY <1>1, <1>t, AwokenType
<1>3. /\ slot' \in [Process -> Slot \cup {None}]
      /\ mode' \in [Process -> {"wait", "timed", "try"}]
      /\ \A r \in Process : r # p => slot'[r] = slot[r]
  BY <1>t, ZenonT(30) DEF TypeOK, Leave
<1> QED BY <1>2, <1>3, <1>t, AwokenType DEF Elsewhere

\* A step of p that wakes nobody.
LEMMA Goes ==
    ASSUME IpcInv, NEW p \in Process, NEW label \in Label, Goto(p, label),
           Leave(p) \/ UNCHANGED <<slot, mode>>
    PROVE  Elsewhere({p}) /\ pc'[p] = label
<1>t. TypeOK
  BY DEF IpcInv
<1>2. /\ pc' \in [Process -> Label] /\ pc'[p] = label
      /\ \A r \in Process : r # p => pc'[r] = pc[r]
  BY <1>t DEF TypeOK, Goto
<1>3. /\ slot' \in [Process -> Slot \cup {None}]
      /\ mode' \in [Process -> {"wait", "timed", "try"}]
      /\ \A r \in Process : r # p => slot'[r] = slot[r]
  BY <1>t, ZenonT(30) DEF TypeOK, Leave
<1> QED BY <1>2, <1>3 DEF Elsewhere

\* A step that leaves the endpoints alone.
LEMMA EndpointsSame ==
    ASSUME IpcInv, ep' = ep
    PROVE  EndpointsKept
BY DEF IpcInv, TypeOK, Owners, Live, EndpointsKept

\* An endpoint, as the invariant has it.
LEMMA EndpointType ==
    ASSUME IpcInv, NEW e \in Service
    PROVE  /\ ep[e] \in Endpoint /\ Len(ep[e].queue) <= Depth
           /\ ep[e].waiter => Live(e)
BY DEF IpcInv, TypeOK, Owners

\* Writing one endpoint.
LEMMA EndpointUpdate ==
    ASSUME IpcInv, NEW e \in Service, NEW r \in Endpoint,
           ep' = [ep EXCEPT ![e] = r], Len(r.queue) <= Depth,
           Live(e) => r.state = "live", r.waiter => r.state = "live",
           r.state = "live" => Live(e) \/ pc'[e] = "register"
    PROVE  EndpointsKept
<1>1. ep' \in [Service -> Endpoint]
  BY DEF IpcInv, TypeOK
<1>2. ep'[e] = r /\ \A x \in Service : x # e => ep'[x] = ep[x]
  BY DEF IpcInv, TypeOK
<1>3. ASSUME NEW x \in Service, x # e
      PROVE  /\ ep'[x] = ep[x] /\ Len(ep[x].queue) <= Depth
             /\ ep[x].waiter => ep[x].state = "live"
  BY <1>2, <1>3, EndpointType DEF Live
<1> QED BY <1>1, <1>2, <1>3 DEF EndpointsKept, Live

\* A process does not get past its own exit.
LEMMA OwnersKept ==
    ASSUME IpcInv, EndpointsKept,
           \A r \in Process : pc'[r] \in {"closing", "dead"} => pc[r] \in {"closing", "dead"}
    PROVE  Owners'
<1> SUFFICES ASSUME NEW e \in Service
             PROVE  /\ ep'[e].state = "live" => pc'[e] \notin {"closing", "dead"}
                    /\ ep'[e].waiter => ep'[e].state = "live"
  BY DEF Owners, Live
<1>1. e \in Process
  BY IpcAssumption
<1>2. Live(e) => pc[e] \notin {"closing", "dead"}
  BY DEF IpcInv, Owners
<1> QED BY <1>1, <1>2 DEF EndpointsKept

-----------------------------------------------------------------------------
(* What a step does to the requests.                                       *)

\* A step that settles records keeps what is said of them.
LEMMA SettledLinks ==
    ASSUME IpcInv, NEW P \in SUBSET Process,
           Elsewhere(P), \A p \in P : Moves(p),
           \A s \in Slot : Settles(req[s], req'[s]),
           \A s \in Slot : req'[s].endpoint # None => ep'[req'[s].endpoint].state = "live",
           \A r \in Process, s \in Slot :
              contexts[r][s] > 0 => contexts'[r][s] > 0 \/ ~req'[s].context,
           outstanding' = outstanding
    PROVE  Requests' /\ Held' /\ Locals' /\ AnswerKept
<1>1. Requests'
  <2>1. ASSUME NEW s \in Slot, req'[s].client # None
        PROVE  /\ slot'[req'[s].client] = s
               /\ pc'[req'[s].client] \in Calling \cup {"exiting"}
    <3>1. /\ req'[s].client = req[s].client /\ req[s].client \in Process
          /\ slot[req[s].client] = s
          /\ pc[req[s].client] \in Calling \cup {"exiting"}
      BY <2>1 DEF IpcInv, Requests, Settles, TypeOK, Request
    <3> QED BY <3>1 DEF Elsewhere, Moves, Calling
  <2> QED BY <2>1 DEF Requests, Settles, Live
<1>2. Held'
  <2>1. ASSUME NEW s \in Slot, req'[s].context
        PROVE  \E p \in Process : \/ contexts'[p][s] > 0
                                  \/ slot'[p] = s /\ pc'[p] = "install"
    <3>1. PICK p \in Process : contexts[p][s] > 0 \/ (slot[p] = s /\ pc[p] = "install")
      BY <2>1 DEF IpcInv, Held, Settles
    <3> QED BY <2>1, <3>1 DEF Elsewhere, Moves
  <2>2. ASSUME NEW s \in Slot, Limbo(req'[s])
        PROVE  \E p \in Process : slot'[p] = s /\ pc'[p] = "release"
    <3>1. PICK p \in Process : slot[p] = s /\ pc[p] = "release"
      BY <2>2 DEF IpcInv, Held, Settles
    <3> QED BY <2>2, <3>1 DEF Elsewhere, Moves
  <2> QED BY <2>1, <2>2 DEF Held, Limbo
<1>3. Locals'
  <2> SUFFICES ASSUME NEW p \in Process
               PROVE  /\ pc'[p] \in Calling => slot'[p] \in Slot /\ req'[slot'[p]].client = p
                      /\ pc'[p] \in Holding => slot'[p] \in Slot
                      /\ pc'[p] \in Serving => p \in Service
                      /\ pc'[p] \in {"closing", "dead"} => outstanding'[p] = None
    BY DEF Locals
  <2>1. CASE p \in P
    BY <2>1 DEF Moves, IpcInv, Locals, Settles, Calling
  <2>2. CASE p \notin P
    BY <2>2 DEF Elsewhere, IpcInv, Locals, Settles, Calling, Holding, Serving
  <2> QED BY <2>1, <2>2
<1>4. AnswerKept
  BY DEF AnswerKept, Settles
<1> QED BY <1>1, <1>2, <1>3, <1>4

\* The same of the whole invariant when the endpoints are kept.
LEMMA Settled ==
    ASSUME IpcInv, NEW P \in SUBSET Process,
           Elsewhere(P), \A p \in P : Moves(p), EndpointsKept,
           req' \in [Slot -> Request], \A s \in Slot : Settles(req[s], req'[s]),
           contexts' \in [Process -> [Slot -> Nat]],
           \A r \in Process, s \in Slot :
              contexts[r][s] > 0 => contexts'[r][s] > 0 \/ ~req'[s].context,
           handles' \in [Process -> SUBSET Service], outstanding' = outstanding
    PROVE  IpcInv' /\ AnswerKept
<1>1. TypeOK'
  <2>1. outstanding \in [Process -> Slot \cup {None}]
    BY DEF IpcInv, TypeOK
  <2> QED BY <2>1 DEF TypeOK, Elsewhere, EndpointsKept
<1>2. Owners'
  <2>1. \A r \in Process : pc'[r] \in {"closing", "dead"} => pc[r] \in {"closing", "dead"}
    BY DEF Elsewhere, Moves
  <2> QED BY <2>1, OwnersKept
<1>3. \A s \in Slot : req'[s].endpoint # None => ep'[req'[s].endpoint].state = "live"
  <2> SUFFICES ASSUME NEW s \in Slot, req'[s].endpoint # None
               PROVE  ep'[req'[s].endpoint].state = "live"
    OBVIOUS
  <2>1. /\ req'[s].endpoint = req[s].endpoint /\ req[s].endpoint \in Service
        /\ Live(req[s].endpoint)
    BY DEF IpcInv, Requests, Settles, TypeOK, Request
  <2> QED BY <2>1 DEF EndpointsKept
<1>4. Requests' /\ Held' /\ Locals' /\ AnswerKept
  BY <1>3, SettledLinks
<1> QED BY <1>1, <1>2, <1>4 DEF IpcInv

\* A step that leaves the requests alone.
LEMMA Quiet ==
    ASSUME IpcInv, NEW P \in SUBSET Process,
           Elsewhere(P), \A p \in P : Moves(p), EndpointsKept,
           handles' \in [Process -> SUBSET Service],
           UNCHANGED <<req, outstanding, contexts>>
    PROVE  IpcInv' /\ AnswerKept
<1>1. \A s \in Slot : req[s] \in Request /\ Tidy(req[s])
  BY DEF IpcInv, TypeOK, Requests
<1>2. \A s \in Slot : Settles(req[s], req'[s])
  BY <1>1, SettlesItself
<1>3. req' \in [Slot -> Request] /\ contexts' \in [Process -> [Slot -> Nat]]
  BY DEF IpcInv, TypeOK
<1> QED BY <1>2, <1>3, Settled

\* A request, as the invariant has it.
LEMMA RequestType ==
    ASSUME IpcInv, NEW s \in Slot
    PROVE  /\ req[s] \in Request /\ Tidy(req[s])
           /\ req[s].endpoint # None => req[s].endpoint \in Service /\ Live(req[s].endpoint)
           /\ req[s].client # None => /\ req[s].client \in Process
                                      /\ slot[req[s].client] = s
                                      /\ pc[req[s].client] \in Calling \cup {"exiting"}
<1>1. req[s] \in Request
  BY DEF IpcInv, TypeOK
<1>2. req[s].endpoint \in Service \cup {None} /\ req[s].client \in Process \cup {None}
  BY <1>1 DEF Request
<1> QED BY <1>1, <1>2 DEF IpcInv, Requests

\* Writing one record of request_pool.
LEMMA RecordUpdate ==
    ASSUME IpcInv, NEW s \in Slot, NEW q \in Request, req' = [req EXCEPT ![s] = q]
    PROVE  /\ req' \in [Slot -> Request] /\ req'[s] = q
           /\ \A t \in Slot : t # s => req'[t] = req[t]
BY DEF IpcInv, TypeOK

\* A step that settles one record.
LEMMA SettleOne ==
    ASSUME IpcInv, NEW P \in SUBSET Process, Elsewhere(P), \A p \in P : Moves(p),
           NEW s \in Slot, NEW q, Settles(req[s], q), req' = [req EXCEPT ![s] = q],
           UNCHANGED <<ep, outstanding, handles>>,
           contexts' \in [Process -> [Slot -> Nat]],
           \A r \in Process, t \in Slot :
              contexts[r][t] > 0 => contexts'[r][t] > 0 \/ (t = s /\ ~q.context)
    PROVE  IpcInv' /\ AnswerKept
<1>1. q \in Request
  BY DEF Settles
<1>2. /\ req' \in [Slot -> Request] /\ req'[s] = q
      /\ \A t \in Slot : t # s => req'[t] = req[t]
  BY <1>1, RecordUpdate, ZenonT(30)
<1>3. \A t \in Slot : Settles(req[t], req'[t])
  <2>1. ASSUME NEW t \in Slot, t # s
        PROVE  Settles(req[t], req'[t])
    BY <1>2, <2>1, RequestType, SettlesItself
  <2> QED BY <1>2, <2>1
<1>4. \A r \in Process, t \in Slot :
        contexts[r][t] > 0 => contexts'[r][t] > 0 \/ ~req'[t].context
  BY <1>2
<1>5. EndpointsKept
  BY EndpointsSame
<1>6. handles' \in [Process -> SUBSET Service]
  BY DEF IpcInv, TypeOK
<1> QED BY <1>2, <1>3, <1>4, <1>5, <1>6, Settled

\* A step of p that changes one record, its own or one in its hands.
LEMMA Changed ==
    ASSUME IpcInv, NEW p \in Process, NEW x \in Slot,
           Elsewhere({p}), EndpointsKept, UNCHANGED <<handles, contexts>>,
           outstanding' \in [Process -> Slot \cup {None}],
           \A r \in Process : r # p => outstanding'[r] = outstanding[r],
           NEW n \in Request, req' = [req EXCEPT ![x] = n], Tidy(n),
           \A s \in Slot \ {x} : req[s].client # p,
           n.client # None => /\ slot'[n.client] = x
                              /\ pc'[n.client] \in Calling \cup {"exiting"},
           n.endpoint # None => ep'[n.endpoint].state = "live",
           n.context => \E r \in Process : \/ contexts[r][x] > 0
                                           \/ slot'[r] = x /\ pc'[r] = "install",
           Limbo(n) => \E r \in Process : slot'[r] = x /\ pc'[r] = "release",
           req[x].client \in {None, p, n.client},
           pc[p] \in {"install", "release"} => slot[p] = x,
           pc'[p] \in Calling => slot'[p] = x /\ n.client = p,
           pc'[p] \in Holding => slot'[p] \in Slot,
           pc'[p] \in Serving => p \in Service,
           pc'[p] \notin {"closing", "dead"}
    PROVE  IpcInv'
<1>r. /\ req' \in [Slot -> Request] /\ req'[x] = n
      /\ \A t \in Slot : t # x => req'[t] = req[t]
  BY RecordUpdate, ZenonT(30)
<1>1. TypeOK'
  <2>1. /\ handles \in [Process -> SUBSET Service]
        /\ contexts \in [Process -> [Slot -> Nat]]
    BY DEF IpcInv, TypeOK
  <2> QED BY <2>1, <1>r DEF TypeOK, Elsewhere, EndpointsKept
<1>2. Owners'
  <2>1. \A r \in Process : pc'[r] \in {"closing", "dead"} => pc[r] \in {"closing", "dead"}
    BY DEF Elsewhere
  <2> QED BY <2>1, OwnersKept
<1>3. Requests'
  <2>1. ASSUME NEW s \in Slot, s # x
        PROVE  /\ Tidy(req[s])
               /\ req[s].client # None =>
                    /\ slot'[req[s].client] = s
                    /\ pc'[req[s].client] \in Calling \cup {"exiting"}
               /\ req[s].endpoint # None => ep'[req[s].endpoint].state = "live"
    <3>1. /\ Tidy(req[s]) /\ req[s].client # p
          /\ req[s].endpoint # None => req[s].endpoint \in Service /\ Live(req[s].endpoint)
          /\ req[s].client # None => /\ req[s].client \in Process
                                     /\ slot[req[s].client] = s
                                     /\ pc[req[s].client] \in Calling \cup {"exiting"}
      BY <2>1, RequestType
    <3>2. req[s].endpoint # None => ep'[req[s].endpoint].state = "live"
      BY <3>1 DEF EndpointsKept
    <3>3. req[s].client # None =>
            /\ slot'[req[s].client] = s
            /\ pc'[req[s].client] \in Calling \cup {"exiting"}
      BY <3>1 DEF Elsewhere, Calling
    <3> QED BY <3>1, <3>2, <3>3
  <2> QED BY <1>r, <2>1 DEF Requests, Live
<1>4. Held'
  <2>1. ASSUME NEW s \in Slot, s # x, req[s].context
        PROVE  \E r \in Process : \/ contexts[r][s] > 0
                                  \/ slot'[r] = s /\ pc'[r] = "install"
    <3>1. PICK r \in Process : contexts[r][s] > 0 \/ (slot[r] = s /\ pc[r] = "install")
      BY <2>1 DEF IpcInv, Held
    <3> QED BY <2>1, <3>1 DEF Elsewhere
  <2>2. ASSUME NEW s \in Slot, s # x, Limbo(req[s])
        PROVE  \E r \in Process : slot'[r] = s /\ pc'[r] = "release"
    <3>1. PICK r \in Process : slot[r] = s /\ pc[r] = "release"
      BY <2>2 DEF IpcInv, Held
    <3> QED BY <2>2, <3>1 DEF Elsewhere
  <2>3. ASSUME NEW s \in Slot
        PROVE  /\ req'[s].context => \E r \in Process : \/ contexts[r][s] > 0
                                                        \/ slot'[r] = s /\ pc'[r] = "install"
               /\ Limbo(req'[s]) => \E r \in Process : slot'[r] = s /\ pc'[r] = "release"
    BY <1>r, <2>1, <2>2
  <2> QED BY <2>3 DEF Held, Limbo
<1>5. Locals'
  <2>1. ASSUME NEW r \in Process, r # p
        PROVE  /\ pc'[r] \in Calling => slot'[r] \in Slot /\ req'[slot'[r]].client = r
               /\ pc'[r] \in Holding => slot'[r] \in Slot
               /\ pc'[r] \in Serving => r \in Service
               /\ pc'[r] \in {"closing", "dead"} => outstanding'[r] = None
    <3>1. /\ pc[r] \in Calling => slot[r] \in Slot /\ req[slot[r]].client = r
          /\ pc[r] \in Holding => slot[r] \in Slot
          /\ pc[r] \in Serving => r \in Service
          /\ pc[r] \in {"closing", "dead"} => outstanding[r] = None
      BY DEF IpcInv, Locals
    <3>2. pc[r] \in Calling => req'[slot[r]].client = r
      BY <2>1, <3>1, <1>r, IpcAssumption
    <3> QED BY <2>1, <3>1, <3>2 DEF Elsewhere, Calling, Holding, Serving
  <2> QED BY <1>r, <2>1 DEF Locals
<1> QED BY <1>1, <1>2, <1>3, <1>4, <1>5 DEF IpcInv

-----------------------------------------------------------------------------
(* Steps that leave the requests alone.                                    *)

\* A step that leaves the requests and the handles alone, of one process.
LEMMA QuietMove ==
    ASSUME IpcInv, NEW p \in Process, Elsewhere({p}), Moves(p), EndpointsKept,
           UNCHANGED <<req, outstanding, handles, contexts>>
    PROVE  IpcInv' /\ AnswerKept
<1>1. handles' \in [Process -> SUBSET Service]
  BY DEF IpcInv, TypeOK
<1>2. {p} \in SUBSET Process /\ \A q \in {p} : Moves(q)
  OBVIOUS
<1> QED BY <1>1, <1>2, Quiet

\* ipc_service_register() makes the endpoint of p live.
LEMMA RegisterStep ==
    ASSUME IpcInv, NEW p \in Process, ipc_service_register(p)
    PROVE  IpcInv' /\ AnswerKept
<1> DEFINE r == [ep[p] EXCEPT !.state = "live"]
<1>1. /\ pc[p] = "user" /\ p \in Service /\ Goto(p, "register")
      /\ ep' = [ep EXCEPT ![p] = r]
      /\ UNCHANGED <<req, outstanding, handles, contexts, slot, mode>>
  BY DEF ipc_service_register
<1>2. ep[p] \in Endpoint /\ Len(ep[p].queue) <= Depth
  BY <1>1, EndpointType
<1>3. /\ r \in Endpoint /\ Len(r.queue) <= Depth /\ r.state = "live"
  BY <1>2 DEF Endpoint
<1> HIDE DEF r
<1>4. "register" \in Label
  BY DEF Label
<1>5. Elsewhere({p}) /\ pc'[p] = "register"
  BY <1>1, <1>4, Goes, ZenonT(30)
<1>6. EndpointsKept
  BY <1>1, <1>3, <1>5, EndpointUpdate, ZenonT(30)
<1>7. Moves(p)
  BY <1>1, <1>5 DEF Moves, Calling, Holding
<1> QED BY <1>1, <1>5, <1>6, <1>7, QuietMove

\* The endpoint handles come and go without the requests noticing.
LEMMA HandleStep ==
    ASSUME IpcInv, NEW p \in Process, NEW e \in Service,
           ipc_service_lookup(p, e) \/ CloseEndpoint(p, e)
    PROVE  IpcInv' /\ AnswerKept
<1>1. /\ UNCHANGED <<ep, req, outstanding, contexts, pc, slot, mode>>
      /\ \/ handles' = [handles EXCEPT ![p] = @ \cup {e}]
         \/ handles' = [handles EXCEPT ![p] = @ \ {e}]
  BY DEF ipc_service_lookup, CloseEndpoint
<1>2. handles' \in [Process -> SUBSET Service]
  <2>1. /\ handles \in [Process -> SUBSET Service]
        /\ handles[p] \cup {e} \in SUBSET Service /\ handles[p] \ {e} \in SUBSET Service
    BY DEF IpcInv, TypeOK
  <2> QED BY <1>1, <2>1
<1>3. Elsewhere({})
  BY <1>1 DEF Elsewhere, IpcInv, TypeOK
<1>4. EndpointsKept
  BY <1>1, EndpointsSame
<1> QED BY <1>1, <1>2, <1>3, <1>4, Quiet

\* A process that moves on to a label, its locals and everything else kept.
LEMMA OnlyMoves ==
    ASSUME IpcInv, NEW p \in Process, NEW label \in Label, Goto(p, label),
           Leave(p) \/ UNCHANGED <<slot, mode>>,
           UNCHANGED <<ep, req, outstanding, handles, contexts>>,
           pc'[p] = label /\ slot'[p] \in {slot[p], None} => Moves(p)
    PROVE  IpcInv' /\ AnswerKept
<1>1. Elsewhere({p}) /\ pc'[p] = label
  BY Goes, ZenonT(30)
<1>2. slot'[p] \in {slot[p], None}
  BY DEF Leave, IpcInv, TypeOK
<1>3. EndpointsKept
  BY EndpointsSame
<1> QED BY <1>1, <1>2, <1>3, QuietMove

\* scheduler_block() in ipc_kernel_request().
LEMMA RequestBlocksStep ==
    ASSUME IpcInv, NEW p \in Process, RequestBlocks(p)
    PROVE  IpcInv' /\ AnswerKept
<1>1. PICK label \in {"blocked", "check", "unblockable"} :
        /\ pc[p] = "blocking" /\ Goto(p, label)
        /\ UNCHANGED <<ep, req, outstanding, handles, contexts, slot, mode>>
  BY DEF RequestBlocks, Goto
<1>2. label \in Label
  BY DEF Label, Off
<1>3. pc'[p] = label /\ slot' = slot => Moves(p)
  BY <1>1 DEF Moves, Calling, Holding, Serving
<1> QED BY <1>1, <1>2, <1>3, OnlyMoves

\* ipc_kernel_receive_internal() begins.
LEMMA ReceiveStep ==
    ASSUME IpcInv, NEW p \in Process, p \in Service,
           NEW m \in {"wait", "timed", "try"}, ipc_kernel_receive(p, m)
    PROVE  IpcInv' /\ AnswerKept
<1>1. /\ pc[p] = "user" /\ Goto(p, "receive") /\ mode' = [mode EXCEPT ![p] = m]
      /\ UNCHANGED <<ep, req, outstanding, handles, contexts, slot>>
  BY DEF ipc_kernel_receive
<1>2. "receive" \in Label
  BY DEF Label
<1>3. Elsewhere({p}) /\ pc'[p] = "receive"
  BY <1>1, <1>2 DEF Elsewhere, IpcInv, TypeOK, Goto
<1>4. EndpointsKept
  BY <1>1, EndpointsSame
<1>5. Moves(p)
  BY <1>1, <1>3 DEF Moves, Calling, Holding
<1> QED BY <1>1, <1>3, <1>4, <1>5, QuietMove

\* A receiver is a service.
LEMMA ReceiverServes ==
    ASSUME IpcInv, NEW p \in Process, pc[p] \in Serving
    PROVE  p \in Service
BY DEF IpcInv, Locals

\* Returns of ipc_kernel_receive_internal() that take nothing.
LEMMA ReceiveReturnsStep ==
    ASSUME IpcInv, NEW p \in Process, ReceiveReturns(p) \/ ReceiveBusy(p)
    PROVE  IpcInv' /\ AnswerKept
<1>1. /\ pc[p] \in Serving /\ Goto(p, "user") /\ Leave(p)
      /\ UNCHANGED <<req, outstanding, handles, contexts>>
      /\ \/ ep' = ep
         \/ ep' = [ep EXCEPT ![p] = [ep[p] EXCEPT !.overflow = FALSE]]
         \/ ep' = [ep EXCEPT ![p] = [ep[p] EXCEPT !.waiter = FALSE]]
  BY DEF ReceiveReturns, ReceiveBusy, Receiving, Serving
<1>s. p \in Service
  BY <1>1, ReceiverServes
<1>2. "user" \in Label
  BY DEF Label, Off
<1>3. Elsewhere({p}) /\ pc'[p] = "user"
  BY <1>1, <1>2, Goes
<1>4. EndpointsKept
  <2>1. /\ ep[p] \in Endpoint /\ Len(ep[p].queue) <= Depth
        /\ ep[p].waiter => Live(p)
    BY <1>s, EndpointType
  <2>2. ASSUME NEW r, ep' = [ep EXCEPT ![p] = r], r \in Endpoint,
               r.queue = ep[p].queue, r.state = ep[p].state, r.waiter => ep[p].waiter
        PROVE  EndpointsKept
    BY <1>s, <2>1, <2>2, EndpointUpdate, ZenonT(30) DEF Live
  <2>3. CASE ep' = [ep EXCEPT ![p] = [ep[p] EXCEPT !.overflow = FALSE]]
    <3> DEFINE r == [ep[p] EXCEPT !.overflow = FALSE]
    <3>1. /\ r \in Endpoint /\ r.queue = ep[p].queue /\ r.state = ep[p].state
          /\ r.waiter => ep[p].waiter
      BY <2>1, ZenonT(30) DEF Endpoint
    <3> QED BY <2>3, <3>1, <2>2, ZenonT(30)
  <2>4. CASE ep' = [ep EXCEPT ![p] = [ep[p] EXCEPT !.waiter = FALSE]]
    <3> DEFINE r == [ep[p] EXCEPT !.waiter = FALSE]
    <3>1. /\ r \in Endpoint /\ r.queue = ep[p].queue /\ r.state = ep[p].state
          /\ r.waiter => ep[p].waiter
      BY <2>1, ZenonT(30) DEF Endpoint
    <3> QED BY <2>4, <3>1, <2>2, ZenonT(30)
  <2> QED BY <1>1, <2>3, <2>4, EndpointsSame
<1>5. Moves(p)
  BY <1>1, <1>3 DEF Moves, Calling, Holding, Serving
<1> QED BY <1>1, <1>3, <1>4, <1>5, QuietMove

\* The head of the queue is taken: an event is returned, a request is held.
LEMMA ReceiveDequeuesStep ==
    ASSUME IpcInv, NEW p \in Process, ReceiveDequeues(p)
    PROVE  IpcInv' /\ AnswerKept
<1> DEFINE q == ep[p].queue
           t == Tail(q)
           x == Head(q)
           r == [ep[p] EXCEPT !.queue = t]
<1>1. /\ pc[p] \in Serving /\ pc[p] \notin Calling /\ Live(p) /\ q # <<>>
      /\ ep' = [ep EXCEPT ![p] = r]
      /\ UNCHANGED <<req, outstanding, handles, contexts>>
      /\ \/ x = Event /\ Goto(p, "user") /\ Leave(p)
         \/ /\ x # Event /\ Goto(p, "deliver")
            /\ slot' = [slot EXCEPT ![p] = x] /\ mode' = mode
  BY DEF ReceiveDequeues, Receiving, Serving, Calling
<1>s. p \in Service
  BY <1>1, ReceiverServes
<1>2. /\ ep[p] \in Endpoint /\ Len(q) <= Depth /\ q \in Seq(Slot \cup {Event})
      /\ ep[p].waiter => Live(p)
  BY <1>s, EndpointType DEF Endpoint
<1>3. t \in Seq(Slot \cup {Event}) /\ Len(t) <= Depth /\ x \in Slot \cup {Event}
  <2> HIDE DEF q
  <2> QED BY <1>1, <1>2, IpcAssumption
<1> HIDE DEF q, t, x
<1>4. /\ r \in Endpoint /\ r.queue = t /\ r.state = ep[p].state
      /\ r.waiter = ep[p].waiter
  BY <1>2, <1>3 DEF Endpoint
<1> HIDE DEF r
<1>5. EndpointsKept
  BY <1>1, <1>s, <1>2, <1>3, <1>4, EndpointUpdate, ZenonT(30) DEF Live
<1>6. CASE x = Event
  <2>1. "user" \in Label
    BY DEF Label, Off
  <2>2. Elsewhere({p}) /\ pc'[p] = "user"
    BY <1>1, <1>6, <2>1, Goes
  <2>3. Moves(p)
    BY <1>1, <2>2 DEF Moves, Calling, Holding, Serving
  <2> QED BY <1>1, <1>5, <2>2, <2>3, QuietMove
<1>7. CASE x # Event
  <2>1. x \in Slot /\ "deliver" \in Label
    BY <1>3, <1>7 DEF Label
  <2>2. Elsewhere({p}) /\ pc'[p] = "deliver" /\ slot'[p] = x
    <3>1. /\ pc' \in [Process -> Label] /\ pc'[p] = "deliver"
          /\ \A o \in Process : o # p => pc'[o] = pc[o]
      BY <1>1, <1>7, <2>1, ZenonT(30) DEF IpcInv, TypeOK, Goto
    <3>2. /\ slot' \in [Process -> Slot \cup {None}] /\ slot'[p] = x
          /\ \A o \in Process : o # p => slot'[o] = slot[o]
      BY <1>1, <1>7, <2>1, ZenonT(30) DEF IpcInv, TypeOK
    <3>3. mode' \in [Process -> {"wait", "timed", "try"}]
      BY <1>1, <1>7 DEF IpcInv, TypeOK
    <3> QED BY <3>1, <3>2, <3>3 DEF Elsewhere
  <2>3. Moves(p)
    BY <1>1, <2>1, <2>2 DEF Moves, Calling, Holding, Serving
  <2> QED BY <1>1, <1>5, <2>2, <2>3, QuietMove
<1> QED BY <1>6, <1>7

\* The receiver registers as the waiter.
LEMMA ReceiveWaitsStep ==
    ASSUME IpcInv, NEW p \in Process, ReceiveWaits(p)
    PROVE  IpcInv' /\ AnswerKept
<1> DEFINE r == [ep[p] EXCEPT !.waiter = TRUE]
<1>1. /\ pc[p] \in Serving /\ Live(p) /\ ep' = [ep EXCEPT ![p] = r]
      /\ Goto(p, "rblocking")
      /\ UNCHANGED <<req, outstanding, handles, contexts, slot, mode>>
  BY DEF ReceiveWaits, Receiving, Serving
<1>s. p \in Service
  BY <1>1, ReceiverServes
<1>2. ep[p] \in Endpoint /\ Len(ep[p].queue) <= Depth
  BY <1>s, EndpointType
<1>3. r \in Endpoint /\ r.queue = ep[p].queue /\ r.state = ep[p].state
  BY <1>2, ZenonT(30) DEF Endpoint
<1> HIDE DEF r
<1>4. "rblocking" \in Label
  BY DEF Label
<1>5. Elsewhere({p}) /\ pc'[p] = "rblocking"
  BY <1>1, <1>4, Goes, ZenonT(30)
<1>6. EndpointsKept
  BY <1>1, <1>s, <1>2, <1>3, EndpointUpdate, ZenonT(30) DEF Live
<1>7. Moves(p)
  BY <1>1, <1>s, <1>5 DEF Moves, Calling, Holding, Serving
<1> QED BY <1>1, <1>5, <1>6, <1>7, QuietMove

\* scheduler_block() or scheduler_sleep() of a receiver, and its deadline.
LEMMA ReceiveBlocksStep ==
    ASSUME IpcInv, NEW p \in Process, ReceiveBlocks(p) \/ TimerWakes(p)
    PROVE  IpcInv' /\ AnswerKept
<1>1. PICK label \in {"rblocked", "receive", "runblockable", "rwoken"} :
        /\ pc[p] \in {"rblocking", "rblocked"} /\ Goto(p, label)
        /\ UNCHANGED <<ep, req, outstanding, handles, contexts, slot, mode>>
  BY DEF ReceiveBlocks, TimerWakes, Goto
<1>2. label \in Label
  BY DEF Label, Off
<1>s. p \in Service
  BY <1>1, ReceiverServes DEF Serving
<1>3. pc'[p] = label /\ slot' = slot => Moves(p)
  BY <1>1, <1>s DEF Moves, Calling, Holding, Serving
<1> QED BY <1>1, <1>2, <1>3, OnlyMoves

\* kmalloc() of the context.
LEMMA AllocateStep ==
    ASSUME IpcInv, NEW p \in Process, Allocate(p)
    PROVE  IpcInv' /\ AnswerKept
<1>1. PICK label \in {"heap", "context", "nomemory"} :
        /\ pc[p] \in {"alloc", "heap"} /\ Goto(p, label)
        /\ UNCHANGED <<ep, req, outstanding, handles, contexts, slot, mode>>
  BY DEF Allocate, Goto
<1>2. label \in Label
  BY DEF Label, Off
<1>s. slot[p] \in Slot
  BY <1>1 DEF IpcInv, Locals, Holding
<1>3. pc'[p] = label /\ slot' = slot => Moves(p)
  BY <1>1, <1>s DEF Moves, Calling, Holding, Serving
<1> QED BY <1>1, <1>2, <1>3, OnlyMoves

\* A process begins to exit.
LEMMA ProcessExitStep ==
    ASSUME IpcInv, NEW p \in Process, process_exit(p)
    PROVE  IpcInv' /\ AnswerKept
<1>1. /\ pc[p] \in Off /\ pc[p] # "dead" /\ Goto(p, "exiting")
      /\ UNCHANGED <<ep, req, outstanding, handles, contexts, slot, mode>>
  BY DEF process_exit
<1>2. "exiting" \in Label
  BY DEF Label
<1>3. pc'[p] = "exiting" /\ slot' = slot => Moves(p)
  BY <1>1 DEF Moves, Calling, Holding, Serving, Off
<1> QED BY <1>1, <1>2, <1>3, OnlyMoves

\* Deliver() and Attach() when the request is gone.
Dropped(p) ==
    /\ pc[p] \in {"deliver", "context"} /\ Goto(p, "user") /\ Leave(p)
    /\ UNCHANGED <<req, ep, outstanding, handles, contexts>>

\* A delivery that is given up leaves the requests alone.
LEMMA DroppedStep ==
    ASSUME IpcInv, NEW p \in Process, Dropped(p)
    PROVE  IpcInv' /\ AnswerKept
<1>1. "user" \in Label
  BY DEF Label, Off
<1>2. pc'[p] = "user" => Moves(p)
  BY DEF Dropped, Moves, Calling, Holding, Serving
<1> QED BY <1>1, <1>2, OnlyMoves DEF Dropped

-----------------------------------------------------------------------------
(* Steps that settle a request.                                            *)

\* A step of one process that settles one record.
LEMMA SettleMove ==
    ASSUME IpcInv, NEW p \in Process, Elsewhere({p}), Moves(p),
           NEW s \in Slot, NEW q, Settles(req[s], q), req' = [req EXCEPT ![s] = q],
           UNCHANGED <<ep, outstanding, handles, contexts>>
    PROVE  IpcInv' /\ AnswerKept
<1>1. contexts' \in [Process -> [Slot -> Nat]]
  BY DEF IpcInv, TypeOK
<1>2. {p} \in SUBSET Process /\ \A r \in {p} : Moves(r)
  OBVIOUS
<1> QED BY <1>1, <1>2, SettleOne, ZenonT(30)

\* A process in the kernel with a request has its slot.
LEMMA HasSlot ==
    ASSUME IpcInv, NEW p \in Process, pc[p] \in Calling \cup Holding
    PROVE  slot[p] \in Slot
BY DEF IpcInv, Locals

\* A client marks its request blocked.
LEMMA RequestWaitsStep ==
    ASSUME IpcInv, NEW p \in Process, RequestWaits(p)
    PROVE  IpcInv' /\ AnswerKept
<1> DEFINE q == [req[slot[p]] EXCEPT !.blocked = TRUE]
<1>1. /\ pc[p] \in {"check", "woken"} /\ Open(req[slot[p]])
      /\ req' = [req EXCEPT ![slot[p]] = q] /\ Goto(p, "blocking")
      /\ UNCHANGED <<ep, outstanding, handles, contexts, slot, mode>>
  BY DEF RequestWaits
<1>2. slot[p] \in Slot
  BY <1>1, HasSlot DEF Calling
<1>3. req[slot[p]] \in Request /\ Tidy(req[slot[p]])
  BY <1>2, RequestType
<1>4. Settles(req[slot[p]], q)
  BY <1>3, <1>1, ZenonT(30) DEF Settles, Request, Tidy, Limbo, Open
<1> HIDE DEF q
<1>5. "blocking" \in Label
  BY DEF Label
<1>6. Elsewhere({p}) /\ pc'[p] = "blocking"
  BY <1>1, <1>5, Goes
<1>7. Moves(p)
  BY <1>1, <1>6 DEF Moves, Calling, Holding, Serving
<1> QED BY <1>1, <1>2, <1>4, <1>6, <1>7, SettleMove, ZenonT(30)

\* A dequeued request is marked as delivered.
DeliverMade(p) ==
    /\ pc[p] = "deliver" /\ req[slot[p]].state = "PENDING"
    /\ req' = [req EXCEPT ![slot[p]] = [@ EXCEPT !.state = "DELIVERED"]]
    /\ Goto(p, "alloc")
    /\ UNCHANGED <<ep, outstanding, handles, contexts, slot, mode>>

\* A dequeued request is delivered, or was cancelled in the meantime.
LEMMA DeliverStep ==
    ASSUME IpcInv, NEW p \in Process, Deliver(p)
    PROVE  IpcInv' /\ AnswerKept
<1> DEFINE q == [req[slot[p]] EXCEPT !.state = "DELIVERED"]
<1>1. CASE DeliverMade(p)
  <2>1. /\ pc[p] = "deliver" /\ req[slot[p]].state = "PENDING"
        /\ req' = [req EXCEPT ![slot[p]] = q] /\ Goto(p, "alloc")
        /\ UNCHANGED <<ep, outstanding, handles, contexts, slot, mode>>
    BY <1>1 DEF DeliverMade
  <2>2. slot[p] \in Slot
    BY <2>1, HasSlot DEF Holding
  <2>3. req[slot[p]] \in Request /\ Tidy(req[slot[p]])
    BY <2>2, RequestType
  <2>4. Settles(req[slot[p]], q)
    BY <2>3, <2>1 DEF Settles, Request, Tidy, Limbo, Open
  <2> HIDE DEF q
  <2>5. "alloc" \in Label
    BY DEF Label
  <2>6. Elsewhere({p}) /\ pc'[p] = "alloc"
    BY <2>1, <2>5, Goes
  <2>7. Moves(p)
    BY <2>1, <2>2, <2>6 DEF Moves, Calling, Holding, Serving
  <2> QED BY <2>1, <2>2, <2>4, <2>6, <2>7, SettleMove, ZenonT(30)
<1>2. CASE Dropped(p)
  BY <1>2, DroppedStep
<1>3. DeliverMade(p) \/ Dropped(p)
  BY DEF Deliver, DeliverMade, Dropped
<1> QED BY <1>1, <1>2, <1>3

\* No memory for the context: the request fails.
LEMMA NoMemoryStep ==
    ASSUME IpcInv, NEW p \in Process, NoMemory(p)
    PROVE  IpcInv' /\ AnswerKept
<1>1. PICK W :
        /\ pc[p] = "nomemory"
        /\ req' = [req EXCEPT ![slot[p]] = request_fail(@, W)]
        /\ GotoWaking(p, "user", W) /\ Leave(p)
        /\ UNCHANGED <<ep, outstanding, handles, contexts>>
  BY ZenonT(30) DEF NoMemory
<1>2. slot[p] \in Slot
  BY <1>1, HasSlot DEF Holding
<1>3. req[slot[p]] \in Request /\ Tidy(req[slot[p]])
  BY <1>2, RequestType
<1>4. Settles(req[slot[p]], request_fail(req[slot[p]], W))
  BY <1>3, Fails
<1>5. "user" \in Label
  BY DEF Label, Off
<1>6. Elsewhere({p}) /\ pc'[p] = "user"
  BY <1>1, <1>5, GotoElsewhere, ZenonT(30)
<1>7. Moves(p)
  BY <1>1, <1>6 DEF Moves, Calling, Holding, Serving
<1> QED BY <1>1, <1>2, <1>4, <1>6, <1>7, SettleMove, ZenonT(30)

\* object_release() of a context that got no handle.
LEMMA ReleaseContextStep ==
    ASSUME IpcInv, NEW p \in Process, ReleaseContext(p)
    PROVE  IpcInv' /\ AnswerKept
<1>1. PICK W :
        /\ pc[p] = "release"
        /\ req' = [req EXCEPT ![slot[p]] = request_context_destroy(@, W)]
        /\ GotoWaking(p, "user", W) /\ Leave(p)
        /\ UNCHANGED <<ep, outstanding, handles, contexts>>
  BY ZenonT(30) DEF ReleaseContext
<1> DEFINE q == request_context_destroy(req[slot[p]], W)
<1>2. slot[p] \in Slot
  BY <1>1, HasSlot DEF Holding
<1>3. req[slot[p]] \in Request /\ Tidy(req[slot[p]])
  BY <1>2, RequestType
<1>4. Settles(req[slot[p]], q) /\ ~Limbo(q)
  BY <1>3, Destroys
<1>5. req' = [req EXCEPT ![slot[p]] = q]
  BY <1>1
<1> HIDE DEF q
<1>6. "user" \in Label
  BY DEF Label, Off
<1>7. Elsewhere({p}) /\ pc'[p] = "user"
  BY <1>1, <1>6, GotoElsewhere
<1>8. req'[slot[p]] = q
  BY <1>2, <1>4, <1>5, RecordUpdate, ZenonT(30) DEF Settles
<1>9. Moves(p)
  BY <1>1, <1>4, <1>7, <1>8 DEF Moves, Calling, Holding, Serving
<1> QED BY <1>1, <1>2, <1>4, <1>5, <1>7, <1>9, SettleMove, ZenonT(30)

\* A reply, or the claim of a context before one.
LEMMA ReplyStep ==
    ASSUME IpcInv, NEW p \in Process, NEW s \in Slot,
           ipc_kernel_reply(p, s) \/ ipc_request_context_claim(p, s)
    PROVE  IpcInv' /\ AnswerKept
<1>q. req[s] \in Request /\ Tidy(req[s])
  BY RequestType
<1>c. contexts \in [Process -> [Slot -> Nat]]
  BY DEF IpcInv, TypeOK
<1>1. CASE ipc_kernel_reply(p, s)
  <2> DEFINE a == [req[s] EXCEPT !.state = "REPLIED"]
  <2>1. PICK W :
          /\ Answerable(req[s])
          /\ req' = [req EXCEPT ![s] = request_wake_client(a, W)]
          /\ pc' = Awoken(W)
          /\ UNCHANGED <<ep, outstanding, handles, contexts, slot, mode>>
    BY <1>1, ZenonT(30) DEF ipc_kernel_reply
  <2> DEFINE w == request_wake_client(a, W)
  <2>2. /\ a \in Request /\ a.state = "REPLIED" /\ a.endpoint = req[s].endpoint
        /\ a.client = req[s].client /\ a.active = req[s].active
        /\ a.context = req[s].context
    BY <1>q DEF Request
  <2> HIDE DEF a
  <2>3. /\ w \in Request /\ w.state = "REPLIED" /\ w.endpoint = req[s].endpoint
        /\ w.client = req[s].client /\ w.active = req[s].active
        /\ w.context = req[s].context
    BY <2>2, WakeClient
  <2> HIDE DEF w
  <2>4. Settles(req[s], w)
    BY <2>1, <2>3, <1>q DEF Settles, Tidy, Limbo, Open, Answerable
  <2>5. Elsewhere({})
    BY <2>1, WakesElsewhere
  <2>6. req' = [req EXCEPT ![s] = w]
    BY <2>1 DEF w
  <2> QED BY <2>1, <2>4, <2>5, <2>6, <1>c, SettleOne, ZenonT(30)
<1>2. CASE ipc_request_context_claim(p, s)
  <2> DEFINE w == [req[s] EXCEPT !.claimed = TRUE]
  <2>1. /\ Answerable(req[s]) /\ req' = [req EXCEPT ![s] = w]
        /\ UNCHANGED <<ep, outstanding, handles, contexts, pc, slot, mode>>
    BY <1>2 DEF ipc_request_context_claim
  <2>2. Settles(req[s], w)
    BY <2>1, <1>q, ZenonT(30) DEF Settles, Request, Tidy, Limbo, Open, Answerable
  <2> HIDE DEF w
  <2>3. Elsewhere({})
    BY <2>1 DEF Elsewhere, IpcInv, TypeOK
  <2> QED BY <2>1, <2>2, <2>3, <1>c, SettleOne, ZenonT(30)
<1> QED BY <1>1, <1>2

\* What CloseContext() and CloseAll() share: the context goes.
CloseOne(p, s, W) ==
    /\ contexts[p][s] > 0
    /\ contexts' = [contexts EXCEPT ![p][s] = @ - 1]
    /\ req' = [req EXCEPT ![s] = request_context_destroy(@, W)]
    /\ pc' = Awoken(W)
    /\ UNCHANGED <<ep, outstanding, handles, slot, mode>>

\* Closing a handle of a request context.
LEMMA CloseContextStep ==
    ASSUME IpcInv, NEW p \in Process, NEW s \in Slot, NEW W, CloseOne(p, s, W)
    PROVE  IpcInv' /\ AnswerKept
<1> DEFINE q == request_context_destroy(req[s], W)
<1>1. /\ contexts[p][s] > 0 /\ contexts' = [contexts EXCEPT ![p][s] = @ - 1]
      /\ req' = [req EXCEPT ![s] = q] /\ pc' = Awoken(W)
      /\ UNCHANGED <<ep, outstanding, handles, slot, mode>>
  BY DEF CloseOne
<1>2. req[s] \in Request /\ Tidy(req[s])
  BY RequestType
<1>3. Settles(req[s], q) /\ ~q.context
  BY <1>2, Destroys
<1> HIDE DEF q
<1>4. contexts \in [Process -> [Slot -> Nat]]
  BY DEF IpcInv, TypeOK
<1>6. contexts' \in [Process -> [Slot -> Nat]]
  BY <1>1, <1>4
<1>7. \A r \in Process, t \in Slot :
        contexts[r][t] > 0 => contexts'[r][t] > 0 \/ (t = s /\ ~q.context)
  BY <1>1, <1>3, <1>4
<1>8. Elsewhere({})
  BY <1>1, WakesElsewhere
<1> QED BY <1>1, <1>3, <1>6, <1>7, <1>8, SettleOne, ZenonT(30)

\* process_handle_close_all() closes a context, or is done.
LEMMA CloseAllStep ==
    ASSUME IpcInv, NEW p \in Process, CloseAll(p)
    PROVE  IpcInv' /\ AnswerKept
<1>1. CASE \E s \in Slot : \E W : CloseOne(p, s, W)
  BY <1>1, CloseContextStep
<1>2. ASSUME pc[p] = "closing", handles' = [handles EXCEPT ![p] = {}],
             Goto(p, "dead"), Leave(p), UNCHANGED <<contexts, req, ep, outstanding>>
      PROVE  IpcInv' /\ AnswerKept
  <2>1. "dead" \in Label
    BY DEF Label, Off
  <2>2. Elsewhere({p}) /\ pc'[p] = "dead"
    BY <1>2, <2>1, Goes
  <2>3. Moves(p)
    BY <1>2, <2>2 DEF Moves, Calling, Holding, Serving
  <2>4. handles' \in [Process -> SUBSET Service]
    BY <1>2 DEF IpcInv, TypeOK
  <2>5. EndpointsKept
    BY <1>2, EndpointsSame
  <2>6. {p} \in SUBSET Process /\ \A q \in {p} : Moves(q)
    BY <2>3
  <2> QED BY <1>2, <2>2, <2>4, <2>5, <2>6, Quiet
<1> QED BY <1>1, <1>2, ZenonT(30) DEF CloseAll, CloseOne

\* The owner's endpoint handle is installed, or the endpoint is unregistered.
Registered(p) ==
    /\ pc[p] = "register"
    /\ handles' = [handles EXCEPT ![p] = @ \cup {p}]
    /\ Goto(p, "user")
    /\ UNCHANGED <<ep, req, outstanding, contexts, slot, mode>>

\* The second half of ipc_service_register(), which may undo the first.
LEMMA RegisterInstallStep ==
    ASSUME IpcInv, NEW p \in Process, RegisterInstall(p)
    PROVE  IpcInv' /\ AnswerKept
<1>l. "user" \in Label
  BY DEF Label, Off
<1>s. p \in Service
  BY ReceiverServes DEF RegisterInstall, Serving
<1>1. CASE Registered(p)
  <2>1. /\ pc[p] = "register" /\ handles' = [handles EXCEPT ![p] = handles[p] \cup {p}]
        /\ Goto(p, "user") /\ UNCHANGED <<ep, req, outstanding, contexts, slot, mode>>
    BY <1>1 DEF Registered
  <2>2. Elsewhere({p}) /\ pc'[p] = "user"
    BY <2>1, <1>l, Goes
  <2>3. Moves(p)
    BY <2>1, <2>2 DEF Moves, Calling, Holding, Serving
  <2>4. handles' \in [Process -> SUBSET Service]
    <3>1. handles \in [Process -> SUBSET Service] /\ handles[p] \cup {p} \in SUBSET Service
      BY <1>s DEF IpcInv, TypeOK
    <3> QED BY <2>1, <3>1
  <2>5. EndpointsKept
    BY <2>1, EndpointsSame
  <2>6. {p} \in SUBSET Process /\ \A q \in {p} : Moves(q)
    BY <2>3
  <2> QED BY <2>1, <2>2, <2>4, <2>5, <2>6, Quiet
<1>2. ASSUME NEW W, pc[p] = "register",
             ep' = [ep EXCEPT ![p].state = "dead", ![p].waiter = FALSE],
             req' = [s \in Slot |-> IF s \in SlotsOf(p)
                                    THEN Unregistered(req[s], W) ELSE req[s]],
             GotoWaking(p, "user", W),
             UNCHANGED <<handles, outstanding, contexts, slot, mode>>
      PROVE  IpcInv' /\ AnswerKept
  <2>1. Elsewhere({p}) /\ pc'[p] = "user"
    BY <1>2, <1>l, GotoElsewhere, ZenonT(30)
  <2>2. ASSUME NEW s \in Slot
        PROVE  Settles(req[s], req'[s]) /\ req'[s].endpoint # p
    <3>1. req[s] \in Request /\ Tidy(req[s]) /\ p # None
      BY RequestType, IpcAssumption
    <3>2. CASE s \in SlotsOf(p)
      <4>1. req'[s] = Unregistered(req[s], W) /\ req[s].state # "FREE"
        BY <1>2, <3>2 DEF SlotsOf
      <4> QED BY <3>1, <4>1, Unregisters
    <3>3. CASE s \notin SlotsOf(p)
      <4>1. req'[s] = req[s] /\ (req[s].state = "FREE" \/ req[s].endpoint # p)
        BY <1>2, <3>3 DEF SlotsOf
      <4>2. Free.endpoint = None
        BY DEF Free
      <4> QED BY <3>1, <4>1, <4>2, SettlesItself DEF Tidy
    <3> QED BY <3>2, <3>3
  <2>3. ASSUME NEW e \in Service
        PROVE  /\ ep'[e] \in Endpoint /\ Len(ep'[e].queue) <= Depth
               /\ e = p => ep'[e].state = "dead" /\ ~ep'[e].waiter
               /\ e # p => ep'[e] = ep[e]
    <3>1. ep[e] \in Endpoint /\ Len(ep[e].queue) <= Depth
      BY EndpointType
    <3>2. ep'[e] = IF e = p THEN [[ep[e] EXCEPT !.state = "dead"] EXCEPT !.waiter = FALSE]
                   ELSE ep[e]
      BY <1>2, <1>s, ZenonT(30) DEF IpcInv, TypeOK
    <3> QED BY <3>1, <3>2, ZenonT(30) DEF Endpoint
  <2>4. TypeOK'
    <3>1. ep' \in [Service -> Endpoint] /\ \A e \in Service : Len(ep'[e].queue) <= Depth
      <4>1. ep' = [e \in Service |-> ep'[e]]
        BY <1>2, ZenonT(30) DEF IpcInv, TypeOK
      <4> QED BY <4>1, <2>3
    <3>2. req' \in [Slot -> Request]
      BY <1>2, <2>2 DEF Settles
    <3>3. /\ handles' \in [Process -> SUBSET Service]
          /\ contexts' \in [Process -> [Slot -> Nat]]
          /\ outstanding' \in [Process -> Slot \cup {None}]
      BY <1>2 DEF IpcInv, TypeOK
    <3> QED BY <3>1, <3>2, <3>3, <2>1 DEF TypeOK, Elsewhere
  <2>5. Owners'
    <3> SUFFICES ASSUME NEW e \in Service
                 PROVE  /\ ep'[e].state = "live" => pc'[e] \notin {"closing", "dead"}
                        /\ ep'[e].waiter => ep'[e].state = "live"
      BY DEF Owners, Live
    <3>1. /\ e \in Process /\ (ep[e].waiter => Live(e))
          /\ Live(e) => pc[e] \notin {"closing", "dead"}
      BY IpcAssumption DEF IpcInv, Owners
    <3>2. CASE e = p
      BY <3>2, <2>3
    <3>3. CASE e # p
      <4>1. ep'[e] = ep[e]
        BY <3>3, <2>3
      <4>2. \/ pc'[e] = pc[e]
            \/ pc'[e] = "woken" \/ pc'[e] = "rwoken"
        BY <3>1, <3>3, <2>1 DEF Elsewhere
      <4> QED BY <3>1, <4>1, <4>2 DEF Live
    <3> QED BY <3>2, <3>3
  <2>6. Moves(p)
    BY <1>2, <2>1 DEF Moves, Calling, Holding, Serving
  <2>7. \A s \in Slot : req'[s].endpoint # None => ep'[req'[s].endpoint].state = "live"
    <3> SUFFICES ASSUME NEW s \in Slot, req'[s].endpoint # None
                 PROVE  ep'[req'[s].endpoint].state = "live"
      OBVIOUS
    <3>1. req'[s].endpoint # p /\ req'[s].endpoint = req[s].endpoint
      BY <2>2 DEF Settles
    <3>2. req[s].endpoint \in Service /\ Live(req[s].endpoint)
      BY <3>1, RequestType
    <3> QED BY <3>1, <3>2, <2>3 DEF Live
  <2>8. Requests' /\ Held' /\ Locals' /\ AnswerKept
    <3>1. /\ \A s \in Slot : Settles(req[s], req'[s])
          /\ {p} \in SUBSET Process /\ \A q \in {p} : Moves(q)
          /\ contexts' = contexts /\ outstanding' = outstanding
      BY <1>2, <2>2, <2>6
    <3>2. \A r \in Process, s \in Slot :
            contexts[r][s] > 0 => contexts'[r][s] > 0 \/ ~req'[s].context
      BY <3>1
    <3> QED BY <3>1, <3>2, <2>1, <2>7, SettledLinks
  <2> QED BY <2>4, <2>5, <2>8 DEF IpcInv
<1> QED BY <1>1, <1>2 DEF RegisterInstall, Registered

=============================================================================
