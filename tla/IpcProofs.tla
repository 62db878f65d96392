----------------------------- MODULE IpcProofs -----------------------------
(***************************************************************************)
(* What Ipc guarantees for every number of processes, services, slots and  *)
(* processors.                                                             *)
(***************************************************************************)
EXTENDS IpcSteps, ListProofs

USE SMTT(30), ZenonT(30)

-----------------------------------------------------------------------------
(* Steps that change a request in another way.                             *)

\* The client of s is in the kernel with s.
LEMMA OwnRequest ==
    ASSUME IpcInv, NEW p \in Process, NEW s \in Slot, req[s].client = p
    PROVE  slot[p] = s /\ pc[p] \in Calling \cup {"exiting"}
BY IpcAssumption DEF IpcInv, Requests

\* The client lets go of a request that has been answered.
LEMMA Returns ==
    ASSUME NEW q \in Request, Tidy(q), q.client # None
    PROVE  LET r == request_maybe_free(ClientDone(q)) IN
           /\ r \in Request /\ Tidy(r) /\ ~r.active /\ r.client = None
           /\ r.endpoint \in {q.endpoint, None} /\ (r.context => q.context)
           /\ ~Limbo(r)
<1> DEFINE d == ClientDone(q)
           r == request_maybe_free(d)
<1>1. /\ d \in Request /\ d.state = q.state /\ d.endpoint = q.endpoint
      /\ d.context = q.context /\ ~d.active /\ d.client = None
  BY ZenonT(30) DEF ClientDone, Request
<1>2. q.state # "FREE"
  BY DEF Tidy, Free
<1> HIDE DEF d
<1>3. /\ r \in Request /\ Tidy(r) /\ ~Limbo(r)
      /\ r = d \/ (r = Free /\ ~d.context)
  BY <1>1, <1>2, MaybeFree
<1> HIDE DEF r
<1>4. Free.client = None /\ Free.endpoint = None /\ ~Free.active /\ ~Free.context
  BY DEF Free
<1>5. /\ ~r.active /\ r.client = None /\ (r.context => q.context)
      /\ r.endpoint \in {q.endpoint, None}
  BY <1>1, <1>3, <1>4
<1> QED BY <1>3, <1>5 DEF r, d

\* ipc_process_exit() lets go of a request of the exiting client.
LEMMA Abandons ==
    ASSUME NEW q \in Request, Tidy(q), q.client # None
    PROVE  LET r == Abandoned(q) IN
           /\ r \in Request /\ Tidy(r) /\ ~r.active /\ r.client = None
           /\ r.endpoint \in {q.endpoint, None} /\ (r.context => q.context)
           /\ ~Limbo(r)
<1> DEFINE a == IF q.state = "PENDING" THEN [q EXCEPT !.endpoint = None] ELSE q
           d == ClientDone(a)
           f == request_fail(d, {})
           r == request_maybe_free(f)
<1>0. q.state # "FREE" /\ r = Abandoned(q)
  BY DEF Tidy, Free, Abandoned
<1>1. /\ a \in Request /\ a.state = q.state /\ a.endpoint \in {q.endpoint, None}
      /\ a.context = q.context
  BY DEF Request
<1> HIDE DEF a
<1>2. /\ d \in Request /\ d.state = q.state /\ d.endpoint = a.endpoint
      /\ d.context = q.context /\ ~d.active /\ d.client = None
  BY <1>1, ZenonT(30) DEF ClientDone, Request
<1> HIDE DEF d
<1>3. Tidy(d)
  BY <1>0, <1>2 DEF Tidy
<1>4. Settles(d, f)
  BY <1>2, <1>3, Fails
<1> HIDE DEF f
<1>5. /\ f \in Request /\ Tidy(f) /\ ~f.active /\ f.client = None
      /\ f.endpoint \in {a.endpoint, None} /\ (f.context => q.context)
  BY <1>2, <1>4 DEF Settles
<1>6. /\ Free \in Request /\ Tidy(Free) /\ ~Limbo(Free) /\ Free.client = None
      /\ Free.endpoint = None /\ ~Free.active /\ ~Free.context
  BY FreeIsTidy DEF Free
<1>7. /\ r \in Request /\ Tidy(r) /\ ~Limbo(r) /\ (r = f \/ r = Free)
  <2>1. CASE f.state = "FREE"
    <3>1. f = Free /\ r = Free
      BY <1>5, <2>1 DEF Tidy, request_maybe_free
    <3> QED BY <3>1, <1>6
  <2>2. CASE f.state # "FREE"
    BY <1>5, <2>2, MaybeFree
  <2> QED BY <2>1, <2>2
<1> HIDE DEF r
<1>8. /\ ~r.active /\ r.client = None /\ (r.context => q.context)
      /\ r.endpoint \in {q.endpoint, None}
  BY <1>1, <1>5, <1>6, <1>7
<1> QED BY <1>0, <1>7, <1>8

\* A client that returns from ipc_kernel_request().
LEMMA ClientReturns ==
    ASSUME IpcInv, NEW p \in Process, pc[p] \in Calling, NEW n \in Request,
           Tidy(n), ~n.active, n.client = None,
           n.endpoint \in {req[slot[p]].endpoint, None},
           n.context => req[slot[p]].context, ~Limbo(n),
           req' = [req EXCEPT ![slot[p]] = n],
           outstanding' = [outstanding EXCEPT ![p] = IF @ = slot[p] THEN None ELSE @],
           Goto(p, "user"), Leave(p), UNCHANGED <<ep, handles, contexts>>
    PROVE  IpcInv' /\ AnswerKept
<1>1. slot[p] \in Slot /\ req[slot[p]].client = p
  BY DEF IpcInv, Locals
<1>2. "user" \in Label
  BY DEF Label, Off
<1>3. Elsewhere({p}) /\ pc'[p] = "user"
  BY <1>2, Goes, ZenonT(30)
<1>4. EndpointsKept
  BY EndpointsSame
<1>5. /\ outstanding' \in [Process -> Slot \cup {None}]
      /\ \A r \in Process : r # p => outstanding'[r] = outstanding[r]
  BY DEF IpcInv, TypeOK
<1>6. \A s \in Slot \ {slot[p]} : req[s].client # p
  BY OwnRequest
<1>7. n.endpoint # None => ep'[n.endpoint].state = "live"
  BY <1>1, RequestType DEF Live
<1>8. n.context => \E r \in Process : \/ contexts[r][slot[p]] > 0
                                      \/ slot'[r] = slot[p] /\ pc'[r] = "install"
  <2> SUFFICES ASSUME n.context
               PROVE  \E r \in Process : \/ contexts[r][slot[p]] > 0
                                         \/ slot'[r] = slot[p] /\ pc'[r] = "install"
    OBVIOUS
  <2>1. PICK r \in Process : \/ contexts[r][slot[p]] > 0
                             \/ slot[r] = slot[p] /\ pc[r] = "install"
    BY <1>1 DEF IpcInv, Held
  <2> QED BY <2>1, <1>3 DEF Elsewhere, Calling
<1>9. /\ n.client # None => /\ slot'[n.client] = slot[p]
                           /\ pc'[n.client] \in Calling \cup {"exiting"}
      /\ Limbo(n) => \E r \in Process : slot'[r] = slot[p] /\ pc'[r] = "release"
      /\ req[slot[p]].client \in {None, p, n.client}
      /\ pc[p] \in {"install", "release"} => slot[p] = slot[p]
  BY <1>1
<1>10. /\ pc'[p] \in Calling => slot'[p] = slot[p] /\ n.client = p
       /\ pc'[p] \in Holding => slot'[p] \in Slot
       /\ pc'[p] \in Serving => p \in Service
       /\ pc'[p] \notin {"closing", "dead"}
  BY <1>3 DEF Calling, Holding, Serving
<1>12. IpcInv'
  <2>1. Elsewhere({p}) /\ slot[p] \in Slot /\ UNCHANGED <<handles, contexts>>
    BY <1>1, <1>3
  <2> QED BY <2>1, <1>4, <1>5, <1>6, <1>7, <1>8, <1>9, <1>10, Changed, ZenonT(30)
<1>11. AnswerKept
  <2>1. /\ req'[slot[p]] = n /\ \A t \in Slot : t # slot[p] => req'[t] = req[t]
    BY <1>1, RecordUpdate, ZenonT(30)
  <2> QED BY <2>1 DEF AnswerKept
<1> QED BY <1>11, <1>12

\* Both ways out of ipc_kernel_request().
LEMMA RequestReturnsStep ==
    ASSUME IpcInv, NEW p \in Process, RequestReturns(p) \/ RequestBusy(p)
    PROVE  IpcInv' /\ AnswerKept
<1>1. pc[p] \in Calling
  BY DEF RequestReturns, RequestBusy, Calling
<1>2. slot[p] \in Slot /\ req[slot[p]].client = p /\ p # None
  BY <1>1, IpcAssumption DEF IpcInv, Locals
<1>3. req[slot[p]] \in Request /\ Tidy(req[slot[p]])
  BY <1>2, RequestType
<1>4. CASE RequestReturns(p)
  <2> DEFINE n == request_maybe_free(ClientDone(req[slot[p]]))
  <2>1. /\ req' = [req EXCEPT ![slot[p]] = n]
        /\ outstanding' = [outstanding EXCEPT ![p] = IF @ = slot[p] THEN None ELSE @]
        /\ Goto(p, "user") /\ Leave(p) /\ UNCHANGED <<ep, handles, contexts>>
    BY <1>4 DEF RequestReturns
  <2>2. /\ n \in Request /\ Tidy(n) /\ ~n.active /\ n.client = None
        /\ n.endpoint \in {req[slot[p]].endpoint, None}
        /\ (n.context => req[slot[p]].context) /\ ~Limbo(n)
    BY <1>2, <1>3, Returns
  <2> HIDE DEF n
  <2> QED BY <1>1, <2>1, <2>2, ClientReturns, ZenonT(30)
<1>5. CASE RequestBusy(p)
  <2> DEFINE b == [req[slot[p]] EXCEPT !.blocked = FALSE]
             f == request_fail(b, {})
             n == request_maybe_free(ClientDone(f))
  <2>1. /\ req' = [req EXCEPT ![slot[p]] = n]
        /\ outstanding' = [outstanding EXCEPT ![p] = IF @ = slot[p] THEN None ELSE @]
        /\ Goto(p, "user") /\ Leave(p) /\ UNCHANGED <<ep, handles, contexts>>
    BY <1>5 DEF RequestBusy
  <2>2. /\ b \in Request /\ b.state = req[slot[p]].state /\ b.client = p
        /\ b.endpoint = req[slot[p]].endpoint /\ b.context = req[slot[p]].context
        /\ b.active = req[slot[p]].active
    BY <1>2, <1>3, ZenonT(30) DEF Request
  <2>3. req[slot[p]].state # "FREE"
    BY <1>2, <1>3 DEF Tidy, Free
  <2> HIDE DEF b
  <2>4. Tidy(b)
    BY <1>2, <1>3, <2>2, <2>3 DEF Tidy
  <2>5. Settles(b, f)
    BY <2>2, <2>4, Fails
  <2> HIDE DEF f
  <2>6. /\ f \in Request /\ Tidy(f) /\ f.client = p
        /\ f.endpoint \in {req[slot[p]].endpoint, None}
        /\ f.context => req[slot[p]].context
    BY <2>2, <2>5 DEF Settles
  <2>7. /\ n \in Request /\ Tidy(n) /\ ~n.active /\ n.client = None
        /\ n.endpoint \in {f.endpoint, None} /\ (n.context => f.context) /\ ~Limbo(n)
    BY <1>2, <2>6, Returns
  <2> HIDE DEF n
  <2>8. /\ n.endpoint \in {req[slot[p]].endpoint, None}
        /\ n.context => req[slot[p]].context
    BY <2>6, <2>7
  <2> QED BY <1>1, <2>1, <2>7, <2>8, ClientReturns, ZenonT(30)
<1> QED BY <1>4, <1>5

\* A receiver goes on with the request it holds, whose client is still there.
LEMMA HolderGoesOn ==
    ASSUME IpcInv, NEW p \in Process, pc[p] \in {"context", "install"},
           Elsewhere({p}), pc'[p] \in {"install", "release"},
           UNCHANGED <<ep, outstanding, handles, contexts, slot>>,
           NEW n \in Request, req' = [req EXCEPT ![slot[p]] = n], Tidy(n),
           n.client = req[slot[p]].client,
           n.endpoint \in {req[slot[p]].endpoint, None},
           n.context => pc'[p] = "install", Limbo(n) => pc'[p] = "release",
           req[slot[p]].active /\ ~Open(req[slot[p]]) => n.state = req[slot[p]].state
    PROVE  IpcInv' /\ AnswerKept
<1>1. slot[p] \in Slot
  BY HasSlot DEF Holding
<1>2. /\ req[slot[p]].endpoint # None => Live(req[slot[p]].endpoint)
      /\ req[slot[p]].client # None =>
           /\ req[slot[p]].client \in Process /\ slot[req[slot[p]].client] = slot[p]
           /\ pc[req[slot[p]].client] \in Calling \cup {"exiting"}
  BY <1>1, RequestType
<1>3. EndpointsKept
  BY EndpointsSame
<1>4. \A s \in Slot : req[s].client # p
  BY OwnRequest DEF Calling
<1>5. n.client # None => /\ slot'[n.client] = slot[p]
                         /\ pc'[n.client] \in Calling \cup {"exiting"}
  <2> SUFFICES ASSUME n.client # None
               PROVE  /\ slot'[n.client] = slot[p]
                      /\ pc'[n.client] \in Calling \cup {"exiting"}
    OBVIOUS
  <2>1. /\ n.client \in Process \ {p} /\ slot[n.client] = slot[p]
        /\ pc[n.client] \in Calling \cup {"exiting"}
    BY <1>1, <1>2, <1>4
  <2> QED BY <2>1 DEF Elsewhere, Calling
<1>6. n.endpoint # None => ep'[n.endpoint].state = "live"
  BY <1>2 DEF Live
<1>7. /\ n.context => \E r \in Process : \/ contexts[r][slot[p]] > 0
                                         \/ slot'[r] = slot[p] /\ pc'[r] = "install"
      /\ Limbo(n) => \E r \in Process : slot'[r] = slot[p] /\ pc'[r] = "release"
      /\ req[slot[p]].client \in {None, p, n.client}
      /\ pc[p] \in {"install", "release"} => slot[p] = slot[p]
  OBVIOUS
<1>8. /\ pc'[p] \in Calling => slot'[p] = slot[p] /\ n.client = p
      /\ pc'[p] \in Holding => slot'[p] \in Slot
      /\ pc'[p] \in Serving => p \in Service
      /\ pc'[p] \notin {"closing", "dead"}
  BY <1>1 DEF Calling, Serving
<1>9. /\ outstanding' \in [Process -> Slot \cup {None}]
      /\ \A r \in Process : r # p => outstanding'[r] = outstanding[r]
      /\ UNCHANGED <<handles, contexts>>
      /\ \A s \in Slot \ {slot[p]} : req[s].client # p
  BY <1>4 DEF IpcInv, TypeOK
<1>10. IpcInv'
  BY <1>1, <1>3, <1>5, <1>6, <1>7, <1>8, <1>9, Changed, ZenonT(30)
<1>11. AnswerKept
  <2>1. /\ req'[slot[p]] = n /\ \A t \in Slot : t # slot[p] => req'[t] = req[t]
    BY <1>1, RecordUpdate, ZenonT(30)
  <2> QED BY <2>1 DEF AnswerKept
<1> QED BY <1>10, <1>11

\* A context is attached to a delivered request.
AttachMade(p) ==
    /\ pc[p] = "context" /\ req[slot[p]].state = "DELIVERED"
    /\ req' = [req EXCEPT ![slot[p]] = [@ EXCEPT !.context = TRUE]]
    /\ Goto(p, "install")
    /\ UNCHANGED <<ep, outstanding, handles, contexts, slot, mode>>

\* The context that was allocated gets attached.
LEMMA AttachMadeStep ==
    ASSUME IpcInv, NEW p \in Process, AttachMade(p)
    PROVE  IpcInv' /\ AnswerKept
<1> DEFINE n == [req[slot[p]] EXCEPT !.context = TRUE]
<1>1. /\ pc[p] = "context" /\ req[slot[p]].state = "DELIVERED"
      /\ req' = [req EXCEPT ![slot[p]] = n] /\ Goto(p, "install")
      /\ UNCHANGED <<ep, outstanding, handles, contexts, slot, mode>>
  BY DEF AttachMade
<1>2. slot[p] \in Slot
  BY <1>1, HasSlot DEF Holding
<1>3. req[slot[p]] \in Request /\ Tidy(req[slot[p]])
  BY <1>2, RequestType
<1>4. /\ n \in Request /\ n.client = req[slot[p]].client /\ n.context
      /\ n.endpoint = req[slot[p]].endpoint /\ n.state = req[slot[p]].state
      /\ n.active = req[slot[p]].active
  BY <1>3, ZenonT(30) DEF Request
<1>5. Tidy(n) /\ ~Limbo(n)
  BY <1>1, <1>3, <1>4 DEF Tidy, Limbo
<1> HIDE DEF n
<1>6. "install" \in Label
  BY DEF Label
<1>7. Elsewhere({p}) /\ pc'[p] = "install"
  BY <1>1, <1>6, Goes, ZenonT(30)
<1> QED BY <1>1, <1>4, <1>5, <1>7, HolderGoesOn, ZenonT(30)

\* ipc_kernel_receive() after the allocation.
LEMMA AttachStep ==
    ASSUME IpcInv, NEW p \in Process, Attach(p)
    PROVE  IpcInv' /\ AnswerKept
<1>1. AttachMade(p) \/ Dropped(p)
  BY DEF Attach, AttachMade, Dropped
<1> QED BY <1>1, AttachMadeStep, DroppedStep

\* The handle of the context is installed, or the delivery is undone.
Installed(p) ==
    /\ pc[p] = "install"
    /\ contexts' = [contexts EXCEPT ![p][slot[p]] = @ + 1]
    /\ Goto(p, "user") /\ Leave(p)
    /\ UNCHANGED <<req, ep, outstanding, handles>>

NotInstalled(p, W) ==
    /\ pc[p] = "install"
    /\ req' = [req EXCEPT ![slot[p]] =
                 request_fail([@ EXCEPT !.context = FALSE], W)]
    /\ GotoWaking(p, "release", W)
    /\ UNCHANGED <<contexts, slot, mode, ep, outstanding, handles>>

\* With its handle installed, the context outlives the call.
LEMMA InstalledStep ==
    ASSUME IpcInv, NEW p \in Process, Installed(p)
    PROVE  IpcInv' /\ AnswerKept
<1>1. /\ pc[p] = "install" /\ contexts' = [contexts EXCEPT ![p][slot[p]] = @ + 1]
      /\ Goto(p, "user") /\ Leave(p) /\ UNCHANGED <<req, ep, outstanding, handles>>
  BY DEF Installed
<1>2. slot[p] \in Slot
  BY <1>1, HasSlot DEF Holding
<1>3. contexts \in [Process -> [Slot -> Nat]]
  BY DEF IpcInv, TypeOK
<1>4. /\ contexts' \in [Process -> [Slot -> Nat]] /\ contexts'[p][slot[p]] > 0
      /\ \A r \in Process, t \in Slot : contexts[r][t] > 0 => contexts'[r][t] > 0
  BY <1>1, <1>2, <1>3
<1>5. "user" \in Label
  BY DEF Label, Off
<1>6. Elsewhere({p}) /\ pc'[p] = "user"
  BY <1>1, <1>5, Goes
<1>7. Moves(p)
  BY <1>1, <1>4, <1>6 DEF Moves, Calling, Holding, Serving
<1>8. \A s \in Slot : Settles(req[s], req'[s])
  BY <1>1, RequestType, SettlesItself
<1>9. req' \in [Slot -> Request] /\ handles' \in [Process -> SUBSET Service]
  BY <1>1 DEF IpcInv, TypeOK
<1>10. EndpointsKept
  BY <1>1, EndpointsSame
<1>11. {p} \in SUBSET Process /\ \A q \in {p} : Moves(q)
  BY <1>7
<1>12. \A r \in Process, s \in Slot :
         contexts[r][s] > 0 => contexts'[r][s] > 0 \/ ~req'[s].context
  BY <1>4
<1> QED BY <1>1, <1>4, <1>6, <1>8, <1>9, <1>10, <1>11, <1>12, Settled

\* What is left of a request when its context is taken back.
LEMMA Undelivers ==
    ASSUME NEW q \in Request, Tidy(q), NEW W
    PROVE  LET n == request_fail([q EXCEPT !.context = FALSE], W) IN
           /\ n \in Request /\ Tidy(n) /\ n.client = q.client /\ ~n.context
           /\ n.endpoint \in {q.endpoint, None}
           /\ q.active /\ ~Open(q) => n.state = q.state
<1> DEFINE b == [q EXCEPT !.context = FALSE]
           n == request_fail(b, W)
<1>1. /\ b \in Request /\ b.state = q.state /\ b.client = q.client
      /\ b.endpoint = q.endpoint /\ b.active = q.active /\ ~b.context
  BY DEF Request
<1>2. CASE q.state = "FREE"
  <2>1. q = Free
    BY <1>2 DEF Tidy
  <2>2. b = Free
    BY <1>1, <2>1 DEF Free, Request
  <2>3. n = Free /\ Free.client = None /\ Free.endpoint = None /\ ~Free.context /\ ~Free.active
    BY <2>2 DEF request_fail, Open, Free
  <2> QED BY <2>1, <2>3, FreeIsTidy
<1>3. CASE q.state # "FREE"
  <2> HIDE DEF b
  <2>1. Tidy(b)
    BY <1>1, <1>3 DEF Tidy
  <2>2. Settles(b, n)
    BY <1>1, <2>1, Fails
  <2> HIDE DEF n
  <2>3. /\ n \in Request /\ Tidy(n) /\ n.client = q.client /\ ~n.context
        /\ n.endpoint \in {q.endpoint, None}
        /\ q.active /\ ~Open(q) => n.state = q.state
    BY <1>1, <2>2 DEF Settles, Open
  <2> QED BY <2>3 DEF n, b
<1> QED BY <1>2, <1>3

\* Without a handle the request fails, and the receiver frees what is left.
LEMMA NotInstalledStep ==
    ASSUME IpcInv, NEW p \in Process, NEW W, NotInstalled(p, W)
    PROVE  IpcInv' /\ AnswerKept
<1> DEFINE n == request_fail([req[slot[p]] EXCEPT !.context = FALSE], W)
<1>1. /\ pc[p] = "install" /\ req' = [req EXCEPT ![slot[p]] = n]
      /\ GotoWaking(p, "release", W)
      /\ UNCHANGED <<contexts, slot, mode, ep, outstanding, handles>>
  BY DEF NotInstalled
<1>2. slot[p] \in Slot
  BY <1>1, HasSlot DEF Holding
<1>3. req[slot[p]] \in Request /\ Tidy(req[slot[p]])
  BY <1>2, RequestType
<1>4. /\ n \in Request /\ Tidy(n) /\ n.client = req[slot[p]].client /\ ~n.context
      /\ n.endpoint \in {req[slot[p]].endpoint, None}
      /\ req[slot[p]].active /\ ~Open(req[slot[p]]) => n.state = req[slot[p]].state
  BY <1>3, Undelivers
<1> HIDE DEF n
<1>5. "release" \in Label
  BY DEF Label
<1>6. Elsewhere({p}) /\ pc'[p] = "release"
  BY <1>1, <1>5, GotoElsewhere
<1> QED BY <1>1, <1>4, <1>6, HolderGoesOn

\* The last part of ipc_kernel_receive().
LEMMA InstallContextStep ==
    ASSUME IpcInv, NEW p \in Process, InstallContext(p)
    PROVE  IpcInv' /\ AnswerKept
<1>1. Installed(p) \/ \E W : NotInstalled(p, W)
  BY DEF InstallContext, Installed, NotInstalled
<1> QED BY <1>1, InstalledStep, NotInstalledStep

-----------------------------------------------------------------------------
(* Steps that change a queue.                                              *)

\* Subscribing discards the events that are queued.
LEMMA ResubscribeStep ==
    ASSUME IpcInv, NEW p \in Process, p \in Service, NEW on \in BOOLEAN, Resubscribe(p, on)
    PROVE  IpcInv' /\ AnswerKept
<1> DEFINE r == [ep[p] EXCEPT !.queue = Discarded(p), !.overflow = FALSE,
                              !.subscribed = on]
<1>1. /\ ep' = [ep EXCEPT ![p] = r]
      /\ UNCHANGED <<req, outstanding, handles, contexts, pc, slot, mode>>
  BY DEF Resubscribe
<1>2. ep[p] \in Endpoint /\ Len(ep[p].queue) <= Depth /\ (ep[p].waiter => Live(p))
  BY EndpointType
<1>3. ep[p].queue \in Seq(Slot \cup {Event}) /\ Depth \in Nat
  BY <1>2, IpcAssumption DEF Endpoint
<1>4. Discarded(p) \in Seq(Slot \cup {Event}) /\ Len(Discarded(p)) <= Len(ep[p].queue)
  BY <1>3, FilterType DEF Discarded
<1>5. Len(Discarded(p)) <= Depth
  BY <1>2, <1>3, <1>4
<1>6. /\ r \in Endpoint /\ r.queue = Discarded(p) /\ r.state = ep[p].state
      /\ r.waiter = ep[p].waiter
  BY <1>2, <1>4 DEF Endpoint
<1> HIDE DEF r
<1>7. EndpointsKept
  BY <1>1, <1>2, <1>5, <1>6, EndpointUpdate, ZenonT(30) DEF Live
<1>8. Elsewhere({}) /\ handles' \in [Process -> SUBSET Service]
  BY <1>1 DEF Elsewhere, IpcInv, TypeOK
<1> QED BY <1>1, <1>7, <1>8, Quiet

\* An event goes to every subscriber that has room.
LEMMA PublishStep ==
    ASSUME IpcInv, ipc_publish_event
    PROVE  IpcInv' /\ AnswerKept
<1> DEFINE to == {e \in Service : Live(e) /\ ep[e].subscribed}
           room == {e \in to : HasRoom(e)}
<1>1. PICK W :
        /\ ep' = [e \in Service |->
                    IF e \in room
                    THEN [ep[e] EXCEPT !.queue = Append(@, Event),
                                       !.waiter = @ /\ e \notin W]
                    ELSE IF e \in to THEN [ep[e] EXCEPT !.overflow = TRUE]
                    ELSE ep[e]]
        /\ pc' = Awoken(W)
        /\ UNCHANGED <<req, outstanding, handles, contexts, slot, mode>>
  BY ZenonT(30) DEF ipc_publish_event
<1>2. \A e \in room : Len(ep[e].queue) < Depth
  BY DEF HasRoom
<1> HIDE DEF to, room
<1>3. ASSUME NEW e \in Service
      PROVE  /\ ep'[e] \in Endpoint /\ Len(ep'[e].queue) <= Depth
             /\ ep'[e].state = ep[e].state
             /\ ep'[e].waiter => ep[e].waiter
  <2>1. ep[e] \in Endpoint /\ Len(ep[e].queue) <= Depth
    BY EndpointType
  <2>2. CASE e \in room
    <3> DEFINE q == Append(ep[e].queue, Event)
    <3>1. ep'[e] = [ep[e] EXCEPT !.queue = q, !.waiter = ep[e].waiter /\ e \notin W]
      BY <1>1, <2>2, ZenonT(30)
    <3>2. ep[e].queue \in Seq(Slot \cup {Event}) /\ Depth \in Nat /\ Len(ep[e].queue) < Depth
      BY <1>2, <2>1, <2>2, IpcAssumption DEF Endpoint
    <3>3. q \in Seq(Slot \cup {Event}) /\ Len(q) <= Depth
      BY <3>2
    <3> HIDE DEF q
    <3> QED BY <2>1, <3>1, <3>3, ZenonT(30) DEF Endpoint
  <2>3. CASE e \notin room /\ e \in to
    <3>1. ep'[e] = [ep[e] EXCEPT !.overflow = TRUE]
      BY <1>1, <2>3, ZenonT(30)
    <3> QED BY <2>1, <3>1, ZenonT(30) DEF Endpoint
  <2>4. CASE e \notin room /\ e \notin to
    BY <1>1, <2>1, <2>4, ZenonT(30)
  <2> QED BY <2>2, <2>3, <2>4
<1>4. EndpointsKept
  <2>1. ep' \in [Service -> Endpoint]
    BY <1>1, <1>3, ZenonT(30)
  <2> QED BY <2>1, <1>3, EndpointType DEF EndpointsKept, Live
<1>5. Elsewhere({})
  BY <1>1, WakesElsewhere, ZenonT(30)
<1>6. handles' \in [Process -> SUBSET Service]
  BY <1>1, ZenonT(30) DEF IpcInv, TypeOK
<1> QED BY <1>1, <1>4, <1>5, <1>6, Quiet, ZenonT(30)

\* The step of ipc_kernel_request(), with its witnesses.
Asked(p, e, s, W) ==
    /\ pc[p] = "user" /\ HasRoom(e) /\ Live(e)
    /\ s = request_allocate_locked
    /\ req' = [req EXCEPT ![s] =
                 [Free EXCEPT !.state = "PENDING", !.endpoint = e,
                    !.client = p, !.active = TRUE, !.thread = TRUE]]
    /\ outstanding' = [outstanding EXCEPT ![p] = s]
    /\ slot' = [slot EXCEPT ![p] = s]
    /\ ep' = [ep EXCEPT ![e].queue = Append(@, s),
                        ![e].waiter = @ /\ e \notin W]
    /\ GotoWaking(p, "check", W)
    /\ UNCHANGED <<handles, contexts, mode>>

\* request_allocate_locked() hands out a free record.
LEMMA AllocatesFree ==
    ASSUME NEW s \in Slot, s = request_allocate_locked
    PROVE  req[s].state = "FREE"
<1> DEFINE free == {t \in Slot : req[t].state = "FREE"}
           least(t) == \A u \in free : t <= u
<1>1. free # {}
  BY IpcAssumption DEF request_allocate_locked
<1>2. free \in SUBSET Nat
  BY IpcAssumption, ZenonT(30)
<1>3. s = CHOOSE t \in free : least(t)
  BY <1>1 DEF request_allocate_locked
<1>4. \E t \in free : least(t)
  <2> HIDE DEF free
  <2> QED BY <1>1, <1>2, NatMin
<1>5. s \in free
  BY <1>3, <1>4
<1> QED BY <1>5

\* A request is queued, with its client on the way to wait for the answer.
LEMMA AskedStep ==
    ASSUME IpcInv, NEW p \in Process, NEW e \in Service, NEW s \in Slot, NEW W, Asked(p, e, s, W)
    PROVE  IpcInv' /\ AnswerKept
<1> DEFINE n == [Free EXCEPT !.state = "PENDING", !.endpoint = e,
                    !.client = p, !.active = TRUE, !.thread = TRUE]
           q == Append(ep[e].queue, s)
           r == [ep[e] EXCEPT !.queue = q, !.waiter = ep[e].waiter /\ e \notin W]
<1>1. /\ pc[p] = "user" /\ HasRoom(e) /\ Live(e)
      /\ req' = [req EXCEPT ![s] = n]
      /\ outstanding' = [outstanding EXCEPT ![p] = s]
      /\ slot' = [slot EXCEPT ![p] = s]
      /\ ep' = [ep EXCEPT ![e] = r]
      /\ pc' = [Awoken(W) EXCEPT ![p] = "check"]
      /\ UNCHANGED <<handles, contexts, mode>>
  BY ZenonT(30) DEF Asked, GotoWaking
<1>2. ep[e] \in Endpoint
  BY EndpointType
<1>3. ep[e].queue \in Seq(Slot \cup {Event}) /\ Depth \in Nat /\ Len(ep[e].queue) < Depth
  BY <1>1, <1>2, IpcAssumption DEF HasRoom, Endpoint
<1>4. q \in Seq(Slot \cup {Event}) /\ Len(q) <= Depth
  BY <1>3
<1> HIDE DEF q
<1>5. r \in Endpoint /\ r.queue = q /\ r.state = "live"
  BY <1>1, <1>2, <1>4, ZenonT(30) DEF Endpoint, Live
<1> HIDE DEF r
<1>6. EndpointsKept /\ ep'[e].state = "live"
  <2>1. EndpointsKept
    BY <1>1, <1>4, <1>5, EndpointUpdate, ZenonT(30)
  <2> QED BY <1>1, <2>1 DEF EndpointsKept
<1>7. req[s] = Free
  BY AllocatesFree, RequestType DEF Tidy, Asked
<1>8. /\ n \in Request /\ n.client = p /\ n.endpoint = e /\ n.active /\ ~n.context
      /\ n.state = "PENDING" /\ Free.client = None /\ ~Free.active /\ p # None
  BY IpcAssumption, ZenonT(30) DEF Free, Request
<1> HIDE DEF n
<1>9. Tidy(n) /\ ~Limbo(n)
  BY <1>8 DEF Tidy, Limbo
<1>10. /\ Elsewhere({p}) /\ pc'[p] = "check" /\ slot'[p] = s
  <2>1. TypeOK
    BY DEF IpcInv
  <2>2. /\ pc' \in [Process -> Label] /\ pc'[p] = "check"
        /\ \A t \in Process : t # p => pc'[t] = Awoken(W)[t]
    BY <1>1, <2>1, AwokenType DEF Label
  <2>3. /\ slot' \in [Process -> Slot \cup {None}] /\ slot'[p] = s
        /\ mode' \in [Process -> {"wait", "timed", "try"}]
        /\ \A t \in Process : t # p => slot'[t] = slot[t]
    BY <1>1, <2>1 DEF TypeOK
  <2> QED BY <2>1, <2>2, <2>3, AwokenType DEF Elsewhere
<1>11. /\ outstanding' \in [Process -> Slot \cup {None}]
       /\ \A t \in Process : t # p => outstanding'[t] = outstanding[t]
       /\ UNCHANGED <<handles, contexts>>
  BY <1>1 DEF IpcInv, TypeOK
<1>12. \A t \in Slot \ {s} : req[t].client # p
  BY <1>1, OwnRequest DEF Calling
<1>13. /\ n.client # None => /\ slot'[n.client] = s
                             /\ pc'[n.client] \in Calling \cup {"exiting"}
       /\ n.endpoint # None => ep'[n.endpoint].state = "live"
  BY <1>6, <1>8, <1>10 DEF Calling
<1>14. /\ n.context => \E t \in Process : \/ contexts[t][s] > 0
                                          \/ slot'[t] = s /\ pc'[t] = "install"
       /\ Limbo(n) => \E t \in Process : slot'[t] = s /\ pc'[t] = "release"
       /\ req[s].client \in {None, p, n.client}
       /\ pc[p] \in {"install", "release"} => slot[p] = s
  BY <1>1, <1>7, <1>8, <1>9
<1>15. /\ pc'[p] \in Calling => slot'[p] = s /\ n.client = p
       /\ pc'[p] \in Holding => slot'[p] \in Slot
       /\ pc'[p] \in Serving => p \in Service
       /\ pc'[p] \notin {"closing", "dead"}
  BY <1>8, <1>10 DEF Serving
<1>16. IpcInv'
  <2>1. /\ req' = [req EXCEPT ![s] = n] /\ n \in Request /\ Tidy(n)
        /\ EndpointsKept /\ Elsewhere({p})
    BY <1>1, <1>6, <1>8, <1>9, <1>10
  <2> QED BY <2>1, <1>11, <1>12, <1>13, <1>14, <1>15, Changed, ZenonT(30)
<1>17. AnswerKept
  <2>1. \A t \in Slot : t # s => req'[t] = req[t]
    BY <1>1, <1>8, RecordUpdate
  <2> QED BY <2>1, <1>7, <1>8 DEF AnswerKept
<1> QED BY <1>16, <1>17

\* ipc_kernel_request() up to its wait.
LEMMA RequestStep ==
    ASSUME IpcInv, NEW p \in Process, NEW e \in Service, ipc_kernel_request(p, e)
    PROVE  IpcInv' /\ AnswerKept
<1>1. PICK s \in Slot, W \in Wakes(IF ep[e].waiter THEN {e} ELSE {}) : Asked(p, e, s, W)
  BY ZenonT(30) DEF ipc_kernel_request, Asked
<1> QED BY <1>1, AskedStep

-----------------------------------------------------------------------------
(* ipc_process_exit().                                                     *)

\* What it leaves of a request: nothing that names the process.
Forgotten(p, q, n) ==
    /\ n \in Request /\ Tidy(n)
    /\ n.client # p
    /\ n.client # None => n.client = q.client
    /\ q.client # p => n.client = q.client
    /\ q.client = p => ~n.active
    /\ n.endpoint \in {q.endpoint, None} /\ n.endpoint # p
    /\ n.context => q.context
    /\ Limbo(n) => Limbo(q)
    /\ q.active /\ ~Open(q) => n.state = q.state \/ ~n.active

\* A request of the process, after the requests to it have failed.
LEMMA Forgets ==
    ASSUME NEW p \in Process, NEW b \in Request, NEW q, Settles(b, q), q.endpoint # p
    PROVE  Forgotten(p, b, IF q.client = p THEN Abandoned(q) ELSE q)
<1>1. p # None
  BY IpcAssumption
<1>2. CASE q.client = p
  <2> DEFINE r == Abandoned(q)
  <2>1. q \in Request /\ Tidy(q) /\ q.client # None /\ b.client = p
    BY <1>1, <1>2 DEF Settles
  <2>2. /\ r \in Request /\ Tidy(r) /\ ~r.active /\ r.client = None
        /\ r.endpoint \in {q.endpoint, None} /\ (r.context => q.context)
        /\ ~Limbo(r)
    BY <2>1, Abandons
  <2> HIDE DEF r
  <2>3. Forgotten(p, b, r)
    BY <1>1, <2>1, <2>2 DEF Forgotten, Settles
  <2> QED BY <1>2, <2>3 DEF r
<1>3. CASE q.client # p
  BY <1>1, <1>3 DEF Forgotten, Settles
<1> QED BY <1>2, <1>3

\* The step, request by request and endpoint by endpoint.
LEMMA Exits ==
    ASSUME IpcInv, NEW p \in Process, ipc_process_exit(p)
    PROVE  /\ pc[p] = "exiting" /\ Elsewhere({p}) /\ pc'[p] = "closing"
           /\ outstanding' = [outstanding EXCEPT ![p] = None]
           /\ UNCHANGED <<handles, contexts, slot>>
           /\ req' \in [Slot -> Request]
           /\ \A s \in Slot : Forgotten(p, req[s], req'[s])
           /\ ep' \in [Service -> Endpoint]
           /\ \A e \in Service : /\ Len(ep'[e].queue) <= Depth
                                 /\ e # p => ep'[e].state = ep[e].state
                                 /\ e = p => ep'[e].state # "live"
                                 /\ ep'[e].waiter => ep[e].waiter /\ (e # p \/ ~Live(p))
<1> DEFINE mine == IF p \in Service /\ Live(p) THEN SlotsOf(p) ELSE {}
           own == {s \in Slot : req[s].client = p}
           queued == {s \in own \ mine : req[s].state = "PENDING"}
           kept(e) == IF \E s \in queued : req[s].endpoint = e
                      THEN endpoint_remove_request(ep[e].queue,
                             CHOOSE s \in queued : req[s].endpoint = e)
                      ELSE ep[e].queue
<1>1. PICK W :
        /\ pc[p] = "exiting"
        /\ req' = [s \in Slot |->
             LET q == IF s \in mine THEN Unregistered(req[s], W) ELSE req[s]
             IN  IF q.client = p THEN Abandoned(q) ELSE q]
        /\ GotoWaking(p, "closing", W)
        /\ ep' = [e \in Service |->
             IF e = p /\ Live(p)
             THEN [ep[e] EXCEPT !.state = "dead", !.waiter = FALSE]
             ELSE [ep[e] EXCEPT !.queue = kept(e)]]
        /\ outstanding' = [outstanding EXCEPT ![p] = None]
        /\ UNCHANGED <<handles, contexts, slot, mode>>
  BY DEF ipc_process_exit
<1>2. ASSUME NEW e \in Service
      PROVE  kept(e) \in Seq(Slot \cup {Event}) /\ Len(kept(e)) <= Depth
  <2>1. /\ ep[e].queue \in Seq(Slot \cup {Event}) /\ Len(ep[e].queue) <= Depth
        /\ Depth \in Nat
    BY EndpointType, IpcAssumption DEF Endpoint
  <2> HIDE DEF queued
  <2>2. kept(e) \in Seq(Slot \cup {Event}) /\ Len(kept(e)) <= Len(ep[e].queue)
    BY <2>1, WithoutType DEF endpoint_remove_request
  <2> HIDE DEF kept
  <2> QED BY <2>1, <2>2
<1> HIDE DEF kept
<1>3. ASSUME NEW s \in Slot
      PROVE  Forgotten(p, req[s], req'[s])
  <2> DEFINE q == IF s \in mine THEN Unregistered(req[s], W) ELSE req[s]
  <2>1. /\ req[s] \in Request /\ Tidy(req[s]) /\ p # None
        /\ req[s].endpoint # None => req[s].endpoint \in Service /\ Live(req[s].endpoint)
    BY RequestType, IpcAssumption
  <2>2. Settles(req[s], q) /\ q.endpoint # p
    <3>1. CASE s \in mine
      <4>1. q = Unregistered(req[s], W) /\ req[s].state # "FREE"
        BY <3>1 DEF SlotsOf
      <4>2. Settles(req[s], Unregistered(req[s], W)) /\ Unregistered(req[s], W).endpoint = None
        BY <2>1, <4>1, Unregisters
      <4> QED BY <2>1, <4>1, <4>2
    <3>2. CASE s \notin mine
      <4>1. q = req[s]
        BY <3>2
      <4>2. ASSUME req[s].endpoint = p
            PROVE  FALSE
        <5>1. p \in Service /\ Live(p)
          BY <2>1, <4>2
        <5>2. req[s].state = "FREE"
          BY <3>2, <4>2, <5>1 DEF SlotsOf
        <5> QED BY <2>1, <4>2, <5>2 DEF Tidy, Free
      <4>3. Settles(req[s], req[s])
        BY <2>1, SettlesItself
      <4> QED BY <4>1, <4>2, <4>3
    <3> QED BY <3>1, <3>2
  <2>3. req'[s] = IF q.client = p THEN Abandoned(q) ELSE q
    BY <1>1, ZenonT(30)
  <2> HIDE DEF q
  <2> QED BY <2>1, <2>2, <2>3, Forgets
<1>4. ASSUME NEW e \in Service
      PROVE  /\ ep'[e] \in Endpoint /\ Len(ep'[e].queue) <= Depth
             /\ e # p => ep'[e].state = ep[e].state
             /\ e = p => ep'[e].state # "live"
             /\ ep'[e].waiter => ep[e].waiter /\ (e # p \/ ~Live(p))
  <2>1. ep[e] \in Endpoint /\ Len(ep[e].queue) <= Depth
    BY EndpointType
  <2>2. CASE e = p /\ Live(p)
    <3>1. ep'[e] = [ep[e] EXCEPT !.state = "dead", !.waiter = FALSE]
      BY <1>1, <2>2, ZenonT(30)
    <3> QED BY <2>1, <2>2, <3>1, ZenonT(30) DEF Endpoint
  <2>3. CASE ~(e = p /\ Live(p))
    <3>1. ep'[e] = [ep[e] EXCEPT !.queue = kept(e)]
      BY <1>1, <2>3, ZenonT(30)
    <3>2. /\ ep'[e] \in Endpoint /\ ep'[e].queue = kept(e)
          /\ ep'[e].state = ep[e].state /\ ep'[e].waiter = ep[e].waiter
      BY <1>2, <2>1, <3>1 DEF Endpoint
    <3> QED BY <1>2, <2>3, <3>2 DEF Live
  <2> QED BY <2>2, <2>3
<1>5. Elsewhere({p}) /\ pc'[p] = "closing"
  <2>1. "closing" \in Label
    BY DEF Label
  <2> QED BY <1>1, <2>1, GotoElsewhere, ZenonT(30)
<1>6. ep' \in [Service -> Endpoint]
  <2>1. ep' = [e \in Service |-> ep'[e]]
    BY <1>1, ZenonT(30)
  <2> QED BY <2>1, <1>4
<1>7. req' \in [Slot -> Request]
  <2>1. req' = [s \in Slot |-> req'[s]]
    BY <1>1, ZenonT(30)
  <2> QED BY <2>1, <1>3 DEF Forgotten
<1> QED BY <1>1, <1>3, <1>4, <1>5, <1>6, <1>7

\* An exiting process is forgotten by ipc.c.
LEMMA ExitStep ==
    ASSUME IpcInv, NEW p \in Process, ipc_process_exit(p)
    PROVE  IpcInv' /\ AnswerKept
<1>1. /\ pc[p] = "exiting" /\ Elsewhere({p}) /\ pc'[p] = "closing"
      /\ outstanding' = [outstanding EXCEPT ![p] = None]
      /\ UNCHANGED <<handles, contexts, slot>>
      /\ req' \in [Slot -> Request] /\ ep' \in [Service -> Endpoint]
  BY Exits
<1>2. \A s \in Slot : Forgotten(p, req[s], req'[s])
  BY Exits
<1>3. \A e \in Service : /\ Len(ep'[e].queue) <= Depth
                         /\ e # p => ep'[e].state = ep[e].state
                         /\ e = p => ep'[e].state # "live"
                         /\ ep'[e].waiter => ep[e].waiter /\ (e # p \/ ~Live(p))
  BY Exits
<1>4. \A r \in Process : r # p =>
        /\ slot'[r] = slot[r]
        /\ \/ pc'[r] = pc[r]
           \/ pc[r] = "blocked" /\ pc'[r] = "woken"
           \/ pc[r] = "rblocked" /\ pc'[r] = "rwoken"
  BY <1>1 DEF Elsewhere
<1>5. /\ outstanding' \in [Process -> Slot \cup {None}] /\ outstanding'[p] = None
      /\ \A r \in Process : r # p => outstanding'[r] = outstanding[r]
  BY <1>1 DEF IpcInv, TypeOK
<1>6. TypeOK'
  <2>1. /\ handles' \in [Process -> SUBSET Service]
        /\ contexts' \in [Process -> [Slot -> Nat]]
    BY <1>1 DEF IpcInv, TypeOK
  <2> QED BY <2>1, <1>1, <1>3, <1>5 DEF TypeOK, Elsewhere
<1>7. Owners'
  <2> SUFFICES ASSUME NEW e \in Service
               PROVE  /\ ep'[e].state = "live" => pc'[e] \notin {"closing", "dead"}
                      /\ ep'[e].waiter => ep'[e].state = "live"
    BY DEF Owners, Live
  <2>1. /\ e \in Process /\ (ep[e].waiter => ep[e].state = "live")
        /\ ep[e].state = "live" => pc[e] \notin {"closing", "dead"}
    BY IpcAssumption DEF IpcInv, Owners, Live
  <2> QED BY <2>1, <1>3, <1>4 DEF Live
<1>8. Requests'
  <2> SUFFICES ASSUME NEW s \in Slot
               PROVE  /\ Tidy(req'[s])
                      /\ req'[s].client # None =>
                           /\ slot'[req'[s].client] = s
                           /\ pc'[req'[s].client] \in Calling \cup {"exiting"}
                      /\ req'[s].endpoint # None => ep'[req'[s].endpoint].state = "live"
    BY DEF Requests, Live
  <2>1. /\ Tidy(req'[s]) /\ req'[s].client # p /\ req'[s].endpoint # p
        /\ req'[s].client # None => req'[s].client = req[s].client
        /\ req'[s].endpoint # None => req'[s].endpoint = req[s].endpoint
    BY <1>2 DEF Forgotten
  <2>2. ASSUME req'[s].client # None
        PROVE  /\ slot'[req'[s].client] = s
               /\ pc'[req'[s].client] \in Calling \cup {"exiting"}
    <3>1. /\ req'[s].client = req[s].client /\ req[s].client \in Process
          /\ req[s].client # p /\ slot[req[s].client] = s
          /\ pc[req[s].client] \in Calling \cup {"exiting"}
      BY <2>1, <2>2, RequestType
    <3> QED BY <3>1, <1>4 DEF Calling
  <2>3. ASSUME req'[s].endpoint # None
        PROVE  ep'[req'[s].endpoint].state = "live"
    <3>1. /\ req'[s].endpoint = req[s].endpoint /\ req[s].endpoint \in Service
          /\ req[s].endpoint # p /\ Live(req[s].endpoint)
      BY <2>1, <2>3, RequestType
    <3> QED BY <3>1, <1>3 DEF Live
  <2> QED BY <2>1, <2>2, <2>3
<1>9. Held'
  <2>1. ASSUME NEW s \in Slot, req'[s].context
        PROVE  \E r \in Process : contexts'[r][s] > 0 \/ (slot'[r] = s /\ pc'[r] = "install")
    <3>1. PICK r \in Process : contexts[r][s] > 0 \/ (slot[r] = s /\ pc[r] = "install")
      BY <2>1, <1>2 DEF Forgotten, IpcInv, Held
    <3> QED BY <3>1, <1>1, <1>4
  <2>2. ASSUME NEW s \in Slot, Limbo(req'[s])
        PROVE  \E r \in Process : slot'[r] = s /\ pc'[r] = "release"
    <3>1. PICK r \in Process : slot[r] = s /\ pc[r] = "release"
      BY <2>2, <1>2 DEF Forgotten, IpcInv, Held
    <3> QED BY <3>1, <1>1, <1>4
  <2> QED BY <2>1, <2>2 DEF Held, Limbo
<1>10. Locals'
  <2> SUFFICES ASSUME NEW r \in Process
               PROVE  /\ pc'[r] \in Calling => slot'[r] \in Slot /\ req'[slot'[r]].client = r
                      /\ pc'[r] \in Holding => slot'[r] \in Slot
                      /\ pc'[r] \in Serving => r \in Service
                      /\ pc'[r] \in {"closing", "dead"} => outstanding'[r] = None
    BY DEF Locals
  <2>1. CASE r = p
    BY <2>1, <1>1, <1>5 DEF Calling, Holding, Serving
  <2>2. CASE r # p
    <3>1. /\ pc[r] \in Calling => slot[r] \in Slot /\ req[slot[r]].client = r
          /\ pc[r] \in Holding => slot[r] \in Slot
          /\ pc[r] \in Serving => r \in Service
          /\ pc[r] \in {"closing", "dead"} => outstanding[r] = None
      BY DEF IpcInv, Locals
    <3>2. pc[r] \in Calling => req'[slot[r]].client = r
      BY <3>1, <2>2, <1>2 DEF Forgotten
    <3>3. outstanding'[r] = outstanding[r]
      BY <2>2, <1>5
    <3> QED BY <2>2, <3>1, <3>2, <3>3, <1>4 DEF Calling, Holding, Serving
  <2> QED BY <2>1, <2>2
<1>11. AnswerKept
  BY <1>2 DEF AnswerKept, Forgotten
<1> QED BY <1>6, <1>7, <1>8, <1>9, <1>10, <1>11 DEF IpcInv

-----------------------------------------------------------------------------
(* The theorems.                                                           *)

\* Every slot is free and nobody is in the kernel.
LEMMA InitInv == Init => IpcInv
<1> SUFFICES ASSUME Init
             PROVE  IpcInv
  OBVIOUS
<1> USE DEF Init
<1>1. TypeOK
  BY IpcAssumption, FreeIsTidy DEF TypeOK, Endpoint, Fresh, Label, Off
<1>2. Requests
  BY FreeIsTidy DEF Requests, Free
<1>3. Held
  BY FreeIsTidy DEF Held, Free
<1>4. Locals
  BY DEF Locals, Calling, Holding, Serving
<1>5. Owners
  BY IpcAssumption DEF Owners, Live, Fresh
<1> QED BY <1>1, <1>2, <1>3, <1>4, <1>5 DEF IpcInv

\* The steps of a process that is in the kernel.
LEMMA KernelStepInv ==
    ASSUME IpcInv, NEW p \in Process, KernelStep(p)
    PROVE  IpcInv' /\ AnswerKept
<1>1. CASE RegisterInstall(p) \/ RequestReturns(p) \/ RequestWaits(p)
           \/ RequestBlocks(p) \/ RequestBusy(p)
  BY <1>1, RegisterInstallStep, RequestReturnsStep, RequestWaitsStep,
     RequestBlocksStep
<1>2. CASE ReceiveReturns(p) \/ ReceiveDequeues(p) \/ ReceiveWaits(p)
           \/ ReceiveBlocks(p) \/ ReceiveBusy(p)
  BY <1>2, ReceiveReturnsStep, ReceiveDequeuesStep, ReceiveWaitsStep,
     ReceiveBlocksStep
<1>3. CASE Deliver(p) \/ Allocate(p) \/ NoMemory(p) \/ Attach(p)
           \/ InstallContext(p) \/ ReleaseContext(p)
  BY <1>3, DeliverStep, AllocateStep, NoMemoryStep, AttachStep,
     InstallContextStep, ReleaseContextStep
<1>4. CASE ipc_process_exit(p) \/ CloseAll(p)
  BY <1>4, ExitStep, CloseAllStep
<1> QED BY <1>1, <1>2, <1>3, <1>4 DEF KernelStep

\* The system calls, up to the point where they first let go of ipc_lock.
LEMMA SystemCallInv ==
    ASSUME IpcInv, NEW p \in Process, SystemCall(p)
    PROVE  IpcInv' /\ AnswerKept
<1>1. CASE ipc_service_register(p)
  BY <1>1, RegisterStep
<1>2. ASSUME NEW e \in Service,
             ipc_service_lookup(p, e) \/ CloseEndpoint(p, e) \/ ipc_kernel_request(p, e)
      PROVE  IpcInv' /\ AnswerKept
  BY <1>2, HandleStep, RequestStep
<1>3. ASSUME p \in Service, NEW m \in {"wait", "timed", "try"}, ipc_kernel_receive(p, m)
      PROVE  IpcInv' /\ AnswerKept
  BY <1>3, ReceiveStep
<1>4. ASSUME NEW s \in Slot,
             ipc_kernel_reply(p, s) \/ ipc_request_context_claim(p, s) \/ CloseContext(p, s)
      PROVE  IpcInv' /\ AnswerKept
  <2>1. CASE ipc_kernel_reply(p, s) \/ ipc_request_context_claim(p, s)
    BY <2>1, ReplyStep
  <2>2. CASE CloseContext(p, s)
    <3>1. \E W : CloseOne(p, s, W)
      BY <2>2, ZenonT(30) DEF CloseContext, CloseOne, HasContext
    <3> QED BY <3>1, CloseContextStep
  <2> QED BY <1>4, <2>1, <2>2
<1>5. CASE p \in Service /\ (ipc_kernel_event_subscribe(p) \/ ipc_kernel_event_unsubscribe(p))
  BY <1>5, ResubscribeStep, ZenonT(30) DEF ipc_kernel_event_subscribe, ipc_kernel_event_unsubscribe
<1> QED BY <1>1, <1>2, <1>3, <1>4, <1>5 DEF SystemCall

\* Every step keeps the invariant and the answers.
LEMMA NextInv == IpcInv /\ [Next]_vars => IpcInv' /\ [AnswerKept]_vars
<1> SUFFICES ASSUME IpcInv, [Next]_vars
             PROVE  IpcInv' /\ [AnswerKept]_vars
  OBVIOUS
<1>1. CASE Next
  <2>1. ASSUME NEW p \in Process,
               KernelStep(p) \/ SystemCall(p) \/ TimerWakes(p) \/ process_exit(p)
        PROVE  IpcInv' /\ AnswerKept
    BY <2>1, KernelStepInv, SystemCallInv, ReceiveBlocksStep, ProcessExitStep
  <2>2. CASE ipc_publish_event
    BY <2>2, PublishStep
  <2> QED BY <1>1, <2>1, <2>2 DEF Next
<1>2. CASE UNCHANGED vars
  <2>1. TypeOK' /\ Requests' /\ Held' /\ Locals' /\ Owners'
    BY <1>2 DEF vars, IpcInv, TypeOK, Requests, Held, Locals, Owners, Live
  <2> QED BY <2>1, <1>2 DEF IpcInv
<1> QED BY <1>1, <1>2

\* The inductive invariant holds in every reachable state.
THEOREM IpcInvariant == Spec => []IpcInv
BY InitInv, NextInv, PTL DEF Spec

\* The state of ipc.c keeps its shape: no queue grows past IPC_QUEUE_DEPTH.
THEOREM IpcTypeCorrect == Spec => []TypeOK
<1>1. IpcInv => TypeOK
  BY DEF IpcInv
<1> QED BY <1>1, IpcInvariant, PTL

\* No slot of request_pool is leaked: one in use has a client, a context
\* that somebody can close, or a receiver that is about to free it.
THEOREM IpcSlotsKept == Spec => []SlotsAccountedFor
<1>1. IpcInv => SlotsAccountedFor
  <2> SUFFICES ASSUME IpcInv, NEW s \in Slot, req[s].state # "FREE"
               PROVE  \/ req[s].active /\ slot[req[s].client] = s
                      \/ req[s].context /\ \E p \in Process :
                                             contexts[p][s] > 0 \/ InHand(p, s)
                      \/ \E p \in Process : slot[p] = s /\ pc[p] = "release"
    BY DEF SlotsAccountedFor
  <2>1. CASE req[s].active
    BY <2>1 DEF IpcInv, Requests, Tidy
  <2>2. CASE req[s].context
    BY <2>2 DEF IpcInv, Held, InHand
  <2>3. CASE Limbo(req[s])
    BY <2>3 DEF IpcInv, Held
  <2> QED BY <2>1, <2>2, <2>3 DEF Limbo
<1> QED BY <1>1, IpcInvariant, PTL

\* Once ipc_process_exit() has run, no request, endpoint or outstanding
\* pointer refers to the process.
THEOREM IpcDeadForgotten == Spec => []NothingOfTheDead
<1>1. IpcInv => NothingOfTheDead
  <2> SUFFICES ASSUME IpcInv, NEW p \in Process, pc[p] \in {"closing", "dead"}
               PROVE  /\ outstanding[p] = None
                      /\ p \in Service => ~Live(p) /\ ~ep[p].waiter
                      /\ \A s \in Slot : req[s].client # p /\ req[s].endpoint # p
    BY DEF NothingOfTheDead
  <2>1. outstanding[p] = None /\ p # None
    BY IpcAssumption DEF IpcInv, Locals
  <2>2. p \in Service => ~Live(p) /\ ~ep[p].waiter
    BY DEF IpcInv, Owners
  <2>3. ASSUME NEW s \in Slot
        PROVE  req[s].client # p /\ req[s].endpoint # p
    <3>1. /\ req[s].client # None => pc[req[s].client] \in Calling \cup {"exiting"}
          /\ req[s].endpoint # None => req[s].endpoint \in Service /\ Live(req[s].endpoint)
      BY RequestType
    <3> QED BY <2>1, <2>2, <3>1 DEF Calling
  <2> QED BY <2>1, <2>2, <2>3
<1> QED BY <1>1, IpcInvariant, PTL

\* A request that has been answered or failed is not answered again while
\* its client has not taken the answer.
THEOREM IpcAnswersFinal == Spec => AnswerFinal
BY IpcInvariant, NextInv, PTL DEF Spec, AnswerFinal
=============================================================================
