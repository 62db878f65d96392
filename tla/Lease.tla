------------------------------- MODULE Lease -------------------------------
(***************************************************************************)
(* The IPv4 configuration of the machine: the DHCP client of the kernel    *)
(* (net/dhcp.c), the runtime configuration and its deadlines               *)
(* (net/config.c, net/user.c), the registry of network devices (net/net.c) *)
(* and the daemon that owns the policy (userspace/networkd/main.c).        *)
(*                                                                         *)
(* networkd makes one call after another; a call that talks to a DHCP      *)
(* server blocks in dhcp_wait_for_event() while packets, link changes and  *)
(* removals of the device go on.  Time is counted in seconds left to each  *)
(* deadline.  A lease is the triple of its durations.                      *)
(***************************************************************************)
EXTENDS Integers, Sequences

CONSTANTS Iface,        \* interface names, 1..n; never given twice
          Options,      \* <<lease, T1, T2>> a server may send; Absent = missing
          SecMod,       \* seconds are kept modulo SecMod (u32)
          EventSlots,   \* events an endpoint queues
          MaxRequests, MaxLinkChanges, MaxLeaseFaults

VARIABLES nics,   \* devices in registration order, links, administrative state
          net,    \* cfg: the runtime configuration; dhcp: the client's state
          nd,     \* networkd: where it is and what is left to do
          file,   \* the persistent configuration
          events, \* networkd's event queue and its overflow mark
          lgh     \* what happened, for the properties and the bounds

leaseVars == <<nics, net, nd, file, events, lgh>>

Absent == -1
Forever == 99
NoIface == 0

NoConfig == [mode |-> "none", configured |-> FALSE, iface |-> NoIface, state |-> "none",
             lease |-> 0, renewal |-> 0, rebinding |-> 0,
             exp |-> 0, t1 |-> 0, t2 |-> 0, retry |-> 0, delay |-> 0]
NoDhcp == [st |-> "init", dev |-> NoIface, event |-> "none", sent |-> "none",
           lease |-> <<0, 0, 0>>]

LeaseInit ==
  /\ nics = [order |-> <<>>, next |-> 1, up |-> {}, off |-> {}]
  /\ net = [cfg |-> NoConfig, dhcp |-> NoDhcp]
  /\ nd = [at |-> "start", ok |-> TRUE, todo |-> "none", wake |-> Forever,
           request |-> "none", old |-> [mode |-> "dhcp", iface |-> NoIface]]
  /\ file = [mode |-> "dhcp", iface |-> NoIface]
  /\ events = [queue |-> <<>>, overflow |-> FALSE]
  /\ lgh = [requests |-> 0, changes |-> 0, faults |-> 0, nak |-> FALSE,
            acked |-> FALSE, gap |-> FALSE, raced |-> FALSE, torn |-> FALSE]

(***************************************************************************)
(* Durations of a lease.                                                   *)
(***************************************************************************)

\* The two limits pulled inside the lease.
Inward(l, a, b) ==
  LET r == IF a = 0 THEN 1 ELSE a
      c == IF b <= r THEN (r + 1) % SecMod ELSE b
  IN  <<l, r, IF c >= l THEN l - 1 ELSE c>>

Ordered(t) == t[2] < t[3] /\ t[3] < t[1]

\* What dhcp_udp_receive() makes of the options of an ACK.
Timing(o) == Inward(o[1], IF o[2] = Absent THEN o[1] \div 2 ELSE o[2],
                          IF o[3] = Absent THEN (o[1] * 7) \div 8 ELSE o[3])

\* A mutant: the rebinding time is compared with the lease only when it came
\* from the server.
NormalizeLoose(t) == IF t[1] < 3 THEN <<0, 0, 0>> ELSE <<t[1], t[2], (t[3] + 1) % SecMod>>

\* dhcp_timing_normalize(); a lease of length 0 stands for failure.
dhcp_timing_normalize(t) ==
  LET n == Inward(t[1], IF t[2] = 0 THEN t[1] \div 2 ELSE t[2],
                        IF t[3] = 0 THEN (t[1] * 7) \div 8 ELSE t[3])
  IN  IF t[1] < 3 \/ ~Ordered(n) THEN <<0, 0, 0>> ELSE n

(***************************************************************************)
(* The registry and its events.                                            *)
(***************************************************************************)

Primary == IF nics.order = <<>> THEN NoIface ELSE Head(nics.order)
Registered == {nics.order[i] : i \in DOMAIN nics.order}
Usable == Primary # NoIface /\ Primary \notin nics.off /\ Primary \in nics.up

Published(type, i) ==
  IF Len(events.queue) = EventSlots THEN [events EXCEPT !.overflow = TRUE]
  ELSE [events EXCEPT !.queue = Append(@, [type |-> type, name |-> i])]

Cleared(n) == [n EXCEPT !.cfg = NoConfig, !.dhcp = NoDhcp]

RegisterDevice ==
  /\ nics.next \in Iface
  /\ nics' = [nics EXCEPT !.order = Append(@, nics.next), !.next = @ + 1]
  /\ events' = Published("added", nics.next)
  /\ UNCHANGED <<net, nd, file, lgh>>

\* A mutant: the configuration of the removed device stays.
UnregisterKeeps(i) ==
  /\ nics' = [nics EXCEPT !.order = SelectSeq(@, LAMBDA j : j # i),
                          !.off = @ \ {i}, !.up = @ \ {i}]
  /\ nd' = IF i = Primary /\ nd.at = "sleep" THEN [nd EXCEPT !.at = "check"] ELSE nd
  /\ events' = Published("removed", i)
  /\ lgh' = [lgh EXCEPT !.nak = IF i = Primary THEN FALSE ELSE @,
                        !.acked = IF i = Primary THEN FALSE ELSE @]
  /\ UNCHANGED <<net, file>>

\* net_unregister_device(): a waiting exchange is woken by dhcp_reset().
UnregisterDevice(i) ==
  /\ nics' = [nics EXCEPT !.order = SelectSeq(@, LAMBDA j : j # i),
                          !.off = @ \ {i}, !.up = @ \ {i}]
  /\ net' = IF i = Primary THEN Cleared(net) ELSE net
  /\ nd' = IF i = Primary /\ nd.at = "sleep" THEN [nd EXCEPT !.at = "check"] ELSE nd
  /\ events' = Published("removed", i)
  /\ lgh' = [lgh EXCEPT !.raced = @ \/ nd.at = "apply",
                        !.nak = IF i = Primary THEN FALSE ELSE @,
                        !.acked = IF i = Primary THEN FALSE ELSE @]
  /\ UNCHANGED file

SetLink(i) ==
  /\ lgh.changes < MaxLinkChanges
  /\ nics' = [nics EXCEPT !.up = IF i \in @ THEN @ \ {i} ELSE @ \cup {i}]
  /\ events' = Published(IF i \in nics.up THEN "down" ELSE "up", i)
  /\ lgh' = [lgh EXCEPT !.changes = @ + 1]
  /\ UNCHANGED <<net, nd, file>>

(***************************************************************************)
(* Calls of networkd.  A call ends at once, or starts an exchange.         *)
(***************************************************************************)

Reply(n, ok) == [net |-> n, at |-> "answer", ok |-> ok]
Exchange(n) == [net |-> n, at |-> "send", ok |-> FALSE]

\* apply_dhcp_configuration() up to the DISCOVER.
SetAutomatic(n) ==
  IF ~Usable THEN Reply(n, FALSE)
  ELSE Exchange([cfg |-> [NoConfig EXCEPT !.mode = "dhcp", !.state = "acquiring",
                                          !.iface = Primary],
                 dhcp |-> [NoDhcp EXCEPT !.st = "selecting", !.dev = Primary]])

\* net_config_mark_dhcp_attempt()
Attempt(c, rebinding) ==
  LET s == IF rebinding THEN "rebinding" ELSE "renewing"
      d == IF c.state # s \/ c.delay = 0 THEN 1 ELSE c.delay
  IN  [c EXCEPT !.state = s, !.delay = d, !.retry = d]

\* net_user_dhcp_renew() up to the REQUEST.
Renew(n, rebinding) ==
  IF n.cfg.mode # "dhcp" \/ ~n.cfg.configured \/ ~Usable THEN Reply(n, FALSE)
  ELSE Exchange([cfg |-> Attempt(n.cfg, rebinding),
                 dhcp |-> [NoDhcp EXCEPT !.st = IF rebinding THEN "rebinding" ELSE "renewing",
                                         !.dev = Primary]])

\* net_user_set_manual(); a configuration with a zero address is refused.
SetManual(n, valid) ==
  IF Primary = NoIface THEN Reply(n, FALSE)
  ELSE IF ~valid THEN Reply(Cleared(n), FALSE)
  ELSE Reply([Cleared(n) EXCEPT !.cfg = [NoConfig EXCEPT !.mode = "manual",
                               !.configured = TRUE, !.iface = Primary]], TRUE)

\* net_user_reload(): an unreadable or invalid file changes nothing.
Reload(n) ==
  IF file.mode \notin {"dhcp", "manual"} \/ Primary = NoIface \/ Primary \in nics.off
     \/ file.iface \notin {NoIface, Primary} THEN Reply(n, FALSE)
  ELSE IF file.mode = "manual" THEN SetManual(n, TRUE) ELSE SetAutomatic(n)

\* net_config_mark_dhcp_failure()
Failure(c) ==
  IF c.mode # "dhcp" \/ ~c.configured \/ c.state \notin {"renewing", "rebinding"} THEN c
  ELSE LET d == IF c.delay < 4 THEN c.delay * 2 ELSE c.delay
           limit == IF c.state = "renewing" THEN c.t2 ELSE c.exp
       IN  [c EXCEPT !.delay = d, !.retry = IF d < limit THEN d ELSE limit]

\* net_config_apply_dhcp()
Bound(c, t) ==
  [c EXCEPT !.mode = "dhcp", !.configured = TRUE, !.iface = Primary, !.state = "bound",
            !.lease = t[1], !.renewal = t[2], !.rebinding = t[3],
            !.exp = t[1], !.t1 = t[2], !.t2 = t[3], !.retry = t[2], !.delay = 1]

\* networkd makes the call r and goes on with todo when it returns.
Call(r, todo) ==
  /\ net' = r.net
  /\ nd' = [nd EXCEPT !.at = r.at, !.ok = r.ok, !.todo = todo]
  /\ lgh' = [lgh EXCEPT !.nak = IF r.net.cfg.configured THEN @ ELSE FALSE,
                        !.acked = FALSE, !.gap = FALSE]

(***************************************************************************)
(* The exchange.                                                           *)
(***************************************************************************)

Acquiring == net.dhcp.st \in {"selecting", "requesting", "bound"} /\ ~net.cfg.configured
Current == net.dhcp.dev # NoIface /\ net.dhcp.dev \in Registered
Awaited == IF net.dhcp.st = "selecting" THEN {"offer"} ELSE {"ack", "nak"}

\* The call ends: a renewal that failed arms its retry timer.  A NAK that ends
\* the wait is not reported as one: dhcp_exchange() then returned true.
Ended(ok, n) ==
  /\ net' = [n EXCEPT !.cfg = IF ok \/ Acquiring THEN @ ELSE Failure(@)]
  /\ nd' = [nd EXCEPT !.at = "answer", !.ok = ok]

\* One round of dhcp_exchange(): the event is cleared, the message is sent.
SendMessage ==
  /\ nd.at = "send" /\ Current
  /\ net' = [net EXCEPT !.dhcp.event = "none",
                        !.dhcp.sent = IF Usable
                                      THEN IF net.dhcp.st = "selecting" THEN "discover"
                                                                        ELSE "request"
                                      ELSE @]
  /\ nd' = [nd EXCEPT !.at = "check"]
  /\ UNCHANGED <<nics, file, events, lgh>>

SendLost ==
  /\ nd.at = "send" /\ ~Current
  /\ Ended(FALSE, net)
  /\ UNCHANGED <<nics, file, events, lgh>>

\* A mutant: an ACK counts only in the state the receive path has just left.
FoundStale == /\ net.dhcp.event \in Awaited /\ Current
              /\ net.dhcp.event = "ack" => net.dhcp.st = "requesting"

Found == net.dhcp.event \in Awaited /\ Current

\* dhcp_wait_for_event() under cli: the event is there, the device is gone, or
\* the thread sleeps.
CheckEvent ==
  /\ nd.at = "check"
  /\ IF Found
     THEN CASE net.dhcp.event = "offer" ->
                 /\ net' = [net EXCEPT !.dhcp.st = "requesting"]
                 /\ nd' = [nd EXCEPT !.at = "send"]
                 /\ UNCHANGED lgh
            [] net.dhcp.event = "ack" /\ net.dhcp.st = "bound" ->
                 /\ nd' = [nd EXCEPT !.at = "apply"]
                 /\ UNCHANGED <<net, lgh>>
            [] OTHER ->
                 /\ Ended(FALSE, net)
                 /\ lgh' = [lgh EXCEPT !.nak = net.cfg.configured]
     ELSE IF ~Current
     THEN Ended(FALSE, net) /\ UNCHANGED lgh
     ELSE /\ nd' = [nd EXCEPT !.at = "sleep"]
          /\ UNCHANGED <<net, lgh>>
  /\ UNCHANGED <<nics, file, events>>

\* The wait is over without an answer: another round, or the whole time is up.
WaitTimesOut ==
  /\ nd.at = "sleep"
  /\ nd' = [nd EXCEPT !.at = "late"]
  /\ UNCHANGED <<nics, net, file, events, lgh>>

RoundOver ==
  /\ nd.at = "late"
  /\ \/ nd' = [nd EXCEPT !.at = "send"] /\ UNCHANGED net
     \/ Ended(FALSE, net)
  /\ UNCHANGED <<nics, file, events, lgh>>

\* dhcp_udp_receive(): an answer with the current transaction id.
ReceiveAnswer(m, o) ==
  /\ net.dhcp.sent # "none" /\ Current /\ Usable
  /\ IF m = "offer" THEN net.dhcp.st = "selecting"
     ELSE net.dhcp.sent = "request" /\ net.dhcp.st \in {"requesting", "renewing", "rebinding"}
  /\ m = "ack" => o[1] # 0 /\ Ordered(Timing(o))
  /\ net' = [net EXCEPT !.dhcp.event = m,
                        !.dhcp.lease = IF m = "ack" THEN Timing(o) ELSE @,
                        !.dhcp.st = IF m = "ack" THEN "bound" ELSE @]
  /\ nd' = IF nd.at = "sleep" THEN [nd EXCEPT !.at = "check"] ELSE nd
  /\ lgh' = [lgh EXCEPT !.acked = @ \/ (m = "ack" /\ nd.at \in {"send", "check", "sleep", "late"}),
                        !.gap = @ \/ (m = "ack" /\ nd.at \in {"late", "send"})]
  /\ UNCHANGED <<nics, file, events>>

\* The lease dhcp_acquire() or dhcp_renew() returned is applied.
ApplyLease ==
  /\ nd.at = "apply"
  /\ LET t == dhcp_timing_normalize(net.dhcp.lease)
         whole == t # <<0, 0, 0>>
     IN  /\ net' = CASE whole -> [net EXCEPT !.cfg = Bound(@, t)]
                     [] ~whole /\ ~net.cfg.configured -> Cleared(net)
                     [] OTHER -> [net EXCEPT !.cfg = Failure(@)]
         /\ nd' = [nd EXCEPT !.at = "answer", !.ok = whole]
  /\ lgh' = [lgh EXCEPT !.nak = FALSE, !.acked = FALSE]
  /\ UNCHANGED <<nics, file, events>>

(***************************************************************************)
(* networkd                                                                *)
(***************************************************************************)

Zero(k) == k = 0
NextAction ==
  LET c == net.cfg
      least(a, b) == IF a < b THEN a ELSE b
  IN  CASE c.state = "bound" -> c.t1
        [] c.state = "renewing" -> least(c.retry, c.t2)
        [] c.state = "rebinding" -> least(c.retry, c.exp)
        [] OTHER -> 0

\* network_link_available()
LinkAvailable == \E i \in Registered : /\ i \notin nics.off /\ i \in nics.up
                                       /\ net.cfg.iface \in {NoIface, i}
HasConfigured == net.cfg.configured /\ net.cfg.iface # NoIface
Leased == net.cfg.configured /\ net.cfg.mode = "dhcp"
Rebinds == \/ net.cfg.state = "rebinding"
           \/ net.cfg.state = "renewing" /\ net.cfg.t2 = 0

\* A mutant: no wakeup while the link is down.
WaitTimeoutLinkDown ==
  IF ~Leased \/ ~LinkAvailable THEN Forever
  ELSE IF NextAction = 0 THEN 1 ELSE NextAction

\* A mutant: the next action is always waited for, also without a link.
WaitTimeoutFixed == IF ~Leased THEN Forever ELSE IF net.cfg.exp = 0 THEN 1 ELSE net.cfg.exp

\* network_wait_timeout(); a timeout of 0 becomes one millisecond.
network_wait_timeout ==
  IF ~Leased THEN Forever
  ELSE IF LinkAvailable THEN NextAction ELSE net.cfg.exp

StartDaemon ==
  /\ nd.at = "start"
  /\ nics' = [nics EXCEPT !.off = @ \ {Primary}]
  /\ nd' = [nd EXCEPT !.at = "answer", !.ok = TRUE, !.todo = "reload"]
  /\ UNCHANGED <<net, file, events, lgh>>

BeginWait ==
  /\ nd.at = "loop"
  /\ nd' = [nd EXCEPT !.at = "wait", !.wake = network_wait_timeout]
  /\ UNCHANGED <<nics, net, file, events, lgh>>

Quiet == /\ nd' = [nd EXCEPT !.at = "loop"]
         /\ UNCHANGED <<net, lgh>>

\* handle_dhcp_deadline()
Deadline ==
  /\ nd.at = "wait" /\ Zero(nd.wake) /\ events.queue = <<>> /\ ~events.overflow
  /\ IF ~Leased \/ NextAction # 0 THEN Quiet
     ELSE IF net.cfg.exp = 0 THEN Call(Reply(Cleared(net), TRUE), "restart")
     ELSE IF ~LinkAvailable THEN Quiet
     ELSE Call(Renew(net, Rebinds), "again")
  /\ UNCHANGED <<nics, file, events>>

\* handle_event()
HandleEvent ==
  LET e == IF events.queue = <<>> THEN [type |-> "overflow", name |-> NoIface]
                                  ELSE Head(events.queue)
      mine == HasConfigured /\ net.cfg.iface = e.name
  IN  /\ nd.at = "wait" /\ (events.queue # <<>> \/ events.overflow)
      /\ events' = IF events.queue = <<>> THEN [events EXCEPT !.overflow = FALSE]
                                          ELSE [events EXCEPT !.queue = Tail(@)]
      /\ CASE e.type = "down" ->
                IF mine /\ ~Leased THEN Call(Reply(Cleared(net), TRUE), "none") ELSE Quiet
           [] e.type = "up" ->
                IF ~HasConfigured
                THEN IF LinkAvailable THEN Call(Reload(net), "none") ELSE Quiet
                ELSE IF ~mine THEN Quiet
                ELSE IF ~Leased THEN Call(Reload(net), "none")
                ELSE IF net.cfg.exp = 0 THEN Call(Reply(Cleared(net), TRUE), "restart")
                ELSE IF NextAction = 0 THEN Call(Renew(net, Rebinds), "none") ELSE Quiet
           [] e.type = "removed" ->
                IF mine THEN Call(Reply(Cleared(net), TRUE), "none")
                ELSE IF HasConfigured THEN Quiet
                ELSE IF LinkAvailable THEN Call(Reload(net), "none")
                ELSE Call(Reply(Cleared(net), TRUE), "none")
           [] e.type = "added" ->
                IF ~HasConfigured /\ LinkAvailable THEN Call(Reload(net), "none") ELSE Quiet
           [] OTHER -> Call(Reload(net), "none")
      /\ UNCHANGED <<nics, file>>

\* A mutant: a failed write is not rolled back, only a failed configuration.
MustUndoLate == nd.todo = "rollback" /\ ~nd.ok

MustUndo == nd.todo \in {"configure", "rollback"} /\ ~nd.ok

\* What networkd does when a call has returned.
Resume ==
  /\ nd.at = "answer"
  /\ CASE nd.todo = "reload" /\ nd.ok -> Call(Reload(net), "none")
       [] nd.todo = "restart" /\ nd.ok /\ LinkAvailable -> Call(SetAutomatic(net), "none")
       [] nd.todo = "again" /\ ~nd.ok /\ net.cfg.mode # "dhcp" /\ LinkAvailable ->
            Call(SetAutomatic(net), "none")
       [] nd.todo = "configure" /\ nd.ok ->
            Call(IF file.mode = "dhcp" THEN SetAutomatic(net)
                                       ELSE SetManual(net, file.mode = "manual"), "rollback")
       [] MustUndo ->
            /\ nd' = [nd EXCEPT !.at = "undo"]
            /\ UNCHANGED <<net, lgh>>
       [] OTHER -> Quiet
  /\ UNCHANGED <<nics, file, events>>

(***************************************************************************)
(* Requests of clients; the manual configuration may hold a zero address.  *)
(***************************************************************************)

Asked == /\ nd.at = "wait" /\ lgh.requests < MaxRequests /\ events.queue = <<>>
         /\ UNCHANGED events
Counted == [lgh EXCEPT !.requests = @ + 1]

RequestSet(mode) ==
  /\ Asked /\ Registered # {}
  /\ file.mode # "broken"
  /\ nd' = [nd EXCEPT !.at = "write", !.request = mode, !.old = file]
  /\ lgh' = Counted
  /\ UNCHANGED <<nics, net, file>>

\* write_network_config_text(): truncate, then write.
WriteConfig ==
  /\ nd.at \in {"write", "undo"}
  /\ LET text == IF nd.at = "undo" THEN nd.old ELSE [mode |-> nd.request, iface |-> Primary]
         next(ok) == [nd EXCEPT !.at = "answer", !.ok = nd.at = "undo" \/ ok,
                                !.todo = IF nd.at = "undo" THEN "reload" ELSE "configure"]
     IN  \/ file' = text /\ nd' = next(TRUE) /\ UNCHANGED lgh
         \/ /\ lgh.faults < MaxLeaseFaults
            /\ \E f \in {file, [mode |-> "broken", iface |-> NoIface]} : file' = f
            /\ nd' = next(FALSE)
            /\ lgh' = [lgh EXCEPT !.faults = @ + 1, !.torn = @ \/ nd.at = "undo"]
  /\ UNCHANGED <<nics, net, events>>

RequestEnable(on) ==
  /\ Asked /\ Primary # NoIface
  /\ IF on THEN /\ nics' = [nics EXCEPT !.off = @ \ {Primary}] /\ UNCHANGED net
           ELSE /\ nics' = [nics EXCEPT !.off = @ \cup {Primary}] /\ net' = Cleared(net)
  /\ nd' = [nd EXCEPT !.at = "answer", !.ok = TRUE, !.todo = IF on THEN "reload" ELSE "none"]
  /\ lgh' = [Counted EXCEPT !.nak = on /\ @]
  /\ UNCHANGED file

RequestRenew ==
  /\ Asked /\ net.cfg.mode = "dhcp"
  /\ LET r == Renew(net, FALSE)
     IN  /\ net' = r.net
         /\ nd' = [nd EXCEPT !.at = r.at, !.ok = r.ok, !.todo = "none"]
  /\ lgh' = [Counted EXCEPT !.acked = FALSE, !.gap = FALSE]
  /\ UNCHANGED <<nics, file>>

\* reload_request(): for anyone but Sprout only the authorization is asked for.
RequestReload(sprout) ==
  /\ Asked
  /\ LET r == IF sprout THEN Reload(net) ELSE Reply(net, TRUE)
     IN  /\ net' = r.net
         /\ nd' = [nd EXCEPT !.at = r.at, !.ok = r.ok, !.todo = "none"]
  /\ lgh' = [Counted EXCEPT !.acked = FALSE, !.gap = FALSE,
                            !.nak = net'.cfg.configured /\ ~sprout /\ @]
  /\ UNCHANGED <<nics, file>>

\* networkd ends between two calls and Sprout starts it again.
RestartDaemon ==
  /\ nd.at \in {"answer", "wait"} /\ lgh.faults < MaxLeaseFaults
  /\ nd' = [nd EXCEPT !.at = "start", !.todo = "none"]
  /\ events' = [queue |-> <<>>, overflow |-> FALSE]
  /\ lgh' = [lgh EXCEPT !.faults = @ + 1,
                        !.torn = @ \/ nd.todo \in {"configure", "rollback"}]
  /\ UNCHANGED <<nics, net, file>>

\* A second passes.
Second ==
  LET down(k) == IF k = 0 \/ k = Forever THEN k ELSE k - 1
  IN  /\ net' = [net EXCEPT !.cfg.exp = down(@), !.cfg.t1 = down(@), !.cfg.t2 = down(@),
                            !.cfg.retry = down(@)]
      /\ nd' = [nd EXCEPT !.wake = down(@)]
      /\ <<net', nd'>> # <<net, nd>>
      /\ UNCHANGED <<nics, file, events, lgh>>

LeaseNext ==
  \/ RegisterDevice
  \/ \E i \in Registered : UnregisterDevice(i) \/ SetLink(i)
  \/ SendMessage \/ SendLost \/ CheckEvent \/ WaitTimesOut \/ RoundOver \/ ApplyLease
  \/ \E m \in {"offer", "ack", "nak"}, o \in Options : ReceiveAnswer(m, o)
  \/ StartDaemon \/ BeginWait \/ Deadline \/ HandleEvent \/ Resume
  \/ \E mode \in {"dhcp", "manual", "invalid"} : RequestSet(mode)
  \/ \E on \in BOOLEAN : RequestEnable(on) \/ RequestReload(on)
  \/ WriteConfig \/ RequestRenew \/ RestartDaemon \/ Second

LeaseSpec == LeaseInit /\ [][LeaseNext]_leaseVars

(***************************************************************************)
(* Properties                                                              *)
(***************************************************************************)

\* The durations of an applied lease are ordered 0 < T1 < T2 < lease, whatever
\* the server sent (dhcp_udp_receive() and dhcp_timing_normalize()).
TimingOrdered ==
  Leased => /\ 0 < net.cfg.renewal /\ net.cfg.renewal < net.cfg.rebinding
            /\ net.cfg.rebinding < net.cfg.lease /\ net.cfg.lease >= 3

\* While networkd waits, it wakes by itself no later than the expiry of the
\* lease, with or without a link, so no expired address stays configured.
ExpiryWatched == nd.at = "wait" /\ Leased => nd.wake <= net.cfg.exp

\* While networkd waits with nothing queued and the link is up, it wakes for the
\* next renewal, rebinding or retry.
RenewalWatched ==
  /\ nd.at = "wait" /\ Leased /\ LinkAvailable
  /\ events.queue = <<>> /\ ~events.overflow
  => nd.wake <= NextAction

\* The configuration belongs to the primary device, also after removals during
\* an exchange; the one exception is a removal after the exchange succeeded and
\* before its lease was applied.
ConfiguredIsPrimary ==
  net.cfg.configured /\ ~lgh.raced => net.cfg.iface = Primary /\ Primary # NoIface

\* Between two requests the runtime configuration is of the kind the file says:
\* a failed change is rolled back in both places.  Only when networkd ended in
\* the middle of a change, or the rollback failed too, may the file be one that
\* cannot be loaded.
FileAgrees ==
  nd.at \in {"loop", "wait"} /\ net.cfg.configured =>
    \/ net.cfg.mode = file.mode
    \/ lgh.torn /\ file.mode \notin {"dhcp", "manual"}

\* An ACK that was accepted is applied when the call returns, unless it came
\* between two rounds of the exchange, where clearing the event forgets it.
AckApplied == nd.at = "answer" => ~lgh.acked \/ lgh.gap

\* A renewal that the server refused leaves no lease configured (the comment of
\* handle_dhcp_deadline() in networkd).
NakClearsLease == nd.at = "wait" => ~(lgh.nak /\ net.cfg.configured)
=============================================================================
