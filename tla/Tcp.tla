-------------------------------- MODULE Tcp --------------------------------
(***************************************************************************)
(* The single TCP connection of kernel/src/net/tcp.c and the stream        *)
(* objects of kernel/src/net/user.c that point at it, over a network that  *)
(* loses, repeats and reorders segments.                                   *)
(*                                                                         *)
(* tcp_receive() runs in the receive interrupt; the calls of a process run *)
(* with interrupts masked and give way only in scheduler_sleep(), so each  *)
(* turn of a waiting loop is one step.  There is no clock: a deadline may  *)
(* have passed at any turn (the late flags).  Sequence numbers are modulo  *)
(* SeqMod for 2^32; a byte of a stream is its position in the stream.      *)
(***************************************************************************)
EXTENDS Integers, Sequences, FiniteSets

CONSTANTS TcpProc,        \* processes that use streams
          SeqMod,         \* the modulus of sequence numbers
          Iss, PeerIss,   \* the initial sequence numbers
          Mss,            \* TCP_MSS
          RxCapacity,     \* TCP_RX_CAPACITY
          Retries,        \* TCP_MAX_RETRIES
          Windows,        \* the windows a peer announces
          SendSizes,      \* lengths passed to tcp_send()
          PeerBytes,      \* bound: bytes the peer has to send
          InFlight, OutFlight, \* bounds: segments the network holds each way
          MaxWrite,       \* bound: bytes written to a connection
          MaxTcpConnects, \* bound: connections made
          MaxNetFaults    \* bound: losses, repetitions, resets, misses of ARP

VARIABLES tcp,            \* the connection
          toPeer, toHost, \* segments in the network
          peer,           \* the other end
          calls,          \* what each process is doing and holds
          tgh             \* history: see TcpInit

tcpVars == <<tcp, toPeer, toHost, peer, calls, tgh>>

Less(a, b) == IF a < b THEN a ELSE b

\* tcp_seq_before(): a signed comparison of the difference.
SeqBefore(a, b) == (a - b) % SeqMod >= SeqMod \div 2

Plus(a, n) == (a + n) % SeqMod

\* tcp_sequence_space()
Space(flags, data) == Len(data) + Cardinality(flags \cap {"SYN", "FIN"})

NoConnection ==
    [use |-> FALSE, state |-> "CLOSED", status |-> "SUCCESS", una |-> 0, nxt |-> 0, rcv |-> 0,
     win |-> 0, rx |-> <<>>, txd |-> <<>>, txs |-> 0, txf |-> {}, out |-> FALSE, retries |-> 0,
     fin |-> FALSE, ack |-> FALSE, port |-> 0]

Ready == [job |-> "idle", stream |-> FALSE, port |-> 0, got |-> <<>>]

TcpInit ==
    /\ tcp = NoConnection
    /\ toPeer = {} /\ toHost = {}
    /\ peer = [port |-> 0, open |-> FALSE, rcv |-> 0, got |-> <<>>, sent |-> 0, acked |-> 0,
               fin |-> FALSE, finGot |-> FALSE]
    /\ calls = [p \in TcpProc |-> Ready]
    \* device: the interface is still there; wrote: bytes taken by tcp_send() on this
    \* connection; shared: a connection was begun while another process still held it;
    \* lostClose: a close returned success with bytes the peer had not got
    /\ tgh = [faults |-> 0, connects |-> 0, device |-> TRUE, wrote |-> 0, shared |-> FALSE,
              lostClose |-> FALSE]

Fault(n) == tgh.faults + n =< MaxNetFaults

Faulty(g, n) == [g EXCEPT !.faults = @ + n]

\* Segments handed to the network, which drops what it has no room for.
Carry(net, segs, room) == IF Cardinality(net \cup segs) =< room THEN net \cup segs ELSE net

-----------------------------------------------------------------------------
(* Operations on the connection *)

Segment(c, s, flags, data) ==
    [port |-> c.port, seq |-> s, ack |-> c.rcv, flags |-> flags, data |-> data]

\* tcp_track() and the advance of snd_nxt in tcp_send_tracked()
Track(c, flags, data) ==
    [c EXCEPT !.txs = c.nxt, !.txf = flags, !.txd = data, !.out = TRUE, !.retries = 0,
              !.nxt = Plus(c.nxt, Space(flags, data))]

\* A mutant: a failed connection stays reserved.
FailReserved(c, status) == [c EXCEPT !.status = status, !.state = "CLOSED", !.out = FALSE]

tcp_fail(c, status) ==
    [c EXCEPT !.status = status, !.state = "CLOSED", !.out = FALSE, !.use = FALSE]

\* A mutant: an acknowledgment of part of a segment leaves the buffer as it is.
PartlyKept(c, a) == [c EXCEPT !.txs = a]

\* A segment that was acknowledged in part: the rest becomes the segment.
PartlyAcked(c, a) ==
    LET n == (a - c.txs) % SeqMod
    IN  IF n > Len(c.txd) THEN c
        ELSE [c EXCEPT !.txd = SubSeq(@, n + 1, Len(@)), !.txs = a]

Acked(c, a) ==
    LET d == [c EXCEPT !.una = a]
    IN  IF ~c.out THEN d
        ELSE IF ~SeqBefore(a, Plus(c.txs, Space(c.txf, c.txd)))
             THEN [d EXCEPT !.out = FALSE, !.retries = 0]
        ELSE IF c.txf \cap {"SYN", "FIN"} = {} /\ ~SeqBefore(a, c.txs) THEN PartlyAcked(d, a)
        ELSE d

\* A mutant: the last acknowledgment is not waited for.
ClosingEarly(c) ==
    CASE c.state = "FIN_WAIT_1" /\ c.fin -> [c EXCEPT !.state = "TIME_WAIT"]
      [] c.state = "FIN_WAIT_1" -> [c EXCEPT !.state = "FIN_WAIT_2"]
      [] c.state = "LAST_ACK" -> [c EXCEPT !.state = "CLOSED", !.use = FALSE]
      [] OTHER -> c

Closing(c) ==
    CASE c.state = "FIN_WAIT_1" /\ ~c.out /\ c.fin -> [c EXCEPT !.state = "TIME_WAIT"]
      [] c.state = "FIN_WAIT_1" /\ ~c.out -> [c EXCEPT !.state = "FIN_WAIT_2"]
      [] c.state = "LAST_ACK" /\ ~c.out -> [c EXCEPT !.state = "CLOSED", !.use = FALSE]
      [] OTHER -> c

tcp_process_ack(c, a) ==
    IF SeqBefore(a, c.una) \/ SeqBefore(c.nxt, a) \/ a = c.una THEN c ELSE Closing(Acked(c, a))

InOrder(c, m) == m.seq = c.rcv

tcp_accept_payload(c, m) ==
    IF ~InOrder(c, m) THEN [c EXCEPT !.ack = TRUE]
    ELSE IF Len(m.data) > RxCapacity - Len(c.rx)
         THEN [c EXCEPT !.status = "BUFFER_FULL", !.ack = TRUE]
    ELSE LET d == [c EXCEPT !.rx = @ \o m.data, !.rcv = Plus(@, Len(m.data)), !.ack = TRUE]
         IN  IF "FIN" \notin m.flags THEN d
             ELSE LET e == [d EXCEPT !.rcv = Plus(@, 1), !.fin = TRUE]
                  IN  CASE c.state = "ESTABLISHED" -> [e EXCEPT !.state = "CLOSE_WAIT"]
                        [] c.state = "FIN_WAIT_2" -> [e EXCEPT !.state = "TIME_WAIT"]
                        [] OTHER -> e

AnswersSyn(c, m) == {"SYN", "ACK"} \subseteq m.flags /\ m.ack = c.nxt

\* tcp_receive() of a segment that tcp_matches() the connection
Received(c, m) ==
    LET d == [c EXCEPT !.win = m.win]
    IN  IF "RST" \in m.flags THEN tcp_fail(d, "RESET")
        ELSE IF c.state = "SYN_SENT"
             THEN IF ~AnswersSyn(c, m) THEN d
                  ELSE [tcp_process_ack(d, m.ack) EXCEPT !.rcv = Plus(m.seq, 1),
                                                         !.state = "ESTABLISHED", !.ack = TRUE]
        ELSE LET e == IF "ACK" \in m.flags THEN tcp_process_ack(d, m.ack) ELSE d
             IN  IF e.state = "CLOSED" \/ (m.data = <<>> /\ "FIN" \notin m.flags) THEN e
                 ELSE tcp_accept_payload(e, m)

\* tcp_service(): the connection after it and what it sends.  late: the deadline of the
\* retransmission or of TIME_WAIT has passed; sent: the interface took the acknowledgment.
Served(c, late, sent) ==
    IF ~tgh.device THEN [c |-> tcp_fail(c, "CLOSED"), segs |-> {}]
    ELSE LET acked == [c EXCEPT !.ack = c.ack /\ ~sent]
             reply == IF c.ack /\ sent THEN {Segment(c, c.nxt, {"ACK"}, <<>>)} ELSE {}
         IN  IF c.state = "TIME_WAIT" /\ late
             THEN [c |-> [acked EXCEPT !.state = "CLOSED", !.use = FALSE], segs |-> reply]
             ELSE IF ~(c.out /\ late) THEN [c |-> acked, segs |-> reply]
             ELSE IF c.retries >= Retries THEN [c |-> tcp_fail(acked, "TIMEOUT"), segs |-> reply]
             ELSE [c |-> [acked EXCEPT !.retries = @ + 1],
                   segs |-> reply \cup {Segment(c, c.txs, c.txf, c.txd)}]

-----------------------------------------------------------------------------
(* The network and the peer *)

\* A segment reaches tcp_receive(); the network may keep a copy.
DeliverToHost(m, again) ==
    /\ m \in toHost /\ tcp.use
    /\ again => Fault(1)
    /\ toHost' = IF again THEN toHost ELSE toHost \ {m}
    /\ tcp' = IF tgh.device /\ m.port = tcp.port THEN Received(tcp, m) ELSE tcp
    /\ tgh' = IF again THEN Faulty(tgh, 1) ELSE tgh
    /\ UNCHANGED <<toPeer, peer, calls>>

Lose ==
    /\ Fault(1) /\ tcp.use
    /\ \/ \E m \in toHost : toHost' = toHost \ {m} /\ toPeer' = toPeer
       \/ \E m \in toPeer : toPeer' = toPeer \ {m} /\ toHost' = toHost
    /\ tgh' = Faulty(tgh, 1)
    /\ UNCHANGED <<tcp, peer, calls>>

Answer(q, s, flags, data, w) ==
    [port |-> q.port, seq |-> s, ack |-> q.rcv, flags |-> flags, data |-> data, win |-> w]

PeerByte(k) == Plus(PeerIss, k)

\* The peer takes a segment: the part of its data that is next, at most as much as it likes.
PeerTakes(m, n, w) ==
    /\ m \in toPeer /\ tcp.use
    /\ toPeer' = toPeer \ {m}
    /\ IF "SYN" \in m.flags
       THEN LET q == IF m.port > peer.port
                     THEN [port |-> m.port, open |-> TRUE, rcv |-> Plus(m.seq, 1), got |-> <<>>,
                           sent |-> 0, acked |-> 0, fin |-> FALSE, finGot |-> FALSE]
                     ELSE peer
            IN  /\ n = 0
                /\ peer' = q
                /\ toHost' = IF m.port = q.port
                             THEN Carry(toHost, {Answer(q, PeerIss, {"SYN", "ACK"}, <<>>, w)}, InFlight)
                             ELSE toHost
       ELSE LET skip == (peer.rcv - m.seq) % SeqMod
                mine == m.port = peer.port /\ peer.open
                room == IF mine /\ skip =< Len(m.data) THEN Len(m.data) - skip ELSE 0
                end  == mine /\ "FIN" \in m.flags /\ skip = 0 /\ m.data = <<>>
                back == (m.ack - PeerIss - 1) % SeqMod
                q    == [peer EXCEPT !.got = @ \o SubSeq(m.data, skip + 1, skip + n),
                                     !.rcv = Plus(@, n + (IF end THEN 1 ELSE 0)),
                                     !.finGot = @ \/ end,
                                     !.acked = IF back =< peer.sent /\ back > @ THEN back ELSE @]
            IN  /\ n =< room
                /\ (room > 0) => n > 0
                /\ IF mine
                   THEN /\ peer' = q
                        /\ toHost' = IF room > 0 \/ "FIN" \in m.flags \/ m.data # <<>>
                                     THEN Carry(toHost, {Answer(q, PeerByte(q.sent + 1 +
                                              (IF q.fin THEN 1 ELSE 0)), {"ACK"}, <<>>, w)}, InFlight)
                                     ELSE toHost
                   ELSE UNCHANGED <<peer, toHost>>
    /\ UNCHANGED <<tcp, calls, tgh>>

\* The peer sends the bytes lo..hi, and the end of its stream after the last.  It repeats what
\* is not acknowledged once nothing of it is on its way.
PeerSends(lo, hi, fin) ==
    /\ peer.open /\ tcp.use
    /\ lo = peer.sent + 1 \/ (lo = peer.acked + 1 /\ toHost = {})
    /\ hi >= lo - 1 /\ hi =< PeerBytes
    /\ hi - peer.acked =< RxCapacity
    /\ fin => hi = PeerBytes
    /\ hi = lo - 1 => fin
    /\ peer.fin => hi =< peer.sent
    /\ LET q == [peer EXCEPT !.sent = IF hi > @ THEN hi ELSE @, !.fin = @ \/ fin]
           m == Answer(q, PeerByte(lo), {"ACK"} \cup (IF fin THEN {"FIN"} ELSE {}),
                       [i \in 1 .. hi - lo + 1 |-> lo + i - 1], Mss)
       IN  /\ m \notin toHost
           /\ peer' = q
           /\ toHost' = Carry(toHost, {m}, InFlight)
    /\ UNCHANGED <<tcp, toPeer, calls, tgh>>

PeerResets ==
    /\ peer.open /\ tcp.use /\ Fault(1)
    /\ toHost' = Carry(toHost, {Answer(peer, PeerByte(peer.sent + 1), {"RST"}, <<>>, 0)}, InFlight)
    /\ peer' = [peer EXCEPT !.open = FALSE]
    /\ tgh' = Faulty(tgh, 1)
    /\ UNCHANGED <<tcp, toPeer, calls>>

-----------------------------------------------------------------------------
(* The calls of a process *)

RemoveDevice ==
    /\ tgh.device /\ Fault(1)
    /\ tgh' = [Faulty(tgh, 1) EXCEPT !.device = FALSE]
    /\ UNCHANGED <<tcp, toPeer, toHost, peer, calls>>

Holds(p) == calls[p].stream \/ calls[p].job # "idle"

\* tcp_connect() up to its first sleep; a connection in use refuses it.
Connect(p, sent) ==
    /\ calls[p].job = "idle" /\ ~calls[p].stream
    /\ tgh.device /\ tgh.connects < MaxTcpConnects /\ (~sent => Fault(1))
    /\ ~tcp.use
    /\ LET c == Track([NoConnection EXCEPT !.use = TRUE, !.port = tgh.connects + 1, !.una = Iss,
                                           !.nxt = Iss, !.state = "SYN_SENT"], {"SYN"}, <<>>)
       IN  /\ tcp' = c
           /\ toPeer' = IF sent THEN Carry(toPeer, {Segment(c, Iss, {"SYN"}, <<>>)}, OutFlight) ELSE toPeer
    /\ calls' = [calls EXCEPT ![p] = [Ready EXCEPT !.job = "connect"]]
    /\ tgh' = [Faulty(tgh, IF sent THEN 0 ELSE 1) EXCEPT !.connects = @ + 1, !.wrote = 0,
                  !.shared = @ \/ \E q \in TcpProc \ {p} : Holds(q)]
    /\ UNCHANGED <<toHost, peer>>

\* net_user_stream_connect() after tcp_connect(): the stream, or a close when there is no
\* memory for it.
Opened(c, memory) ==
    IF memory THEN [Ready EXCEPT !.stream = TRUE, !.port = c.port]
    ELSE [Ready EXCEPT !.job = "closing"]

\* One turn of tcp_wait_for(ESTABLISHED).
AwaitConnect(p, late, over, sent, memory) ==
    /\ calls[p].job = "connect"
    /\ (~sent => Fault(1) /\ tcp.ack) /\ (~memory => Fault(1))
    /\ LET r == IF over THEN [c |-> tcp, segs |-> {}] ELSE Served(tcp, late, sent)
           ok == ~over /\ r.c.state = "ESTABLISHED"
           end == over \/ r.c.status # "SUCCESS"
       IN  /\ toPeer' = Carry(toPeer, r.segs, OutFlight)
           /\ tcp' = IF ok \/ ~end \/ r.c.status # "SUCCESS" THEN r.c ELSE tcp_fail(r.c, "TIMEOUT")
           /\ ~memory => ok
           /\ calls' = [calls EXCEPT ![p] =
                 IF ok THEN Opened(r.c, memory) ELSE IF end THEN Ready ELSE @]
           /\ tgh' = Faulty(tgh, (IF sent THEN 0 ELSE 1) + (IF memory THEN 0 ELSE 1))
    /\ UNCHANGED <<toHost, peer>>

\* tcp_send(): the wait for ESTABLISHED inside its loop is over at once, so a second segment
\* finds the first one outstanding and the call fails with part of the data on its way.
SendBytes(p, n, sent) ==
    /\ calls[p].stream /\ calls[p].job = "idle"
    /\ tcp.state = "ESTABLISHED" /\ tcp.win > 0 /\ ~tcp.out /\ tgh.wrote + n =< MaxWrite
    /\ ~sent => Fault(1)
    /\ LET k == Less(Less(n, Mss), tcp.win)
           data == [i \in 1 .. k |-> tgh.wrote + i]
           c == Track(tcp, {"ACK"}, data)
           r == IF sent THEN Served(c, FALSE, TRUE) ELSE [c |-> c, segs |-> {}]
       IN  /\ tcp' = r.c
           /\ toPeer' = Carry(toPeer, r.segs \cup
                 (IF sent /\ tgh.device THEN {Segment(tcp, tcp.nxt, {"ACK"}, data)} ELSE {}), OutFlight)
           /\ tgh' = [Faulty(tgh, IF sent THEN 0 ELSE 1) EXCEPT !.wrote = @ + k]
    /\ UNCHANGED <<toHost, peer, calls>>

\* tcp_receive_bytes(): serve, then take from the front of the buffer.
ReadBytes(p, n, late, sent) ==
    /\ calls[p].stream /\ calls[p].job = "idle"
    /\ n > 0 => n =< Len(tcp.rx)
    /\ ~sent => Fault(1) /\ tcp.ack
    /\ LET r == Served(tcp, late, sent)
       IN  /\ tcp' = [r.c EXCEPT !.rx = SubSeq(@, n + 1, Len(@))]
           /\ toPeer' = Carry(toPeer, r.segs, OutFlight)
           /\ calls' = [calls EXCEPT ![p].got = @ \o SubSeq(tcp.rx, 1, n)]
    /\ tgh' = Faulty(tgh, IF sent THEN 0 ELSE 1)
    /\ UNCHANGED <<toHost, peer>>

\* The FIN of tcp_close(), which tcp_send_tracked() refuses while data are outstanding.
Fin(c, state) ==
    IF c.out THEN [c EXCEPT !.state = state]
    ELSE Track([c EXCEPT !.state = state], {"FIN", "ACK"}, <<>>)

\* net_user_stream_close() after tcp_close(): a close that failed is followed by tcp_abort().
AfterClose(p, c, ok) == IF ~ok /\ calls[p].stream THEN NoConnection ELSE c

\* tcp_close() up to its loop: a closed connection is given back at once, and one that is
\* opening is left alone (net_user_stream_close() then aborts it).
BeginClose(p, late) ==
    /\ \/ calls[p].stream /\ calls[p].job = "idle"
       \/ calls[p].job = "closing"
    /\ LET r == Served(tcp, late, TRUE)
           finned == CASE r.c.state = "ESTABLISHED" -> Fin(r.c, "FIN_WAIT_1")
                       [] r.c.state = "CLOSE_WAIT" -> Fin(r.c, "LAST_ACK")
                       [] OTHER -> r.c
       IN  IF r.c.state = "CLOSED"
           THEN /\ tcp' = AfterClose(p, [r.c EXCEPT !.use = FALSE], r.c.status = "SUCCESS")
                /\ toPeer' = Carry(toPeer, r.segs, OutFlight)
                /\ calls' = [calls EXCEPT ![p] = Ready]
           ELSE IF r.c.state = "SYN_SENT"
           THEN /\ tcp' = AfterClose(p, r.c, FALSE)
                /\ toPeer' = Carry(toPeer, r.segs, OutFlight)
                /\ calls' = [calls EXCEPT ![p] = Ready]
           ELSE /\ tcp' = finned
                /\ toPeer' = Carry(toPeer, r.segs \cup
                      (IF finned.nxt # r.c.nxt THEN {Segment(r.c, r.c.nxt, {"FIN", "ACK"}, <<>>)}
                       ELSE {}), OutFlight)
                /\ calls' = [calls EXCEPT ![p].job = "close"]
    /\ UNCHANGED <<toHost, peer, tgh>>

\* One turn of the loop of tcp_close().
AwaitClose(p, late, over) ==
    /\ calls[p].job = "close"
    /\ LET r == IF over THEN [c |-> tcp, segs |-> {}] ELSE Served(tcp, late, TRUE)
           shut == ~over /\ r.c.state = "CLOSED"
           ok == shut /\ r.c.status = "SUCCESS"
           left == IF shut THEN [r.c EXCEPT !.use = FALSE]
                   ELSE IF over /\ r.c.status = "SUCCESS" THEN tcp_fail(r.c, "TIMEOUT") ELSE r.c
       IN  /\ toPeer' = Carry(toPeer, r.segs, OutFlight)
           /\ tcp' = IF shut \/ over THEN AfterClose(p, left, ok) ELSE left
           /\ calls' = IF shut \/ over THEN [calls EXCEPT ![p] = Ready] ELSE calls
           /\ tgh' = [tgh EXCEPT !.lostClose = @ \/ (ok /\ Len(peer.got) < tgh.wrote)]
    /\ UNCHANGED <<toHost, peer>>

\* stream_destroy() when the process goes: tcp_abort().
Destroy(p) ==
    /\ calls[p].stream /\ calls[p].job = "idle"
    /\ tcp' = NoConnection
    /\ calls' = [calls EXCEPT ![p] = Ready]
    /\ UNCHANGED <<toPeer, toHost, peer, tgh>>

\* A deadline can have passed when one is set: for a segment outstanding, and in TIME_WAIT.
Late == IF tcp.out \/ tcp.state = "TIME_WAIT" THEN BOOLEAN ELSE {FALSE}

TcpNext ==
    \/ \E m \in toHost, again \in BOOLEAN : DeliverToHost(m, again)
    \/ \E m \in toPeer, n \in 0 .. Mss, w \in Windows : PeerTakes(m, n, w)
    \/ \E lo \in 1 .. PeerBytes + 1, hi \in 0 .. PeerBytes, fin \in BOOLEAN : PeerSends(lo, hi, fin)
    \/ Lose \/ PeerResets \/ RemoveDevice
    \/ \E p \in TcpProc :
          \/ \E sent \in BOOLEAN : \/ Connect(p, sent)
                                   \/ \E n \in SendSizes : SendBytes(p, n, sent)
          \/ \E late \in Late, sent, memory \in BOOLEAN : AwaitConnect(p, late, FALSE, sent, memory)
          \/ AwaitConnect(p, FALSE, TRUE, TRUE, TRUE)
          \/ \E late \in Late, sent \in BOOLEAN, n \in 0 .. RxCapacity : ReadBytes(p, n, late, sent)
          \/ \E late \in Late : BeginClose(p, late) \/ AwaitClose(p, late, FALSE)
          \/ AwaitClose(p, FALSE, TRUE)
          \/ Destroy(p)

TcpSpec == TcpInit /\ [][TcpNext]_tcpVars

-----------------------------------------------------------------------------
Counting(s) == \A i \in DOMAIN s : s[i] = i

\* However the network loses, repeats and reorders segments, what a process has read with
\* tcp_receive_bytes() is the beginning of what the peer sent, and what the peer has is the
\* beginning of what tcp_send() took, nothing missing and nothing twice; and what the
\* connection counts as acknowledged the peer has.
StreamsIntact ==
    ~tgh.shared =>
        /\ \A p \in TcpProc : calls[p].stream => /\ Counting(calls[p].got)
                                                 /\ Len(calls[p].got) =< PeerBytes
        /\ peer.port = tcp.port /\ tcp.use =>
              /\ Counting(peer.got) /\ Len(peer.got) =< tgh.wrote
              /\ tcp.state # "SYN_SENT" => ~SeqBefore(peer.rcv, tcp.una)

\* A close that reports success leaves no byte that tcp_send() took undelivered, also when the
\* close came while the last segment was outstanding.
CloseIsComplete == tgh.shared \/ ~tgh.lostClose

\* The only connection does not stay reserved with nobody to give it back: that takes a
\* receive buffer that filled up while a stream for which there was no memory was closed.
ConnectionComesBack ==
    tcp.use /\ tcp.status # "BUFFER_FULL" /\ ~tgh.shared => \E p \in TcpProc : Holds(p)
=============================================================================
