----------------------------- MODULE Datagrams -----------------------------
(***************************************************************************)
(* The connectionless half of the network: ARP, IPv4, ICMP echo, UDP with  *)
(* its table of ports, datagram objects and the name resolver.  A system   *)
(* call runs with interrupts masked, so it is one step up to the point     *)
(* where it sleeps for a tick.  The network loses, doubles and reorders    *)
(* packets; the configuration and the network device may be replaced at    *)
(* any time.  A packet is what its receiver tells apart: the port, the     *)
(* address it is for, an identifier and the contents.  Identifiers do not  *)
(* come round again within the bounds.                                     *)
(***************************************************************************)
EXTENDS Naturals, Sequences, FiniteSets

CONSTANTS NetProc,          \* processes that resolve names, ping, use datagrams
          UserPort,         \* ports a process asks for
          DnsPort,          \* DNS_SOURCE_PORT
          UdpSlots,         \* endpoints of udp.c
          ObjectSlots,      \* datagram_objects of user.c
          QueueSize,        \* NET_USER_DATAGRAM_QUEUE
          DnsRetries,       \* DNS_RETRIES
          NetCapacity, MaxNetCalls, MaxNetChanges

VARIABLES dev,              \* generation of the device, 0 without one
          conf,             \* the address, 0 while unconfigured
          arp,              \* the next hop is in the ARP cache
          net,              \* packets on their way to this host
          asked,            \* requests that left this host
          endpoints,        \* udp.c
          objects,          \* user.c
          dns,              \* the resolver's transaction
          resolver_active,
          ping_state,
          caller,           \* what each process is doing
          heard,            \* requests whose reply came in
          stolen,           \* a datagram object was given the resolver's port
          ids, incoming, changes

dgramVars == <<dev, conf, arp, net, asked, endpoints, objects, dns, resolver_active,
               ping_state, caller, heard, stolen, ids, incoming, changes>>

NoEndpoint == [port |-> 0, handler |-> "none"]
NoObject == [port |-> 0, gen |-> 0, head |-> 0, tail |-> 0, count |-> 0,
             packets |-> [ i \in 0..(QueueSize - 1) |-> 0 ], accepted |-> <<>>]
NoQuery == [gen |-> 0, id |-> 0, event |-> FALSE, status |-> "none", answer |-> 0]
NoPing == [pending |-> FALSE, received |-> FALSE, id |-> 0]
AtRest == [at |-> "idle", id |-> 0, first |-> 0, gen |-> 0, try |-> 0, result |-> "none",
           got |-> 0]

DgramInit ==
    /\ dev = 1 /\ conf = 1 /\ arp \in BOOLEAN
    /\ net = {} /\ asked = {}
    /\ endpoints = [ s \in 1..UdpSlots |->
                       IF s = 1 THEN [port |-> DnsPort, handler |-> "dns"] ELSE NoEndpoint ]
    /\ objects = [ s \in 1..ObjectSlots |-> NoObject ]
    /\ dns = NoQuery /\ resolver_active = FALSE /\ ping_state = NoPing
    /\ caller = [ p \in NetProc |-> AtRest ]
    /\ heard = {} /\ stolen = FALSE
    /\ ids = 0 /\ incoming = 0 /\ changes = 0
-----------------------------------------------------------------------------
(* Sending.                                                                *)

net_device_instance_current(gen) == gen # 0 /\ gen = dev

\* ipv4_transmit_from: without the next hop's address the packet is dropped
\* and an ARP request goes out instead.
ipv4_transmit(kind, id) ==
    asked' = IF dev = 0 \/ conf = 0 THEN asked
             ELSE IF ~arp THEN asked \cup {[kind |-> "arp", id |-> 0, to |-> conf]}
             ELSE asked \cup {[kind |-> kind, id |-> id, to |-> conf]}

Transmitted == dev # 0 /\ conf # 0 /\ arp
-----------------------------------------------------------------------------
(* The UDP table.                                                          *)

EndpointOf(port) == { s \in 1..UdpSlots : endpoints[s].handler # "none" /\ endpoints[s].port = port }
Lowest(S) == CHOOSE s \in S : \A o \in S : s <= o

\* The endpoints after the registration; they stay as they are if it fails.
udp_register_handler(port, handler) ==
    LET same == EndpointOf(port)
        free == { s \in 1..UdpSlots : endpoints[s].handler = "none" }
    IN  CASE same # {} -> [endpoints EXCEPT ![Lowest(same)].handler = handler]
          [] same = {} /\ free # {} ->
               [endpoints EXCEPT ![Lowest(free)] = [port |-> port, handler |-> handler]]
          [] OTHER -> endpoints

\* A mutant: neither port nor handler is compared.
UnregisterAll(port, handler) == [ s \in 1..UdpSlots |-> NoEndpoint ]

udp_unregister_handler(port, handler) ==
    [ s \in 1..UdpSlots |-> IF endpoints[s] = [port |-> port, handler |-> handler]
                            THEN NoEndpoint ELSE endpoints[s] ]

Occupied == { s \in 1..ObjectSlots : objects[s].port # 0 }
datagram_find(port) == { s \in Occupied : objects[s].port = port }

net_user_datagram_create(port) ==
    LET free == { s \in 1..ObjectSlots : s \notin Occupied }
        table == udp_register_handler(port, "datagram")
        ok == \E s \in 1..UdpSlots : table[s] = [port |-> port, handler |-> "datagram"]
    IN  /\ conf # 0 /\ dev # 0 /\ datagram_find(port) = {} /\ free # {} /\ ok
        /\ endpoints' = table
        /\ objects' = [objects EXCEPT ![Lowest(free)] = [NoObject EXCEPT !.port = port, !.gen = dev]]
        /\ stolen' = (stolen \/ port = DnsPort)
        /\ UNCHANGED <<dev, conf, arp, net, asked, dns, resolver_active, ping_state, caller, heard,
                       ids, incoming, changes>>

datagram_destroy(s) ==
    /\ s \in Occupied
    /\ endpoints' = udp_unregister_handler(objects[s].port, "datagram")
    /\ objects' = [objects EXCEPT ![s] = NoObject]
    /\ UNCHANGED <<dev, conf, arp, net, asked, dns, resolver_active, ping_state, caller, heard,
                   stolen, ids, incoming, changes>>

Room(o) == o.count < QueueSize

\* A mutant: the object takes what arrives on any device.
RxAnyDevice(gen, packet) ==
    [ s \in 1..ObjectSlots |->
        LET o == objects[s]
        IN  IF s \notin datagram_find(packet.port) \/ ~Room(o) THEN o
            ELSE [o EXCEPT !.packets[o.tail] = packet.id, !.tail = (o.tail + 1) % QueueSize,
                           !.count = @ + 1,
                           !.accepted = Append(@, [id |-> packet.id, gen |-> gen])] ]

\* The objects after a datagram came in on a device.
datagram_rx(gen, packet) ==
    [ s \in 1..ObjectSlots |->
        LET o == objects[s]
        IN  IF s \notin datagram_find(packet.port) \/ gen # o.gen \/ ~Room(o) THEN o
            ELSE [o EXCEPT !.packets[o.tail] = packet.id, !.tail = (o.tail + 1) % QueueSize,
                           !.count = @ + 1,
                           !.accepted = Append(@, [id |-> packet.id, gen |-> gen])] ]

\* A process takes the oldest datagram out of the queue.
net_user_datagram_receive(s) ==
    /\ s \in Occupied /\ objects[s].count > 0
    /\ objects' = [objects EXCEPT ![s].head = (@ + 1) % QueueSize, ![s].count = @ - 1,
                                  ![s].accepted = Tail(@)]
    /\ UNCHANGED <<dev, conf, arp, net, asked, endpoints, dns, resolver_active, ping_state,
                   caller, heard, stolen, ids, incoming, changes>>
-----------------------------------------------------------------------------
(* The resolver.  The answer to a query is the query's identifier.         *)

\* A mutant: an answer is taken for the current query.
ParseAnyId(packet) == packet.status

\* dns_parse_response: an answer to another query is invalid.
dns_parse_response(packet) == IF packet.id = dns.id THEN packet.status ELSE "invalid"

\* The transaction after an answer on the resolver's port.
dns_udp_receive(packet) ==
    IF ~net_device_instance_current(dns.gen) THEN dns
    ELSE LET status == dns_parse_response(packet)
         IN  [dns EXCEPT !.status = status, !.event = TRUE,
                         !.answer = IF status = "success" THEN packet.id ELSE @]

Leave(p, result) == [caller EXCEPT ![p] = [AtRest EXCEPT !.result = result]]

\* net_user_resolve_a up to its first sleep.
net_user_resolve_a(p) ==
    /\ caller[p].at = "idle" /\ ids + incoming < MaxNetCalls /\ dev # 0
    /\ IF resolver_active THEN /\ caller' = Leave(p, "busy")
                               /\ UNCHANGED <<resolver_active, dns, ids, asked>>
       ELSE IF conf = 0 THEN /\ caller' = Leave(p, "failed")
                             /\ UNCHANGED <<resolver_active, dns, ids, asked>>
       ELSE /\ resolver_active' = TRUE
            /\ ids' = ids + 1
            /\ dns' = [gen |-> dev, id |-> ids + 1, event |-> FALSE, status |-> "timeout",
                       answer |-> dns.answer]
            /\ ipv4_transmit("query", ids + 1)
            /\ caller' = [caller EXCEPT ![p] = [AtRest EXCEPT !.at = "resolve", !.id = ids + 1,
                                                              !.first = ids + 1, !.gen = dev]]
    /\ UNCHANGED <<dev, conf, arp, net, endpoints, objects, ping_state, heard, stolen, incoming,
                   changes>>

\* A mutant: the transaction is not given back.
FinishHolds(p, result, got) ==
    /\ caller' = [caller EXCEPT ![p].at = "idle", ![p].result = result, ![p].got = got]
    /\ UNCHANGED <<resolver_active, dns, ids, asked>>

\* A call returns and gives the transaction back.
Finish(p, result, got) ==
    /\ caller' = [caller EXCEPT ![p].at = "idle", ![p].result = result, ![p].got = got]
    /\ resolver_active' = FALSE
    /\ UNCHANGED <<dns, ids, asked>>

\* It wakes up after a tick; the last look may find the time of the attempt
\* over, and the next one uses a new identifier.
dns_resolve_a(p) ==
    /\ caller[p].at = "resolve"
    /\ IF ~net_device_instance_current(dns.gen) \/ dev # caller[p].gen
       THEN Finish(p, "failed", 0)
       ELSE IF dns.event
       THEN Finish(p, IF dns.status = "success" THEN "ok" ELSE "failed", dns.answer)
       ELSE IF caller[p].try + 1 = DnsRetries THEN Finish(p, "failed", 0)
       ELSE /\ ids + incoming < MaxNetCalls
            /\ ids' = ids + 1
            /\ dns' = [dns EXCEPT !.id = ids + 1, !.event = FALSE]
            /\ ipv4_transmit("query", ids + 1)
            /\ caller' = [caller EXCEPT ![p].try = @ + 1, ![p].id = ids + 1]
            /\ UNCHANGED resolver_active
    /\ UNCHANGED <<dev, conf, arp, net, endpoints, objects, ping_state, heard, stolen, incoming,
                   changes>>
-----------------------------------------------------------------------------
(* Echo requests.                                                          *)

\* A mutant: the reply of the last request is still marked as received.
EchoKeepsReceived(id) == [ping_state EXCEPT !.pending = TRUE, !.id = id]

\* ping_state after icmp_echo_request.
icmp_echo_request(id) == [pending |-> TRUE, received |-> FALSE, id |-> id]

net_user_icmp_echo(p) ==
    /\ caller[p].at = "idle" /\ ids + incoming < MaxNetCalls /\ dev # 0
    /\ \A o \in NetProc : caller[o].at # "ping"       \* one ICMP object at a time
    /\ ids' = ids + 1
    /\ ipv4_transmit("ping", ids + 1)
    /\ ping_state' = IF Transmitted THEN icmp_echo_request(ids + 1)
                     ELSE [icmp_echo_request(ids + 1) EXCEPT !.pending = FALSE]
    /\ caller' = IF Transmitted
                 THEN [caller EXCEPT ![p] = [AtRest EXCEPT !.at = "ping", !.id = ids + 1, !.gen = dev]]
                 ELSE Leave(p, "failed")
    /\ UNCHANGED <<dev, conf, arp, net, endpoints, objects, dns, resolver_active, heard, stolen,
                   incoming, changes>>

\* It wakes up and looks for the reply; the time may be over.
PingPoll(p) ==
    /\ caller[p].at = "ping"
    /\ caller' = [caller EXCEPT ![p].at = "idle",
                    ![p].result = IF dev # caller[p].gen THEN "failed"
                                  ELSE IF ping_state.received /\ ping_state.id = caller[p].id
                                  THEN "ok" ELSE "timeout",
                    ![p].got = caller[p].id]
    /\ UNCHANGED <<dev, conf, arp, net, asked, endpoints, objects, dns, resolver_active,
                   ping_state, heard, stolen, ids, incoming, changes>>

icmp_receive(packet) ==
    IF ping_state.pending /\ ping_state.id = packet.id
    THEN [ping_state EXCEPT !.received = TRUE, !.pending = FALSE] ELSE ping_state
-----------------------------------------------------------------------------
(* The network.                                                            *)

Packet(kind, port, to, id, status) ==
    [kind |-> kind, port |-> port, to |-> to, id |-> id, status |-> status]

\* What is on its way when a packet follows: any of the others may be lost.
Carried(packet) ==
    { kept \cup {packet} : kept \in { k \in SUBSET net : Cardinality(k) < NetCapacity } }

\* A host answers a request it has seen, and may answer it again.
HostAnswers ==
    /\ \E a \in asked, status \in {"success", "nxdomain"} :
         /\ status = "nxdomain" => a.kind = "query"
         /\ net' \in Carried(Packet(a.kind, DnsPort, a.to, a.id, status))
    /\ UNCHANGED <<dev, conf, arp, asked, endpoints, objects, dns, resolver_active, ping_state,
                   caller, heard, stolen, ids, incoming, changes>>

\* A datagram from elsewhere.
HostSends(port) ==
    /\ ids + incoming < MaxNetCalls /\ conf # 0
    /\ incoming' = incoming + 1
    /\ net' \in Carried(Packet("datagram", port, conf, incoming + 1, "success"))
    /\ UNCHANGED <<dev, conf, arp, asked, endpoints, objects, dns, resolver_active, ping_state,
                   caller, heard, stolen, ids, changes>>

\* ethernet_receive and ipv4_receive drop what is for another address.
ipv4_receive(packet) == conf # 0 /\ packet.to = conf

\* The handler of the port, if the packet is a datagram.
udp_receive(packet) ==
    LET slot == EndpointOf(packet.port)
    IN  IF packet.kind \notin {"query", "datagram"} \/ slot = {} THEN "none"
        ELSE endpoints[Lowest(slot)].handler

net_receive_frame(packet) ==
    LET mine == dev # 0 /\ ipv4_receive(packet)
    IN  /\ packet \in net
        /\ net' = net \ {packet}
        /\ arp' = (arp \/ (mine /\ packet.kind = "arp"))
        /\ ping_state' = IF mine /\ packet.kind = "ping" THEN icmp_receive(packet) ELSE ping_state
        /\ heard' = IF mine /\ packet.kind = "ping" THEN heard \cup {packet.id} ELSE heard
        /\ dns' = IF mine /\ udp_receive(packet) = "dns" THEN dns_udp_receive(packet) ELSE dns
        /\ objects' = IF mine /\ udp_receive(packet) = "datagram"
                      THEN datagram_rx(dev, packet) ELSE objects
        /\ UNCHANGED <<dev, conf, asked, endpoints, resolver_active, caller, stolen, ids,
                       incoming, changes>>

Change == changes < MaxNetChanges /\ changes' = changes + 1

\* clear_runtime_configuration and, perhaps, a new address: ARP cache and
\* resolver transaction are reset.
clear_runtime_configuration(address) ==
    /\ Change
    /\ conf' = address
    /\ arp' = FALSE
    /\ dns' = NoQuery
    /\ UNCHANGED <<dev, net, asked, endpoints, objects, resolver_active, ping_state, caller, heard,
                   stolen, ids, incoming>>

\* The device goes, which clears the configuration; another one has a new
\* generation.
ReplaceDevice ==
    /\ Change
    /\ dev' = dev + 1
    /\ conf' = 0 /\ arp' = FALSE
    /\ UNCHANGED <<net, asked, endpoints, objects, dns, resolver_active, ping_state, caller, heard,
                   stolen, ids, incoming>>

DgramNext ==
    \/ \E p \in NetProc : \/ net_user_resolve_a(p) \/ dns_resolve_a(p)
                          \/ net_user_icmp_echo(p) \/ PingPoll(p)
    \/ \E port \in UserPort : net_user_datagram_create(port) \/ HostSends(port)
    \/ \E s \in 1..ObjectSlots : datagram_destroy(s) \/ net_user_datagram_receive(s)
    \/ HostAnswers
    \/ \E packet \in net : net_receive_frame(packet)
    \/ \E address \in {0, conf + 1} : clear_runtime_configuration(address)
    \/ ReplaceDevice

DgramSpec == DgramInit /\ [][DgramNext]_dgramVars
-----------------------------------------------------------------------------
(* Properties.                                                             *)

\* A resolution that succeeds returns the answer to one of its own queries,
\* never one to an earlier call's or to another process's, however late or
\* often the answers come.
AnswerIsOwn ==
    \A p \in NetProc : caller[p].result = "ok" /\ caller[p].first # 0
        => caller[p].got \in caller[p].first..caller[p].id

\* The resolver's single transaction is held by at most one caller, and by one
\* whenever it is marked active: it is never left behind.
ResolverHeldOnce ==
    Cardinality({ p \in NetProc : caller[p].at = "resolve" }) = IF resolver_active THEN 1 ELSE 0

\* A ping succeeds only after a reply to that very request came in.
PingAnswered ==
    \A p \in NetProc : caller[p].result = "ok" /\ caller[p].first = 0 => caller[p].got \in heard

\* The ring of a datagram object holds exactly the datagrams that were accepted
\* and not yet received, in order, and all came in on the device instance the
\* object was made for.
QueueExact ==
    \A s \in Occupied :
        LET o == objects[s]
        IN  /\ o.count = Len(o.accepted)
            /\ \A i \in 1..o.count : /\ o.packets[(o.head + i - 1) % QueueSize] = o.accepted[i].id
                                     /\ o.accepted[i].gen = o.gen

\* Every datagram object is reachable at its port and, unless an object was
\* ever given the resolver's port, so is the resolver.
PortsServed ==
    /\ \A s \in Occupied : \E e \in 1..UdpSlots :
         endpoints[e] = [port |-> objects[s].port, handler |-> "datagram"]
    /\ stolen \/ \E e \in 1..UdpSlots : endpoints[e] = [port |-> DnsPort, handler |-> "dns"]
=============================================================================
