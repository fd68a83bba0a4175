--------------------------- MODULE RemoteServices ---------------------------
(***************************************************************************)
(* What the routing host knows of the services other hosts offer, and the  *)
(* connections it makes to them: the entries of OfferService messages as   *)
(* service_discovery_impl hands them on, the tables services_remote_ of    *)
(* routing_manager_impl and remote_services_, remote_service_info_ and     *)
(* client_endpoints_ of endpoint_manager_impl, the callbacks of the client *)
(* endpoints, and what the stub tells the clients.                         *)
(*                                                                         *)
(* Entries and the TTL check exclude each other (check_ttl_mutex_) and are *)
(* one action each.  The callbacks of an endpoint collect the services     *)
(* they concern under endpoint_mutex_ and report them after it, one by     *)
(* one, which other actions may come between.                              *)
(*                                                                         *)
(* One client requests services; a service stands for service, instance    *)
(* and version, all in one partition.  Services of the host itself are in  *)
(* module ServiceOffers.                                                   *)
(***************************************************************************)
EXTENDS Naturals, FiniteSets

CONSTANTS Services, Hosts,
          Offers(_),  \* the endpoints a service may be offered with: [host, port]
          Ports,      \* port[k] is a port or NoPort, for each kind k of endpoint
          Eps,        \* client endpoint objects (recycled), numbers from 1
          MaxReports, \* an endpoint calls back while fewer reports are outstanding
          TTL,        \* checks an offer survives without being renewed
          NoPort

VARIABLES r  \* the host

Kinds == {"reliable", "unreliable"}
Other(k) == CHOOSE o \in Kinds : o # k
None == [k \in Kinds |-> 0]
NoDef == [k \in Kinds |-> NoPort]
Def == Hosts \X Ports
Free == [state |-> "free", kind |-> "reliable", def |-> NoPort]

NewHost ==
    [known |-> {},                              \* services_remote_
     ttl |-> [s \in Services |-> 0],            \* of the serviceinfo
     endpoint |-> [s \in Services |-> None],    \* endpoints of the serviceinfo
     info |-> [s \in Services |-> NoDef],       \* remote_service_info_
     remote |-> [s \in Services |-> None],      \* remote_services_
     clients |-> [d \in Def |-> None],          \* client_endpoints_
     ep |-> [e \in Eps |-> Free],               \* the client endpoints
     requested |-> {},                          \* requested_services_
     routing |-> {},                            \* routing_info_ of the stub
     reports |-> {},                            \* collected by a callback of an endpoint
     timers |-> {}]                             \* of service_endpoint_connected

Init == r = NewHost

IsUp(q, e) == q.ep[e].state \in {"connected", "established"}
IsFree(q, e) == /\ q.ep[e] = Free
                /\ e \notin q.timers /\ \A x \in q.reports : x.ep # e

-----------------------------------------------------------------------------
(* endpoint_manager_impl *)

SetEndpoint(q, s, k, e) == IF s \in q.known THEN [q EXCEPT !.endpoint[s][k] = e] ELSE q

find_remote_client(q, s, k) ==
    LET d == q.info[s][k]
    IN  IF q.remote[s][k] # 0 \/ d = NoPort THEN q
        ELSE IF q.clients[d][k] = 0 THEN q
        ELSE SetEndpoint([q EXCEPT !.remote[s][k] = q.clients[d][k]], s, k, q.clients[d][k])

\* The endpoint is started: its connection is under way.
create_remote_client(q, s, k) ==
    LET d == q.info[s][k]
        e == CHOOSE x \in Eps : IsFree(q, x) /\ \A y \in Eps : y < x => ~IsFree(q, y)
    IN  IF d = NoPort \/ \A x \in Eps : ~IsFree(q, x) THEN q
        ELSE SetEndpoint([q EXCEPT !.ep[e] = [state |-> "closed", kind |-> k, def |-> d],
                                   !.remote[s][k] = e, !.clients[d][k] = e], s, k, e)

find_or_create_remote_client(q, s, k) ==
    LET f == find_remote_client(q, s, k)
    IN  IF f.remote[s][k] # 0 THEN f ELSE create_remote_client(f, s, k)

FindOrCreateBoth(q, s) ==
    find_or_create_remote_client(find_or_create_remote_client(q, s, "reliable"), s, "unreliable")

\* The host of the endpoint is forgotten with the last service that uses it.
\* Bug: the endpoint is stopped while another service is reached through it.
clear_client_endpoints_Shared(q, s, k) ==
    LET e == q.remote[s][k]
    IN  IF e = 0 THEN q
        ELSE [q EXCEPT !.remote[s][k] = 0, !.ep[e] = Free, !.clients[q.ep[e].def][k] = 0]

clear_client_endpoints(q, s, k) ==
    LET e == q.remote[s][k]
        gone == [q EXCEPT !.remote[s][k] = 0]
    IN  IF e = 0 THEN q
        ELSE IF \E t \in Services : gone.remote[t][k] = e THEN gone
        ELSE [gone EXCEPT !.ep[e] = Free,
                 !.clients = IF @[q.ep[e].def][k] = e THEN [@ EXCEPT ![q.ep[e].def][k] = 0] ELSE @]

clear_remote_service_info(q, s, k) == [q EXCEPT !.info[s][k] = NoPort]

Clear(q, s, k) == clear_remote_service_info(clear_client_endpoints(q, s, k), s, k)

\* What an offer with definition d changes: "known", "removed" and "added" are
\* about the kinds of endpoint.
Has(d, k) == d.port[k] # NoPort
At(d, k) == <<d.host, d.port[k]>>

is_remote_service_known(q, s, d) ==
    LET has == {k \in Kinds : q.info[s][k] # NoPort}
        host == IF "reliable" \in has THEN q.info[s]["reliable"][1] ELSE q.info[s]["unreliable"][1]
        same == {k \in has : Has(d, k) /\ q.info[s][k] = At(d, k)}
    IN  [drop |-> has # {} /\ \E k \in Kinds : (Has(d, k) \/ k \in has) /\ host # d.host,
         known |-> same,
         removed |-> has \ same,
         changed |-> has # {} /\ \E k \in Kinds : (Has(d, k) \/ k \in has) /\ k \notin same]

service_endpoint_connected(q, s, e) ==
    [q EXCEPT !.routing = @ \cup {s}, !.timers = @ \cup {e}]

\* The endpoints of the kinds in K are added at once; a service all of whose
\* endpoints are up already is reported.
add_remote_service_info(q, s, d, K) ==
    LET a == [q EXCEPT !.info[s] = [k \in Kinds |-> IF k \in K THEN At(d, k) ELSE @[k]]]
        f == IF "unreliable" \in K THEN find_remote_client(a, s, "unreliable") ELSE a
        g == IF "reliable" \in K THEN find_remote_client(f, s, "reliable") ELSE f
        eps == {g.remote[s][k] : k \in K}
    IN  IF \A e \in eps : e # 0 /\ IsUp(g, e)
        THEN [g EXCEPT !.routing = @ \cup {s},
                       !.timers = @ \cup eps]
        ELSE g

-----------------------------------------------------------------------------
(* routing_manager_impl *)

has_requester(q, s) == s \in q.requested

\* The service is reported again once its endpoint is established.
offer_service_if_established(q, s, e) ==
    IF q.ep[e].state = "established" THEN [q EXCEPT !.routing = @ \cup {s}] ELSE q

\* An offer of a requested service renews endpoint k of it, or gets it one.
Renew(q, s, k) ==
    IF ~has_requester(q, s) THEN q
    ELSE IF q.endpoint[s][k] # 0 THEN offer_service_if_established(q, s, q.endpoint[s][k])
    ELSE find_or_create_remote_client(q, s, k)

ClearKinds(q, s, K) ==
    LET c == IF "reliable" \in K THEN Clear(q, s, "reliable") ELSE q
    IN  IF "unreliable" \in K THEN Clear(c, s, "unreliable") ELSE c

create_service_info(q, s) ==
    IF s \in q.known THEN q ELSE [q EXCEPT !.known = @ \cup {s}, !.endpoint[s] = None]

AddEndpoints(q, s, d, K) ==
    LET a == add_remote_service_info(q, s, d, K)
    IN  CASE ~has_requester(q, s) -> a
          [] K = Kinds -> FindOrCreateBoth(a, s)
          [] OTHER -> find_or_create_remote_client(a, s, CHOOSE k \in K : TRUE)

add_routing_info(q, s, d, state) ==
    LET created == create_service_info(ClearKinds(q, s, state.removed), s)
        info == [created EXCEPT !.ttl[s] = TTL,
                    !.endpoint[s] = [k \in Kinds |-> IF k \in state.removed THEN 0 ELSE @[k]]]
        new == {k \in Kinds : Has(d, k) /\ k \notin state.known}
        tcp == CASE "reliable" \in new -> AddEndpoints(info, s, d, new)
                 [] "reliable" \in state.known -> Renew(info, s, "reliable")
                 [] OTHER -> info
    IN  CASE "unreliable" \in new /\ "reliable" \notin new -> AddEndpoints(tcp, s, d, {"unreliable"})
          [] /\ "unreliable" \in state.known
             /\ ~Has(d, "reliable") /\ "reliable" \notin state.known /\ s \notin tcp.routing
                -> Renew(tcp, s, "unreliable")
          [] OTHER -> tcp

\* K are the kinds of endpoint the caller names.
del_routing_info(q, s, K) ==
    IF s \notin q.known THEN q
    ELSE LET c == ClearKinds([q EXCEPT !.routing = @ \ {s}], s, K)
         IN  [c EXCEPT !.known = @ \ {s}, !.endpoint[s] = None, !.ttl[s] = 0,
                       !.info[s] = IF K = {} THEN NoDef ELSE @]

\* Every service of S is removed, in some order.
RECURSIVE DelAll(_, _)
DelAll(q, S) == IF S = {} THEN q
                ELSE LET s == CHOOSE t \in S : TRUE IN DelAll(del_routing_info(q, s, Kinds), S \ {s})

-----------------------------------------------------------------------------
(* Service discovery: entries, reboots and the TTL *)

\* process_offerservice_serviceentry: an offer from another host than the one the
\* service is known at is dropped.
OfferEntry(q, s, d) ==
    LET state == is_remote_service_known(q, s, d)
        fresh == IF state.changed /\ state.known = {} THEN del_routing_info(q, s, Kinds) ELSE q
    IN  IF state.drop THEN q ELSE add_routing_info(fresh, s, d, state)

\* process_serviceentry for an entry with a TTL of zero.
StopOfferEntry(q, s, d) == del_routing_info(q, s, {k \in Kinds : Has(d, k)})

\* is_reboot: services without an endpoint of this host stay.
expire_services(q, h) ==
    DelAll(q, {s \in q.known :
        LET e == IF q.endpoint[s]["unreliable"] # 0 THEN q.endpoint[s]["unreliable"]
                                                    ELSE q.endpoint[s]["reliable"]
        IN  e # 0 /\ q.ep[e] # Free /\ q.ep[e].def[1] = h})

\* check_ttl: update_routing_info.
update_routing_info(q) ==
    LET expired == {s \in q.known : q.ttl[s] = 0}
    IN  DelAll([q EXCEPT !.ttl = [s \in Services |-> IF @[s] > 0 THEN @[s] - 1 ELSE 0]], expired)

\* check_ttl_mutex_ is taken by on_message and, if it is free, by check_ttl.  A
\* StopOffer names the endpoints the service was offered with.
Offer == \E s \in Services : \E d \in Offers(s) : r' = OfferEntry(r, s, d)
StopOffer == \E s \in Services : \E d \in Offers(s) :
    /\ \A k \in Kinds : r.info[s][k] # NoPort => Has(d, k)
    /\ r' = StopOfferEntry(r, s, d)
HostRestart == \E h \in Hosts : r' = expire_services(r, h)
check_ttl == r' = update_routing_info(r)

-----------------------------------------------------------------------------
(* Requests of the client *)

request_service(s) ==
    /\ s \notin r.requested
    /\ LET q == [r EXCEPT !.requested = @ \cup {s}]
       IN  r' = IF s \in r.known THEN FindOrCreateBoth(q, s) ELSE q

\* The last requester leaves: the service stays known and announced.
release_service(s) ==
    /\ s \in r.requested
    /\ LET q == [r EXCEPT !.requested = @ \ {s}]
           c == clear_client_endpoints(clear_client_endpoints(q, s, "reliable"), s, "unreliable")
       IN  r' = IF s \in r.known THEN [c EXCEPT !.endpoint[s] = None] ELSE q

-----------------------------------------------------------------------------
(* Callbacks of the client endpoints *)

Users(q, e) == {s \in Services : q.remote[s][q.ep[e].kind] = e}
Report(q, up, S, e) == [q EXCEPT !.reports = @ \cup {[up |-> up, service |-> s, ep |-> e] : s \in S}]

\* on_connect: a service whose other endpoint is not up waits for that.  A
\* service without a serviceinfo keeps the others from being reported.
on_connect(e) ==
    /\ r.ep[e].state = "closed" /\ Cardinality(r.reports) < MaxReports
    /\ LET up == [r EXCEPT !.ep[e].state = "connected"]
           ready == {s \in Users(r, e) : LET o == r.endpoint[s][Other(r.ep[e].kind)]
                                         IN  o = 0 \/ (o # 0 /\ IsUp(r, o))}
       IN  r' = IF ready = {} \/ ~(Users(r, e) \subseteq r.known)
                THEN [up EXCEPT !.ep[e].state = "established"]
                ELSE Report(up, TRUE, ready, e)

on_disconnect(e) ==
    /\ IsUp(r, e) /\ Cardinality(r.reports) < MaxReports
    /\ LET down == [r EXCEPT !.ep[e].state = "closed"]
       IN  r' = IF Users(r, e) \subseteq r.known THEN Report(down, FALSE, Users(r, e), e) ELSE down

\* service_endpoint_connected and service_endpoint_disconnected
Reported(x) ==
    LET q == [r EXCEPT !.reports = @ \ {x}]
    IN  r' = IF x.up THEN service_endpoint_connected(q, x.service, x.ep)
             ELSE [q EXCEPT !.routing = @ \ {x.service}]

\* call_sd_endpoint_connected, some milliseconds later
call_sd_endpoint_connected(e) ==
    r' = [r EXCEPT !.timers = @ \ {e}, !.ep[e].state = IF @ = "free" THEN @ ELSE "established"]

Connections == \/ \E e \in Eps : on_connect(e) \/ on_disconnect(e)
               \/ \E x \in r.reports : Reported(x)
               \/ \E e \in r.timers : call_sd_endpoint_connected(e)

Next == \/ Offer \/ StopOffer \/ HostRestart \/ check_ttl
        \/ \E s \in Services : request_service(s) \/ release_service(s)
        \/ Connections

Spec == Init /\ [][Next]_r

-----------------------------------------------------------------------------
(* Properties *)

\* The tables of endpoint_manager_impl and routing_manager_impl agree: a service
\* reached through an endpoint is known, was offered at the address of that
\* endpoint, and has it in its serviceinfo; an endpoint that exists is the one of
\* its address and is used by a service.
TablesAgree ==
    /\ \A s \in Services, k \in Kinds : LET e == r.remote[s][k] IN e # 0 =>
          /\ s \in r.known /\ r.endpoint[s][k] = e
          /\ r.ep[e].kind = k /\ r.ep[e].def = r.info[s][k]
          /\ r.clients[r.info[s][k]][k] = e
    /\ \A e \in Eps : r.ep[e] # Free => Users(r, e) # {}

\* A service the client requests whose endpoints are all up is available to it, or
\* the next repetition of its offer makes it available, once no callback or timer
\* is under way: whatever the order in which connections, disconnections, offers
\* and requests were handled, no report is lost for good.
Reachable(s) ==
    /\ s \in r.requested \cap r.known
    /\ \A k \in Kinds : r.info[s][k] # NoPort => r.remote[s][k] # 0 /\ IsUp(r, r.remote[s][k])
Repeats(s, d) == \A k \in Kinds : r.info[s][k] = IF Has(d, k) THEN At(d, k) ELSE NoPort

BecomesAvailable ==
    r.reports = {} /\ r.timers = {} =>
        \A s \in Services : Reachable(s) =>
            \A d \in Offers(s) : Repeats(s, d) => s \in OfferEntry(r, s, d).routing
=============================================================================
