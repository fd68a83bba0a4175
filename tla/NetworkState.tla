---------------------------- MODULE NetworkState ----------------------------
(***************************************************************************)
(* How the routing manager learns whether its network is there: the        *)
(* netlink connector follows the kernel's messages about addresses,        *)
(* interfaces and routes, and tells the routing manager of interface and   *)
(* multicast route, which starts service discovery, resumes a delayed      *)
(* routing state and takes up the offers that had to wait.                 *)
(*                                                                         *)
(* The kernel is external: it changes at any time, reports every change    *)
(* (but not the routes that vanish with their interface), answers requests *)
(* in order and drops what does not fit the socket's buffer.               *)
(***************************************************************************)
EXTENDS Naturals, Sequences, FiniteSets

CONSTANTS
    Ifs,            \* interface indices, 1 .. n
    WaitRoute,      \* wait_route_netlink_notification
    RequiresLink,   \* is_requiring_link_
    InitialState,   \* get_initial_routing_state
    MaxChanges,     \* bound: changes of the kernel's state
    MaxQueue,       \* bound: messages in the socket's buffer
    MaxLosses       \* bound: overflows of that buffer

VARIABLES
    kernel,    \* [addr |-> interface of the configured address or 0, link |-> per interface, route |-> set of interfaces]
    queue,     \* messages the connector has not read
    requests,  \* requests the kernel has not answered
    watcher,   \* the connector: its members, by their names
    router,    \* the routing manager's flags
    changes, losses,
    blind,     \* a request could not be sent: the routing manager was told to go ahead
    stranded   \* a message left the connector in a wrong state for good, see Strands

vars == <<kernel, queue, requests, watcher, router, changes, losses, blind, stranded>>

Links == {"absent", "down", "up", "running"}

-----------------------------------------------------------------------------
(* The routing manager. *)

is_external_routing_ready(r) == r.if_state_running /\ r.sd_route_set

(* set_routing_state_internal(RESUMED): discovery starts, every offer that *)
(* waits is taken up, unless the network is not there yet.                 *)
Resumed(r) ==
    IF is_external_routing_ready(r)
    THEN [r EXCEPT !.routing_state = "RESUMED", !.discovery = TRUE, !.pending = FALSE]
    ELSE [r EXCEPT !.routing_state = "DELAYED"]

start_ip_routing(r) ==
    [r EXCEPT !.routing_running = TRUE, !.discovery = @ \/ r.routing_state = "RESUMED"]

\* Bug: the offers that waited for the network are only taken up when it comes for the first time.
BecameReady_OnlyOnce(r) ==
    LET running == IF r.routing_running THEN r ELSE start_ip_routing([r EXCEPT !.pending = FALSE])
    IN IF running.routing_state = "DELAYED" THEN Resumed(running) ELSE running

(* What follows when interface and route are there. *)
BecameReady(r) ==
    LET running == IF r.routing_running THEN r ELSE start_ip_routing(r)
    IN CASE running.routing_state = "DELAYED" -> Resumed(running)
         [] running.routing_state = "RESUMED" -> [running EXCEPT !.pending = FALSE]
         [] OTHER -> running

on_net_interface_or_route_state_changed(r, isInterface, available) ==
    LET told ==
          IF isInterface
          THEN [r EXCEPT !.if_state_running = available,
                         !.sd_route_set = @ /\ (available \/ ~ WaitRoute)]
          ELSE [r EXCEPT !.sd_route_set = available]
    IN IF is_external_routing_ready(told) THEN BecameReady(told) ELSE told

(* A service for the network is offered: taken up now or when it is there. *)
Offer ==
    /\ ~ router.offered
    /\ router' = [router EXCEPT !.offered = TRUE, !.pending = ~ is_external_routing_ready(router)]
    /\ UNCHANGED <<kernel, queue, requests, watcher, changes, losses, blind, stranded>>

StopOffer ==
    /\ router.offered
    /\ router' = [router EXCEPT !.offered = FALSE, !.pending = FALSE]
    /\ UNCHANGED <<kernel, queue, requests, watcher, changes, losses, blind, stranded>>

(* The application suspends and resumes the routing manager. *)
SetRoutingState(s) ==
    /\ router.routing_state # s
    /\ router' = IF s = "SUSPENDED"
                 THEN [router EXCEPT !.routing_state = s, !.discovery = FALSE]
                 ELSE Resumed(router)
    /\ UNCHANGED <<kernel, queue, requests, watcher, changes, losses, blind, stranded>>

-----------------------------------------------------------------------------
(* The connector. *)

IsUp(s) == s \in {"UP", "UP_MULTICAST"}
IsDown(s) == s \in {"RESET", "DOWN"}

(* The calls of handler_ for a change from one state to another, in order: *)
(* pairs of is interface, is available.                                    *)
HandlerCalls(from, to) ==
    (IF IsDown(to) /\ IsUp(from) THEN <<<<TRUE, FALSE>>>> ELSE <<>>)
      \o (IF IsDown(to) /\ from = "UP_MULTICAST" THEN <<<<FALSE, FALSE>>>> ELSE <<>>)
      \o (IF IsUp(to) /\ IsDown(from) THEN <<<<TRUE, TRUE>>>> ELSE <<>>)
      \o (IF to = "UP_MULTICAST" THEN <<<<FALSE, TRUE>>>> ELSE <<>>)
      \o (IF to = "UP" /\ from = "UP_MULTICAST" THEN <<<<FALSE, FALSE>>>> ELSE <<>>)

(* At most two calls follow from one change. *)
AfterCalls(r, calls) ==
    LET first == IF calls = <<>> THEN r
                 ELSE on_net_interface_or_route_state_changed(r, calls[1][1], calls[1][2])
    IN IF Len(calls) < 2 THEN first
       ELSE on_net_interface_or_route_state_changed(first, calls[2][1], calls[2][2])

(* A connector and the routing manager that its handler_ tells, after a    *)
(* call of set_state.                                                      *)
Unchanged == [watcher |-> watcher, router |-> router, asked |-> <<>>]

Reset(c) == [c EXCEPT !.net_if_flags = [i \in Ifs |-> "none"], !.interface_sync_done = FALSE,
                      !.route_sync_done = FALSE, !.multicast_route_found = FALSE,
                      !.net_if_index_for_address = 0]

set_state(c, s) ==
    LET from == IF c.current_state = "INIT" THEN "RESET" ELSE c.current_state
        asked == CASE s = "RESET" -> <<[type |-> "GETADDR"]>>
                   [] s = "DOWN" /\ ~ c.interface_sync_done ->
                        <<[type |-> "GETLINK", index |-> c.net_if_index_for_address]>>
                   [] s = "UP" /\ ~ c.route_sync_done -> <<[type |-> "GETROUTE"]>>
                   [] OTHER -> <<>>
        synced == CASE s = "RESET" -> Reset(c)
                    [] s = "DOWN" -> [c EXCEPT !.interface_sync_done = TRUE]
                    [] s = "UP" -> [c EXCEPT !.route_sync_done = TRUE]
                    [] OTHER -> c
    IN IF s = c.current_state THEN [Unchanged EXCEPT !.watcher = c]
       ELSE [watcher |-> [synced EXCEPT !.current_state = s],
             router |-> AfterCalls(router, HandlerCalls(from, s)), asked |-> asked]

Usable(flags) == flags = "running" \/ (flags = "up" /\ ~ RequiresLink)

(* The state that interface flags and multicast route make. *)
FromFlags(c, flags) ==
    CASE Usable(flags) /\ c.multicast_route_found -> "UP_MULTICAST"
      [] Usable(flags) /\ ~ c.multicast_route_found -> "UP"
      [] OTHER -> "DOWN"

NewAddr(m) ==
    LET c == [watcher EXCEPT !.net_if_index_for_address = m.index]
    IN set_state(c, FromFlags(c, c.net_if_flags[m.index]))

NewLink(m) ==
    LET c == [watcher EXCEPT !.net_if_flags[m.index] = m.flags]
    IN IF c.net_if_index_for_address = m.index THEN set_state(c, FromFlags(c, m.flags))
       ELSE [Unchanged EXCEPT !.watcher = c]

(* check_sd_multicast_route_match: the route is the multicast address's,   *)
(* on the interface of the configured address.                             *)
RouteMatches(m) == m.index = watcher.net_if_index_for_address

NewRoute(m) ==
    LET c == [watcher EXCEPT !.multicast_route_found = TRUE]
    IN IF RouteMatches(m)
       THEN set_state(c, IF c.current_state = "UP" THEN "UP_MULTICAST" ELSE c.current_state)
       ELSE Unchanged

(* The flag is set here too, as in NewRoute. *)
DelRoute(m) ==
    LET c == [watcher EXCEPT !.multicast_route_found = TRUE]
    IN IF RouteMatches(m)
       THEN set_state(c, IF c.current_state = "UP_MULTICAST" THEN "UP" ELSE "DOWN")
       ELSE Unchanged

(* RTM_DELADDR and RTM_DELLINK: of any address of the interface. *)
Vanished(m) ==
    IF m.index = watcher.net_if_index_for_address THEN set_state(watcher, "RESET") ELSE Unchanged

(* One message of receive_cbk; an error resets the connector. *)
Effect(m) ==
    CASE m.type = "NEWADDR" -> NewAddr(m)
      [] m.type = "NEWLINK" -> NewLink(m)
      [] m.type = "NEWROUTE" -> NewRoute(m)
      [] m.type = "DELROUTE" -> DelRoute(m)
      [] m.type \in {"DELADDR", "DELLINK"} -> Vanished(m)
      [] OTHER -> set_state(watcher, "RESET")

(* Two messages may leave the connector wrong until its next reset: an     *)
(* error while it is resynchronising, since it then is in state RESET      *)
(* already, asks no more and keeps the flags it has; and a route removed   *)
(* while it had not heard of the route yet, which counts as the interface  *)
(* going down.                                                             *)
Strands(m) ==
    \/ m.type = "ERROR" /\ watcher.current_state = "RESET"
    \/ m.type = "DELROUTE" /\ RouteMatches(m) /\ watcher.current_state = "UP"

receive_cbk ==
    /\ watcher.open /\ queue # <<>>
    /\ LET m == Head(queue)
           after == Effect(m)
       IN /\ watcher' = after.watcher
          /\ router' = after.router
          /\ requests' = requests \o after.asked
          /\ stranded' = ((stranded /\ after.asked # <<[type |-> "GETADDR"]>>) \/ Strands(m))
    /\ queue' = Tail(queue)
    /\ UNCHANGED <<kernel, changes, losses, blind>>

(* The socket opens or not; in the latter case nothing is ever reported.   *)
start ==
    /\ watcher.current_state = "INIT"
    /\ ~ watcher.open
    /\ LET after == set_state([watcher EXCEPT !.open = TRUE], "RESET")
       IN watcher' = after.watcher /\ router' = after.router /\ requests' = after.asked
    /\ UNCHANGED <<kernel, queue, changes, losses, blind, stranded>>

stop ==
    /\ watcher.open
    /\ watcher' = [watcher EXCEPT !.open = FALSE]
    /\ queue' = <<>> /\ requests' = <<>>
    /\ UNCHANGED <<kernel, router, changes, losses, blind, stranded>>

(* send_cbk: a request that could not be sent makes the routing manager go *)
(* ahead with interface and route.                                         *)
send_cbk_error ==
    /\ requests # <<>> /\ losses < MaxLosses
    /\ requests' = Tail(requests)
    /\ router' = AfterCalls(router, <<<<TRUE, TRUE>>, <<FALSE, TRUE>>>>)
    /\ losses' = losses + 1
    /\ blind' = TRUE
    /\ UNCHANGED <<kernel, queue, watcher, changes, stranded>>

-----------------------------------------------------------------------------
(* The kernel. *)

Msg(type, i) == [type |-> type, index |-> i]
LinkMsg(i, flags) == [type |-> "NEWLINK", index |-> i, flags |-> flags]

(* A change, with the messages that report it. *)
Change(k, messages) ==
    /\ changes < MaxChanges
    /\ changes' = changes + 1
    /\ kernel' = k
    /\ queue' = IF watcher.open THEN queue \o messages ELSE queue
    /\ Len(queue') <= MaxQueue
    /\ UNCHANGED <<requests, watcher, router, losses, blind, stranded>>

AddressChanges ==
    \/ \E i \in Ifs : /\ kernel.addr = 0 /\ kernel.link[i] # "absent"
                      /\ Change([kernel EXCEPT !.addr = i], <<Msg("NEWADDR", i)>>)
    \/ kernel.addr # 0 /\ Change([kernel EXCEPT !.addr = 0], <<Msg("DELADDR", kernel.addr)>>)
    \/ \E i \in Ifs : kernel.link[i] # "absent" /\ Change(kernel, <<Msg("DELADDR", i)>>)

LinkChanges ==
    \E i \in Ifs :
        \/ \E flags \in Links \ {"absent", kernel.link[i]} :
              Change([kernel EXCEPT !.link[i] = flags,
                                    !.route = IF flags = "down" THEN @ \ {i} ELSE @],
                     <<LinkMsg(i, flags)>>)
        \/ /\ kernel.link[i] # "absent"
           /\ Change([kernel EXCEPT !.link[i] = "absent", !.route = @ \ {i},
                                    !.addr = IF @ = i THEN 0 ELSE @],
                     (IF kernel.addr = i THEN <<Msg("DELADDR", i)>> ELSE <<>>) \o <<Msg("DELLINK", i)>>)

RouteChanges ==
    \E i \in Ifs :
        \/ /\ i \notin kernel.route /\ kernel.link[i] \in {"up", "running"}
           /\ Change([kernel EXCEPT !.route = @ \cup {i}], <<Msg("NEWROUTE", i)>>)
        \/ i \in kernel.route /\ Change([kernel EXCEPT !.route = @ \ {i}], <<Msg("DELROUTE", i)>>)

(* The messages do not fit the socket's buffer: the reader gets an error.  *)
Overflow ==
    /\ queue # <<>> /\ losses < MaxLosses
    /\ queue' = <<[type |-> "ERROR"]>>
    /\ losses' = losses + 1
    /\ UNCHANGED <<kernel, requests, watcher, router, changes, blind, stranded>>

Answer(req) ==
    CASE req.type = "GETADDR" -> IF kernel.addr = 0 THEN <<>> ELSE <<Msg("NEWADDR", kernel.addr)>>
      [] req.type = "GETLINK" -> IF kernel.link[req.index] = "absent" THEN <<[type |-> "ERROR"]>>
                                 ELSE <<LinkMsg(req.index, kernel.link[req.index])>>
      [] OTHER -> SelectSeq([i \in Ifs |-> Msg("NEWROUTE", i)], LAMBDA m : m.index \in kernel.route)

Answers ==
    /\ requests # <<>>
    /\ queue' = queue \o Answer(Head(requests))
    /\ Len(queue') <= MaxQueue
    /\ requests' = Tail(requests)
    /\ UNCHANGED <<kernel, watcher, router, changes, losses, blind, stranded>>

-----------------------------------------------------------------------------
Init ==
    /\ \E i \in Ifs, l \in Links, a \in BOOLEAN, rt \in BOOLEAN :
          /\ a => l # "absent"
          /\ rt => l \in {"up", "running"}
          /\ kernel = [addr |-> IF a THEN i ELSE 0,
                       link |-> [j \in Ifs |-> IF j = i THEN l ELSE "down"],
                       route |-> IF rt THEN {i} ELSE {}]
    /\ queue = <<>> /\ requests = <<>>
    /\ watcher = [open |-> FALSE, current_state |-> "INIT", net_if_flags |-> [i \in Ifs |-> "none"],
               interface_sync_done |-> FALSE, route_sync_done |-> FALSE,
               multicast_route_found |-> FALSE, net_if_index_for_address |-> 0]
    /\ router = [if_state_running |-> FALSE, sd_route_set |-> FALSE, routing_running |-> FALSE,
                 routing_state |-> InitialState, discovery |-> FALSE, offered |-> FALSE, pending |-> FALSE]
    /\ changes = 0 /\ losses = 0 /\ blind = FALSE /\ stranded = FALSE

Next ==
    \/ start \/ stop \/ receive_cbk \/ send_cbk_error
    \/ AddressChanges \/ LinkChanges \/ RouteChanges \/ Overflow \/ Answers
    \/ Offer \/ StopOffer \/ SetRoutingState("RESUMED") \/ SetRoutingState("SUSPENDED")

-----------------------------------------------------------------------------
(* Everything the kernel said has been read and answered. *)
Quiet == watcher.open /\ queue = <<>> /\ requests = <<>>

InterfaceIsUp == kernel.addr # 0 /\ Usable(kernel.link[kernel.addr])

(* The routing manager believes what the connector found out, call by      *)
(* call: interface and multicast route are taken for available exactly in  *)
(* the states UP_MULTICAST and UP, and never when the kernel, once all its *)
(* messages are read, has no such interface (but see Strands).             *)
RouterFollows ==
    ~ blind =>
        /\ router.if_state_running <=> IsUp(watcher.current_state)
        /\ WaitRoute => (router.sd_route_set <=> watcher.current_state = "UP_MULTICAST")
        /\ Quiet /\ ~ stranded /\ router.if_state_running => InterfaceIsUp

(* An interface that has the address and is up is found: whatever order    *)
(* address, flags and route were reported in, and when messages were lost; *)
(* except after one of the messages of Strands, or when a request could    *)
(* not be sent.                                                            *)
ComesUp == Quiet /\ InterfaceIsUp /\ ~ stranded /\ ~ blind => IsUp(watcher.current_state)

(* When interface and route are there and the routing manager is resumed,  *)
(* discovery runs and no offer waits any more: whichever came last, the    *)
(* network, the resume or the offer.                                       *)
NothingWaits ==
    is_external_routing_ready(router) =>
        /\ router.routing_state = "RESUMED" => router.discovery /\ ~ router.pending
        /\ router.routing_state # "DELAYED"

(* CHANGES: service discovery "is only started if a matching multicast     *)
(* route for the configured service discovery multicast group is present   *)
(* in the system".                                                         *)
RouteIsPresent ==
    Quiet /\ ~ blind /\ watcher.current_state = "UP_MULTICAST" => kernel.addr \in kernel.route

(* The connector resynchronises after an error, as the test                *)
(* recover_after_first_request_generate_error has it.                      *)
RecoversFromErrors == Quiet /\ InterfaceIsUp /\ ~ blind => IsUp(watcher.current_state)
=============================================================================
