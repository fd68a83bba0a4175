------------------------ MODULE EventgroupConsumer ------------------------
(***************************************************************************)
(* The subscription of local applications to one eventgroup, with one      *)
(* field, of a service that another host offers.                           *)
(*                                                                         *)
(*   routing_manager_client   pending_subscriptions_, consumed_events_     *)
(*   routing_manager_impl     the subscribers of the event, its cached     *)
(*                            value, remote_subscription_state_            *)
(*   service_discovery_impl   subscribed_: one subscription object that    *)
(*                            is sent, and sent again with every multicast *)
(*                            offer or connected endpoint                  *)
(*                                                                         *)
(* Applications and routing host exchange commands over ordered            *)
(* connections; discovery messages may be lost; the provider is the host   *)
(* of RemoteSubscriptions, seen from outside. The commands of the          *)
(* applications are handled one at a time, beside the discovery thread.    *)
(***************************************************************************)
EXTENDS Integers, Sequences, FiniteSets

CONSTANTS
    Clients,     \* the local applications
    Offered,     \* the transports the service is offered on: of {"tcp", "udp"}
    Needed,      \* those the eventgroup uses: its reliability type
    Selective,   \* whether the eventgroup is selective
    MaxCalls,    \* bound: subscribe and unsubscribe calls
    MaxOffers,   \* bound: multicast offers
    MaxLapses,   \* bound: stopped offers and lost connections
    MaxRefusals, \* bound: refused Subscribes
    MaxLosses,   \* bound: lost discovery messages
    MaxValue     \* bound: values of the field

VARIABLES
    rmc,     \* per application: its routing_manager_client
    host,    \* routing_manager_impl
    sd,      \* service_discovery_impl: subscribed_[service, instance][eventgroup]
    prov,    \* the remote provider
    chan,    \* messages under way
    used     \* how much of each bound is used

vars == <<rmc, host, sd, prov, chan, used>>

Routing == 0                                 \* VSOMEIP_ROUTING_CLIENT
Key(c) == IF Selective THEN c ELSE Routing   \* the client SD subscribes for
Keys == {Key(c) : c \in Clients}
NoSub == [clients |-> <<>>]
Transports == {"tcp", "udp"}

Init ==
    /\ rmc = [c \in Clients |-> [avail |-> FALSE, pending |-> FALSE, state |-> "none",
                                 value |-> 0]]
    /\ host = [known |-> FALSE, reported |-> FALSE, subs |-> {}, value |-> 0, acked |-> {},
               ep |-> [t \in Offered |-> "none"], handler |-> <<>>,
               delivering |-> [busy |-> FALSE, value |-> 0, to |-> {}]]
    /\ sd = [sub |-> NoSub, stopping |-> 0, unicast |-> FALSE]
    /\ prov = [offering |-> TRUE, subs |-> {}, value |-> 1]
    /\ chan = [up |-> [c \in Clients |-> <<>>], down |-> [c \in Clients |-> <<>>],
               out |-> <<>>, in |-> <<>>, events |-> <<>>]
    /\ used = [calls |-> 0, offers |-> 0, lapses |-> 0, losses |-> 0, refusals |-> 0, whole |-> FALSE,
               early |-> FALSE, confirmed |-> {}]

Subscribed == DOMAIN sd.sub.clients # {}

-----------------------------------------------------------------------------
(* routing_manager_client                                                   *)

Tell(h, cs, m) == [c \in Clients |-> IF c \in cs THEN Append(h[c], m) ELSE h[c]]

send_subscribe(c) == chan' = [chan EXCEPT !.up[c] = Append(@, "subscribe")]

\* An acknowledged or running subscription is not sent again.
subscribe(c) ==
    /\ used.calls < MaxCalls /\ ~rmc[c].pending
    /\ used' = [used EXCEPT !.calls = @ + 1]
    /\ rmc' = [rmc EXCEPT ![c].pending = TRUE, ![c].state = "subscribing"]
    /\ IF rmc[c].avail THEN send_subscribe(c) ELSE UNCHANGED chan
    /\ UNCHANGED <<host, sd, prov>>

unsubscribe(c) ==
    /\ used.calls < MaxCalls /\ rmc[c].pending
    /\ used' = [used EXCEPT !.calls = @ + 1]
    /\ rmc' = [rmc EXCEPT ![c].pending = FALSE, ![c].state = "none"]
    /\ chan' = [chan EXCEPT !.up[c] = Append(@, "unsubscribe")]
    /\ UNCHANGED <<host, sd, prov>>

on_available(c) ==
    /\ rmc' = [rmc EXCEPT ![c].avail = TRUE]
    /\ chan' = [chan EXCEPT !.down[c] = Tail(@),
                            !.up[c] = IF rmc[c].pending /\ ~rmc[c].avail
                                      THEN Append(@, "subscribe") ELSE @]

on_stop_offer_service(c) ==
    /\ rmc' = [rmc EXCEPT ![c].avail = FALSE, ![c].value = 0,
                          ![c].state = IF @ # "none" /\ rmc[c].avail THEN "refused" ELSE @]
    /\ chan' = [chan EXCEPT !.down[c] = Tail(@)]

on_subscribe_outcome(c) ==
    /\ rmc' = [rmc EXCEPT ![c].state = IF @ = "none" THEN @ ELSE "acked"]
    /\ chan' = [chan EXCEPT !.down[c] = Tail(@)]

\* The cache of a field keeps its value without a subscription; the application
\* is not told then.
cache_event_payload(c, v) ==
    /\ rmc' = [rmc EXCEPT ![c].value = v]
    /\ chan' = [chan EXCEPT !.down[c] = Tail(@)]

ClientReceives(c) ==
    /\ chan.down[c] # <<>>
    /\ LET m == Head(chan.down[c])
       IN \/ m = <<"add">> /\ on_available(c)
          \/ m = <<"del">> /\ on_stop_offer_service(c)
          \/ m = <<"ack">> /\ on_subscribe_outcome(c)
          \/ m[1] = "event" /\ cache_event_payload(c, m[2])
    /\ UNCHANGED <<host, sd, prov, used>>

-----------------------------------------------------------------------------
(* service_discovery_impl: the subscription object and its entries          *)

\* find_or_create_remote_client needs the endpoint information of the service.
Created(h) == IF h.known THEN [t \in Offered |-> IF h.ep[t] = "none" THEN "fresh" ELSE h.ep[t]]
              ELSE h.ep
get_subscription_endpoints(h) == [t \in Offered |-> IF h.known THEN "this" ELSE "none"]

is_established(h, sub, t) == sub.ep[t] = "this" /\ h.ep[t] = "up"

\* The transports of the eventgroup need an endpoint with a local port. A client
\* that waits for its acknowledgement since the last offer is stopped first.
create_eventgroup_entry(h, sub, ttl) ==
    IF \A t \in Needed : \/ sub.ep[t] = "old"
                         \/ sub.ep[t] = "this" /\ h.ep[t] \notin {"none", "fresh"}
    THEN <<[ttl |-> ttl, clients |-> DOMAIN sub.clients,
            stop |-> \E k \in DOMAIN sub.clients :
                         sub.clients[k] = "RESUBSCRIBING_NOT_ACKNOWLEDGED"]>>
    ELSE <<>>

AllClients(sub, state) == [sub EXCEPT !.clients = [k \in DOMAIN @ |-> state]]

\* Only over established endpoints; the others are waited for.
send_subscription(h, sub) ==
    IF \A t \in Needed : is_established(h, sub, t)
    THEN create_eventgroup_entry(h, sub, TRUE) ELSE <<>>

add_client(sub, k) ==
    [sub EXCEPT !.clients = [j \in DOMAIN @ \cup {k} |->
                               IF j = k THEN "NOT_ACKNOWLEDGED" ELSE @[j]]]

create_subscription(h, k) ==
    LET ep == get_subscription_endpoints(h)
    IN [clients |-> [j \in {k} |-> "NOT_ACKNOWLEDGED"], ep |-> ep,
        up |-> [t \in Transports |-> t \in Offered /\ ep[t] = "this" /\ h.ep[t] = "up"]]

\* on_endpoint_connected: the subscription and the entry sent for it.
on_endpoint_connected(h, sub, t) ==
    LET marked == [sub EXCEPT !.up[t] = @ \/ is_established(h, sub, t)]
        present == {u \in Offered : sub.ep[u] # "none"}
        fresh == AllClients([marked EXCEPT !.ep = get_subscription_endpoints(h)],
                            "NOT_ACKNOWLEDGED")
    IN IF DOMAIN sub.clients = {} \/ \A u \in Transports : sub.up[u] THEN <<sub, <<>>>>
       ELSE IF present # {} /\ \A u \in present : marked.up[u]
         THEN <<fresh, create_eventgroup_entry(h, fresh, TRUE)>>
       ELSE <<marked, <<>>>>

-----------------------------------------------------------------------------
(* routing_manager_impl::subscribe and unsubscribe                          *)

Command(c, m) == host.handler = <<>> /\ chan.up[c] # <<>> /\ Head(chan.up[c]) = m

insert_subscription(c) == c \notin host.subs

\* The application is told that the subscription is acknowledged already.
handle_subscription_state(c) == Key(c) \in host.acked

\* Check, insertion and handle_subscription_state under event_registration_mutex_.
HostSubscribe(c) ==
    /\ Command(c, "subscribe") /\ ~host.delivering.busy
    /\ LET inserted == host.known /\ insert_subscription(c)
           told == inserted /\ handle_subscription_state(c)
       IN /\ host' = IF inserted THEN [host EXCEPT !.subs = @ \cup {c},
                                                   !.handler = <<"notify", c>>]
                     ELSE host
          /\ chan' = [chan EXCEPT !.up[c] = Tail(@),
                                  !.down[c] = IF told THEN Append(@, <<"ack">>) ELSE @]
          /\ used' = [used EXCEPT !.early = @ \/ (told /\ Key(c) \notin used.confirmed)]
    /\ UNCHANGED <<rmc, sd, prov>>

notify_one_current_value ==
    /\ host.handler # <<>> /\ host.handler[1] = "notify"
    /\ LET c == host.handler[2]
       IN /\ host' = [host EXCEPT !.handler = <<"subscribe", c>>]
          /\ chan' = IF host.value = 0 THEN chan
                     ELSE [chan EXCEPT !.down[c] = Append(@, <<"event", host.value>>)]
    /\ UNCHANGED <<rmc, sd, prov, used>>

\* service_discovery_impl::subscribe
SdSubscribe ==
    /\ host.handler # <<>> /\ host.handler[1] = "subscribe"
    /\ LET k == Key(host.handler[2])
           h == [host EXCEPT !.ep = IF Subscribed THEN @ ELSE Created(host), !.handler = <<>>]
           sub == IF Subscribed THEN add_client(sd.sub, k) ELSE create_subscription(h, k)
           new == ~Subscribed \/ (Selective /\ k \notin DOMAIN sd.sub.clients)
       IN /\ host' = h
          /\ sd' = IF new THEN [sd EXCEPT !.sub = sub] ELSE sd
          /\ chan' = IF new THEN [chan EXCEPT !.out = @ \o send_subscription(h, sub)] ELSE chan
    /\ UNCHANGED <<rmc, prov, used>>

HostUnsubscribe(c) ==
    /\ Command(c, "unsubscribe")
    /\ LET last == host.subs \ {c} = {}
       IN host' = [host EXCEPT !.subs = @ \ {c},
                               !.handler = IF last THEN <<"unset", c>>
                                           ELSE IF Selective THEN <<"unsubscribe", c>>
                                           ELSE <<>>]
    /\ chan' = [chan EXCEPT !.up[c] = Tail(@)]
    /\ UNCHANGED <<rmc, sd, prov, used>>

\* The state that is erased is the one of the application, not of the routing client.
unset_all_eventpayloads ==
    /\ host.handler # <<>> /\ host.handler[1] = "unset"
    /\ host' = [host EXCEPT !.value = 0, !.acked = @ \ {host.handler[2]},
                            !.handler = <<"unsubscribe", host.handler[2]>>]
    /\ UNCHANGED <<rmc, sd, prov, chan, used>>

\* service_discovery_impl::unsubscribe
SdUnsubscribe ==
    /\ host.handler # <<>> /\ host.handler[1] = "unsubscribe"
    /\ host' = [host EXCEPT !.handler = <<>>]
    /\ IF ~Subscribed THEN UNCHANGED <<sd, chan, used>>
       ELSE LET k == Key(host.handler[2])
                left == DOMAIN sd.sub.clients \ {k}
                gone == [sd.sub EXCEPT !.clients = [j \in {k} |-> "NOT_ACKNOWLEDGED"]]
            IN /\ sd' = [sd EXCEPT !.sub = IF left = {} THEN NoSub ELSE
                           [@ EXCEPT !.clients = [j \in left |-> sd.sub.clients[j]]]]
               /\ chan' = [chan EXCEPT !.out = @ \o create_eventgroup_entry(host, gone, FALSE)]
               /\ used' = [used EXCEPT !.confirmed = @ \ {k}]
    /\ UNCHANGED <<rmc, prov>>

-----------------------------------------------------------------------------
(* Offers, endpoints and the loss of the service                            *)

has_unreceived_field_value(h) == h.value = 0

\* A multicast offer sends the subscription again, before the routing info is
\* updated; its state says whether a StopSubscribe comes first.
Resubscribed(h, sub, wasUnicast) ==
    [sub EXCEPT !.ep = get_subscription_endpoints(h),
                !.clients = [k \in DOMAIN @ |->
                    IF \/ @[k] = "ACKNOWLEDGED" /\ ~has_unreceived_field_value(h)
                       \/ @[k] # "ACKNOWLEDGED" /\ wasUnicast
                    THEN "RESUBSCRIBING" ELSE "RESUBSCRIBING_NOT_ACKNOWLEDGED"]]

\* add_routing_info: the endpoint of a known service that is reported again.
Reoffered(h) ==
    IF ~h.known THEN {}
    ELSE IF "tcp" \in Offered THEN {t \in {"tcp"} : h.ep[t] = "up"}
    ELSE {t \in Offered : h.ep[t] = "up" /\ ~h.reported}

process_offerservice_serviceentry(multicast) ==
    /\ used.offers < MaxOffers /\ prov.offering /\ sd.stopping = 0
    /\ LET h1 == IF multicast /\ Subscribed THEN [host EXCEPT !.ep = Created(host)] ELSE host
           was == host.known /\ sd.unicast
           again == Resubscribed(h1, sd.sub, was)
           sub == IF multicast /\ Subscribed THEN AllClients(again, "NOT_ACKNOWLEDGED")
                  ELSE sd.sub
           resub == IF multicast /\ Subscribed
                    THEN create_eventgroup_entry(h1, again, TRUE) ELSE <<>>
           told == Reoffered(h1)
           h2 == [h1 EXCEPT !.known = TRUE, !.ep = Created([h1 EXCEPT !.known = TRUE]),
                            !.reported = @ \/ told # {}]
           on == IF told = {} THEN <<sub, <<>>>>
                 ELSE on_endpoint_connected(h2, sub, CHOOSE t \in told : TRUE)
       IN /\ host' = h2
          /\ sd' = [sd EXCEPT !.sub = on[1],
                              !.unicast = IF host.known THEN @ /\ ~multicast ELSE ~multicast]
          /\ chan' = [chan EXCEPT !.out = @ \o on[2] \o resub,
                                  !.down = IF told = {} THEN @ ELSE Tell(@, Clients, <<"add">>)]
          /\ used' = [used EXCEPT !.offers = @ + 1,
                        !.whole = @ \/ /\ multicast /\ \A t \in Offered : host.ep[t] = "up"
                                       /\ host.handler = <<>>
                                       /\ used.losses = 0 \/ (Subscribed /\ ~sd.unicast)
                                       /\ \A c \in Clients : chan.up[c] = <<>>]
    /\ UNCHANGED <<rmc, prov>>

\* endpoint_manager_impl::on_connect: a service on two transports is reported
\* with the second of them. An endpoint that connects after del_routing_info has
\* reported the service gone would report it again; that race is left out.
on_connect(t) ==
    /\ host.ep[t] \in {"fresh", "lost"} /\ sd.stopping \notin {2, 3}
    /\ LET report == \A u \in Offered \ {t} : host.ep[u] \in {"conn", "up"}
       IN /\ host' = [host EXCEPT !.ep[t] = IF report THEN "conn" ELSE "up",
                                  !.reported = @ \/ report]
          /\ chan' = IF report THEN [chan EXCEPT !.down = Tell(@, Clients, <<"add">>)] ELSE chan
    /\ UNCHANGED <<rmc, sd, prov, used>>

\* The timer of service_endpoint_connected.
call_sd_endpoint_connected(t) ==
    /\ host.ep[t] = "conn"
    /\ LET h == [host EXCEPT !.ep[t] = "up"]
           on == on_endpoint_connected(h, sd.sub, t)
       IN /\ host' = h
          /\ sd' = [sd EXCEPT !.sub = on[1]]
          /\ chan' = [chan EXCEPT !.out = @ \o on[2]]
    /\ UNCHANGED <<rmc, prov, used>>

\* The provider drops the subscriptions of a closed connection.
Closed(p) == IF "tcp" \in Needed THEN [p EXCEPT !.subs = {}] ELSE p
CutEvents(ch) == IF "tcp" \in Needed THEN [ch EXCEPT !.events = <<>>] ELSE ch

service_endpoint_disconnected ==
    /\ used.lapses < MaxLapses /\ "tcp" \in Offered /\ host.ep["tcp"] = "up"
    /\ host' = [host EXCEPT !.ep["tcp"] = "lost", !.reported = FALSE, !.acked = {}]
    /\ chan' = CutEvents([chan EXCEPT !.down = Tell(@, Clients, <<"del">>)])
    /\ prov' = Closed(prov)
    /\ used' = [used EXCEPT !.lapses = @ + 1, !.whole = FALSE]
    /\ UNCHANGED <<rmc, sd>>

\* A StopOffer, or the TTL of the offer, ends the service in four steps.
unsubscribe_all ==
    /\ used.lapses < MaxLapses /\ prov.offering /\ host.known /\ sd.stopping = 0
    /\ prov' = [prov EXCEPT !.offering = FALSE, !.subs = {}]
    /\ sd' = [sub |-> NoSub, stopping |-> 1, unicast |-> FALSE]
    /\ chan' = [chan EXCEPT !.out = IF Subscribed
                                    THEN @ \o create_eventgroup_entry(host, sd.sub, FALSE)
                                    ELSE @]
    /\ used' = [used EXCEPT !.lapses = @ + 1, !.whole = FALSE, !.confirmed = {}]
    /\ UNCHANGED <<rmc, host>>

\* del_routing_info
ReportGone ==
    /\ sd.stopping = 1
    /\ sd' = [sd EXCEPT !.stopping = 2]
    /\ host' = [host EXCEPT !.reported = FALSE]
    /\ chan' = [chan EXCEPT !.down = Tell(@, Clients, <<"del">>)]
    /\ UNCHANGED <<rmc, prov, used>>

ClearSubscribers ==
    /\ sd.stopping = 2 /\ ~host.delivering.busy
    /\ sd' = [sd EXCEPT !.stopping = 3]
    /\ host' = [host EXCEPT !.subs = {}]
    /\ UNCHANGED <<rmc, prov, chan, used>>

ClearService ==
    /\ sd.stopping = 3
    /\ sd' = [sd EXCEPT !.stopping = 0,
                        !.sub = IF ~Subscribed THEN @
                                ELSE [@ EXCEPT !.ep = [t \in Offered |->
                                                         IF @[t] = "this" THEN "old" ELSE @[t]]]]
    /\ host' = [host EXCEPT !.value = 0, !.acked = {}, !.known = FALSE,
                            !.ep = [t \in Offered |-> "none"]]
    /\ chan' = CutEvents(chan)
    /\ UNCHANGED <<rmc, prov, used>>

-----------------------------------------------------------------------------
(* Answers and events                                                       *)

\* routing_manager_impl::on_subscribe_ack: each state is told once.
Acked(ks) == {c \in host.subs : Key(c) \in ks \ host.acked}

handle_eventgroup_subscription_ack(ks) ==
    LET new == {k \in ks \cap DOMAIN sd.sub.clients : sd.sub.clients[k] = "NOT_ACKNOWLEDGED"}
    IN /\ sd' = IF ~Subscribed THEN sd
                ELSE [sd EXCEPT !.sub.clients = [k \in DOMAIN @ |->
                                   IF k \in new THEN "ACKNOWLEDGED" ELSE @[k]]]
       /\ host' = [host EXCEPT !.acked = @ \cup new]
       /\ chan' = [chan EXCEPT !.in = Tail(@), !.down = Tell(@, Acked(new), <<"ack">>)]
       /\ used' = [used EXCEPT !.confirmed = @ \cup new]
       /\ UNCHANGED prov

\* Only the connection is restarted; the applications are not told.
handle_eventgroup_subscription_nack ==
    LET cut == Subscribed /\ ~Selective /\ "tcp" \in Offered /\ sd.sub.ep["tcp"] = "this"
    IN /\ host' = IF cut THEN [host EXCEPT !.ep["tcp"] = "lost"] ELSE host
       /\ prov' = IF cut THEN Closed(prov) ELSE prov
       /\ chan' = [(IF cut THEN CutEvents(chan) ELSE chan) EXCEPT !.in = Tail(@)]
       /\ used' = [used EXCEPT !.whole = FALSE]
       /\ UNCHANGED sd

OnAnswer ==
    /\ chan.in # <<>> /\ ~host.delivering.busy
    /\ LET m == Head(chan.in)
       IN IF m.ok THEN handle_eventgroup_subscription_ack(m.clients)
          ELSE handle_eventgroup_subscription_nack
    /\ UNCHANGED rmc

\* deliver_notification holds event_registration_mutex_ while it updates the
\* event, under the event's own mutex, and then sends to its subscribers.
deliver_notification ==
    /\ chan.events # <<>> /\ ~host.delivering.busy
    /\ LET m == Head(chan.events)
       IN host' = IF host.subs = {} THEN host
                  ELSE [host EXCEPT !.value = m.value,
                          !.delivering = [busy |-> TRUE, value |-> m.value,
                                          to |-> {c \in host.subs : Key(c) \in m.clients}]]
    /\ chan' = [chan EXCEPT !.events = Tail(@)]
    /\ UNCHANGED <<rmc, sd, prov, used>>

Forward ==
    /\ host.delivering.busy
    /\ chan' = [chan EXCEPT !.down = Tell(@, host.delivering.to,
                                          <<"event", host.delivering.value>>)]
    /\ host' = [host EXCEPT !.delivering = [busy |-> FALSE, value |-> 0, to |-> {}]]
    /\ UNCHANGED <<rmc, sd, prov, used>>

-----------------------------------------------------------------------------
(* The network and the provider                                             *)

\* The provider refuses when it does not offer or the connection is missing; a
\* new subscription is sent the value of the field.
ProviderReceives ==
    /\ chan.out # <<>>
    /\ LET e == Head(chan.out)
           old == IF e.stop THEN prov.subs \ e.clients ELSE prov.subs
           ok == prov.offering /\ ("tcp" \in Needed => host.ep["tcp"] \in {"conn", "up"})
           new == e.clients \ old
       IN IF ~e.ttl
          THEN /\ prov' = [prov EXCEPT !.subs = @ \ e.clients]
               /\ chan' = [chan EXCEPT !.out = Tail(@)]
               /\ UNCHANGED used
          ELSE /\ ok \/ used.refusals < MaxRefusals
               /\ used' = IF ok THEN used ELSE [used EXCEPT !.refusals = @ + 1]
               /\ prov' = [prov EXCEPT !.subs = IF ok THEN old \cup e.clients ELSE old]
               /\ chan' = [chan EXCEPT !.out = Tail(@),
                             !.in = Append(@, [ok |-> ok, clients |-> e.clients]),
                             !.events = IF ok /\ new # {}
                               THEN Append(@, [value |-> prov.value, clients |-> new]) ELSE @]
    /\ UNCHANGED <<rmc, host, sd>>

ProviderNotifies ==
    /\ prov.offering /\ prov.value < MaxValue
    /\ prov' = [prov EXCEPT !.value = @ + 1]
    /\ chan' = [chan EXCEPT !.events = IF prov.subs = {} THEN @ ELSE
                   Append(@, [value |-> prov.value + 1, clients |-> prov.subs])]
    /\ UNCHANGED <<rmc, host, sd, used>>

ProviderReturns == /\ ~prov.offering /\ sd.stopping = 0
                   /\ prov' = [prov EXCEPT !.offering = TRUE]
                   /\ UNCHANGED <<rmc, host, sd, chan, used>>

Lose ==
    /\ used.losses < MaxLosses
    /\ \/ chan.out # <<>> /\ chan' = [chan EXCEPT !.out = Tail(@)]
       \/ chan.in # <<>> /\ chan' = [chan EXCEPT !.in = Tail(@)]
    /\ used' = [used EXCEPT !.losses = @ + 1, !.whole = FALSE]
    /\ UNCHANGED <<rmc, host, sd, prov>>

Next ==
    \/ \E c \in Clients : \/ subscribe(c) \/ unsubscribe(c) \/ ClientReceives(c)
                          \/ HostSubscribe(c) \/ HostUnsubscribe(c)
    \/ notify_one_current_value \/ SdSubscribe \/ unset_all_eventpayloads \/ SdUnsubscribe
    \/ \E m \in BOOLEAN : process_offerservice_serviceentry(m)
    \/ \E t \in Offered : on_connect(t) \/ call_sd_endpoint_connected(t)
    \/ service_endpoint_disconnected
    \/ unsubscribe_all \/ ReportGone \/ ClearSubscribers \/ ClearService
    \/ OnAnswer \/ deliver_notification \/ Forward
    \/ ProviderReceives \/ ProviderNotifies \/ ProviderReturns \/ Lose

Spec == Init /\ [][Next]_vars

-----------------------------------------------------------------------------

Quiet ==
    /\ chan.out = <<>> /\ chan.in = <<>> /\ chan.events = <<>>
    /\ \A c \in Clients : chan.up[c] = <<>> /\ chan.down[c] = <<>>
    /\ host.handler = <<>> /\ ~host.delivering.busy /\ sd.stopping = 0
    /\ \A t \in Offered : host.ep[t] = "up"

\* Once a (second) multicast offer met the subscription and established endpoints, with no
\* command under way, and nothing was lost since, every application that wants the eventgroup is subscribed on both hosts, has
\* its acknowledgement, and knows the value of the field.
Served ==
    Quiet /\ used.whole =>
        \A c \in Clients : rmc[c].pending =>
            /\ rmc[c].avail /\ rmc[c].state = "acked" /\ c \in host.subs
            /\ Key(c) \in prov.subs /\ rmc[c].value = prov.value

\* A host whose applications want nothing any more has no subscription left, and
\* neither has the provider when no message and no service was lost.
NothingLeft ==
    Quiet /\ (\A c \in Clients : ~rmc[c].pending) =>
        /\ host.subs = {} /\ ~Subscribed
        /\ used.losses = 0 /\ used.lapses = 0 => prov.subs = {}

\* An application is told that the subscription is "already acknowledged" only
\* when the provider has acknowledged the subscription that discovery holds.
AckIsConfirmed == ~used.early

=============================================================================
