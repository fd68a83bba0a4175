---------------------------- MODULE LocalEvents ----------------------------
(* Events between applications of one machine: the application that provides  *)
(* a service (provider_event and the provider half of routing_manager_client) *)
(* and the applications that subscribe to it over their own connections (the  *)
(* consumer half).  The router only reports where the service is; SUBSCRIBE,  *)
(* its answer and the notifications go over the direct connection.            *)
(*                                                                            *)
(* Each step is what one side does under its provider_mutex_ or               *)
(* consumer_mutex_.  A subscription is decided by the provider's application: *)
(* the answer is a queued continuation, run after the mutex was released, and *)
(* compares the token of the connection it came from.  A connection breaks at *)
(* any time and its two ends notice it independently.                         *)
EXTENDS Naturals, Sequences, FiniteSets, TLC

CONSTANTS
    Consumers,   \* the subscribing applications
    Events,      \* the events of the service
    Groups,      \* its eventgroups
    GroupsOf,    \* [Events -> SUBSET Groups]
    Fields,      \* events that are fields
    Cyclic,      \* events with a cycle time
    Selective,   \* events the application sends with notify_one
    Late,        \* events the application offers after the service
    Filtered,    \* consumers that subscribe with an on-change filter
    Wanted,      \* the subscriptions <<eventgroup, event>> applications make
    MaxCalls,    \* subscribe and unsubscribe calls of a consumer
    MaxValue,    \* notified values
    MaxOffers,   \* offers of the service
    MaxBreaks,   \* broken connections
    MaxRejects,  \* subscriptions the provider's application rejects
    MaxLosses,   \* losses of the provider's connection to the router
    MaxRepeats   \* values sent once more

VARIABLES
    pv,    \* the provider
    cs,    \* the consumers
    net,   \* the connections, in the order they were opened
    rt,    \* the router: what it knows, its queues
    used   \* the bounds, and what the properties remember

vars == <<pv, cs, net, rt, used>>

ANY == "any"                       \* ANY_EVENT
Ids == Events \cup {ANY}
NoSub == <<>>
Empty == [g \in {} |-> {}]
None == [kind |-> "none", subs |-> Empty, filters |-> {}, value |-> 0, timer |-> FALSE]
Placeholder == [None EXCEPT !.kind = "placeholder"]
Real(e) == [None EXCEPT !.kind = "real", !.subs = [g \in GroupsOf[e] |-> {}]]

Init ==
    /\ pv = [offered |-> FALSE, last |-> 0, gen |-> 0, jobs |-> <<>>,
             ev |-> [e \in Ids |-> IF e \in Events \ Late THEN Real(e) ELSE None],
             ep |-> [c \in Consumers |-> [active |-> 0, pending |-> 0, token |-> 0]]]
    /\ cs = [c \in Consumers |->
               [avail |-> FALSE, want |-> {}, init |-> {},
                st |-> [s \in Wanted |-> "none"], ep |-> 0,
                cache |-> [e \in Events |-> 0], got |-> [e \in Events |-> 0],
                sending |-> NoSub, collected |-> {}]]
    /\ net = <<>>
    /\ rt = [known |-> FALSE, cmds |-> <<>>, asks |-> {}, info |-> [c \in Consumers |-> <<>>]]
    /\ used = [calls |-> [c \in Consumers |-> 0], offers |-> 0, breaks |-> 0,
               rejects |-> 0, losses |-> 0, repeats |-> 0, rejected |-> {}, strayed |-> FALSE]

-----------------------------------------------------------------------------
(* provider_event: subscribers, filters, the value and its cycle.             *)

Subscribers(v) == UNION {v.subs[g] : g \in DOMAIN v.subs}

add_subscriber(v, g, c, filter) ==
    IF g \notin DOMAIN v.subs /\ v.kind # "placeholder" THEN v
    ELSE [v EXCEPT !.subs = (g :> ({c} \cup IF g \in DOMAIN v.subs THEN v.subs[g] ELSE {})) @@ v.subs,
                   !.filters = IF filter THEN @ \cup {c} ELSE @ \ {c}]

remove_subscriber(v, g, c) ==
    IF g \in DOMAIN v.subs THEN [v EXCEPT !.subs[g] = @ \ {c}] ELSE v

\* Every group of the event forgets the client.
unsubscribe_event(v, c) == [v EXCEPT !.subs = [g \in DOMAIN v.subs |-> v.subs[g] \ {c}]]

\* The groups of the definition stay: the event accepts subscribers again.
clear_subscriber(v, e) ==
    IF v.kind = "none" THEN v
    ELSE [v EXCEPT !.subs = IF v.kind = "real" THEN Real(e).subs ELSE Empty, !.filters = {}]

reset(v, e) == [clear_subscriber(v, e) EXCEPT !.timer = FALSE, !.value = 0]

\* Subscribers of groups the event does not define are dropped; the filters of
\* the others are kept.
adopt_subscribers(v, p) ==
    LET subs == [g \in DOMAIN v.subs |-> v.subs[g] \cup IF g \in DOMAIN p.subs THEN p.subs[g] ELSE {}]
    IN  [v EXCEPT !.subs = subs,
                  !.filters = @ \cup (p.filters \cap UNION {subs[g] : g \in DOMAIN subs})]

has_changed(v, n) == v.value # n

field_dedup(v, e, n, force) ==
    ~force /\ e \in Fields \ Cyclic /\ v.value # 0 /\ ~has_changed(v, n)

Committed(v, e, n) == [v EXCEPT !.value = n, !.timer = @ \/ (v.kind = "real" /\ e \in Cyclic)]

\* The value is committed always; whom it goes to is decided against the old one.
update(v, e, n, force) ==
    IF v.kind = "placeholder" \/ field_dedup(v, e, n, force) THEN {}
    ELSE {c \in Subscribers(v) : c \in v.filters => has_changed(v, n)}

\* The cyclic repetition passes no on-change filter.
cyclic(v) == IF v.value = 0 THEN {} ELSE Subscribers(v) \ v.filters

\* notify_one: the same gates, no subscriber set.
update_without_subscriber(v, e, n, force) ==
    v.kind = "real" /\ ~field_dedup(v, e, n, force)

\* The value a new subscriber gets.
get_current(v, e) == IF v.kind = "real" /\ e \in Fields THEN v.value ELSE 0
-----------------------------------------------------------------------------
(* The provider: its table of events, its connections.                       *)

find_provided_events_by_group(p, g) == {e \in Ids : g \in DOMAIN p.ev[e].subs}

create_placeholder_event_and_subscribe(p, s, c) ==
    IF p.offered THEN [p EXCEPT !.ev[s[2]] = add_subscriber(Placeholder, s[1], c, c \in Filtered)] ELSE p

\* A subscription to all events of a group goes to the events known now; only
\* when there is none is it kept in the placeholder of ANY_EVENT.
insert_subscription(p, s, c) ==
    LET g == s[1]
        targets == IF s[2] # ANY THEN {s[2]}
                   ELSE LET known == find_provided_events_by_group(p, g)
                        IN  IF known # {} THEN known ELSE {ANY}
    IN  IF \A e \in targets : p.ev[e].kind = "none"
        THEN create_placeholder_event_and_subscribe(p, s, c)
        ELSE [p EXCEPT !.ev = [e \in Ids |->
                 IF e \in targets THEN add_subscriber(p.ev[e], g, c, c \in Filtered) ELSE p.ev[e]]]

unsubscribe_base(p, s, c) ==
    LET targets == IF s[2] # ANY THEN {s[2]} ELSE find_provided_events_by_group(p, s[1])
    IN  [p EXCEPT !.ev = [e \in Ids |->
            IF e \in targets THEN remove_subscriber(p.ev[e], s[1], c) ELSE p.ev[e]]]

unsubscribe_client(p, c) == [p EXCEPT !.ev = [e \in Ids |-> unsubscribe_event(p.ev[e], c)]]

cleanup_subscriber(p) == [p EXCEPT !.ev = [e \in Ids |-> clear_subscriber(p.ev[e], e)]]

\* A late event takes the subscribers its placeholder and the placeholder of
\* ANY_EVENT hold for its groups.
register_provider_event(p, e) ==
    LET new == IF p.ev[e].kind = "placeholder" THEN adopt_subscribers(Real(e), p.ev[e]) ELSE Real(e)
        any == p.ev[ANY].subs
        From(g) == IF g \in DOMAIN any THEN any[g] ELSE {}
        moved == UNION {From(g) : g \in GroupsOf[e]}
    IN  [p EXCEPT !.ev[e] = [new EXCEPT !.subs = [g \in GroupsOf[e] |-> new.subs[g] \cup From(g)],
                                        !.filters = @ \ moved]]

stop_offer_service_base(p) == [p EXCEPT !.ev = [e \in Ids |-> reset(p.ev[e], e)]]

\* Stopping an end closes the connection for both; the messages to it are lost.
Close(n, ids) == [i \in DOMAIN n |-> IF i \in ids THEN [n[i] EXCEPT !.open = FALSE] ELSE n[i]]
Drop(n, ids) == [i \in DOMAIN n |-> IF i \in ids THEN [n[i] EXCEPT !.open = FALSE, !.up = <<>>] ELSE n[i]]

\* A second connection of a client waits until the clean-up of the first.
add_provider_endpoint(p, n, i, gen) ==
    LET c == n[i].c  ep == p.ep[c]
    IN  IF gen # p.gen THEN <<p, Drop(n, {i})>>
        ELSE IF ep.active # 0
             THEN <<[p EXCEPT !.ep[c].pending = i], Drop(n, {ep.pending})>>
             ELSE <<[p EXCEPT !.ep[c].active = i], n>>

\* Bug: the connection that waits is not promoted.
remove_provider_endpoint_NoPromotion(p, n, c) ==
    <<[p EXCEPT !.ep[c] = [active |-> 0, pending |-> 0, token |-> @.token + 1]], Drop(n, {p.ep[c].active})>>

remove_provider_endpoint(p, n, c) ==
    LET ep == p.ep[c]
        q == [p EXCEPT !.ep[c] = [active |-> 0, pending |-> 0, token |-> @.token + 1]]
        m == Drop(n, {ep.active})
    IN  IF ep.pending # 0 THEN add_provider_endpoint(q, m, ep.pending, q.gen) ELSE <<q, m>>

remove_local_provider(p, n, c) == remove_provider_endpoint(unsubscribe_client(p, c), n, c)

clear_provider_endpoints(p, n) ==
    <<[p EXCEPT !.ep = [c \in Consumers |->
          [active |-> 0, pending |-> 0,
           token |-> p.ep[c].token + IF p.ep[c].active # 0 THEN 1 ELSE 0]]],
      Drop(n, UNION {{p.ep[c].active, p.ep[c].pending} : c \in Consumers})>>

provider_token(p, c) == p.ep[c].token

\* What is sent on a connection whose other end is gone is lost.
SendDown(n, i, msgs) == IF i # 0 /\ n[i].open THEN [n EXCEPT ![i].down = @ \o msgs] ELSE n
SendUp(n, i, msg) == IF n[i].open THEN [n EXCEPT ![i].up = Append(@, msg)] ELSE n

EventMsg(e, n) == [kind |-> "event", s |-> <<"", e>>, value |-> n]
Answer(kind, s) == [kind |-> kind, s |-> s, value |-> 0]

send_event(p, n, targets, e, value) ==
    [i \in DOMAIN n |->
        IF \E c \in targets : p.ep[c].active = i
        THEN SendDown(n, i, <<EventMsg(e, value)>>)[i] ELSE n[i]]

\* The current values of the fields a new subscription covers, in some order.
notify_one_current_value(p, s) ==
    LET es == {e \in IF s[2] # ANY THEN {s[2]} ELSE find_provided_events_by_group(p, s[1]) :
                 get_current(p.ev[e], e) # 0}
        order == CHOOSE q \in [1 .. Cardinality(es) -> es] : \A i, j \in DOMAIN q : i # j => q[i] # q[j]
    IN  [i \in DOMAIN order |-> EventMsg(order[i], p.ev[order[i]].value)]
-----------------------------------------------------------------------------
(* The provider's application and its io thread.                              *)

offer_service ==
    /\ ~pv.offered
    /\ used.offers < MaxOffers
    /\ pv' = [pv EXCEPT !.offered = TRUE]
    /\ rt' = [rt EXCEPT !.cmds = Append(@, TRUE)]
    /\ used' = [used EXCEPT !.offers = @ + 1]
    /\ UNCHANGED <<cs, net>>

stop_offer_service ==
    /\ pv.offered
    /\ used.offers < MaxOffers
    /\ pv' = [stop_offer_service_base(pv) EXCEPT !.offered = FALSE]
    /\ rt' = [rt EXCEPT !.cmds = Append(@, FALSE)]
    /\ UNCHANGED <<cs, net, used>>

register_event(e) ==
    /\ e \in Late
    /\ pv.ev[e].kind # "real"
    /\ pv' = register_provider_event(pv, e)
    /\ UNCHANGED <<cs, net, rt, used>>

\* stop_offer_event, called while the service is not offered.
unregister_event(e) ==
    /\ e \in Late
    /\ ~pv.offered
    /\ used.offers < MaxOffers
    /\ pv.ev[e].kind # "none"
    /\ pv' = [pv EXCEPT !.ev[e] = None]
    /\ UNCHANGED <<cs, net, rt, used>>

\* A new value, or the current one once more.
Value(e) == {n \in {pv.last + 1, pv.ev[e].value} : n \in 1 .. MaxValue}

Repeats(again) ==
    IF again THEN used.repeats < MaxRepeats /\ used' = [used EXCEPT !.repeats = @ + 1]
    ELSE UNCHANGED used

notify(e, n, force) ==
    /\ e \in Events \ Selective
    /\ pv.ev[e].kind # "none"
    /\ n \in Value(e)
    /\ Repeats(n = pv.ev[e].value)
    /\ pv' = [pv EXCEPT !.ev[e] = Committed(@, e, n), !.last = IF n > @ THEN n ELSE @]
    /\ net' = send_event(pv, net, update(pv.ev[e], e, n, force), e, n)
    /\ UNCHANGED <<cs, rt>>

\* A client that is connected but not subscribed gets nothing and changes nothing.
notify_one(e, c, n) ==
    /\ e \in Selective
    /\ pv.offered
    /\ n \in Value(e)
    /\ pv.ep[c].active # 0 /\ c \in Subscribers(pv.ev[e])
    /\ pv' = [pv EXCEPT !.ev[e] = Committed(@, e, n), !.last = IF n > @ THEN n ELSE @]
    /\ net' = IF update_without_subscriber(pv.ev[e], e, n, FALSE)
              THEN send_event(pv, net, {c}, e, n) ELSE net
    /\ Repeats(n = pv.ev[e].value)
    /\ UNCHANGED <<cs, rt>>

periodic_notify(e) ==
    /\ pv.ev[e].timer
    /\ Repeats(TRUE)
    /\ net' = send_event(pv, net, cyclic(pv.ev[e]), e, pv.ev[e].value)
    /\ UNCHANGED <<pv, cs, rt>>

AddProviderEndpoint(i) ==
    /\ net[i].arriving
    /\ LET n == [net EXCEPT ![i].arriving = FALSE]
           r == add_provider_endpoint(pv, n, i, net[i].gen)
       IN  pv' = r[1] /\ net' = r[2]
    /\ UNCHANGED <<cs, rt, used>>

\* on_message of the provider, for the connection it reads from.
on_message_provider(i) ==
    LET c == net[i].c
        m == Head(net[i].up)
        n == [net EXCEPT ![i].up = Tail(@)]
        job == [c |-> c, kind |-> m.kind, s |-> m.s, token |-> provider_token(pv, c)]
    IN  /\ pv.ep[c].active = i
        /\ net[i].up # <<>>
        /\ IF m.kind = "subscribe" /\ ~pv.offered
           THEN /\ net' = SendDown(n, i, <<Answer("nack", m.s)>>)
                /\ UNCHANGED pv
           ELSE /\ pv' = [pv EXCEPT !.jobs = Append(@, job)]
                /\ net' = n
        /\ UNCHANGED <<cs, rt, used>>

\* The continuation of a subscription the application decided on.  A job whose
\* connection was cleaned up meanwhile does nothing.
OnSubscribed(p, n, j, accepted) ==
    LET q == IF accepted THEN insert_subscription(p, j.s, j.c) ELSE p
        answer == IF accepted THEN <<Answer("ack", j.s)>> \o notify_one_current_value(q, j.s)
                  ELSE <<Answer("nack", j.s)>>
    IN  IF j.token # provider_token(p, j.c) THEN <<p, n>>
        ELSE <<q, SendDown(n, p.ep[j.c].active, answer)>>

OnUnsubscribed(p, j) ==
    IF j.token # provider_token(p, j.c) THEN p ELSE unsubscribe_base(p, j.s, j.c)

Continue(accepted) ==
    /\ pv.jobs # <<>>
    /\ LET j == Head(pv.jobs)
           p == [pv EXCEPT !.jobs = Tail(@)]
           r == OnSubscribed(p, net, j, accepted)
       IN  IF j.kind = "subscribe"
           THEN /\ pv' = r[1] /\ net' = r[2]
                /\ accepted \/ used.rejects < MaxRejects
                /\ used' = IF accepted THEN used
                           ELSE [used EXCEPT !.rejects = @ + 1, !.rejected = @ \cup {<<j.c, j.s>>}]
           ELSE accepted /\ pv' = OnUnsubscribed(p, j) /\ UNCHANGED <<net, used>>
    /\ UNCHANGED <<cs, rt>>

\* The error handler of a provider connection: broken, or triggered because a
\* newer one waits.
ProviderError(c) ==
    /\ pv.ep[c].active # 0
    /\ ~net[pv.ep[c].active].open \/ pv.ep[c].pending # 0
    /\ LET r == remove_local_provider(pv, net, c) IN pv' = r[1] /\ net' = r[2]
    /\ UNCHANGED <<cs, rt, used>>

\* The provider loses the router and registers anew: the router first withdraws
\* what it offered, then learns it again.
reconnect ==
    /\ used.losses < MaxLosses
    /\ LET r == clear_provider_endpoints(cleanup_subscriber([pv EXCEPT !.gen = @ + 1]), net)
       IN  pv' = r[1] /\ net' = r[2]
    /\ rt' = [rt EXCEPT !.cmds =
                IF pv.offered THEN @ \o <<FALSE, TRUE>> ELSE @]
    /\ used' = [used EXCEPT !.losses = @ + 1]
    /\ UNCHANGED cs
-----------------------------------------------------------------------------
(* The router, as far as consumers see it: offers are announced, a requester  *)
(* that lost its connection asks and is told again.                           *)

RouterHandles ==
    /\ rt.cmds # <<>>
    /\ LET offer == Head(rt.cmds)
           tell == [c \in Consumers |-> IF offer # rt.known THEN Append(rt.info[c], offer) ELSE rt.info[c]]
       IN  rt' = [rt EXCEPT !.cmds = Tail(@), !.known = offer, !.info = tell]
    /\ UNCHANGED <<pv, cs, net, used>>

RouterAnswers(c) ==
    /\ c \in rt.asks
    /\ rt' = [rt EXCEPT !.asks = @ \ {c},
                        !.info[c] = IF rt.known THEN Append(@, TRUE) ELSE @]
    /\ UNCHANGED <<pv, cs, net, used>>

-----------------------------------------------------------------------------
(* The consumers.                                                             *)

EventsOf(g) == {e \in Events : g \in GroupsOf[e]}

on_stop_offer_service(q, was_available) ==
    IF ~was_available THEN q
    ELSE [q EXCEPT !.avail = FALSE, !.init = {},
                   !.st = [s \in Wanted |-> IF q.st[s] = "none" THEN "none" ELSE "nack"]]

\* A cached value is replayed to the application.  The cache survives
\* on_stop_offer_service: unset_payload() does nothing for a consumed event.
Replayed(q, s) ==
    IF s \notin q.init THEN {}
    ELSE {e \in IF s[2] = ANY THEN EventsOf(s[1]) ELSE {s[2]} : e \in Fields /\ q.cache[e] # 0}

subscribe(c, s) ==
    LET q == cs[c]
        replay == Replayed(q, s)
        send == q.st[s] \in {"none", "nack"} /\ q.avail
    IN  /\ q.sending = NoSub
        /\ used.calls[c] < MaxCalls
        /\ cs' = [cs EXCEPT ![c].want = @ \cup {s},
                            ![c].got = [e \in Events |-> IF e \in replay THEN q.cache[e] ELSE @[e]],
                            ![c].st[s] = IF @ = "ack" THEN @ ELSE "subscribing",
                            ![c].sending = IF send THEN s ELSE NoSub]
        /\ used' = [used EXCEPT !.calls[c] = @ + 1]
        /\ UNCHANGED <<pv, net, rt>>

\* Opens the connection when there is none; without an available provider the
\* command goes to the router, which serves remote services only.
send_subscribe(c, s, q) ==
    LET msg == [kind |-> "subscribe", s |-> s]
        conn == [c |-> c, open |-> TRUE, arriving |-> TRUE, gen |-> pv.gen,
                 up |-> <<msg>>, down |-> <<>>]
    IN  IF ~q.avail
        THEN /\ cs' = [cs EXCEPT ![c] = q]
             /\ used' = [used EXCEPT !.strayed = @ \/ rt.known]
             /\ UNCHANGED net
        ELSE IF q.ep = 0
        THEN /\ cs' = [cs EXCEPT ![c] = [q EXCEPT !.ep = Len(net) + 1]]
             /\ net' = Append(net, conn)
             /\ UNCHANGED used
        ELSE /\ cs' = [cs EXCEPT ![c] = q]
             /\ net' = SendUp(net, q.ep, msg)
             /\ UNCHANGED used

SendSubscribe(c) ==
    /\ cs[c].sending # NoSub
    /\ send_subscribe(c, cs[c].sending, [cs[c] EXCEPT !.sending = NoSub])
    /\ UNCHANGED <<pv, rt>>

SendCollected(c, s) ==
    /\ s \in cs[c].collected
    /\ send_subscribe(c, s, [cs[c] EXCEPT !.collected = @ \ {s}])
    /\ UNCHANGED <<pv, rt>>

remove_pending_subscription(q, s) ==
    q.want \ {t \in Wanted : t[1] = s[1] /\ (s[2] = ANY \/ t[2] = s[2])}

unsubscribe(c, s) ==
    LET q == cs[c]
        gone == {t \in Wanted : t[1] = s[1] /\ (s[2] = ANY \/ t[2] = s[2])}
    IN  /\ q.sending = NoSub
        /\ s \in q.want
        /\ used.calls[c] < MaxCalls
        /\ cs' = [cs EXCEPT ![c].want = remove_pending_subscription(q, s),
                            ![c].st = [t \in Wanted |-> IF t \in gone THEN "none" ELSE q.st[t]],
                            ![c].init = @ \ gone]
        /\ net' = IF q.avail /\ q.ep # 0 THEN SendUp(net, q.ep, [kind |-> "unsubscribe", s |-> s]) ELSE net
        /\ used' = [used EXCEPT !.calls[c] = @ + 1, !.rejected = @ \ {<<c, t>> : t \in gone}]
        /\ UNCHANGED <<pv, rt>>

\* The io thread sends what it collected before it reads the next message.
on_routing_info(c) ==
    LET q == cs[c]
        offer == Head(rt.info[c])
    IN  /\ q.collected = {}
        /\ rt.info[c] # <<>>
        /\ cs' = [cs EXCEPT ![c] =
                    IF ~offer THEN on_stop_offer_service(q, q.avail)
                    ELSE IF q.avail THEN q
                    ELSE [q EXCEPT !.avail = TRUE, !.collected = q.want]]
        /\ rt' = [rt EXCEPT !.info[c] = Tail(@)]
        /\ UNCHANGED <<pv, net, used>>

\* An answer for all events of a group is an answer for each of them; an answer
\* for one event also counts for a subscription to all.
on_subscribe_outcome(q, s, state) ==
    LET hit == IF s[2] = ANY THEN {<<s[1], e>> : e \in EventsOf(s[1])} \cup {s} ELSE {s, <<s[1], ANY>>}
    IN  [q EXCEPT !.st = [t \in Wanted |-> IF t \in hit /\ q.st[t] # "none" THEN state ELSE q.st[t]]]

\* Returns the entry with the payload cached and the subscriptions that are
\* active for the event.
cache_event_payload(q, e, n) ==
    LET own == {s \in Wanted : s[2] = e /\ q.st[s] # "none"}
        any == {s \in Wanted : s[2] = ANY /\ s[1] \in GroupsOf[e] /\ q.st[s] # "none"}
        active == IF own # {} THEN own ELSE any
    IN  <<[q EXCEPT !.cache[e] = IF e \in Fields THEN n ELSE @,
                    !.init = IF e \in Fields THEN @ \cup active ELSE @],
          active>>

\* on_message of a consumer: a message without an active subscription is dropped.
on_message_consumer(c) ==
    LET q == cs[c]
        m == Head(net[q.ep].down)
        r == cache_event_payload(q, m.s[2], m.value)
    IN  /\ q.ep # 0
        /\ net[q.ep].down # <<>>
        /\ cs' = [cs EXCEPT ![c] =
                    IF m.kind # "event" THEN on_subscribe_outcome(q, m.s, m.kind)
                    ELSE IF r[2] = {} THEN r[1]
                    ELSE [r[1] EXCEPT !.got[m.s[2]] = m.value]]
        /\ net' = [net EXCEPT ![q.ep].down = Tail(@)]
        /\ UNCHANGED <<pv, rt, used>>

\* cleanup_client of the consumer role: what was available over the connection
\* is requested again.
ConsumerError(c) ==
    LET q == cs[c]
    IN  /\ q.ep # 0
        /\ ~net[q.ep].open
        /\ cs' = [cs EXCEPT ![c] = [on_stop_offer_service(q, q.avail) EXCEPT !.ep = 0]]
        /\ rt' = [rt EXCEPT !.asks = IF q.avail THEN @ \cup {c} ELSE @]
        /\ net' = [net EXCEPT ![q.ep].down = <<>>]
        /\ UNCHANGED <<pv, used>>

Break(i) ==
    /\ net[i].open
    /\ used.breaks < MaxBreaks
    /\ net' = Close(net, {i})
    /\ used' = [used EXCEPT !.breaks = @ + 1]
    /\ UNCHANGED <<pv, cs, rt>>

Next ==
    \/ offer_service \/ stop_offer_service \/ reconnect \/ RouterHandles
    \/ \E b \in BOOLEAN : Continue(b)
    \/ \E e \in Events :
         \/ register_event(e) \/ unregister_event(e) \/ periodic_notify(e)
         \/ \E n \in 1 .. MaxValue :
              (\E f \in BOOLEAN : notify(e, n, f)) \/ (\E c \in Consumers : notify_one(e, c, n))
    \/ \E i \in DOMAIN net : AddProviderEndpoint(i) \/ on_message_provider(i) \/ Break(i)
    \/ \E c \in Consumers :
         \/ RouterAnswers(c) \/ ProviderError(c) \/ SendSubscribe(c) \/ on_routing_info(c)
         \/ on_message_consumer(c) \/ ConsumerError(c)
         \/ \E s \in Wanted : subscribe(c, s) \/ unsubscribe(c, s) \/ SendCollected(c, s)

Spec == Init /\ [][Next]_vars
-----------------------------------------------------------------------------
(* Properties.                                                                *)

\* Nothing is under way: no command, message, continuation or unnoticed error.
Quiescent ==
    /\ rt.cmds = <<>> /\ rt.asks = {} /\ pv.jobs = <<>>
    /\ \A c \in Consumers :
         /\ rt.info[c] = <<>> /\ cs[c].sending = NoSub /\ cs[c].collected = {}
         /\ cs[c].ep # 0 => net[cs[c].ep].open /\ net[cs[c].ep].down = <<>>
         /\ pv.ep[c].active # 0 => net[pv.ep[c].active].open /\ net[pv.ep[c].active].up = <<>>
         /\ pv.ep[c].pending = 0
    /\ \A i \in DOMAIN net : ~net[i].arriving

Covers(s) == IF s[2] = ANY THEN EventsOf(s[1]) ELSE {s[2]}

\* When nothing is under way and the service is offered, every subscription a
\* consumer has made and the provider did not reject is in the provider's
\* table, and the consumer's application has the current value of each field it
\* covers - whatever connections broke, whatever was offered again and however
\* subscribe() raced the routing info (subscribe, on_routing_info, cleanup_client).
Served ==
    (Quiescent /\ pv.offered) =>
        \A c \in Consumers : \A s \in cs[c].want :
            <<c, s>> \in used.rejected
            \/ \A e \in Covers(s) :
                 pv.ev[e].kind = "real" =>
                     /\ c \in Subscribers(pv.ev[e])
                     /\ e \in Fields \ Selective => cs[c].got[e] >= pv.ev[e].value

\* A subscriber of the provider is reachable over its own connection: the
\* continuation of a subscription never enters a client whose connection was
\* cleaned up after the SUBSCRIBE was read (provider_token, "discarding stale
\* continuation").
SubscriberIsConnected ==
    \A e \in DOMAIN pv.ev : \A c \in Subscribers(pv.ev[e]) : pv.ep[c].active # 0

\* The router receives SUBSCRIBE for remote services only
\* (routing_manager_impl::subscribe: "This branch should be unreachable").
RouterOnlyForRemote == ~used.strayed
=============================================================================
