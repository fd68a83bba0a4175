----------------------------- MODULE FieldRelay -----------------------------
(***************************************************************************)
(* How an event of a local provider reaches consumers on other nodes.      *)
(*                                                                         *)
(*   routing_manager_client   the provider: notify, notify_one, and the    *)
(*                            subscription of the routing host, which      *)
(*                            stands for all remote consumers              *)
(*   event                    the routing host's shadow of the event: its  *)
(*                            value and the targets that wait for one      *)
(*   eventgroupinfo           the remote subscriptions of an eventgroup    *)
(*   routing_manager_impl     on_notification, notify_one, send, send_to   *)
(*                                                                         *)
(* Provider and routing host talk over a local connection: two sequences.  *)
(* A subscription has one endpoint (its target) and one client; how        *)
(* subscriptions are matched, merged and answered is RemoteSubscriptions'  *)
(* subject.  The routing host's events are always shadows: current_, which *)
(* only filters and the duplicate check of non-shadows read, and the cycle *)
(* timer, which shadows do not start, are left out.                        *)
(***************************************************************************)
EXTENDS Naturals, Sequences, FiniteSets

CONSTANTS
    Groups,         \* the eventgroups the event belongs to
    Targets,        \* endpoints of remote subscribers
    Reliable,       \* those of them that are TCP endpoints
    Wants,          \* the pairs of eventgroup and target that are subscribed
    Type,           \* event_type_e: "field" or "selective"
    Reliability,    \* reliability_type_e of the event: "reliable", "unreliable", "both"
    Threshold,      \* threshold_ of the multicast eventgroups, 0: unicast only
    MaxValues,      \* bound: values the application sets
    MaxSubscribes   \* bound: subscriptions made

VARIABLES
    provider,    \* [value, subscribed: groups with the routing client, count]
    toProvider, toRouter,
    sub,         \* subscriptions_: "none", "pending", "acked" or "leaving"
    due,         \* subscriptions whose initial events the acknowledgement still sends
    event,       \* [set: is_set_, update: update_, pending: pending_]
    got,         \* the last value each target received in its subscription
    wanted,      \* the last value the application addressed to the target
    made         \* subscriptions made so far

vars == <<provider, toProvider, toRouter, sub, due, event, got, wanted, made>>

NoValue == 0

Init ==
    /\ provider = [value |-> NoValue, subscribed |-> {}, count |-> [g \in Groups |-> 0]]
    /\ toProvider = <<>> /\ toRouter = <<>>
    /\ sub = [w \in Wants |-> "none"]
    /\ due = {}
    /\ event = [set |-> FALSE, update |-> NoValue, pending |-> {}]
    /\ got = [t \in Targets |-> NoValue]
    /\ wanted = [t \in Targets |-> NoValue]
    /\ made = 0

-----------------------------------------------------------------------------
(* eventgroupinfo                                                           *)

get_unicast_targets(g) == {t \in Targets : <<g, t>> \in Wants /\ sub[<<g, t>>] # "none"}

get_unreliable_target_count(g) == Cardinality(get_unicast_targets(g) \ Reliable)

is_sending_multicast(g) == Threshold # 0 /\ get_unreliable_target_count(g) >= Threshold

\* The transports an event with this reliability is sent over.
Carries(t) == Reliability \in (IF t \in Reliable THEN {"reliable", "both"}
                                                 ELSE {"unreliable", "both"})

-----------------------------------------------------------------------------
(* routing_manager_impl: sending to the network                             *)

Received(T, v) == [t \in Targets |-> IF t \in T THEN v ELSE got[t]]

\* The network: a multicast notification reaches the consumers that know the
\* group's address, which the acknowledgement gave them.
Listening(g) == {t \in get_unicast_targets(g) \ Reliable : sub[<<g, t>>] \in {"acked", "leaving"}}

\* The targets of a notification, over all eventgroups of the event.
NotificationTargets ==
    {t \in UNION {IF is_sending_multicast(g)
                    THEN (get_unicast_targets(g) \cap Reliable) \union Listening(g)
                    ELSE get_unicast_targets(g) : g \in Groups} : Carries(t)}

send_to(t, v) == got' = Received({t}, v)

send_notification(v) == got' = Received(NotificationTargets, v)

-----------------------------------------------------------------------------
(* event                                                                    *)

prepare_update_payload(v) == [event EXCEPT !.update = v, !.set = TRUE]

\* set_payload(payload, force): a shadow never drops an unchanged value.
set_payload(v) == /\ event' = prepare_update_payload(v)
                  /\ send_notification(v)

\* set_payload(payload, client, target, force)
set_payload_one(T, v) == /\ event' = IF T = {} THEN event ELSE prepare_update_payload(v)
                         /\ got' = Received(T, v)

\* The first value goes to the targets that were acknowledged before it.
set_payload_notify_pending(v) ==
    /\ ~event.set
    /\ event' = [set |-> TRUE, update |-> v, pending |-> {}]
    /\ got' = Received(event.pending, v)

notify_one(t) == IF event.set THEN send_to(t, event.update) /\ UNCHANGED event
                 ELSE event' = [event EXCEPT !.pending = @ \union {t}] /\ UNCHANGED got

unset_payload == [event EXCEPT !.set = FALSE]

-----------------------------------------------------------------------------
(* The provider: an application through its routing_manager_client          *)

UNCHANGED_Router == UNCHANGED <<sub, due, event, got, made>>

\* The application sets a value. Only a subscribed routing client is told.
\* (routing_manager_client::notify, provider_event::update)
Notify ==
    /\ Type = "field" /\ provider.value < MaxValues
    /\ LET v == provider.value + 1
       IN /\ provider' = [provider EXCEPT !.value = v]
          /\ toRouter' = IF provider.subscribed = {} THEN toRouter
                         ELSE Append(toRouter, [kind |-> "NOTIFY", value |-> v])
          /\ wanted' = [t \in Targets |-> v]
    /\ UNCHANGED toProvider /\ UNCHANGED_Router

\* The application addresses one remote client. (routing_manager_client::notify_one)
NotifyOne(t) ==
    /\ Type = "selective" /\ provider.value < MaxValues
    /\ LET v == provider.value + 1
       IN /\ provider' = [provider EXCEPT !.value = v]
          /\ toRouter' = Append(toRouter, [kind |-> "NOTIFY_ONE", value |-> v, target |-> t])
          /\ wanted' = [wanted EXCEPT ![t] = v]
    /\ UNCHANGED toProvider /\ UNCHANGED_Router

\* The fields of the eventgroup that have a value. (get_current)
notify_remote_initially ==
    IF Type = "field" /\ provider.value # NoValue
      THEN <<[kind |-> "NOTIFY", value |-> provider.value]>> ELSE <<>>

get_remote_subscriber_count(g, increment) ==
    [provider.count EXCEPT ![g] = IF increment THEN @ + 1 ELSE IF @ > 0 THEN @ - 1 ELSE 0]

\* unsubscribe_base, if this was the eventgroup's last remote subscriber.
Withdrawn(g) ==
    LET n == get_remote_subscriber_count(g, FALSE)
    IN [provider EXCEPT !.count = n,
                        !.subscribed = IF n[g] = 0 THEN @ \ {g} ELSE @]

\* SUBSCRIBE with a pending id; the application's handler accepts.
ProviderSubscribe(c) ==
    /\ provider' = [provider EXCEPT !.subscribed = @ \union {c.sub[1]},
                                    !.count = get_remote_subscriber_count(c.sub[1], TRUE)]
    /\ toRouter' = Append(toRouter, [kind |-> "SUBSCRIBE_ACK", sub |-> c.sub])
                     \o notify_remote_initially

ProviderUnsubscribe(c) ==
    /\ provider' = Withdrawn(c.sub[1])
    /\ toRouter' = Append(toRouter, [kind |-> "UNSUBSCRIBE_ACK", sub |-> c.sub])

ProviderExpire(c) == provider' = Withdrawn(c.sub[1]) /\ UNCHANGED toRouter

ProviderReads ==
    /\ toProvider # <<>>
    /\ LET c == Head(toProvider)
       IN \/ c.kind = "SUBSCRIBE" /\ ProviderSubscribe(c)
          \/ c.kind = "UNSUBSCRIBE" /\ ProviderUnsubscribe(c)
          \/ c.kind = "EXPIRE" /\ ProviderExpire(c)
    /\ toProvider' = Tail(toProvider)
    /\ UNCHANGED wanted /\ UNCHANGED_Router

-----------------------------------------------------------------------------
(* The routing host: remote subscriptions come and go                       *)

Tell(kind, w) == toProvider' = Append(toProvider, [kind |-> kind, sub |-> w])

Subscribe(w) ==
    /\ sub[w] = "none" /\ made < MaxSubscribes
    /\ sub' = [sub EXCEPT ![w] = "pending"]
    /\ got' = [got EXCEPT ![w[2]] = NoValue]
    /\ wanted' = [wanted EXCEPT ![w[2]] = IF Type = "field" THEN provider.value ELSE NoValue]
    /\ made' = made + 1
    /\ Tell("SUBSCRIBE", w)
    /\ UNCHANGED <<provider, toRouter, due, event>>

\* StopSubscribe: the entry stays, without its client, until the provider answers.
Unsubscribe(w) ==
    /\ sub[w] \in {"pending", "acked"}
    /\ sub' = [sub EXCEPT ![w] = "leaving"]
    /\ Tell("UNSUBSCRIBE", w)
    /\ UNCHANGED <<provider, toRouter, due, event, got, wanted, made>>

\* The time to live has passed.
Expire(w) ==
    /\ sub[w] = "acked"
    /\ sub' = [sub EXCEPT ![w] = "none"]
    /\ Tell("EXPIRE", w)
    /\ UNCHANGED <<provider, toRouter, due, event, got, wanted, made>>

\* The acknowledgement goes out; the initial events follow it, perhaps even to
\* a target that has withdrawn meanwhile.
on_subscribe_ack(w) ==
    /\ sub' = [sub EXCEPT ![w] = IF @ = "pending" THEN "acked" ELSE @]
    /\ \/ due' = due \union {w}
       \/ sub[w] # "pending" /\ UNCHANGED due
    /\ UNCHANGED <<event, got>>

\* service_discovery_impl::send_subscription_ack, eventgroupinfo::send_initial_events
send_initial_events(w) ==
    /\ w \in due
    /\ due' = due \ {w}
    /\ IF Type = "field" /\ Carries(w[2]) THEN notify_one(w[2]) ELSE UNCHANGED <<event, got>>
    /\ UNCHANGED <<provider, toProvider, toRouter, sub, wanted, made>>

\* With the last remote subscriber of all its eventgroups the event loses its
\* value: the provider does not tell the routing host about changes any more.
on_unsubscribe_ack(w) ==
    LET left == [sub EXCEPT ![w] = "none"]
    IN /\ sub' = left
       /\ event' = IF \A x \in Wants : left[x] = "none" THEN unset_payload ELSE event
       /\ UNCHANGED <<due, got>>

\* routing_manager_impl::notify_one: the targets of the client's subscriptions
SelectiveTargets(t) == {t} \cap UNION {get_unicast_targets(g) : g \in Groups}

on_notification(c) ==
    /\ UNCHANGED <<sub, due>>
    /\ IF c.kind = "NOTIFY_ONE"
         THEN set_payload_one({t \in SelectiveTargets(c.target) : Carries(t)}, c.value)
         ELSE set_payload_notify_pending(c.value) \/ (event.set /\ set_payload(c.value))

RouterReads ==
    /\ toRouter # <<>>
    /\ LET c == Head(toRouter)
       IN \/ c.kind = "SUBSCRIBE_ACK" /\ on_subscribe_ack(c.sub)
          \/ c.kind = "UNSUBSCRIBE_ACK" /\ on_unsubscribe_ack(c.sub)
          \/ c.kind \in {"NOTIFY", "NOTIFY_ONE"} /\ on_notification(c)
    /\ toRouter' = Tail(toRouter)
    /\ UNCHANGED <<provider, toProvider, wanted, made>>

Next == \/ Notify
        \/ \E t \in Targets : NotifyOne(t)
        \/ ProviderReads
        \/ RouterReads
        \/ \E w \in Wants : \/ Subscribe(w)
                            \/ Unsubscribe(w)
                            \/ Expire(w)
                            \/ send_initial_events(w)

Spec == Init /\ [][Next]_vars

-----------------------------------------------------------------------------
(* Properties                                                               *)

Quiet == toProvider = <<>> /\ toRouter = <<>> /\ due = {}

\* A consumer on another node knows the current value: when nothing is under
\* way, every acknowledged target the event's transport can reach has received,
\* in its present subscription, the last value the application addressed to it -
\* the one set before it subscribed included, if the event is a field. Neither
\* the order of acknowledgement, initial event and change, nor other consumers
\* that leave meanwhile, may leave it with an older one.
\* (set_payload_notify_pending, notify_one, notify_remote_initially, send)
TargetsAreCurrent ==
    Quiet => \A w \in Wants : (sub[w] = "acked" /\ Carries(w[2])) => got[w[2]] >= wanted[w[2]]
=============================================================================
