---------------------------- MODULE RouterEvents ----------------------------
(***************************************************************************)
(* The routing host's tables for the events of one remote service that     *)
(* local applications consume.                                             *)
(*                                                                         *)
(*   routing_manager_impl   events_ and eventgroups_: registration,        *)
(*                          placeholders, subscriptions, the delivery of   *)
(*                          notifications, release and loss of the service *)
(*   event                  subscribers per eventgroup, references, value  *)
(*   service_discovery_impl subscribed_, as far as it decides when the     *)
(*                          provider is asked for initial values           *)
(*                                                                         *)
(* All events are fields.  Commands and messages are handled one after the *)
(* other: the host runs one I/O thread (VSOMEIP_DEFAULT_IO_THREAD_COUNT).  *)
(* The exchange with the provider is reliable here; EventgroupConsumer has *)
(* its losses.  Applications register a field before they subscribe to it; *)
(* placeholders for subscriptions of others are left out.                  *)
(***************************************************************************)
EXTENDS Naturals, Sequences, FiniteSets, Functions

CONSTANTS
    Clients,       \* local applications
    ByEvent,       \* those that subscribe to single events, not to eventgroups
    Events,        \* the fields of the service
    GroupsOf,      \* the eventgroups a field is registered for
    AnyEvent,      \* ANY_EVENT
    MaxValue,      \* bound: values each field takes
    MaxCommands    \* bound: commands of the applications

Groups == UNION {GroupsOf[e] : e \in Events}
FieldsOf(g) == {e \in Events : g \in GroupsOf[e]}

VARIABLES
    events,      \* events_: the registered fields and placeholders
    groups,      \* eventgroups_: the events of each eventgroup that exists
    requesters,  \* requested_services_
    subscribed,  \* discovery: subscribed_, with whether its eventgroupinfo still exists
    values,      \* provider: the value of each field, 0 before the first
    net,         \* notifications on their way to the host
    owed,        \* <<client, group, field>>: what applications have subscribed to
    seen,        \* the last value of a field each application was sent
    abandoned,   \* eventgroups discovery stays subscribed to after their last subscriber released
    offered,     \* a multicast offer came after everything else
    commands     \* number of commands so far

vars == <<events, groups, requesters, subscribed, values, net, owed, seen, abandoned, offered, commands>>

NoValue == 0

\* Values as functions on a set of names; those that are not in it do not exist.
With(f, x, y) == [z \in DOMAIN f \union {x} |-> IF z = x THEN y ELSE f[z]]
Without(f, X) == Restrict(f, DOMAIN f \ X)

Init ==
    /\ events = <<>> /\ groups = <<>> /\ subscribed = <<>>
    /\ requesters = Clients
    /\ values = [e \in Events |-> NoValue]
    /\ net = <<>> /\ owed = {}
    /\ seen = [c \in Clients |-> [e \in Events |-> NoValue]]
    /\ abandoned = {} /\ offered = FALSE /\ commands = 0

-----------------------------------------------------------------------------
(* event                                                                    *)

get_subscribers(v) == UNION Range(v.subscribers)

NewEvent(gs, placeholder, provided) ==
    [placeholder |-> placeholder, provided |-> provided, subscribers |-> [g \in gs |-> {}],
     refs |-> [c \in Clients |-> 0], set |-> FALSE, update |-> NoValue]

add_eventgroups(v, gs) ==
    [v EXCEPT !.subscribers = [g \in DOMAIN @ \union gs |-> IF g \in DOMAIN @ THEN @[g] ELSE {}]]

add_subscriber(v, g, c) ==
    [v EXCEPT !.subscribers = With(@, g, {c} \union (IF g \in DOMAIN @ THEN @[g] ELSE {}))]

remove_subscriber(v, g, c) ==
    [v EXCEPT !.subscribers = IF g \in DOMAIN @ THEN [@ EXCEPT ![g] = @ \ {c}] ELSE @]

clear_subscribers(v) == [v EXCEPT !.subscribers = [g \in DOMAIN @ |-> {}]]

add_ref(v, c) == [v EXCEPT !.refs[c] = @ + 1]
remove_ref(v, c) == [v EXCEPT !.refs[c] = IF @ > 0 THEN @ - 1 ELSE 0]
has_ref(v) == \E c \in Clients : v.refs[c] > 0

unset_payload(v) == [v EXCEPT !.set = FALSE]

\* Every event of the eventgroups gs, changed by F.
EventsOf(gs) == {e \in DOMAIN events : \E g \in gs \cap DOMAIN groups : e \in groups[g]}
ForEvents(gs, F(_)) ==
    [e \in DOMAIN events |-> IF e \in EventsOf(gs) THEN F(events[e]) ELSE events[e]]

-----------------------------------------------------------------------------
(* routing_manager_impl: registration                                       *)

find_event(e, default) == IF e \in DOMAIN events THEN events[e] ELSE default

AddToGroups(e, gs) ==
    [g \in DOMAIN groups \union gs |->
        (IF g \in DOMAIN groups THEN groups[g] ELSE {}) \union (IF g \in gs THEN {e} ELSE {})]

\* What becomes of the event: an existing one keeps subscribers and value, a
\* placeholder gets its real properties.
Registered(e, gs) ==
    [add_eventgroups(find_event(e, NewEvent(gs, FALSE, FALSE)), gs) EXCEPT
        !.placeholder = FALSE, !.provided = FALSE]

\* REGISTER_EVENT of a consumer.
register_event(c, e) ==
    /\ events' = With(events, e, add_ref(Registered(e, GroupsOf[e]), c))
    /\ groups' = AddToGroups(e, GroupsOf[e])

remove_eventgroup_info(table, gs) == Without(table, gs)

\* UNREGISTER_EVENT: without references the event disappears from both tables,
\* and eventgroups that lose their last event with it.
unregister_event(c, e) ==
    LET v == remove_ref(events[e], c)
        left == [g \in DOMAIN groups |-> IF g \in DOMAIN v.subscribers THEN groups[g] \ {e} ELSE groups[g]]
        gone == {g \in DOMAIN v.subscribers \cap DOMAIN groups : left[g] = {}}
    IN IF has_ref(v) THEN events' = [events EXCEPT ![e] = v] /\ UNCHANGED <<groups, subscribed>>
       ELSE /\ events' = Without(events, {e})
            /\ groups' = remove_eventgroup_info(left, gone)
            /\ subscribed' = [g \in DOMAIN subscribed |-> subscribed[g] /\ g \notin gone]

-----------------------------------------------------------------------------
(* The applications' commands                                               *)

Command == /\ commands < MaxCommands
           /\ commands' = commands + 1
           /\ offered' = FALSE
           /\ UNCHANGED values

\* The eventgroups whose subscription of the event was held until it is requested.
\* (A value that was cached meanwhile is not sent then: the next one is.)
HeldFor(c, e) ==
    {g \in Groups : /\ e \in DOMAIN events /\ ~events[e].set
                    /\ g \in DOMAIN events[e].subscribers /\ c \in events[e].subscribers[g]}

Register(c, e) ==
    /\ Command /\ c \in requesters
    /\ e \in DOMAIN events => events[e].refs[c] = 0
    /\ register_event(c, e)
    /\ owed' = owed \union {<<c, g, e>> : g \in HeldFor(c, e)}
    /\ UNCHANGED <<requesters, subscribed, net, seen, abandoned>>

HasSubscribed(c, g) ==
    \E e \in DOMAIN events : g \in DOMAIN events[e].subscribers /\ c \in events[e].subscribers[g]

\* An application gives up its registrations after its subscriptions.
Unregister(c, e) ==
    /\ Command /\ e \in DOMAIN events /\ events[e].refs[c] > 0
    /\ \A g \in GroupsOf[e] : ~HasSubscribed(c, g)
    /\ unregister_event(c, e)
    /\ UNCHANGED <<requesters, net, owed, seen, abandoned>>

\* The provider answers a new Subscribe with the values of the group's fields.
InitialEvents(gs) ==
    LET due == {e \in UNION {FieldsOf(g) : g \in gs} : values[e] # NoValue}
        order == CHOOSE s \in [1 .. Cardinality(due) -> due] : Range(s) = due
    IN [i \in DOMAIN order |-> <<order[i], values[order[i]]>>]

\* discovery_->subscribe: only a subscription that is new is sent.
SdSubscribe(g) ==
    IF g \in DOMAIN subscribed THEN UNCHANGED <<subscribed, net>>
    ELSE subscribed' = With(subscribed, g, TRUE) /\ net' = net \o InitialEvents({g})

insert_subscription(g, x, c) ==
    LET F(v) == add_subscriber(v, g, c)
    IN IF x = AnyEvent THEN ForEvents({g}, F) ELSE [events EXCEPT ![x] = F(@)]

is_inserted(g, x, c) == insert_subscription(g, x, c) # events

\* notify_one_current_value
Current(g, x, c) ==
    [e \in Events |->
        IF /\ e \in DOMAIN events /\ events[e].set /\ ~events[e].placeholder
           /\ x = e \/ (x = AnyEvent /\ e \in groups[g])
          THEN events[e].update ELSE seen[c][e]]

\* The fields the application means: the ones it has registered.
Fields(g, x, c) ==
    {e \in FieldsOf(g) \cap DOMAIN events : x \in {e, AnyEvent} /\ events[e].refs[c] > 0}

Subscribe(c, g, x) ==
    /\ Command /\ c \in requesters
    /\ g \in DOMAIN groups
    /\ Fields(g, x, c) # {}
    /\ is_inserted(g, x, c)
    /\ events' = insert_subscription(g, x, c)
    /\ SdSubscribe(g)
    /\ owed' = owed \union {<<c, g, e>> : e \in Fields(g, x, c)}
    /\ seen' = [seen EXCEPT ![c] = Current(g, x, c)]
    /\ UNCHANGED <<groups, requesters, abandoned>>

\* No event of the eventgroup is subscribed through it in the table es.
NoSubscriber(es, g) ==
    \A e \in groups[g] : g \in DOMAIN es[e].subscribers => es[e].subscribers[g] = {}

\* unset_all_eventpayloads of the eventgroup
Unsubscribed(g) == ForEvents({g}, unset_payload)

Unsubscribe(c, g, x) ==
    LET F(v) == remove_subscriber(v, g, c)
        removed == [e \in DOMAIN events |-> IF e \in groups[g] /\ x \in {e, AnyEvent} THEN F(events[e]) ELSE events[e]]
        last == NoSubscriber(removed, g)
    IN /\ Command
       /\ g \in DOMAIN groups
       /\ HasSubscribed(c, g)
       /\ events' = IF last THEN [e \in DOMAIN events |-> [removed[e] EXCEPT !.set = Unsubscribed(g)[e].set]]
                            ELSE removed
       /\ subscribed' = IF last THEN Without(subscribed, {g}) ELSE subscribed
       /\ abandoned' = abandoned \cap DOMAIN subscribed'
       /\ owed' = {o \in owed : ~(o[1] = c /\ o[2] = g /\ x \in {o[3], AnyEvent})}
       /\ UNCHANGED <<groups, requesters, net, seen>>

\* remove_subscriber in the eventgroups gs
RemovedFrom(gs, v, c) ==
    [v EXCEPT !.subscribers = [g \in DOMAIN @ |-> IF g \in gs THEN @[g] \ {c} ELSE @[g]]]

\* The events when another requester is left. One eventgroup after the other loses
\* the client, and its values if none of its events is subscribed any more: through
\* another eventgroup, of those the order has put after it, it may still be.
ReleasedBy(c, order) ==
    LET UpTo(g) == {h \in DOMAIN groups : order[h] <= order[g]}
        unused == {g \in DOMAIN groups :
                     \A e \in groups[g] : get_subscribers(RemovedFrom(UpTo(g), events[e], c)) = {}}
        Mine(v) == RemovedFrom(DOMAIN groups, v, c)
        mine == ForEvents(DOMAIN groups, Mine)
    IN [e \in DOMAIN events |->
          IF \E g \in unused : e \in groups[g] THEN unset_payload(mine[e]) ELSE mine[e]]

\* RELEASE_SERVICE. Another requester keeps the service, and discovery keeps its
\* subscriptions: it does not know the releasing client, only the routing client.
Release(c) ==
    LET left == requesters \ {c}
        Cleared(v) == unset_payload(clear_subscribers(v))
        Orders == {o \in [DOMAIN groups -> 1 .. Cardinality(DOMAIN groups)] : IsInjective(o)}
    IN /\ Command /\ c \in requesters
       /\ requesters' = left
       /\ IF left = {}
            THEN events' = ForEvents(DOMAIN groups, Cleared) /\ subscribed' = <<>>
            ELSE (\E o \in Orders : events' = ReleasedBy(c, o)) /\ UNCHANGED subscribed
       /\ abandoned' = {g \in DOMAIN subscribed' : g \in abandoned \/ NoSubscriber(events', g)}
       /\ owed' = {o \in owed : o[1] # c /\ left # {}}
       /\ UNCHANGED <<groups, net, seen>>

Request(c) ==
    /\ Command /\ c \notin requesters
    /\ requesters' = requesters \union {c}
    /\ UNCHANGED <<events, groups, subscribed, net, owed, seen, abandoned>>

-----------------------------------------------------------------------------
(* The provider and the network                                             *)

\* A field changes; its subscribers are told.
Change(e) ==
    /\ values[e] < MaxValue
    /\ values' = [values EXCEPT ![e] = @ + 1]
    /\ net' = IF GroupsOf[e] \cap DOMAIN subscribed # {} THEN Append(net, <<e, values[e] + 1>>) ELSE net
    /\ offered' = FALSE
    /\ UNCHANGED <<events, groups, requesters, subscribed, owed, seen, abandoned, commands>>

\* Bug: only the event's own subscribers count.
cache_event_Own(e) == events[e].provided \/ get_subscribers(events[e]) # {}

\* Some event of the event's eventgroups has a subscriber.
cache_event(e) ==
    \/ events[e].provided
    \/ get_subscribers(events[e]) # {}
    \/ \E g \in DOMAIN events[e].subscribers \cap DOMAIN groups :
          \E f \in groups[g] : get_subscribers(events[f]) # {}

has_subscribed_eventgroup == \E g \in DOMAIN groups : \E e \in groups[g] : get_subscribers(events[e]) # {}

Cached(v, n) == [v EXCEPT !.set = TRUE, !.update = n]

\* A notification: forwarded to the event's subscribers, cached while its
\* eventgroup is subscribed, dropped otherwise. An unknown event becomes a
\* placeholder outside of the eventgroups.
deliver_notification ==
    LET e == net[1][1]
        n == net[1][2]
    IN /\ net # <<>>
       /\ net' = Tail(net)
       /\ IF e \in DOMAIN events
            THEN IF cache_event(e)
                   THEN /\ events' = [events EXCEPT ![e] = Cached(@, n)]
                        /\ seen' = [c \in Clients |-> IF c \in get_subscribers(events[e])
                                                        THEN [seen[c] EXCEPT ![e] = n] ELSE seen[c]]
                   ELSE UNCHANGED <<events, seen>>
            ELSE /\ events' = IF has_subscribed_eventgroup
                                THEN With(events, e, Cached(NewEvent({}, TRUE, TRUE), n)) ELSE events
                 /\ UNCHANGED seen
       /\ UNCHANGED <<groups, requesters, subscribed, values, owed, abandoned, offered, commands>>

has_unreceived_field_value(g) ==
    subscribed[g] /\ g \in DOMAIN groups /\ \E e \in groups[g] : ~events[e].placeholder /\ ~events[e].set

\* A multicast offer renews the subscriptions; one that waits for a field's
\* value is stopped and made again, so that the provider sends it.
Offer ==
    /\ net = <<>> /\ ~offered
    /\ offered' = TRUE
    /\ net' = InitialEvents({g \in DOMAIN subscribed : has_unreceived_field_value(g)})
    /\ UNCHANGED <<events, groups, requesters, subscribed, values, owed, seen, abandoned, commands>>

\* The service is lost and found again. (del_routing_info, unsubscribe_all)
Lose ==
    LET Cleared(v) == unset_payload(clear_subscribers(v))
    IN /\ Command
       /\ events' = ForEvents(DOMAIN groups, Cleared)
       /\ subscribed' = <<>> /\ net' = <<>> /\ owed' = {} /\ abandoned' = {}
       /\ UNCHANGED <<groups, requesters, seen>>

Next == \/ \E c \in Clients : \/ \E e \in Events : Register(c, e) \/ Unregister(c, e)
                              \/ \E g \in Groups : \E x \in IF c \in ByEvent THEN FieldsOf(g) ELSE {AnyEvent} :
                                    Subscribe(c, g, x) \/ Unsubscribe(c, g, x)
                              \/ Release(c) \/ Request(c)
        \/ \E e \in Events : Change(e)
        \/ deliver_notification
        \/ Offer
        \/ Lose

Spec == Init /\ [][Next]_vars

-----------------------------------------------------------------------------
(* Properties                                                               *)

\* The application of the subscription o has been sent the field's present value.
IsCurrent(o) == values[o[3]] # NoValue => seen[o[1]][o[3]] = values[o[3]]

\* Applications know the fields they subscribed to: when all notifications have
\* arrived and the provider's offer has been seen, each has been sent the
\* present value of every field it registered and subscribed to, whoever else
\* registered, subscribed, unsubscribed or released the service meanwhile.
\* Subscriptions discovery forgot to end are excepted: see MissingValuesAreFetched.
\* (register_event, insert_subscription, deliver_notification, release_service)
SubscribersAreCurrent ==
    (offered /\ net = <<>>) => \A o \in owed : o[2] \notin abandoned => IsCurrent(o)

\* "Force resubscribe if missing initial events" (CHANGES:139): an offer brings
\* every subscriber the value that it still misses.
\* (has_unreceived_field_value; it looks at an eventgroupinfo that may be gone)
MissingValuesAreFetched == (offered /\ net = <<>>) => \A o \in owed : IsCurrent(o)

\* The two tables describe the same events: the events of an eventgroup are
\* registered and belong to it, and no eventgroup is kept without events.
\* (register_event, unregister_event)
TablesAgree ==
    \A g \in DOMAIN groups : /\ groups[g] # {}
                             /\ \A e \in groups[g] : e \in DOMAIN events /\ g \in DOMAIN events[e].subscribers
=============================================================================
