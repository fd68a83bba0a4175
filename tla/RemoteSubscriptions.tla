------------------------ MODULE RemoteSubscriptions ------------------------
(***************************************************************************)
(* The subscriptions of remote consumers to one eventgroup of a service    *)
(* that is offered on this host: a SubscribeEventgroup entry arrives in a  *)
(* service discovery message, becomes a remote_subscription object, is     *)
(* handed to the providing application, and is answered when the           *)
(* application has decided about each of its clients.                      *)
(*                                                                         *)
(*   service_discovery_impl    one remote_subscription_ack per message,    *)
(*                             pending_remote_subscriptions_               *)
(*   routing_manager_impl      on_remote_(un)subscribe, on_(un)subscribe_  *)
(*                             (n)ack, expire_subscriptions                *)
(*   eventgroupinfo            subscriptions_, remote_subscribers_count_   *)
(*   routing_manager_client    the provider: remote_subscriber_count_ and  *)
(*                             the subscription of the routing client      *)
(*                                                                         *)
(* Router and provider exchange commands over an ordered connection, and   *)
(* the provider runs its subscription handlers in order.                   *)
(***************************************************************************)
EXTENDS Integers, Sequences, FiniteSets

CONSTANTS
    Subscribers,          \* the remote endpoints that subscribe
    Clients,              \* {0}, or the clients of a selective eventgroup
    Address(_),           \* the address of a subscriber
    Messages,             \* the eventgroup entries of a message: sequences of
                          \* [who, clients, ttl, valid]; ttl: not a StopSubscribe
    MaxRemoteSubscribers, \* max_remote_subscribers_
    Refuses,              \* whether the provider may refuse, or a command be lost
    MaxMessages,          \* bound: messages with eventgroup entries
    MaxLapses             \* bound: expirations, reboots and stopped offers

VARIABLES
    router,    \* the state of service discovery and routing manager, below
    msg,       \* the entries on_message has not processed yet
    requests,  \* commands on their way to the provider
    answers,   \* commands on their way back
    provider   \* the providing application's view of the remote subscribers

vars == <<router, msg, requests, answers, provider>>

Views == {"idle", "asked", "acked", "refused"}

\* view and fed are what the consumer has been told: the last answer since its
\* last Subscribe, and whether it was sent the initial events.
Init ==
    /\ router = [objs |-> <<>>, table |-> {}, id |-> 0,
                 count |-> [a \in {Address(w) : w \in Subscribers} |-> 0],
                 acks |-> <<>>, waiting |-> {}, paired |-> FALSE, offered |-> TRUE,
                 lapses |-> 0, view |-> [p \in Subscribers \X Clients |-> "idle"],
                 fed |-> [w \in Subscribers |-> FALSE], overLimit |-> FALSE]
    /\ msg = <<>> /\ requests = <<>> /\ answers = <<>>
    /\ provider = [count |-> 0, subscribed |-> FALSE]

-----------------------------------------------------------------------------
(* remote_subscription                                                      *)

is_pending(o) == \E c \in DOMAIN o.clients : o.clients[c] = "PENDING"

set_client_state(o, c, state) ==
    IF c \notin DOMAIN o.clients THEN o
    ELSE [o EXCEPT !.clients[c] = state,
                   !.timed = IF state \in {"ACKED", "NACKED"} THEN @ \cup {c} ELSE @]

\* The clients that a (un)subscription adds or removes.
Changed(o, clients, subscribe) ==
    IF subscribe THEN clients \ DOMAIN o.clients ELSE clients \cap DOMAIN o.clients

update(o, clients, subscribe) ==
    LET changed == Changed(o, clients, subscribe)
        kept == IF subscribe THEN DOMAIN o.clients \cup changed
                ELSE DOMAIN o.clients \ changed
    IN [o EXCEPT !.clients = [c \in kept |-> IF c \in DOMAIN o.clients
                                             THEN o.clients[c] ELSE "PENDING"],
                 !.timed = IF subscribe THEN @ \cup clients ELSE @ \cap kept]

\* Objects are shared pointers: held by subscriptions_, by the acknowledgements
\* that wait, and as keys of pending_remote_subscriptions_.
Alive(q, x) == \/ x \in q.table \cup q.waiting
               \/ \E y \in q.waiting : x \in q.acks[q.objs[y].ack].subs

\* parent_ is a weak pointer.
get_parent(q, x) ==
    IF q.objs[x].parent # 0 /\ Alive(q, q.objs[x].parent) THEN q.objs[x].parent ELSE 0

get_parent_or_self(q, x) == IF get_parent(q, x) # 0 THEN get_parent(q, x) ELSE x

-----------------------------------------------------------------------------
(* remote_subscription_ack and its answer                                   *)

AckPending(q, a) ==
    \E x \in q.acks[a].subs :
        LET p == q.objs[get_parent_or_self(q, x)] IN is_pending(p) /\ p.answers # 0

\* The subscriptions an acknowledgement answers, with the clients of the parent.
Answering(q, a) == {x \in q.acks[a].subs : q.objs[x].ttl /\ q.objs[x].answers > 0}

StateOf(q, x, c) ==
    LET o == q.objs[get_parent_or_self(q, x)]
    IN IF c \in DOMAIN o.clients THEN o.clients[c] ELSE "UNKNOWN"

send_subscription_ack(q, a) ==
    LET told == Answering(q, a)
        first == {x \in q.acks[a].subs : q.objs[x].ttl /\ q.objs[x].initial}
    IN [q EXCEPT
          !.acks[a].done = TRUE,
          !.view = [p \in DOMAIN @ |->
             IF @[p] = "idle" THEN "idle"
             ELSE IF \E x \in told : q.objs[x].who = p[1] /\ StateOf(q, x, p[2]) = "ACKED"
               THEN "acked"
             ELSE IF \/ p \in q.acks[a].nacks
                     \/ \E x \in told : /\ q.objs[x].who = p[1]
                                        /\ StateOf(q, x, p[2]) \in {"PENDING", "NACKED"}
               THEN "refused" ELSE @[p]],
          !.objs = [x \in DOMAIN @ |-> IF x \in first THEN [@[x] EXCEPT !.initial = FALSE]
                                       ELSE @[x]],
          !.fed = [w \in Subscribers |-> @[w] \/ \E x \in first : q.objs[x].who = w]]

update_acknowledgement(q, a) ==
    IF q.acks[a].complete /\ ~AckPending(q, a) /\ ~q.acks[a].done
    THEN [send_subscription_ack(q, a) EXCEPT !.waiting = @ \ q.acks[a].subs]
    ELSE q

\* service_discovery_impl::update_remote_subscription
Decided(q, x) ==
    LET p == q.objs[get_parent_or_self(q, x)]
    IN IF (~is_pending(p) \/ p.answers = 0) /\ x \in q.waiting
       THEN update_acknowledgement(q, q.objs[x].ack) ELSE q

-----------------------------------------------------------------------------
(* eventgroupinfo                                                           *)

\* The entries of subscriptions_ that equal a subscription; the first is updated.
Matching(q, w) == {y \in q.table : q.objs[y].who = w}
First(q, w) == CHOOSE y \in Matching(q, w) :
                   \A z \in Matching(q, w) : q.objs[y].id <= q.objs[z].id

Entry(q, id) == {y \in q.table : q.objs[y].id = id}

\* Of the matching entry the client states are copied; a client the entry does
\* not know is being unsubscribed, and subscribed again. New clients make the
\* subscription a child, one that is still undecided lends its answers.
update_remote_subscription(q, x, subscribe) ==
    LET o == q.objs[x]
        y == First(q, o.who)
        changed == Changed(q.objs[y], DOMAIN o.clients, subscribe)
        item == update(q.objs[y], DOMAIN o.clients, subscribe)
        state(c) == IF c \in DOMAIN item.clients THEN item.clients[c] ELSE "UNKNOWN"
        copy == [o EXCEPT !.clients = [c \in DOMAIN @ |-> state(c)]]
        child == [copy EXCEPT !.parent = y, !.id = q.id + 1]
        renewal == [copy EXCEPT !.initial = @ /\ (o.force \/ item.initial)]
        merged == [copy EXCEPT !.parent = y, !.answers = 0, !.initial = @ /\ o.force]
    IN IF ~subscribe
       THEN [q EXCEPT !.objs = [@ EXCEPT ![x] = IF x = y THEN item ELSE copy, ![y] = item]]
       ELSE IF changed # {}
       THEN [q EXCEPT !.objs = [@ EXCEPT ![y] = item, ![x] = child],
                      !.table = @ \cup {x}, !.id = @ + 1]
       ELSE IF ~is_pending(copy)
       THEN [q EXCEPT !.objs = [@ EXCEPT ![y] = item, ![x] = renewal]]
       ELSE [q EXCEPT !.objs = [@ EXCEPT ![y] = [item EXCEPT !.answers = @ + 1],
                                         ![x] = merged]]

is_remote_subscription_limit_reached(q, w) ==
    /\ Cardinality(q.table) > MaxRemoteSubscribers
    /\ q.count[Address(w)] >= MaxRemoteSubscribers

add_remote_subscription(q, x) ==
    [q EXCEPT !.id = @ + 1, !.objs[x].id = q.id + 1, !.table = @ \cup {x},
              !.count[Address(q.objs[x].who)] = @ + 1]

remove_remote_subscription(q, id) ==
    LET gone == Entry(q, id)
        of(a) == Cardinality({y \in gone : Address(q.objs[y].who) = a})
    IN [q EXCEPT !.table = @ \ gone,
                 !.count = [a \in DOMAIN @ |-> IF @[a] < of(a) THEN 0 ELSE @[a] - of(a)]]

clear_remote_subscriptions(q) ==
    [q EXCEPT !.table = {}, !.count = [a \in DOMAIN @ |-> 0]]
-----------------------------------------------------------------------------
(* routing_manager_impl: requests to the provider                           *)

\* Orders to the provider, one command per client. Without a provider nothing
\* is sent (and a new subscription stays undecided).
Order(clients) == IF clients = {} THEN <<>>
                  ELSE LET c == CHOOSE b \in clients : \A d \in clients : b <= d
                       IN <<c>> \o (IF clients = {c} THEN <<>>
                                    ELSE <<CHOOSE d \in clients : d # c>>)

Commands(q, kind, clients, id) ==
    IF ~q.offered THEN <<>>
    ELSE [i \in 1..Len(Order(clients)) |->
             [kind |-> kind, client |-> Order(clients)[i], id |-> id]]

send_subscription(q, clients, id) == Commands(q, "subscribe", clients, id)
send_unsubscription(q, clients, id) == Commands(q, "unsubscribe", clients, id)
send_expired_subscription(q, clients, id) == Commands(q, "expire", clients, id)

\* The new state and the commands sent, when subscription x arrives. The
\* callback is made where nothing is left to decide, or to join a decision.
on_remote_subscribe(q, x) ==
    LET o == q.objs[x]
        known == Matching(q, o.who) # {}
        changed == Changed(q.objs[First(q, o.who)], DOMAIN o.clients, TRUE)
        u == update_remote_subscription(q, x, TRUE)
        refused == [q EXCEPT !.objs[x].clients = [c \in DOMAIN @ |-> "NACKED"]]
        a == add_remote_subscription(q, x)
    IN IF known
       THEN IF is_pending(u.objs[x]) /\ changed # {}
            THEN <<u, send_subscription(u, changed, u.objs[x].id)>>
            ELSE <<Decided(u, x), <<>>>>
       ELSE IF is_remote_subscription_limit_reached(q, o.who)
       THEN <<Decided([refused EXCEPT !.overLimit = @ \/
                 Cardinality({y \in q.table : Address(q.objs[y].who) = Address(o.who)})
                     < MaxRemoteSubscribers], x), <<>>>>
       ELSE <<a, send_subscription(a, DOMAIN o.clients, a.objs[x].id)>>

on_remote_unsubscribe(q, x) ==
    IF Matching(q, q.objs[x].who) = {} THEN <<q, <<>>>>
    ELSE LET y == First(q, q.objs[x].who)
         IN <<update_remote_subscription(q, x, FALSE),
              send_unsubscription(q, Changed(q.objs[y], DOMAIN q.objs[x].clients, FALSE),
                                  q.objs[y].id)>>

\* Applies a withdrawal to each subscription of a set; the requests add up.
RECURSIVE Each(_, _, _, _)
Each(Op(_, _), q, r, xs) ==
    IF xs = {} THEN <<q, r>>
    ELSE LET x == CHOOSE z \in xs : \A y \in xs : q.objs[z].id <= q.objs[y].id
             u == Op([q EXCEPT !.objs[x].expired = TRUE], x)
         IN Each(Op, u[1], r \o u[2], xs \ {x})

\* The consumers are no longer subscribed; after a reboot they start anew.
Forgotten(q, ws, reboot) ==
    [q EXCEPT !.view = [p \in DOMAIN @ |-> IF p[1] \in ws THEN "idle" ELSE @[p]],
              !.fed = [w \in Subscribers |-> @[w] /\ ~(reboot /\ w \in ws)]]

\* expire_subscriptions of an address: a detected reboot, or sd_acceptance_enabled.
expire_address(q, a) ==
    Each(on_remote_unsubscribe, Forgotten(q, {w \in Subscribers : Address(w) = a}, TRUE), <<>>,
         {x \in q.table : Address(q.objs[x].who) = a /\ ~q.objs[x].expired})

\* expire_subscriptions by time to live: each of the subscriptions collected is
\* withdrawn with all of its clients, and its (first equal) entry removed.
ExpireOne(q, x) ==
    LET w == q.objs[x].who
        y == First(q, w)
    IN IF Matching(q, w) = {} THEN <<q, <<>>>>
       ELSE <<remove_remote_subscription(update_remote_subscription(q, x, FALSE),
                                         q.objs[y].id),
              send_expired_subscription(q, Changed(q.objs[y], DOMAIN q.objs[x].clients, FALSE),
                                        q.objs[x].id)>>

\* The subscriptions of w that have a client whose expiration is set.
Expirable(q, w) == {x \in q.table : /\ q.objs[x].who = w
                                   /\ ~q.objs[x].expired /\ q.objs[x].timed # {}}

expire_subscriptions(q, w) == Each(ExpireOne, Forgotten(q, {w}, FALSE), <<>>, Expirable(q, w))

\* The provider's answers.
Settle(q, y, client, state) ==
    LET p == get_parent(q, y)
        s == [q EXCEPT !.objs = [z \in DOMAIN @ |->
                IF z \in {y, p} THEN set_client_state(@[z], client, state) ELSE @[z]]]
        t == IF p # 0 /\ ~is_pending(s.objs[y])
             THEN remove_remote_subscription(s, s.objs[y].id) ELSE s
    IN Decided(t, y)

on_subscribe_ack(q, client, id) ==
    IF Entry(q, id) = {} THEN q
    ELSE Settle(q, CHOOSE y \in Entry(q, id) : TRUE, client, "ACKED")

on_subscribe_nack(q, client, remove, id) ==
    IF Entry(q, id) = {} THEN q
    ELSE LET s == Settle(q, CHOOSE y \in Entry(q, id) : TRUE, client, "NACKED")
         IN IF remove THEN remove_remote_subscription(s, id) ELSE s

on_unsubscribe_ack(q, id) == remove_remote_subscription(q, id)

-----------------------------------------------------------------------------
(* service_discovery_impl::on_message                                       *)

NewObject(e, a, force) ==
    [who |-> e.who, ttl |-> e.ttl, clients |-> [c \in e.clients |-> "PENDING"],
     timed |-> {}, parent |-> 0, answers |-> 1, id |-> 0, expired |-> FALSE,
     initial |-> TRUE, force |-> force, ack |-> a]

\* A subscription object joins the acknowledgement of its message.
Joined(q, e, force) ==
    LET a == Len(q.acks)
        x == Len(q.objs) + 1
    IN [q EXCEPT !.objs = Append(@, NewObject(e, a, force)), !.waiting = @ \cup {x},
                 !.acks[a].subs = @ \cup {x}]

\* What an entry makes of the consumer's view.
Viewed(q, e, state, renew) ==
    [q EXCEPT !.view = [p \in DOMAIN @ |->
                 IF p[1] = e.who /\ p[2] \in e.clients /\ ~(e.ttl /\ @[p] = "acked")
                 THEN state ELSE @[p]],
              !.fed[e.who] = @ /\ ~renew]

insert_subscription_ack(q, e) ==
    [q EXCEPT !.acks[Len(q.acks)].nacks = @ \cup ({e.who} \X e.clients)]

\* A StopSubscribe followed by its own Subscribe is skipped: the Subscribe then
\* forces the initial events. A refused entry is answered by the routing host.
handle_eventgroup_subscription(q, e, stopSubscribeSubscribe, force) ==
    LET x == Len(q.objs) + 1
    IN IF ~e.ttl
       THEN IF ~e.valid \/ stopSubscribeSubscribe THEN <<q, <<>>>>
            ELSE on_remote_unsubscribe(Joined(Viewed(q, e, "idle", TRUE), e, FALSE), x)
       ELSE IF ~e.valid \/ ~q.offered
       THEN <<insert_subscription_ack(Viewed(q, e, "asked", FALSE), e), <<>>>>
       ELSE on_remote_subscribe(Joined(Viewed(q, e, "asked", FALSE), e, force), x)

\* Whether a later entry of the message equals this one, or is its Subscribe.
has_same(e, rest) == \E i \in DOMAIN rest : rest[i] = e
has_opposite(e, rest) ==
    ~e.ttl /\ \E i \in DOMAIN rest : rest[i].ttl /\ rest[i].who = e.who
                                     /\ rest[i].clients = e.clients

process_eventgroupentry(q, e, rest) ==
    IF has_same(e, rest) THEN <<q, <<>>>>
    ELSE LET paired == has_opposite(e, rest)
             r == handle_eventgroup_subscription(q, e, paired, q.paired)
         IN <<[r[1] EXCEPT !.paired = paired], r[2]>>

\* Bug: what was decided while the message was processed is not looked at again.
Completed_NotUpdated(q) ==
    LET a == Len(q.acks)
        c == [q EXCEPT !.acks[a].complete = TRUE]
    IN IF c.acks[a].subs # {} THEN c ELSE send_subscription_ack(c, a)

\* complete(), and the answer if nothing has to be waited for.
Completed(q) ==
    LET a == Len(q.acks)
        c == [q EXCEPT !.acks[a].complete = TRUE]
    IN IF c.acks[a].subs # {} THEN update_acknowledgement(c, a)
       ELSE send_subscription_ack(c, a)

-----------------------------------------------------------------------------
(* Steps                                                                    *)

\* Objects and acknowledgements nobody holds any more.
Gone == [who |-> "gone"]
Collected(q) ==
    LET held == {q.objs[x].ack : x \in q.waiting}
    IN [q EXCEPT !.objs = [x \in DOMAIN @ |-> IF Alive(q, x) THEN @[x] ELSE Gone],
                 !.acks = [a \in DOMAIN @ |->
                    IF a \in held \/ ~@[a].complete THEN @[a]
                    ELSE [subs |-> {}, nacks |-> {}, complete |-> TRUE, done |-> TRUE]]]

\* A Subscribe of w overlaps the withdrawal of its predecessor: a child is in the
\* table. A consumer then does not withdraw, reboot or expire until it is decided
\* (nor renew, if the provider may refuse).
Overlapping(q, w) == \E y \in Matching(q, w) : q.objs[y].parent # 0

\* on_message begins; a message that shows a reboot expires the subscriptions
\* of its sender first.
on_message(m, reboot) ==
    LET q == [router EXCEPT !.acks = Append(@, [subs |-> {}, nacks |-> {},
                                                complete |-> FALSE, done |-> FALSE]),
                            !.paired = FALSE,
                            !.lapses = IF reboot THEN @ + 1 ELSE @]
        e == expire_address(q, Address(m[1].who))
    IN /\ msg = <<>>
       /\ \A a \in DOMAIN router.acks : router.acks[a].complete
       /\ Len(router.acks) < MaxMessages
       /\ reboot => router.lapses < MaxLapses
       /\ \A w \in Subscribers : Overlapping(router, w) =>
             /\ reboot => Address(w) # Address(m[1].who)
             /\ \A i \in DOMAIN m : m[i].who = w => m[i].ttl /\ ~Refuses
       /\ msg' = m
       /\ router' = IF reboot THEN e[1] ELSE q
       /\ requests' = IF reboot THEN requests \o e[2] ELSE requests
       /\ UNCHANGED <<answers, provider>>

\* The next entry is processed.
ProcessEntry ==
    /\ msg # <<>>
    /\ LET r == process_eventgroupentry(router, Head(msg), Tail(msg))
       IN /\ msg' = Tail(msg)
          /\ router' = Collected(r[1])
          /\ requests' = requests \o r[2]
    /\ UNCHANGED <<answers, provider>>

Complete ==
    /\ msg = <<>> /\ router.acks # <<>> /\ ~router.acks[Len(router.acks)].complete
    /\ UNCHANGED <<msg, requests, answers, provider>>
    /\ router' = Collected(Completed(router))

\* The provider handles a command and answers. (routing_manager_client::on_message)
get_remote_subscriber_count(increment) ==
    IF increment THEN provider.count + 1
    ELSE IF provider.count > 0 THEN provider.count - 1 ELSE 0

Reply(kind) == Append(answers, [Head(requests) EXCEPT !.kind = kind])

insert_subscription == provider' = [count |-> get_remote_subscriber_count(TRUE),
                                    subscribed |-> TRUE]

\* The routing client is unsubscribed with the last remote subscriber.
unsubscribe_base ==
    LET n == get_remote_subscriber_count(FALSE)
    IN provider' = [count |-> n, subscribed |-> provider.subscribed /\ n > 0]

\* The provider takes the next command, and its handler has answered.
Handling(kind) == /\ requests # <<>> /\ Head(requests).kind = kind
                  /\ requests' = Tail(requests)
                  /\ UNCHANGED <<router, msg>>

ProviderAccepts == /\ Handling("subscribe") /\ router.offered
                   /\ insert_subscription
                   /\ answers' = Reply("ack")

ProviderRefuses == /\ Handling("subscribe") /\ (Refuses \/ ~router.offered)
                   /\ answers' = Reply("nack")
                   /\ UNCHANGED provider

ProviderUnsubscribes == /\ Handling("unsubscribe") /\ unsubscribe_base
                        /\ answers' = Reply("unsubscribed")

ProviderExpires == Handling("expire") /\ unsubscribe_base /\ UNCHANGED answers

\* The command cannot be sent: the routing host answers itself.
SendFails == /\ Refuses /\ requests # <<>> /\ requests' = Tail(requests)
             /\ answers' = CASE Head(requests).kind = "subscribe" -> Reply("failed")
                             [] Head(requests).kind = "unsubscribe" -> Reply("unsubscribed")
                             [] OTHER -> answers
             /\ UNCHANGED <<router, msg, provider>>

\* An answer reaches the routing host.
OnAnswer ==
    LET c == Head(answers)
    IN /\ answers # <<>>
       /\ answers' = Tail(answers)
       /\ router' = Collected(
             CASE c.kind = "ack" -> on_subscribe_ack(router, c.client, c.id)
               [] c.kind = "nack" -> on_subscribe_nack(router, c.client, FALSE, c.id)
               [] c.kind = "failed" -> on_subscribe_nack(router, c.client, TRUE, c.id)
               [] OTHER -> on_unsubscribe_ack(router, c.id))
       /\ UNCHANGED <<msg, requests, provider>>

Lapse(r) ==
    /\ router.lapses < MaxLapses
    /\ router' = [Collected(r[1]) EXCEPT !.lapses = @ + 1]
    /\ requests' = requests \o r[2]

\* The expiration timer: the time to live of a consumer's Subscribe has passed.
ExpireDue == /\ \E w \in Subscribers :
                   /\ Expirable(router, w) # {} /\ ~Overlapping(router, w)
                   /\ Lapse(expire_subscriptions(router, w))
             /\ UNCHANGED <<msg, answers, provider>>

\* The provider stops offering the service, between two messages, and offers it
\* again.
StopOffer ==
    /\ router.offered /\ msg = <<>>
    /\ Lapse(<<[clear_remote_subscriptions(router)
                  EXCEPT !.offered = FALSE,
                         !.view = [p \in DOMAIN @ |-> "idle"],
                         !.fed = [w \in Subscribers |-> FALSE]], <<>>>>)
    /\ provider' = [count |-> 0, subscribed |-> FALSE]
    /\ UNCHANGED <<msg, answers>>

Offer == /\ ~router.offered
         /\ router' = [router EXCEPT !.offered = TRUE]
         /\ UNCHANGED <<msg, requests, answers, provider>>

Next == \/ \E m \in Messages, reboot \in BOOLEAN : on_message(m, reboot)
        \/ ProcessEntry
        \/ Complete
        \/ ProviderAccepts \/ ProviderRefuses \/ ProviderUnsubscribes \/ ProviderExpires
        \/ SendFails
        \/ OnAnswer
        \/ ExpireDue
        \/ StopOffer
        \/ Offer

Spec == Init /\ [][Next]_vars

-----------------------------------------------------------------------------
(* Properties                                                               *)

Quiet == /\ msg = <<>> /\ requests = <<>> /\ answers = <<>>
         /\ \A a \in DOMAIN router.acks : router.acks[a].complete

\* Every Subscribe is answered: once the provider has decided everything it was
\* asked, no consumer still waits for the answer to its last SubscribeEventgroup,
\* however renewals, stops and reboots overlapped the decision.
\* (update_acknowledgement, remote_subscription::answers_)
Answered == Quiet => \A p \in DOMAIN router.view : router.view[p] # "asked"

\* A consumer that holds an acknowledgement is an entry of subscriptions_, so
\* that events are sent to it; children that are merged into their parent, and
\* entries removed by a late unsubscribe answer, do not take it with them.
AckedIsKnown ==
    Quiet => \A p \in DOMAIN router.view : router.view[p] = "acked" =>
                \E y \in router.table : /\ router.objs[y].who = p[1]
                                        /\ p[2] \in DOMAIN router.objs[y].clients

\* An acknowledged consumer was sent the initial events of its subscription,
\* also when the Subscribe met one that was undecided, or being withdrawn.
\* (set_initial in eventgroupinfo::update_remote_subscription)
InitialEvents ==
    Quiet => \A p \in DOMAIN router.view : router.view[p] = "acked" => router.fed[p[1]]

\* max_remote_subscribers_ refuses a subscriber only if its address really
\* holds that many subscriptions. (remote_subscribers_count_)
RefusedAtLimit == ~router.overLimit

\* As long as a consumer is acknowledged, the provider keeps the subscription of
\* the routing client, without which it sends no event to the routing host.
\* ("withdraw subscription only if no more remote subscriber exists")
WithdrawnLast ==
    Quiet => \A p \in DOMAIN router.view : router.view[p] = "acked" => provider.subscribed
=============================================================================
