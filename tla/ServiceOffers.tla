-------------------------- MODULE ServiceOffers --------------------------
(***************************************************************************)
(* How the routing host decides who provides a service, and whom it tells: *)
(* offer_service, stop_offer_service, request_service, release_service,    *)
(* on_pong and cleanup_client of routing_manager_impl with the functions   *)
(* of routing_manager_stub they call, and on_routing_info of the clients.  *)
(*                                                                         *)
(* An offer of a service that has a provider already pings that provider   *)
(* and waits (pending_offers_): a pong rejects the new offer, a timeout    *)
(* ends the connection of the old provider, whose cleanup offers again for *)
(* the new one.  A client that requests a service for a second time makes  *)
(* the host ping its provider too (pending_requests_).                     *)
(*                                                                         *)
(* Messages of different clients are handled by different io threads, as   *)
(* are the ping timer and the cleanup of a client.  mutex_ is held by      *)
(* offers, stopped offers and the deregistration of a dead client from     *)
(* beginning to end (hold); requests and pongs only take the mutexes of    *)
(* the tables they touch, so they run between the steps of those.          *)
(*                                                                         *)
(* A key stands for service, instance, major and minor version.  Remote    *)
(* offers and service discovery are left out.                              *)
(***************************************************************************)
EXTENDS Naturals, Sequences, FiniteSets

CONSTANTS Providers,   \* clients that offer services
          Requesters,  \* clients that request services
          Keys,        \* services
          None,
          MayOverflow, \* whether the queue to a client may be full when a ping is sent
          MaxInbox,    \* messages on their way to a client while another may be sent
          MaxSends,    \* messages the clients send, pongs not counted
          MaxFails     \* connections that break by themselves

Clients == Providers \cup Requesters

ASSUME OffersAssumption ==
    /\ None \notin Clients /\ None \notin Keys /\ IsFiniteSet(Keys)
    /\ MayOverflow \in BOOLEAN
    /\ MaxInbox \in Nat /\ MaxSends \in Nat /\ MaxFails \in Nat

VARIABLES h,         \* tables of the host
          endpoints, \* clients with a routing endpoint
          hold,      \* what the thread that holds mutex_ still has to do
          handler,   \* the message of each client that is sent or being handled
          failing,   \* clients whose cleanup handler is posted or running
          cleaning,  \* clients deregistered by cleanup_client, pending commands not yet
          reoffers,  \* pending offers of dead clients cleanup_client still has to offer
          wants,     \* requests_ of the clients
          view,      \* available_services_ of the clients
          inbox,     \* ROUTING_INFO on its way to the clients
          asked,     \* clients with a ping to answer
          count,     \* messages sent and connections broken so far
          spoiled,   \* history: keys that got a provider without asking the old one, or
                     \* one that is not connected any more
          late       \* history: requests sent with the answer to an older one on its way

client == <<wants, view, asked, late>>
vars == <<h, endpoints, hold, handler, failing, cleaning, reoffers, inbox, spoiled, count, client>>

Pairs == Clients \X Keys
Free == [op |-> "free", client |-> None, key |-> None, by |-> None]
Idle == [op |-> "idle", key |-> None, to |-> None, todo |-> {}]
Message(op, k) == [Idle EXCEPT !.op = op, !.key = k]
NoRequest == [old |-> None, by |-> {}]
NoOffer == [new |-> None, old |-> None]

Init ==
    /\ h = [table |-> [k \in Keys |-> None],     \* local_services_table_
            info |-> {},                         \* services_ with a local serviceinfo
            routing |-> {},                      \* routing_info_
            requested |-> {},                    \* requested_services_
            offers |-> [k \in Keys |-> NoOffer],     \* pending_offers_
            requests |-> [k \in Keys |-> NoRequest], \* pending_requests_
            pinged |-> {},                       \* pinged_clients_
            timer |-> FALSE]                     \* pinged_clients_timer_ is armed
    /\ endpoints = {} /\ failing = {} /\ cleaning = {} /\ reoffers = {}
    /\ hold = Free
    /\ handler = [c \in Clients |-> Idle]
    /\ wants = {} /\ asked = {} /\ spoiled = {} /\ late = {}
    /\ count = [sends |-> 0, fails |-> 0]
    /\ view = [p \in Pairs |-> None]
    /\ inbox = [c \in Clients |-> <<>>]

-----------------------------------------------------------------------------
(* Helpers of the host *)

\* Bug: a client that answered stops the timer of the others.
RemoveFromPinged_NoRearm(s, c) ==
    IF s.pinged = {} THEN s ELSE [s EXCEPT !.pinged = @ \ {c}, !.timer = FALSE]

\* remove_from_pinged_clients: cancels the timer and arms it again for the others.
RemoveFromPinged(s, c) ==
    IF s.pinged = {} THEN s
    ELSE [s EXCEPT !.pinged = @ \ {c}, !.timer = s.pinged \ {c} # {}]

\* send_ping: the client counts as pinged even if the ping cannot be queued.
SendPing(s, c) == [s EXCEPT !.pinged = @ \cup {c}, !.timer = TRUE]

\* Whether send_ping() returns true: there is an endpoint, and the client was
\* pinged before or the ping is queued.
PingSent(c, full) == c \in endpoints /\ ~full

\* Pings that are really sent.
Asked(s, c, full) ==
    IF c \notin s.pinged /\ ~full THEN asked \cup {c} ELSE asked

\* remove_pending_requests_unlocked
Removed(s, offering, requesting, c, keys) ==
    [s EXCEPT !.requests =
        [k \in Keys |->
            LET r == s.requests[k]
            IN  IF k \notin keys THEN r
                ELSE IF offering /\ r.old = c THEN NoRequest
                ELSE IF requesting /\ r.by \subseteq {c} THEN NoRequest
                ELSE IF requesting THEN [r EXCEPT !.by = @ \ {c}]
                ELSE r]]

\* The orders in which a set of services can be gone through, and one of them.
Orders(keys) ==
    {o \in [1..Cardinality(keys) -> keys] :
        /\ \A i, j \in DOMAIN o : o[i] = o[j] => i = j
        /\ \A k \in keys : \E i \in DOMAIN o : o[i] = k}
InOrder(keys) == CHOOSE o \in Orders(keys) : TRUE

\* inform_requesters for each of a set of services: ADD (p is the provider) or
\* DELETE (p is None), to every requester that has an endpoint.
Informed(s, p, keys) ==
    [c \in Clients |->
        LET told == {k \in keys : <<c, k>> \in s.requested /\ c \in endpoints}
            order == InOrder(told)
        IN  inbox[c] \o [i \in DOMAIN order |-> [key |-> order[i], provider |-> p]]]

\* Bug: whoever stops an offer, the service leaves the table.
StoppedAtHost_AnyClient(s, c, keys) ==
    [s EXCEPT !.table = [k \in Keys |-> IF k \in keys THEN None ELSE @[k]],
              !.info = @ \ keys]

\* The host's part of on_stop_offer_service_unlocked: only the provider leaves the
\* table, but the service information goes whoever stops.
StoppedAtHost(s, c, keys) ==
    [s EXCEPT !.table = [k \in Keys |-> IF k \in keys /\ @[k] = c THEN None ELSE @[k]],
              !.info = @ \ keys]

\* The stub's part of it.
StoppedAtStub(s, c, keys) == [s EXCEPT !.routing = @ \ ({c} \X keys)]

\* The thread that holds mutex_ is done: so is the message it came with, if it
\* is not a cleanup that offers again.
Done == handler' = IF hold.by = None THEN handler ELSE [handler EXCEPT ![hold.by] = Idle]

-----------------------------------------------------------------------------
(* Clients *)

\* A client is registered (on_register_application); identifiers are handed out
\* in turn, so the handlers of a former owner have ended.
Register(c) ==
    /\ c \notin endpoints \cup failing \cup cleaning /\ handler[c] = Idle
    /\ endpoints' = endpoints \cup {c}
    /\ UNCHANGED <<count, h, hold, handler, failing, cleaning, reoffers, inbox, spoiled, client>>

\* A client sends a message: one at a time, and none while the host is more than
\* MaxInbox messages ahead of a client that does not read.
Send(c, op, k) ==
    /\ c \in endpoints /\ handler[c] = Idle
    /\ \A d \in Clients : Len(inbox[d]) < MaxInbox
    /\ op # "pong" => count.sends < MaxSends
    /\ count' = IF op = "pong" THEN count ELSE [count EXCEPT !.sends = @ + 1]
    /\ handler' = [handler EXCEPT ![c] = Message(op, k)]
    /\ UNCHANGED <<h, endpoints, hold, failing, cleaning, reoffers, inbox, spoiled>>

SendOffer(c, k) ==
    /\ c \in Providers /\ Send(c, "offer", k) /\ UNCHANGED client

SendStop(c, k) ==
    /\ c \in Providers /\ Send(c, "stop", k) /\ UNCHANGED client

\* A pong is being handled that will answer the client's second request.
BeingAnswered(c, k) ==
    \E d \in Clients : <<c, k>> \in handler[d].todo
                       \/ (handler[d].op = "tell" /\ handler[d].to = c /\ handler[d].key = k)

\* request_service, or cleanup_client of a peer, which drops what was known of the
\* peer's services and requests them again.
SendRequest(c, k) ==
    /\ c \in Requesters /\ Send(c, "request", k)
    /\ <<c, k>> \notin wants \/ view[<<c, k>>] # None
    /\ wants' = wants \cup {<<c, k>>}
    /\ view' = [view EXCEPT ![<<c, k>>] = None]
    /\ late' = IF <<c, k>> \notin wants
                  /\ (BeingAnswered(c, k) \/ \E i \in DOMAIN inbox[c] : inbox[c][i].key = k)
               THEN late \cup {<<c, k>>} ELSE late
    /\ UNCHANGED asked

SendRelease(c, k) ==
    /\ <<c, k>> \in wants /\ Send(c, "release", k)
    /\ wants' = wants \ {<<c, k>>}
    /\ view' = [view EXCEPT ![<<c, k>>] = None]
    /\ UNCHANGED <<asked, late>>

SendPong(c) ==
    /\ c \in asked /\ Send(c, "pong", None)
    /\ asked' = asked \ {c}
    /\ UNCHANGED <<wants, view, late>>

\* on_routing_info: an ADD of a service that is not requested any more is ignored.
OnRoutingInfo(c) ==
    /\ inbox[c] # <<>>
    /\ LET m == Head(inbox[c])
       IN  view' = IF m.provider # None /\ <<c, m.key>> \notin wants THEN view
                   ELSE [view EXCEPT ![<<c, m.key>>] = m.provider]
    /\ inbox' = [inbox EXCEPT ![c] = Tail(@)]
    /\ UNCHANGED <<count, h, endpoints, hold, handler, failing, cleaning, reoffers, spoiled,
                   wants, asked, late>>

\* The connection to a client breaks.
Fails(c) ==
    /\ c \in endpoints \ failing
    /\ count.fails < MaxFails /\ count' = [count EXCEPT !.fails = @ + 1]
    /\ failing' = failing \cup {c}
    /\ UNCHANGED <<h, endpoints, hold, handler, cleaning, reoffers, inbox, spoiled, client>>

-----------------------------------------------------------------------------
(* Offers *)

\* offer_service up to its call of the stub: handle_local_offer_service.
OfferService(c, k, by, full) ==
    LET old == h.table[k]
        ask == old \notin {None, c} /\ h.offers[k] = NoOffer /\ old \in endpoints
        pinged == IF ask THEN SendPing(h, old) ELSE h
        refuse == old = c \/ (old # None /\ h.offers[k] # NoOffer)
        pends == ask /\ PingSent(old, full)
    IN  /\ hold = Free
        /\ full => (MayOverflow /\ ask /\ old \notin h.pinged)
        /\ asked' = IF ask THEN Asked(h, old, full) ELSE asked
        /\ IF refuse \/ pends
           THEN /\ h' = IF refuse THEN h
                        ELSE [pinged EXCEPT !.offers[k] = [new |-> c, old |-> old]]
                /\ handler' = IF by = None THEN handler ELSE [handler EXCEPT ![by] = Idle]
                /\ UNCHANGED <<hold, spoiled>>
           ELSE /\ h' = [pinged EXCEPT !.table[k] = c, !.info = @ \cup {k}]
                /\ hold' = [op |-> "offer", client |-> c, key |-> k, by |-> by]
                /\ spoiled' = IF old = None /\ c \in endpoints THEN spoiled ELSE spoiled \cup {k}
                /\ UNCHANGED handler
        /\ UNCHANGED <<count, endpoints, failing, cleaning, inbox, wants, view, late>>

\* OFFER_SERVICE of a client.
HandleOffer(c, full) ==
    /\ handler[c].op = "offer"
    /\ OfferService(c, handler[c].key, c, full)
    /\ UNCHANGED reoffers

\* The last loop of cleanup_client.
OfferAgain(c, k, full) ==
    /\ <<c, k>> \in reoffers
    /\ OfferService(c, k, None, full)
    /\ reoffers' = reoffers \ {<<c, k>>}

\* on_offer_service of the stub.
OnOfferService ==
    /\ hold.op = "offer"
    /\ h' = [h EXCEPT !.routing = @ \cup {<<hold.client, hold.key>>}]
    /\ inbox' = Informed(h, hold.client, {hold.key})
    /\ hold' = Free /\ Done
    /\ UNCHANGED <<count, endpoints, failing, cleaning, reoffers, spoiled, client>>

\* stop_offer_service up to its call of the stub.
StopOfferService(c) ==
    LET k == handler[c].key
    IN  /\ handler[c].op = "stop" /\ hold = Free
        /\ IF k \in h.info
           THEN /\ h' = StoppedAtHost(h, c, {k})
                /\ hold' = [op |-> "stop", client |-> c, key |-> k, by |-> c]
                /\ UNCHANGED handler
           ELSE /\ handler' = [handler EXCEPT ![c] = Idle]
                /\ UNCHANGED <<h, hold>>
        /\ UNCHANGED <<count, endpoints, failing, cleaning, reoffers, inbox, spoiled, client>>

\* on_stop_offer_service of the stub, and remove_pending_requests after it.
OnStopOfferService ==
    LET c == hold.client
        k == hold.key
        known == <<c, k>> \in h.routing
    IN  /\ hold.op = "stop"
        /\ h' = Removed(StoppedAtStub(h, c, {k}), TRUE, FALSE, c, {k})
        /\ inbox' = IF known THEN Informed(h, None, {k}) ELSE inbox
        /\ hold' = Free /\ Done
        /\ UNCHANGED <<count, endpoints, failing, cleaning, reoffers, spoiled, client>>

-----------------------------------------------------------------------------
(* Requests *)

\* REQUEST_SERVICE up to handle_requests: has_client_requested,
\* handle_service_rerequest and request_service.
RequestService(c, full) ==
    LET k == handler[c].key
        old == h.table[k]
        again == <<c, k>> \in h.requested /\ old # None
        joins == again /\ h.requests[k] # NoRequest /\ h.requests[k].old = old
        ask == again /\ ~joins /\ old \in endpoints
        pends == ask /\ PingSent(old, full)
        pinged == IF ask THEN SendPing(h, old) ELSE h
    IN  /\ handler[c].op = "request"
        /\ full => (MayOverflow /\ ask /\ old \notin h.pinged)
        /\ asked' = IF ask THEN Asked(h, old, full) ELSE asked
        /\ h' = IF joins THEN [h EXCEPT !.requests[k].by = @ \cup {c}]
                ELSE IF pends THEN [pinged EXCEPT !.requests[k] = [old |-> old, by |-> {c}]]
                ELSE [pinged EXCEPT !.requested = @ \cup {<<c, k>>}]
        /\ handler' = [handler EXCEPT ![c] = IF joins \/ pends THEN Idle
                                             ELSE [op |-> "tell", key |-> k, to |-> c, todo |-> {}]]
        /\ UNCHANGED <<count, endpoints, hold, failing, cleaning, reoffers, inbox, spoiled,
                       wants, view, late>>

\* handle_requests: tells the requester of the provider the table and the routing
\* information agree on.  on_deregister_application keeps it out while it
\* removes a client.
HandleRequests(c) ==
    LET m == handler[c]
        p == h.table[m.key]
        told == <<p, m.key>> \in h.routing /\ m.to \in endpoints
    IN  /\ m.op = "tell" /\ hold.op # "deregister"
        /\ inbox' = IF told THEN [inbox EXCEPT ![m.to] = Append(@, [key |-> m.key, provider |-> p])]
                    ELSE inbox
        /\ handler' = [handler EXCEPT ![c] = IF m.todo = {} THEN Idle
                                             ELSE [Idle EXCEPT !.op = "answer", !.todo = m.todo]]
        /\ UNCHANGED <<count, h, endpoints, hold, failing, cleaning, reoffers, spoiled, client>>

\* RELEASE_SERVICE; the same for each service in remove_local.
ReleaseService(c) ==
    LET k == handler[c].key
    IN  /\ handler[c].op = "release"
        /\ h' = IF <<c, k>> \notin h.requested THEN h
                ELSE Removed([h EXCEPT !.requested = @ \ {<<c, k>>}], FALSE, TRUE, c, {k})
        /\ handler' = [handler EXCEPT ![c] = Idle]
        /\ UNCHANGED <<count, endpoints, hold, failing, cleaning, reoffers, inbox, spoiled, client>>

-----------------------------------------------------------------------------
(* Pings *)

\* PONG: on_pong of the stub.
OnPong(c) ==
    /\ handler[c].op = "pong"
    /\ h' = RemoveFromPinged(h, c)
    /\ handler' = [handler EXCEPT ![c] = Message("decide", None)]
    /\ UNCHANGED <<count, endpoints, hold, failing, cleaning, reoffers, inbox, spoiled, client>>

\* on_pong of the host under services_state_mutex_: the offers that waited for this
\* client are rejected, the requests are taken out to be processed.
OnPongDecide(c) ==
    LET todo == {p \in Pairs : h.requests[p[2]].old = c /\ p[1] \in h.requests[p[2]].by}
    IN  /\ handler[c].op = "decide"
        /\ h' = [h EXCEPT !.offers = [k \in Keys |-> IF @[k].old = c THEN NoOffer ELSE @[k]],
                          !.requests = [k \in Keys |-> IF @[k].old = c THEN NoRequest ELSE @[k]]]
        /\ handler' = [handler EXCEPT ![c] = IF todo = {} THEN Idle
                                             ELSE [Idle EXCEPT !.op = "answer", !.todo = todo]]
        /\ UNCHANGED <<count, endpoints, hold, failing, cleaning, reoffers, inbox, spoiled, client>>

\* The loop of on_pong: request_service for one of the requesters; handle_requests
\* follows.
OnPongAnswer(c) ==
    /\ handler[c].op = "answer"
    /\ \E p \in handler[c].todo :
        /\ h' = [h EXCEPT !.requested = @ \cup {p}]
        /\ handler' = [handler EXCEPT ![c] = [op |-> "tell", key |-> p[2], to |-> p[1],
                                              todo |-> @.todo \ {p}]]
    /\ UNCHANGED <<count, endpoints, hold, failing, cleaning, reoffers, inbox, spoiled, client>>

\* Bug: clients that did not answer in time are only forgotten.
OnPingTimerExpired_Forgets(expired) ==
    /\ h.timer /\ expired \subseteq h.pinged
    /\ h' = [h EXCEPT !.pinged = @ \ expired, !.timer = h.pinged \ expired # {}]
    /\ UNCHANGED <<count, endpoints, hold, handler, failing, cleaning, reoffers, inbox, spoiled, client>>

\* on_ping_timer_expired: the clients whose time is over (some may be left) get an
\* error on their endpoint.
OnPingTimerExpired(expired) ==
    /\ h.timer /\ expired \subseteq h.pinged
    /\ failing' = failing \cup (expired \cap endpoints)
    /\ h' = [h EXCEPT !.pinged = @ \ expired, !.timer = h.pinged \ expired # {}]
    /\ UNCHANGED <<count, endpoints, hold, handler, cleaning, reoffers, inbox, spoiled, client>>

-----------------------------------------------------------------------------
(* cleanup_client *)

\* deregister_client takes routing_info_mutex_ and drops the pending requests.
Deregister(c) ==
    /\ c \in failing /\ hold = Free
    /\ h' = Removed(h, TRUE, TRUE, c, Keys)
    /\ hold' = [op |-> "deregister", client |-> c, key |-> None, by |-> None]
    /\ UNCHANGED <<count, endpoints, handler, failing, cleaning, reoffers, inbox, spoiled, client>>

\* Bug: the offers of a dead client are dropped without telling the requesters.
OnDeregisterApplication_Silent ==
    LET c == hold.client
        keys == {k \in Keys : <<c, k>> \in h.routing}
    IN  /\ hold.op = "deregister"
        /\ h' = StoppedAtStub(StoppedAtHost(h, c, keys), c, keys)
        /\ hold' = [hold EXCEPT !.op = "remove"]
        /\ UNCHANGED <<count, endpoints, handler, failing, cleaning, reoffers, inbox, spoiled, client>>

\* on_deregister_application stops every offer the routing information has.
OnDeregisterApplication ==
    LET c == hold.client
        keys == {k \in Keys : <<c, k>> \in h.routing}
    IN  /\ hold.op = "deregister"
        /\ h' = StoppedAtStub(StoppedAtHost(h, c, keys), c, keys)
        /\ inbox' = Informed(h, None, keys)
        /\ hold' = [hold EXCEPT !.op = "remove"]
        /\ UNCHANGED <<count, endpoints, handler, failing, cleaning, reoffers, spoiled, client>>

\* The rest of deregister_client: remove_from_pinged_clients and remove_local.  With
\* its endpoint the client loses what it knew and what was on its way to it.
RemoveLocal ==
    LET c == hold.client
        mine == {c} \X Keys
        pinged == RemoveFromPinged(h, c)
    IN  /\ hold.op = "remove"
        /\ h' = Removed([pinged EXCEPT !.table = [k \in Keys |-> IF @[k] = c THEN None ELSE @[k]],
                                       !.requested = @ \ mine],
                        FALSE, TRUE, c, {k \in Keys : <<c, k>> \in h.requested})
        /\ endpoints' = endpoints \ {c}
        /\ failing' = failing \ {c} /\ cleaning' = cleaning \cup {c}
        /\ wants' = wants \ mine /\ late' = late \ mine /\ asked' = asked \ {c}
        /\ view' = [p \in Pairs |-> IF p \in mine THEN None ELSE view[p]]
        /\ inbox' = [inbox EXCEPT ![c] = <<>>]
        /\ hold' = Free
        /\ UNCHANGED <<count, handler, reoffers, spoiled>>

\* The rest of cleanup_client under services_state_mutex_.
CleanupPending(c) ==
    LET waiting == {k \in Keys : h.offers[k].old = c}
    IN  /\ c \in cleaning
        /\ h' = [Removed(h, TRUE, TRUE, c, Keys) EXCEPT
                   !.offers = [k \in Keys |-> IF k \in waiting THEN NoOffer ELSE @[k]]]
        /\ reoffers' = reoffers \cup {<<h.offers[k].new, k>> : k \in waiting}
        /\ cleaning' = cleaning \ {c}
        /\ UNCHANGED <<count, endpoints, hold, handler, failing, inbox, spoiled, client>>

-----------------------------------------------------------------------------
Environment(c) ==
    \/ Register(c) \/ Fails(c) \/ SendPong(c)
    \/ \E k \in Keys : SendOffer(c, k) \/ SendStop(c, k) \/ SendRequest(c, k) \/ SendRelease(c, k)

Host(c) ==
    \/ StopOfferService(c) \/ HandleRequests(c) \/ ReleaseService(c)
    \/ OnPong(c) \/ OnPongDecide(c) \/ OnPongAnswer(c)
    \/ Deregister(c) \/ CleanupPending(c)
    \/ \E full \in BOOLEAN : HandleOffer(c, full) \/ RequestService(c, full)
    \/ \E k \in Keys, full \in BOOLEAN : OfferAgain(c, k, full)

Mutex == OnOfferService \/ OnStopOfferService \/ OnDeregisterApplication \/ RemoveLocal

Next ==
    \/ \E c \in Clients : Environment(c) \/ OnRoutingInfo(c) \/ Host(c)
    \/ Mutex
    \/ \E expired \in SUBSET Clients : OnPingTimerExpired(expired)

\* As long as an io thread has something to do, one of them does it: a step of a
\* handler, or the expiry of the timer for all the clients it watches.  Each handler
\* is finite, so with finitely many messages none is left behind.
Fairness ==
    WF_vars(Mutex \/ OnPingTimerExpired(h.pinged) \/ \E c \in Clients : Host(c))

Spec == Init /\ [][Next]_vars
FairSpec == Spec /\ Fairness

-----------------------------------------------------------------------------
(* Properties *)

HandlerOps == {"idle", "offer", "stop", "request", "release", "pong", "decide", "answer", "tell"}
MaybeClient == Clients \cup {None}

\* The tables hold what their types say: pending offers and requests name two
\* different parties, and a handler works on what its command brought.
TypeOK ==
    /\ h \in [table : [Keys -> MaybeClient], info : SUBSET Keys, routing : SUBSET Pairs,
              requested : SUBSET Pairs, offers : [Keys -> [new : MaybeClient, old : MaybeClient]],
              requests : [Keys -> [old : MaybeClient, by : SUBSET Clients]],
              pinged : SUBSET Clients, timer : BOOLEAN]
    /\ \A k \in Keys : (h.requests[k].by = {}) <=> (h.requests[k].old = None)
    /\ \A k \in Keys : h.offers[k] = NoOffer \/ h.offers[k].new # h.offers[k].old
    /\ endpoints \subseteq Clients /\ failing \subseteq endpoints /\ cleaning \subseteq Clients
    /\ reoffers \subseteq Pairs /\ wants \subseteq Pairs /\ late \subseteq Pairs
    /\ asked \subseteq endpoints /\ spoiled \subseteq Keys
    /\ hold \in [op : {"free", "offer", "stop", "deregister", "remove"}, client : MaybeClient,
                 key : Keys \cup {None}, by : MaybeClient]
    /\ handler \in [Clients -> [op : HandlerOps, key : Keys \cup {None}, to : MaybeClient,
                                todo : SUBSET Pairs]]
    /\ count \in [sends : 0..MaxSends, fails : 0..MaxFails]
    /\ view \in [Pairs -> MaybeClient]
    /\ \A c \in Clients : \A i \in DOMAIN inbox[c] :
        inbox[c][i] \in [key : Keys, provider : MaybeClient]

\* While nobody holds mutex_, the host's table (local_services_table_) and the
\* routing information of the stub (routing_info_) name the same provider of a
\* service, for any interleaving of offers, stopped offers, pings and cleanups;
\* except that a provider that was replaced without being asked stays in the
\* routing information.
TablesAgree ==
    hold = Free =>
        \A c \in Clients, k \in Keys :
            /\ h.table[k] = c => <<c, k>> \in h.routing
            /\ <<c, k>> \in h.routing => (h.table[k] = c \/ k \in spoiled)

\* What the last message about k in q says, or v if there is none.
KnownFrom(q, v, k, p) ==
    LET about == {i \in DOMAIN q : q[i].key = k}
    IN  \/ about = {} /\ v = p
        \/ \E i \in about : q[i].provider = p /\ \A j \in about : j <= i

\* What a client will know of a service once it has read what is on its way to it.
Knows(c, k, p) == KnownFrom(inbox[c], view[<<c, k>>], k, p)

\* A client whose request was handled knows the provider of the service, or that
\* there is none, as soon as it has read what is on its way to it: however its
\* request interleaves with offers, stopped offers and the end of providers, no
\* ADD or DELETE is missed or overtaken.  Not covered are services whose provider
\* was replaced without being asked or offered after its connection was cleaned
\* up, and a request sent while the answer to an earlier, released one is still
\* on its way.
RequestersInformed ==
    hold = Free =>
        \A c \in endpoints, k \in Keys :
            \/ <<c, k>> \notin wants \/ handler[c] # Idle \/ c \in failing
            \/ c \in h.requests[k].by \/ BeingAnswered(c, k)
            \/ k \in spoiled \/ <<c, k>> \in late
            \/ Knows(c, k, h.table[k])

\* Somebody is going to decide on what waits for an answer of client c.
Awaited(c) == c \in h.pinged \cup failing \cup cleaning \/ handler[c].op = "decide"

\* A pending offer or request never waits for an answer nobody expects: its
\* provider is pinged, is answering, or is being cleaned up.
PendingIsAwaited ==
    \A k \in Keys :
        /\ h.offers[k] # NoOffer => Awaited(h.offers[k].old)
        /\ h.requests[k] # NoRequest => Awaited(h.requests[k].old)

\* Every offer or second request that had to wait for the provider is decided,
\* by its pong or by the timeout.
PendingEnds ==
    \A k \in Keys :
        /\ h.offers[k] # NoOffer ~> h.offers[k] = NoOffer
        /\ \A c \in Requesters : c \in h.requests[k].by ~> c \notin h.requests[k].by
=============================================================================
