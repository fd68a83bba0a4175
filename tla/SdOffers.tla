------------------------------ MODULE SdOffers ------------------------------
(***************************************************************************)
(* How the routing host announces the services of its clients to the       *)
(* network: the part of routing_manager_impl that offers a service         *)
(* remotely, suspends and resumes, and follows the network interface, with *)
(* the offer phases of service_discovery_impl (initial wait, repetition,   *)
(* main).  It implements SdProvider.                                       *)
(*                                                                         *)
(* The entry points of routing_manager_impl hold mutex_ and are one action *)
(* each.  The timers of service discovery run on the io threads: the offer *)
(* debounce handler takes no common lock with stop_offer_service, so it is *)
(* split where it reads the state of a serviceinfo and where it sends.     *)
(*                                                                         *)
(* A service stands for service, instance and version, and has a port in   *)
(* the configuration.  A serviceinfo is one of the generations of its      *)
(* service: the code compares pointers, and a stopped serviceinfo lives on *)
(* in the timers that hold it.  Delays are left out: an armed timer may    *)
(* expire at any time.                                                     *)
(***************************************************************************)
EXTENDS Naturals, FiniteSets

CONSTANTS Services,       \* services this host may offer
          Gens,           \* serviceinfo objects of a service (recycled), numbers from 1
          RepetitionsMax  \* repetitions_max_

\* NoOffers is no serviceinfo.
ASSUME GensAssumption == 0 \notin Gens

VARIABLES p,     \* the host: routing_manager_impl and service_discovery_impl
          said   \* what its announcements since the sessions began say

vars == <<p, said>>

NoOffers == [s \in Services |-> 0]
Idle == [pc |-> "idle", offers |-> NoOffers, entries |-> {}]
NewInfo == [ttl |-> TRUE, main |-> FALSE, ready |-> FALSE]

NewHost ==
    [services |-> NoOffers,                   \* services_: the local serviceinfo
     info |-> [s \in Services |-> [g \in Gens |-> NewInfo]],
     stopped |-> [s \in Services |-> "no"],   \* last_stop_offer_: "window" or "pending"
     waiting |-> {},                          \* pending_sd_offers_
     state |-> "resumed",                     \* routing_state_
     up |-> FALSE,                            \* is_external_routing_ready
     running |-> FALSE,                       \* routing_running_
     suspended |-> FALSE,                     \* is_suspended_ of service discovery
     collected |-> NoOffers,                  \* collected_offers_
     armed |-> FALSE,                         \* offer_debounce_timer_
     cyclic |-> FALSE,                        \* main_phase_timer_
     timers |-> {},                           \* repetition_phase_timers_
     debounce |-> Idle]                       \* the handler of offer_debounce_timer_

Init == p = NewHost /\ said = {}

\* A message with these entries is sent to the multicast address.
send(entries) == said' = {s \in Services : \/ <<s, TRUE>> \in entries
                                           \/ s \in said /\ <<s, FALSE>> \notin entries}

\* sessions_sent_ is cleared: receivers take that for a reboot of this host, and
\* what was said before is void.
NewSessions == said' = {}

-----------------------------------------------------------------------------
(* serviceinfo objects and offer entries *)

Offered(offers) == {s \in Services : offers[s] # 0}
is_suspended(q) == q.state # "resumed"

Held(q, s, g) == \/ q.services[s] = g \/ q.collected[s] = g \/ q.debounce.offers[s] = g
                 \/ \E t \in q.timers : t.offers[s] = g

\* The serviceinfo objects nobody holds are destroyed.
Freed(q) == [q EXCEPT !.info = [s \in Services |-> [g \in Gens |->
                IF Held(q, s, g) THEN q.info[s][g] ELSE NewInfo]]]

\* The serviceinfo objects of offers, with f applied to them.
OfInfos(q, offers, f(_)) ==
    [q EXCEPT !.info = [s \in Services |-> [g \in Gens |->
        IF offers[s] = g THEN f(q.info[s][g]) ELSE q.info[s][g]]]]

is_ready_to_offer(q, s, g) == q.info[s][g].ready
insert_offer_service(q, s, g) == <<s, q.info[s][g].ttl>>

insert_offer_entries(q, offers, ignore_phase) ==
    {insert_offer_service(q, s, offers[s]) :
        s \in {t \in Offered(offers) : /\ ~q.suspended
                                       /\ ignore_phase \/ q.info[t][offers[t]].main
                                       /\ is_ready_to_offer(q, t, offers[t])}}

create_service_info(q, s, g) == [q EXCEPT !.services[s] = g, !.info[s][g] = NewInfo]

\* init_service_info creates the server endpoints of the services in S.
Ready(i) == [i EXCEPT !.ready = TRUE]
init_service_info(q, S) ==
    OfInfos(q, [s \in Services |-> IF s \in S THEN q.services[s] ELSE 0], Ready)

init_pending_services(q) == [init_service_info(q, q.waiting) EXCEPT !.waiting = {}]

\* offer_service of service_discovery_impl.
Collect(q, S) == [q EXCEPT !.collected = [s \in Services |->
                     IF s \in S /\ @[s] = 0 THEN q.services[s] ELSE @[s]]]

offer_remote_service(q, s) ==
    Collect(IF q.up THEN init_service_info(q, {s}) ELSE [q EXCEPT !.waiting = @ \cup {s}], {s})

-----------------------------------------------------------------------------
(* Offers of the clients *)

\* offer_service of routing_manager_impl: within the graceful window after a
\* stop-offer the service is offered to local clients only.
offer_service(s) ==
    /\ p.services[s] = 0
    /\ \E g \in Gens :
        /\ ~Held(p, s, g) /\ \A k \in Gens : k < g => Held(p, s, k)
        /\ LET q == create_service_info(p, s, g)
           IN  p' = IF p.stopped[s] = "no" THEN offer_remote_service(q, s)
                                           ELSE [q EXCEPT !.stopped[s] = "pending"]
    /\ UNCHANGED said

\* stop_offer_service of service_discovery_impl, without the sending, for the
\* serviceinfo stop[s] of each service.
Dead(i) == [i EXCEPT !.ttl = FALSE]
Drop(offers, stop) == [s \in Services |-> IF offers[s] = stop[s] THEN 0 ELSE offers[s]]

StopInfos(q, stop) ==
    [OfInfos(q, stop, Dead) EXCEPT
        !.collected = Drop(@, stop),
        !.timers = {[t EXCEPT !.offers = Drop(@, stop)] :
                       t \in {u \in @ : Offered(Drop(u.offers, stop)) # {}}}]

stop_offer_required(q, s, g) == \/ q.info[s][g].main \/ q.collected[s] = g
                                \/ \E t \in q.timers : t.offers[s] = g

send_stop_offer(q, s, g) == IF q.info[s][g].ready THEN {insert_offer_service(q, s, g)} ELSE {}

\* stop_offer_service of routing_manager_impl: a new graceful window begins,
\* whatever a window of the service still had to offer.
stop_offer_service(s) ==
    /\ p.services[s] # 0
    /\ LET g == p.services[s]
           q == StopInfos([p EXCEPT !.waiting = @ \ {s},
                              !.stopped[s] = IF is_suspended(p) THEN @ ELSE "window"],
                          [NoOffers EXCEPT ![s] = g])
       IN  /\ p' = Freed([q EXCEPT !.services[s] = 0])
           /\ IF ~q.suspended /\ stop_offer_required(p, s, g)
                 THEN send(send_stop_offer(q, s, g)) ELSE UNCHANGED said

\* stop_offer_graceful_timeout: the timer is armed unless the host is suspended.
stop_offer_graceful_timeout(s) ==
    /\ p.stopped[s] # "no" /\ p.state = "resumed"
    /\ LET q == [p EXCEPT !.stopped[s] = "no"]
       IN  p' = IF p.stopped[s] = "pending" THEN offer_remote_service(q, s) ELSE q
    /\ UNCHANGED said

-----------------------------------------------------------------------------
(* Network state, suspend and resume *)

\* start and suspend of service_discovery_impl: the repetition timers run on.
start(q) == [q EXCEPT !.suspended = FALSE, !.cyclic = TRUE, !.armed = TRUE]
suspend(q) == [q EXCEPT !.suspended = TRUE, !.armed = FALSE, !.cyclic = FALSE]

\* The branch of set_routing_state_internal for RESUMED.
Fresh(i) == [i EXCEPT !.ttl = TRUE, !.main = FALSE]

\* Bug: the offers are back in the initial wait phase but in no list.
resume_NoOffers(q) ==
    LET begun == start(OfInfos([q EXCEPT !.state = "resumed"], q.services, Fresh))
    IN  init_pending_services([begun EXCEPT !.stopped = [s \in Services |-> "no"]])

resume(q) ==
    LET begun == start(OfInfos([q EXCEPT !.state = "resumed"], q.services, Fresh))
        window == {s \in Services : q.stopped[s] = "pending"}
        closed == [init_service_info(begun, window) EXCEPT !.stopped = [s \in Services |-> "no"]]
    IN  init_pending_services(Collect(closed, Offered(closed.services)))

SetResumed ==
    /\ p.state = "suspended"
    /\ IF p.up THEN p' = resume(p) /\ NewSessions
               ELSE p' = [p EXCEPT !.state = "delayed"] /\ UNCHANGED said

\* The branch for SUSPENDED: discovery is suspended first, so the offers are taken
\* from the tables without sending, and withdrawn in one message.
send_collected_stop_offers(q) ==
    send(UNION {send_stop_offer(q, s, q.services[s]) : s \in Offered(q.services)})

SetSuspended ==
    /\ p.state # "suspended"
    /\ p' = Freed(StopInfos(suspend([p EXCEPT !.state = "suspended"]), p.services))
    /\ send_collected_stop_offers(p')

\* on_net_interface_or_route_state_changed, with start_ip_routing.
NetworkUp ==
    /\ ~p.up
    /\ LET q == [p EXCEPT !.up = TRUE, !.running = TRUE]
           starts == ~p.running /\ ~is_suspended(p)
           r == IF starts THEN start(q) ELSE q
       IN  /\ p' = CASE p.state = "delayed" -> resume(r)
                     [] p.state = "resumed" -> init_pending_services(r)
                     [] OTHER -> r
           /\ IF starts \/ p.state = "delayed" THEN NewSessions ELSE UNCHANGED said

NetworkDown == p.up /\ p' = [p EXCEPT !.up = FALSE] /\ UNCHANGED said

\* The host ends and starts again.
Reboot == p # NewHost /\ p' = NewHost /\ NewSessions

-----------------------------------------------------------------------------
(* Timers of service discovery *)

\* on_offer_debounce_timer_expired: the collected offers are taken under
\* collected_offers_mutex_ ...
DebounceCopy ==
    /\ p.armed /\ p.debounce = Idle /\ p.collected # NoOffers
    /\ p' = [p EXCEPT !.armed = FALSE, !.collected = NoOffers,
                      !.debounce = [Idle EXCEPT !.pc = "copied", !.offers = p.collected]]
    /\ UNCHANGED said

\* ... the entries are made without it ...
DebounceBuild ==
    /\ p.debounce.pc = "copied"
    /\ p' = [p EXCEPT !.debounce.pc = "built",
                      !.debounce.entries = insert_offer_entries(p, p.debounce.offers, TRUE)]
    /\ UNCHANGED said

\* ... and sent, and the timer of the repetition phase is entered.
Phase(offers, n) == [offers |-> offers, repetition |-> n]
FirstRepetition == IF RepetitionsMax > 0 THEN 1 ELSE 0

\* Bug: the offers enter the main phase without being repeated.
DebounceSend_SkipsRepetition ==
    /\ p.debounce.pc = "built"
    /\ send(p.debounce.entries)
    /\ p' = [p EXCEPT !.armed = TRUE, !.debounce = Idle,
                      !.timers = @ \cup {Phase(p.debounce.offers, 0)}]

DebounceSend ==
    /\ p.debounce.pc = "built"
    /\ send(p.debounce.entries)
    /\ p' = [p EXCEPT !.armed = TRUE, !.debounce = Idle,
                      !.timers = @ \cup {Phase(p.debounce.offers, FirstRepetition)}]

Main(i) == [i EXCEPT !.main = TRUE]
move_offers_into_main_phase(q, t) == [OfInfos(q, t.offers, Main) EXCEPT !.timers = @ \ {t}]
Again(q, t, n) == [q EXCEPT !.timers = (@ \ {t}) \cup {Phase(t.offers, n)}]

\* on_repetition_phase_timer_expired; which way the last repetition goes depends
\* on last_offer_shorter_half_offer_delay_ago.
Repetition(t) ==
    \/ /\ t.repetition = 0
       /\ p' = Freed(move_offers_into_main_phase(p, t)) /\ UNCHANGED said
    \/ /\ t.repetition # 0
       /\ p' \in IF t.repetition <= RepetitionsMax THEN {Again(p, t, t.repetition + 1)}
                 ELSE {Freed(move_offers_into_main_phase(p, t)), Again(p, t, 0)}
       /\ send(insert_offer_entries(p, t.offers, TRUE))

\* on_main_phase_timer_expired: send(true) for the services of get_offered_services.
MainPhase ==
    /\ p.cyclic
    /\ send(insert_offer_entries(p, p.services, FALSE))
    /\ UNCHANGED p

Next ==
    \/ \E s \in Services : \/ offer_service(s) \/ stop_offer_service(s)
                           \/ stop_offer_graceful_timeout(s)
    \/ SetResumed \/ SetSuspended \/ NetworkUp \/ NetworkDown \/ Reboot
    \/ DebounceCopy \/ DebounceBuild \/ DebounceSend \/ MainPhase
    \/ \E t \in p.timers : Repetition(t)

\* Timers expire and the handlers they start end.
Fairness ==
    /\ WF_vars(DebounceCopy) /\ WF_vars(DebounceBuild) /\ WF_vars(DebounceSend)
    /\ WF_vars(MainPhase) /\ WF_vars(\E t \in p.timers : Repetition(t))
    /\ \A s \in Services : WF_vars(stop_offer_graceful_timeout(s))

Spec == Init /\ [][Next]_vars /\ Fairness

-----------------------------------------------------------------------------
(* Properties *)

\* A handler or timer that still holds a stopped serviceinfo announces it again,
\* with a TTL of zero.
WillWithdraw(s) ==
    \/ p.debounce.offers[s] # 0
    \/ \E t \in p.timers : t.offers[s] # 0 /\ t.repetition # 0 /\ ~p.info[s][t.offers[s]].ttl

\* A withdrawn service is withdrawn on the network: whatever stop_offer_service
\* raced with, either the last announcement of the service is its StopOffer, or
\* the repetition phase is still going to send one.  (It is not where
\* repetitions_max is zero: an offer whose debounce handler runs while it is
\* stopped is then never withdrawn.)
StopIsAnnounced ==
    RepetitionsMax > 0 /\ ~is_suspended(p) =>
        \A s \in said : p.services[s] = 0 => WillWithdraw(s)

\* The offer phases keep the promise of SdProvider: what is offered is announced
\* while the network is up, through every order of offers, stop-offers, graceful
\* windows, suspends, network changes and restarts, and what is not offered is
\* withdrawn.
Provider == INSTANCE SdProvider WITH
    offered <- Offered(p.services), active <- p.up /\ p.state = "resumed"
Announces == Provider!Spec
=============================================================================
