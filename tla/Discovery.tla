----------------------------- MODULE Discovery -----------------------------
(***************************************************************************)
(* Service discovery between two hosts.  The provider is SdProvider (the   *)
(* abstraction SdOffers implements) with the session counters its messages *)
(* carry; the consumer is service_discovery_impl with reboot detection,    *)
(* the time to live of what it knows, and the FindService phases.          *)
(*                                                                         *)
(* Multicast and unicast are two channels: UDP, each in order, any message *)
(* may be lost, and one channel may be faster than the other.  The tables  *)
(* behind "known" are module RemoteServices.                               *)
(***************************************************************************)
EXTENDS Naturals, Sequences, FiniteSets

CONSTANTS Services,
          Width,           \* values of session_t: 2^16 in the code
          MaxEpoch,        \* times the provider begins new sessions, plus one
          MaxWire,         \* messages in flight on a channel
          Keys,            \* versions a service is requested with: "major", "any"
          Gens,            \* request objects of a service and key (recycled)
          RepetitionsMax,  \* repetitions_max_
          TTL              \* checks a service survives without an offer

VARIABLES offered, active, announced,  \* the provider, see SdProvider
          sent,    \* sessions_sent_ of the provider
          epoch,   \* how often the provider has begun new sessions
          wire,    \* messages to the consumer, by channel
          finds,   \* FindService entries on their way to the provider
          c,       \* the consumer
          heard,   \* epoch of the last message the consumer got, by channel
          asked    \* finds sent for a request since it waits for an offer, or "served"

pvars == <<offered, active, announced>>
vars == <<offered, active, announced, sent, epoch, wire, finds, c, heard, asked>>

P == INSTANCE SdProvider WITH said <- announced

Channels == {"multicast", "unicast"}
Requests == Services \X Keys
NoSender == [x \in Channels |-> [session |-> 0, flag |-> TRUE]]

\* found is repetitions_max_ + 1: no more finds are sent
Found == RepetitionsMax + 1
Served == RepetitionsMax + 2

NewConsumer ==
    [received |-> NoSender,                      \* sessions_received_ of the provider
     known |-> {},
     ttl |-> [s \in Services |-> 0],
     requested |-> [q \in Requests |-> 0],       \* requested_: a request object or 0
     counter |-> [q \in Requests |-> [g \in Gens |-> 0]],
     timers |-> {}]                              \* find_repetition_phase_timers_

Init ==
    /\ P!Init
    /\ sent = [x \in Channels |-> [session |-> 1, flag |-> TRUE]]
    /\ epoch = 1 /\ wire = [x \in Channels |-> <<>>]
    /\ finds = {} /\ c = NewConsumer
    /\ heard = [x \in Channels |-> 0] /\ asked = [k \in Requests |-> 0]

-----------------------------------------------------------------------------
(* Sessions *)

\* increment_session: the session is never zero, and the reboot flag ends with the
\* first round.
\* Bug: the reboot flag stays set when the counter wraps.
increment_session_KeepsFlag(i) ==
    LET n == (i.session + 1) % Width
    IN  IF n = 0 THEN [session |-> 1, flag |-> TRUE] ELSE [i EXCEPT !.session = n]

increment_session(i) ==
    LET n == (i.session + 1) % Width
    IN  IF n = 0 THEN [session |-> 1, flag |-> FALSE] ELSE [i EXCEPT !.session = n]

\* is_reboot: what the consumer has received, and a message on channel x.  A channel
\* without a message so far has session zero.
is_reboot(received, x, m) ==
    /\ m.flag
    /\ ~received[x].flag \/ received[x].session >= m.session

UpdateSessions(received, x, m) ==
    IF is_reboot(received, x, m) THEN NoSender
    ELSE [received EXCEPT ![x] = [session |-> m.session, flag |-> m.flag]]

\* send and serialize_and_send
CanSend(x) == Len(wire[x]) < MaxWire
Send(x, s, positive) ==
    /\ CanSend(x)
    /\ wire' = [wire EXCEPT ![x] = Append(@, [session |-> sent[x].session, flag |-> sent[x].flag,
                                             epoch |-> epoch, service |-> s, offer |-> positive])]
    /\ sent' = [sent EXCEPT ![x] = increment_session(@)]
    /\ UNCHANGED epoch

-----------------------------------------------------------------------------
(* Provider *)

UnchangedConsumer == UNCHANGED <<c, heard, asked, finds>>
Quiet == UNCHANGED <<wire, sent, epoch>>

Announce(s) == P!Announce(s) /\ active /\ Send("multicast", s, TRUE) /\ UnchangedConsumer
Withdraw(s) == P!Withdraw(s) /\ s \in announced /\ Send("multicast", s, FALSE) /\ UnchangedConsumer

Clients == /\ \/ \E s \in Services : P!Offer(s) \/ (P!StopOffer(s) /\ announced' = announced)
              \/ P!Change /\ announced' = announced
           /\ pvars' # pvars
           /\ Quiet /\ UnchangedConsumer

Restart == /\ P!Restart /\ epoch < MaxEpoch
           /\ epoch' = epoch + 1
           /\ sent' = [x \in Channels |-> [session |-> 1, flag |-> TRUE]]
           /\ UNCHANGED wire /\ UnchangedConsumer

\* process_findservice_serviceentry: a service that is offered is answered, by
\* unicast where the last cyclic offer is less than half the cycle old.
process_findservice(s) ==
    /\ s \in finds /\ finds' = finds \ {s} /\ UNCHANGED <<c, heard, asked>>
    /\ IF active /\ s \in offered
       THEN \/ Send("unicast", s, TRUE) /\ UNCHANGED pvars
            \/ Send("multicast", s, TRUE) /\ P!Announce(s)
       ELSE Quiet /\ UNCHANGED pvars

-----------------------------------------------------------------------------
(* Consumer: messages *)

\* update_request, with the key of the version offered and with any version.
update_request(q, s) ==
    [q EXCEPT !.counter = [k \in Requests |-> [g \in Gens |->
        IF k[1] = s /\ q.requested[k] = g THEN Found ELSE @[k][g]]]]

Learn(q, s) == [update_request(q, s) EXCEPT !.known = @ \cup {s}, !.ttl[s] = TTL]
Forget(q, s) == [update_request(q, s) EXCEPT !.known = @ \ {s}, !.ttl[s] = 0]

\* A reboot makes expire_services forget what was known; then the entries are
\* processed.
Expired(q) == [q EXCEPT !.known = {}, !.ttl = [s \in Services |-> 0]]

on_message(x) ==
    /\ wire[x] # <<>>
    /\ LET m == Head(wire[x])
           q == IF is_reboot(c.received, x, m) THEN Expired(c) ELSE c
           e == IF m.offer THEN Learn(q, m.service) ELSE Forget(q, m.service)
       IN  /\ c' = [e EXCEPT !.received = UpdateSessions(c.received, x, m)]
           /\ heard' = IF is_reboot(c.received, x, m) THEN [y \in Channels |-> 0]
                       ELSE [heard EXCEPT ![x] = m.epoch]
           /\ asked' = [k \in Requests |-> IF k[1] = m.service /\ c.requested[k] # 0 THEN Served ELSE asked[k]]
    /\ wire' = [wire EXCEPT ![x] = Tail(@)]
    /\ UNCHANGED <<pvars, sent, epoch, finds>>

Lose(x) == /\ wire[x] # <<>> /\ wire' = [wire EXCEPT ![x] = Tail(@)]
           /\ UNCHANGED <<pvars, sent, epoch, finds, c, heard, asked>>

\* update_routing_info: finds for an expired service start again.
reset_request_sent_counter(q, S) ==
    [q EXCEPT !.counter = [k \in Requests |-> [g \in Gens |->
        IF k[1] \in S /\ q.requested[k] = g THEN 0 ELSE @[k][g]]]]

\* Bug: a service whose time to live is over stays known.
check_ttl_KeepsExpired ==
    /\ c.known # {}
    /\ c' = [c EXCEPT !.ttl = [s \in Services |-> IF @[s] > 0 THEN @[s] - 1 ELSE 0]]
    /\ UNCHANGED <<pvars, sent, epoch, wire, finds, heard, asked>>

check_ttl ==
    LET gone == {s \in c.known : c.ttl[s] = 0}
        q == [c EXCEPT !.ttl = [s \in Services |-> IF @[s] > 0 THEN @[s] - 1 ELSE 0],
                       !.known = @ \ gone]
    IN  /\ c.known # {}
        /\ c' = reset_request_sent_counter(q, gone)
        /\ asked' = [k \in Requests |-> IF k[1] \in gone THEN 0 ELSE asked[k]]
        /\ UNCHANGED <<pvars, sent, epoch, wire, finds, heard>>

-----------------------------------------------------------------------------
(* Consumer: requests and finds *)

InTimer(q, k, g) == \E t \in q.timers : t.finds[k] = g
Normal(q) == [q EXCEPT !.counter = [k \in Requests |-> [g \in Gens |->
                 IF q.requested[k] = g \/ InTimer(q, k, g) THEN @[k][g] ELSE 0]]]

OnlyConsumer == UNCHANGED <<pvars, sent, epoch, wire, heard>>

request_service(k) ==
    /\ c.requested[k] = 0
    /\ \E g \in Gens : /\ ~InTimer(c, k, g) /\ \A h \in Gens : h < g => InTimer(c, k, h)
                       /\ c' = [c EXCEPT !.requested[k] = g, !.counter[k][g] = 0]
    /\ asked' = [asked EXCEPT ![k] = 0]
    /\ OnlyConsumer /\ UNCHANGED finds

release_service(k) ==
    /\ c.requested[k] # 0
    /\ c' = Normal([c EXCEPT !.requested[k] = 0])
    /\ asked' = [asked EXCEPT ![k] = 0]
    /\ OnlyConsumer /\ UNCHANGED finds

\* insert_find_entries for the request objects f, and the sending of the entries.
Sends(q, f) == {k \in Requests : f[k] # 0 /\ q.requested[k] # 0 /\ q.counter[k][f[k]] # Found}

insert_find_entries(q, f) ==
    [q EXCEPT !.counter = [k \in Requests |-> [g \in Gens |->
        IF f[k] = g /\ k \in Sends(q, f) THEN @[k][g] + 1 ELSE @[k][g]]]]

Ask(q, f) ==
    /\ finds' = finds \cup {k[1] : k \in Sends(q, f)}
    /\ asked' = [k \in Requests |-> IF k \in Sends(q, f) /\ f[k] = q.requested[k] /\ asked[k] # Served
                                   THEN asked[k] + 1 ELSE asked[k]]

\* on_find_debounce_timer_expired
FindDebounce ==
    LET f == [k \in Requests |-> LET g == c.requested[k]
                                 IN  IF g # 0 THEN IF c.counter[k][g] = 0 THEN g ELSE 0 ELSE 0]
        q == insert_find_entries(c, f)
    IN  /\ \E k \in Requests : f[k] # 0
        /\ c' = [q EXCEPT !.timers = @ \cup {[finds |-> f, repetition |-> 1]}]
        /\ Ask(c, f) /\ OnlyConsumer

\* on_find_repetition_phase_timer_expired
FindRepetition(t) ==
    /\ c' = IF t.repetition <= RepetitionsMax
            THEN [insert_find_entries(c, t.finds) EXCEPT
                     !.timers = (@ \ {t}) \cup {[t EXCEPT !.repetition = @ + 1]}]
            ELSE Normal([c EXCEPT !.timers = @ \ {t}])
    /\ IF t.repetition <= RepetitionsMax THEN Ask(c, t.finds) ELSE UNCHANGED <<finds, asked>>
    /\ OnlyConsumer

LoseFind == /\ finds # {} /\ finds' = {} /\ UNCHANGED <<c, asked>> /\ OnlyConsumer

Next ==
    \/ \E s \in Services : Announce(s) \/ Withdraw(s) \/ process_findservice(s)
    \/ Clients \/ Restart \/ check_ttl
    \/ \E x \in Channels : on_message(x) \/ Lose(x)
    \/ \E k \in Requests : request_service(k) \/ release_service(k)
    \/ FindDebounce \/ \E t \in c.timers : FindRepetition(t)
    \/ LoseFind

\* The provider keeps the promise of SdProvider and repeats what it has announced;
\* timers expire; the network loses messages but not every one.
Fairness ==
    /\ P!Announces
    /\ \A s \in Services : /\ SF_vars(s \in announced /\ s \in offered /\ Announce(s))
                           /\ WF_vars(process_findservice(s))
    /\ \A x \in Channels : SF_vars(on_message(x))
    /\ WF_vars(check_ttl) /\ WF_vars(FindDebounce)
    /\ WF_vars(\E t \in c.timers : FindRepetition(t))

Spec == Init /\ [][Next]_vars /\ Fairness

-----------------------------------------------------------------------------
(* Properties *)

\* A reboot is detected only where there was one: the provider has begun new
\* sessions since the last message of the same channel, however many messages were
\* lost and however often the session counter has wrapped.
NoFalseReboot ==
    \A x \in Channels : wire[x] # <<>> =>
        (is_reboot(c.received, x, Head(wire[x])) => heard[x] # 0 /\ heard[x] < Head(wire[x]).epoch)

\* A service that stays offered becomes known, and one that is not offered is
\* forgotten even where its StopOffer is lost or overtaken by an answer to a find.
KnownIsOffered ==
    \A s \in Services :
        /\ (active /\ s \in offered) ~> (s \in c.known \/ ~active \/ s \notin offered)
        /\ (active /\ s \notin offered) ~> (s \notin c.known \/ ~active \/ s \in offered)

\* A request is looked for until its service is offered: the counter that ends the
\* finds of a request counts those sent since the request was made, or since its
\* service expired, whichever version was requested and whatever repetition timers
\* of earlier requests still run.
SearchesFully ==
    \A k \in Requests : LET g == c.requested[k] IN
        g # 0 => c.counter[k][g] = IF asked[k] = Served THEN Found ELSE asked[k]
=============================================================================
