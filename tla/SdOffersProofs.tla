--------------------------- MODULE SdOffersProofs ---------------------------
(***************************************************************************)
(* Proof that a withdrawn service is withdrawn on the network, for any     *)
(* number of services, serviceinfo objects and repetitions.                *)
(***************************************************************************)
EXTENDS SdOffers, TLAPS

\* The serviceinfo of every service in a collection (0: none), what is in one, and a
\* repetition timer with the offers it repeats.
Offers == [Services -> Gens \cup {0}]
Info == [ttl : BOOLEAN, main : BOOLEAN, ready : BOOLEAN]
Timer == [offers : Offers, repetition : Nat]

\* The types of service_discovery_impl, its timers and its handlers.
HostType ==
    [services : Offers, info : [Services -> [Gens -> Info]],
     stopped : [Services -> {"no", "window", "pending"}], waiting : SUBSET Services,
     state : {"resumed", "suspended", "delayed"},
     up : BOOLEAN, running : BOOLEAN, suspended : BOOLEAN,
     collected : Offers, armed : BOOLEAN, cyclic : BOOLEAN, timers : SUBSET Timer,
     debounce : [pc : {"idle", "copied", "built"}, offers : Offers,
                 entries : SUBSET (Services \X BOOLEAN)]]

\* Service discovery is not suspended while routing is resumed.
RunsIfResumed(q) == q.state = "resumed" => ~q.suspended

\* A serviceinfo that timers or the debounce handler hold, and that is not the offer
\* any more, has a TTL of zero.
StaleIsDead(q) ==
    \A s \in Services, g \in Gens : Held(q, s, g) /\ q.services[s] # g => ~q.info[s][g].ttl

\* What the debounce handler is about to announce is ready, even if it is stopped
\* in between.
BuiltIsReady(q) ==
    \A s \in Services : <<s, TRUE>> \in q.debounce.entries =>
        \E g \in Gens : q.debounce.offers[s] = g /\ q.info[s][g].ready

\* The serviceinfo an announcement on the network came from, or a later one, has
\* still something to say: the debounce handler or a repetition will send it, or it
\* is the offer, whose withdrawal will be sent.
Accounts(q, s, g) ==
    /\ q.info[s][g].ready
    /\ \/ q.debounce.offers[s] = g
       \/ \E t \in q.timers : t.offers[s] = g /\ (t.repetition # 0 \/ q.services[s] = g)
       \/ q.services[s] = g /\ q.info[s][g].main

\* Every service the messages of this session announce has such a serviceinfo.
SaidIsAccounted(q, sd) ==
    q.state = "resumed" => \A s \in sd : \E g \in Gens : Accounts(q, s, g)

\* The inductive invariant.
IInv ==
    /\ p \in HostType /\ said \subseteq Services
    /\ RunsIfResumed(p) /\ StaleIsDead(p) /\ BuiltIsReady(p) /\ SaidIsAccounted(p, said)

-----------------------------------------------------------------------------
(* What the operators on a host do *)

\* The fields of a host.
LEMMA Fields ==
  ASSUME NEW q \in HostType
  PROVE  /\ q.services \in Offers /\ q.collected \in Offers /\ q.debounce.offers \in Offers
         /\ q.info \in [Services -> [Gens -> Info]] /\ q.timers \subseteq Timer
         /\ q.waiting \subseteq Services
         /\ q.stopped \in [Services -> {"no", "window", "pending"}]
         /\ q.debounce.entries \subseteq Services \X BOOLEAN
  BY DEF HostType

\* What is done to one serviceinfo.
LEMMA InfoOps ==
  ASSUME NEW i \in Info
  PROVE  /\ Ready(i) \in Info /\ Dead(i) \in Info /\ Fresh(i) \in Info /\ Main(i) \in Info
         /\ Ready(i).ttl = i.ttl /\ Ready(i).main = i.main /\ Ready(i).ready
         /\ ~Dead(i).ttl /\ Dead(i).main = i.main /\ Dead(i).ready = i.ready
         /\ Fresh(i).ttl /\ ~Fresh(i).main /\ Fresh(i).ready = i.ready
         /\ Main(i).ttl = i.ttl /\ Main(i).main /\ Main(i).ready = i.ready
  BY Zenon DEF Info, Ready, Dead, Fresh, Main

\* r has the offers and the timers of q.
SameOffers(q, r) ==
    /\ r.services = q.services /\ r.debounce = q.debounce /\ r.timers = q.timers
    /\ r.state = q.state /\ r.suspended = q.suspended

\* No serviceinfo loses its main phase or becomes unannounceable, or changes its TTL.
InfoGrows(q, r) ==
    \A s \in Services, g \in Gens :
        /\ r.info[s][g].ttl = q.info[s][g].ttl
        /\ q.info[s][g].main => r.info[s][g].main
        /\ q.info[s][g].ready => r.info[s][g].ready

\* init_service_info only makes serviceinfo objects ready.
LEMMA ReadyFacts ==
  ASSUME NEW q \in HostType, NEW S \in SUBSET Services, NEW r, r = init_service_info(q, S)
  PROVE  /\ r \in HostType /\ SameOffers(q, r) /\ InfoGrows(q, r)
         /\ r.collected = q.collected /\ r.stopped = q.stopped /\ r.waiting = q.waiting
<1> DEFINE offers == [s \in Services |-> IF s \in S THEN q.services[s] ELSE 0]
           x == [s \in Services |-> [g \in Gens |->
                    IF offers[s] = g THEN Ready(q.info[s][g]) ELSE q.info[s][g]]]
<1>1. r = [q EXCEPT !.info = x]
  BY DEF init_service_info, OfInfos
<1>2. ASSUME NEW s \in Services, NEW g \in Gens
      PROVE  /\ x[s][g] \in Info
             /\ x[s][g].ttl = q.info[s][g].ttl /\ x[s][g].main = q.info[s][g].main
             /\ q.info[s][g].ready => x[s][g].ready
  <2>1. q.info[s][g] \in Info
    BY Fields
  <2>2. x[s][g] = IF offers[s] = g THEN Ready(q.info[s][g]) ELSE q.info[s][g]
    OBVIOUS
  <2> QED  BY <2>1, <2>2, InfoOps
<1>3. x \in [Services -> [Gens -> Info]]
  BY <1>2
<1> HIDE DEF x
<1>4. /\ r \in HostType /\ r.info = x
      /\ r.collected = q.collected /\ r.stopped = q.stopped /\ r.waiting = q.waiting
  BY Zenon, <1>1, <1>3 DEF HostType
<1>5. SameOffers(q, r)
  BY <1>1 DEF HostType, SameOffers
<1> QED  BY <1>2, <1>4, <1>5 DEF InfoGrows

\* init_pending_services and Collect change nothing else either.
LEMMA PendingFacts ==
  ASSUME NEW q \in HostType, NEW r, r = init_pending_services(q)
  PROVE  r \in HostType /\ SameOffers(q, r) /\ InfoGrows(q, r) /\ r.collected = q.collected
<1> DEFINE i == init_service_info(q, q.waiting)
<1>1. q.waiting \in SUBSET Services
  BY Fields
<1>2. i \in HostType /\ SameOffers(q, i) /\ InfoGrows(q, i) /\ i.collected = q.collected
  BY <1>1, ReadyFacts
<1>3. r = [i EXCEPT !.waiting = {}]
  BY DEF init_pending_services
<1> HIDE DEF i
<1>4. r \in HostType /\ SameOffers(i, r) /\ r.info = i.info /\ r.collected = i.collected
  BY <1>2, <1>3 DEF HostType, SameOffers
<1> QED  BY <1>2, <1>4 DEF SameOffers, InfoGrows

\* Offers are collected for the next debounce phase unless they are already.
LEMMA CollectFacts ==
  ASSUME NEW q \in HostType, NEW S, NEW r, r = Collect(q, S)
  PROVE  /\ r \in HostType /\ SameOffers(q, r) /\ r.info = q.info
         /\ r.waiting = q.waiting /\ r.stopped = q.stopped
         /\ \A s \in Services : r.collected[s] \in {q.collected[s], q.services[s]}
<1> DEFINE x == [s \in Services |->
                    IF s \in S /\ q.collected[s] = 0 THEN q.services[s] ELSE q.collected[s]]
<1>1. r = [q EXCEPT !.collected = x]
  BY DEF Collect
<1>2. x \in Offers /\ \A s \in Services : x[s] \in {q.collected[s], q.services[s]}
  BY Fields DEF Offers
<1> HIDE DEF x
<1> QED  BY <1>1, <1>2 DEF HostType, SameOffers

\* offer_remote_service for s collects the offer of s.
LEMMA OfferRemoteFacts ==
  ASSUME NEW q \in HostType, NEW s \in Services, NEW r, r = offer_remote_service(q, s)
  PROVE  /\ r \in HostType /\ SameOffers(q, r) /\ InfoGrows(q, r)
         /\ \A u \in Services : r.collected[u] \in {q.collected[u], q.services[u]}
<1> DEFINE i == IF q.up THEN init_service_info(q, {s}) ELSE [q EXCEPT !.waiting = @ \cup {s}]
<1>1. i \in HostType /\ SameOffers(q, i) /\ InfoGrows(q, i) /\ i.collected = q.collected
  <2>1. CASE q.up
    BY <2>1, ReadyFacts
  <2>2. CASE ~q.up
    <3>1. i = [q EXCEPT !.waiting = q.waiting \cup {s}] /\ q.waiting \cup {s} \in SUBSET Services
      BY <2>2, Fields
    <3> HIDE DEF i
    <3> QED  BY Zenon, <3>1 DEF HostType, SameOffers, InfoGrows
  <2> QED  BY <2>1, <2>2
<1>2. r = Collect(i, {s})
  BY DEF offer_remote_service
<1> HIDE DEF i
<1>3. /\ r \in HostType /\ SameOffers(i, r) /\ r.info = i.info
      /\ \A u \in Services : r.collected[u] \in {i.collected[u], i.services[u]}
  BY <1>1, <1>2, CollectFacts
<1> QED  BY <1>1, <1>3 DEF SameOffers, InfoGrows

\* The objects nobody holds are destroyed, the others stay as they are.
LEMMA FreedFacts ==
  ASSUME NEW q \in HostType, NEW r, r = Freed(q)
  PROVE  /\ r \in HostType /\ SameOffers(q, r) /\ r.collected = q.collected
         /\ \A s \in Services, g \in Gens : Held(q, s, g) => r.info[s][g] = q.info[s][g]
<1> DEFINE x == [s \in Services |-> [g \in Gens |->
                    IF Held(q, s, g) THEN q.info[s][g] ELSE NewInfo]]
<1>1. r = [q EXCEPT !.info = x]
  BY DEF Freed
<1>2. ASSUME NEW s \in Services, NEW g \in Gens
      PROVE  x[s][g] \in Info /\ (Held(q, s, g) => x[s][g] = q.info[s][g])
  <2>1. q.info[s][g] \in Info /\ NewInfo \in Info
    BY Fields DEF Info, NewInfo
  <2>2. x[s][g] = IF Held(q, s, g) THEN q.info[s][g] ELSE NewInfo
    OBVIOUS
  <2> QED  BY <2>1, <2>2
<1>3. x \in [Services -> [Gens -> Info]]
  BY <1>2
<1> HIDE DEF x
<1>4. r \in HostType /\ r.info = x /\ r.collected = q.collected
  BY ZenonT(60), <1>1, <1>3 DEF HostType
<1>5. SameOffers(q, r)
  BY <1>1 DEF HostType, SameOffers
<1> QED  BY <1>2, <1>4, <1>5

\* Timers of the repetition phase, after the serviceinfo objects stop were stopped.
LEMMA DropFacts ==
  ASSUME NEW offers \in Offers, NEW stop \in Offers
  PROVE  /\ Drop(offers, stop) \in Offers
         /\ \A s \in Services : Drop(offers, stop)[s] = IF offers[s] = stop[s] THEN 0 ELSE offers[s]
  BY DEF Drop, Offers

\* stop_offer_service of service_discovery_impl: what is stopped has a TTL of zero and
\* leaves the collected offers and the timers; everything else keeps its place.
LEMMA StopFacts ==
  ASSUME NEW q \in HostType, NEW stop \in Offers, NEW r, r = StopInfos(q, stop), 0 \notin Gens
  PROVE  /\ r \in HostType
         /\ r.services = q.services /\ r.debounce = q.debounce
         /\ r.state = q.state /\ r.suspended = q.suspended
         /\ \A s \in Services, g \in Gens :
               /\ r.info[s][g].ttl <=> q.info[s][g].ttl /\ stop[s] # g
               /\ r.info[s][g].main = q.info[s][g].main
               /\ r.info[s][g].ready = q.info[s][g].ready
         /\ \A s \in Services : r.collected[s] = IF q.collected[s] = stop[s] THEN 0 ELSE q.collected[s]
         /\ \A t \in q.timers, s \in Services : t.offers[s] \in Gens /\ t.offers[s] # stop[s] =>
               \E u \in r.timers : u.offers[s] = t.offers[s] /\ u.repetition = t.repetition
         /\ \A u \in r.timers, s \in Services : u.offers[s] \in Gens =>
               u.offers[s] # stop[s] /\ \E t \in q.timers : t.offers[s] = u.offers[s]
<1> DEFINE x == [s \in Services |-> [g \in Gens |->
                    IF stop[s] = g THEN Dead(q.info[s][g]) ELSE q.info[s][g]]]
           Dropped(t) == [t EXCEPT !.offers = Drop(t.offers, stop)]
           timers == {Dropped(t) : t \in {u \in q.timers : Offered(Drop(u.offers, stop)) # {}}}
<1>1. r = [[q EXCEPT !.info = x] EXCEPT !.collected = Drop(q.collected, stop), !.timers = timers]
  <2>1. OfInfos(q, stop, Dead) = [q EXCEPT !.info = x]
    BY DEF OfInfos
  <2>2. [q EXCEPT !.info = x].collected = q.collected /\ [q EXCEPT !.info = x].timers = q.timers
    BY DEF HostType
  <2> HIDE DEF x
  <2> QED  BY <2>1, <2>2 DEF StopInfos
<1>2. ASSUME NEW s \in Services, NEW g \in Gens
      PROVE  /\ x[s][g] \in Info
             /\ x[s][g].ttl <=> q.info[s][g].ttl /\ stop[s] # g
             /\ x[s][g].main = q.info[s][g].main
             /\ x[s][g].ready = q.info[s][g].ready
  <2>1. q.info[s][g] \in Info
    BY Fields
  <2>2. x[s][g] = IF stop[s] = g THEN Dead(q.info[s][g]) ELSE q.info[s][g]
    OBVIOUS
  <2>3. CASE stop[s] = g
    BY <2>1, <2>2, <2>3, InfoOps
  <2>4. CASE stop[s] # g
    BY <2>1, <2>2, <2>4 DEF Info
  <2> QED  BY <2>3, <2>4
<1>3. x \in [Services -> [Gens -> Info]]
  BY <1>2
<1>4. \A t \in q.timers : /\ Dropped(t) \in Timer /\ Dropped(t).repetition = t.repetition
                          /\ Dropped(t).offers = Drop(t.offers, stop)
                          /\ t.offers \in Offers
  BY Fields, DropFacts DEF Timer
<1>5. timers \in SUBSET Timer
  BY <1>4
<1> HIDE DEF x, Dropped
<1>6. ASSUME NEW t \in q.timers, NEW s \in Services, t.offers[s] \in Gens, t.offers[s] # stop[s]
      PROVE  \E u \in timers : u.offers[s] = t.offers[s] /\ u.repetition = t.repetition
  <2>1. Drop(t.offers, stop)[s] = t.offers[s]
    BY <1>4, <1>6, DropFacts
  <2>2. s \in Offered(Drop(t.offers, stop))
    BY <1>6, <2>1 DEF Offered
  <2>3. Dropped(t) \in timers
    BY <2>2
  <2> QED  BY <1>4, <2>1, <2>3
<1>7. ASSUME NEW u \in timers, NEW s \in Services, u.offers[s] \in Gens
      PROVE  u.offers[s] # stop[s] /\ \E t \in q.timers : t.offers[s] = u.offers[s]
  <2>1. PICK t \in q.timers : u = Dropped(t)
    OBVIOUS
  <2>2. u.offers[s] = IF t.offers[s] = stop[s] THEN 0 ELSE t.offers[s]
    BY <1>4, <2>1, DropFacts
  <2> QED  BY <1>7, <2>2
<1> HIDE DEF timers
<1>8. Drop(q.collected, stop) \in Offers
      /\ \A s \in Services : Drop(q.collected, stop)[s]
                               = IF q.collected[s] = stop[s] THEN 0 ELSE q.collected[s]
  BY Fields, DropFacts
<1>9. r \in HostType
  BY ZenonT(60), <1>1, <1>3, <1>5, <1>8 DEF HostType
<1>10. r.info = x /\ r.collected = Drop(q.collected, stop) /\ r.timers = timers
  BY <1>1 DEF HostType
<1>11. /\ r.services = q.services /\ r.debounce = q.debounce
       /\ r.state = q.state /\ r.suspended = q.suspended
  BY <1>1 DEF HostType
<1> QED  BY <1>2, <1>6, <1>7, <1>8, <1>9, <1>10, <1>11

-----------------------------------------------------------------------------
(* What keeps the invariant whatever is said *)

\* The part of the invariant that does not depend on what was announced.
Sound(q) == StaleIsDead(q) /\ BuiltIsReady(q)

\* Collecting the offers and making them ready.
LEMMA GrowKeeps ==
  ASSUME NEW q \in HostType, NEW r \in HostType, SameOffers(q, r), InfoGrows(q, r),
         \A s \in Services : r.collected[s] \in {q.collected[s], q.services[s]}
  PROVE  /\ Sound(q) => Sound(r)
         /\ \A s \in Services, g \in Gens : Accounts(q, s, g) => Accounts(r, s, g)
         /\ \A sd \in SUBSET Services : SaidIsAccounted(q, sd) => SaidIsAccounted(r, sd)
<1>1. \A s \in Services, g \in Gens : Held(r, s, g) => Held(q, s, g) \/ q.services[s] = g
  BY DEF Held, SameOffers
<1>2. StaleIsDead(q) => StaleIsDead(r)
  BY <1>1 DEF StaleIsDead, SameOffers, InfoGrows
<1>3. ASSUME BuiltIsReady(q), NEW s \in Services, <<s, TRUE>> \in r.debounce.entries
      PROVE  \E g \in Gens : r.debounce.offers[s] = g /\ r.info[s][g].ready
  <2>1. r.debounce = q.debounce
    BY DEF SameOffers
  <2>2. PICK g \in Gens : q.debounce.offers[s] = g /\ q.info[s][g].ready
    BY Zenon, <1>3, <2>1 DEF BuiltIsReady
  <2> QED  BY <2>1, <2>2 DEF InfoGrows
<1>4. \A s \in Services, g \in Gens : Accounts(q, s, g) => Accounts(r, s, g)
  BY DEF Accounts, SameOffers, InfoGrows
<1>5. r.state = q.state
  BY DEF SameOffers
<1>6. ASSUME NEW sd \in SUBSET Services, SaidIsAccounted(q, sd), r.state = "resumed", NEW s \in sd
      PROVE  \E g \in Gens : Accounts(r, s, g)
  <2>1. PICK g \in Gens : Accounts(q, s, g)
    BY <1>5, <1>6 DEF SaidIsAccounted
  <2> QED  BY <1>4, <2>1
<1> QED  BY Zenon, <1>2, <1>3, <1>4, <1>6 DEF Sound, SaidIsAccounted, BuiltIsReady

\* Changing what the invariant does not look at.
LEMMA SameKeeps ==
  ASSUME NEW q \in HostType, NEW r \in HostType,
         r.services = q.services, r.debounce = q.debounce, r.timers = q.timers,
         r.info = q.info, r.collected = q.collected
  PROVE  Sound(q) => Sound(r)
<1>1. \A s, g : Held(r, s, g) = Held(q, s, g)
  BY DEF Held
<1> QED  BY ZenonT(60), <1>1 DEF Sound, StaleIsDead, BuiltIsReady

\* The branch of set_routing_state_internal for RESUMED.
LEMMA ResumeFacts ==
  ASSUME NEW q \in HostType, Sound(q), NEW r, r = resume(q), 0 \notin Gens
  PROVE  r \in HostType /\ Sound(r) /\ r.state = "resumed" /\ ~r.suspended
<1> DEFINE a == [q EXCEPT !.state = "resumed"]
           x == [s \in Services |-> [g \in Gens |->
                    IF q.services[s] = g THEN Fresh(a.info[s][g]) ELSE a.info[s][g]]]
           b == [a EXCEPT !.info = x]
           begun == start(b)
           window == {s \in Services : q.stopped[s] = "pending"}
           i == init_service_info(begun, window)
           closed == [i EXCEPT !.stopped = [s \in Services |-> "no"]]
           collected == Collect(closed, Offered(closed.services))
<1>1. r = init_pending_services(collected)
  <2>1. OfInfos(a, q.services, Fresh) = b
    BY DEF OfInfos
  <2> QED  BY Zenon, <2>1 DEF resume
<1>2. a \in HostType /\ a.info = q.info /\ a.state = "resumed" /\ a.services = q.services
      /\ a.debounce = q.debounce /\ a.timers = q.timers /\ a.collected = q.collected
  BY DEF HostType
<1>3. ASSUME NEW s \in Services, NEW g \in Gens
      PROVE  /\ x[s][g] \in Info /\ x[s][g].ready = q.info[s][g].ready
             /\ q.services[s] # g => x[s][g].ttl = q.info[s][g].ttl
  <2>1. a.info[s][g] \in Info /\ a.info[s][g] = q.info[s][g]
    BY <1>2, Fields
  <2> HIDE DEF a
  <2>2. x[s][g] = IF q.services[s] = g THEN Fresh(a.info[s][g]) ELSE a.info[s][g]
    OBVIOUS
  <2> QED  BY <2>1, <2>2, InfoOps
<1>4. x \in [Services -> [Gens -> Info]]
  BY <1>3
<1> HIDE DEF a, x
<1>5. b \in HostType /\ b.info = x /\ b.state = "resumed" /\ b.services = q.services
      /\ b.debounce = q.debounce /\ b.timers = q.timers /\ b.collected = q.collected
  BY Zenon, <1>2, <1>4 DEF HostType
<1> HIDE DEF b
<1>6. begun \in HostType /\ begun.info = x /\ begun.state = "resumed" /\ begun.services = q.services
      /\ begun.debounce = q.debounce /\ begun.timers = q.timers /\ begun.collected = q.collected
      /\ ~begun.suspended
  BY ZenonT(60), <1>5 DEF HostType, start
<1> HIDE DEF begun
<1>7. Sound(begun)
  <2>1. \A s, g : Held(begun, s, g) = Held(q, s, g)
    BY <1>6 DEF Held
  <2>2. StaleIsDead(begun)
    BY <1>3, <1>6, <2>1 DEF StaleIsDead, Sound
  <2>3. BuiltIsReady(begun)
    <3> SUFFICES ASSUME NEW s \in Services, <<s, TRUE>> \in begun.debounce.entries
                 PROVE  \E g \in Gens : begun.debounce.offers[s] = g /\ begun.info[s][g].ready
      BY Zenon DEF BuiltIsReady
    <3>1. PICK g \in Gens : q.debounce.offers[s] = g /\ q.info[s][g].ready
      BY Zenon, <1>6 DEF BuiltIsReady, Sound
    <3> QED  BY <1>3, <1>6, <3>1
  <2> QED  BY <2>2, <2>3 DEF Sound
<1>8. i \in HostType /\ SameOffers(begun, i) /\ InfoGrows(begun, i) /\ i.collected = begun.collected
  BY <1>6, ReadyFacts
<1>9. Sound(i)
  BY <1>6, <1>7, <1>8, GrowKeeps
<1> HIDE DEF i
<1>10. closed \in HostType /\ SameOffers(i, closed) /\ closed.info = i.info /\ closed.collected = i.collected
  BY Zenon, <1>8 DEF HostType, SameOffers
<1>11. Sound(closed)
  BY Zenon, <1>8, <1>9, <1>10, SameKeeps DEF SameOffers
<1> HIDE DEF closed
<1>12. /\ collected \in HostType /\ SameOffers(closed, collected) /\ collected.info = closed.info
       /\ \A s \in Services : collected.collected[s] \in {closed.collected[s], closed.services[s]}
  BY <1>10, CollectFacts
<1>13. Sound(collected)
  BY SMTT(30), <1>10, <1>11, <1>12, GrowKeeps DEF InfoGrows
<1> HIDE DEF collected
<1>14. /\ r \in HostType /\ SameOffers(collected, r) /\ InfoGrows(collected, r)
       /\ r.collected = collected.collected
  BY <1>1, <1>12, PendingFacts
<1>15. Sound(r)
  BY <1>12, <1>13, <1>14, GrowKeeps
<1> QED  BY <1>6, <1>8, <1>10, <1>12, <1>14, <1>15 DEF SameOffers

-----------------------------------------------------------------------------
(* Steps *)

\* A host that has just started has announced nothing.
LEMMA NewHostFacts ==
  ASSUME 0 \notin Gens
  PROVE  NewHost \in HostType /\ Sound(NewHost) /\ RunsIfResumed(NewHost)
<1>1. NoOffers \in Offers /\ Idle \in [pc : {"idle", "copied", "built"}, offers : Offers,
                                       entries : SUBSET (Services \X BOOLEAN)]
  BY DEF NoOffers, Idle, Offers
<1>2. [s \in Services |-> [g \in Gens |-> NewInfo]] \in [Services -> [Gens -> Info]]
  <2>1. NewInfo \in Info
    BY DEF NewInfo, Info
  <2> QED  BY <2>1
<1>3. NewHost \in HostType
  BY <1>1, <1>2 DEF NewHost, HostType
<1>4. /\ NewHost.services = NoOffers /\ NewHost.collected = NoOffers /\ NewHost.timers = {}
      /\ NewHost.debounce = Idle /\ NewHost.suspended = FALSE
  BY DEF NewHost
<1>5. \A s \in Services, g \in Gens : ~Held(NewHost, s, g)
  BY <1>4 DEF Held, NoOffers, Idle
<1>6. BuiltIsReady(NewHost) /\ RunsIfResumed(NewHost)
  BY <1>4 DEF BuiltIsReady, RunsIfResumed, Idle
<1> QED  BY <1>3, <1>5, <1>6 DEF Sound, StaleIsDead

\* Steps that only collect offers, make them ready, or change what the invariant does
\* not look at.
LEMMA GrowStep ==
  ASSUME IInv, p' \in HostType, SameOffers(p, p'), InfoGrows(p, p'), UNCHANGED said,
         \A s \in Services : p'.collected[s] \in {p.collected[s], p.services[s]}
  PROVE  IInv'
<1>1. Sound(p') /\ SaidIsAccounted(p', said)
  BY GrowKeeps DEF IInv, Sound
<1> QED  BY <1>1 DEF IInv, Sound, RunsIfResumed, SameOffers

\* offer_service: a new serviceinfo, which nothing on the network stands for yet.
LEMMA OfferIInv ==
  ASSUME IInv, NEW s \in Services, offer_service(s), 0 \notin Gens
  PROVE  IInv'
<1>1. PICK g \in Gens : /\ ~Held(p, s, g)
                        /\ LET q == create_service_info(p, s, g)
                           IN  p' = IF p.stopped[s] = "no" THEN offer_remote_service(q, s)
                                    ELSE [q EXCEPT !.stopped[s] = "pending"]
  BY DEF offer_service
<1> DEFINE q == create_service_info(p, s, g)
<1>2. p \in HostType /\ p.services \in Offers /\ p.services[s] = 0 /\ said' = said
  BY Fields DEF IInv, offer_service
<1>3. /\ q \in HostType
      /\ q.services = [p.services EXCEPT ![s] = g]
      /\ q.info = [p.info EXCEPT ![s] = [p.info[s] EXCEPT ![g] = NewInfo]]
      /\ q.debounce = p.debounce /\ q.timers = p.timers /\ q.collected = p.collected
      /\ q.state = p.state /\ q.suspended = p.suspended /\ q.stopped = p.stopped
  BY ZenonT(60), <1>2 DEF HostType, create_service_info, NewInfo, Info, Offers
<1> HIDE DEF q
<1>4. \A u \in Services, k \in Gens : u # s \/ k # g => q.info[u][k] = p.info[u][k]
  BY <1>2, <1>3, Fields
<1>5. \A u \in Services : u # s => q.services[u] = p.services[u]
  BY <1>2, <1>3 DEF Offers
<1>6. q.services[s] = g
  BY <1>2, <1>3 DEF Offers
<1>7. \A u \in Services, k \in Gens : Held(q, u, k) => Held(p, u, k) \/ (u = s /\ k = g)
  <2>1. q.debounce = p.debounce /\ q.timers = p.timers /\ q.collected = p.collected
    BY <1>3
  <2>2. \A u \in Services, k \in Gens : q.services[u] = k => p.services[u] = k \/ (u = s /\ k = g)
    BY <1>5, <1>6
  <2> QED  BY <2>1, <2>2 DEF Held
<1>8. StaleIsDead(q)
  BY <1>2, <1>4, <1>5, <1>6, <1>7 DEF IInv, StaleIsDead
<1>9. BuiltIsReady(q)
  <2> SUFFICES ASSUME NEW u \in Services, <<u, TRUE>> \in q.debounce.entries
               PROVE  \E k \in Gens : q.debounce.offers[u] = k /\ q.info[u][k].ready
    BY Zenon DEF BuiltIsReady
  <2>1. PICK k \in Gens : p.debounce.offers[u] = k /\ p.info[u][k].ready
    BY Zenon, <1>3 DEF BuiltIsReady, IInv
  <2>2. Held(p, u, k)
    BY <2>1 DEF Held
  <2> QED  BY <1>1, <1>3, <1>4, <2>1, <2>2
<1>10. \A u \in Services, k \in Gens : Accounts(p, u, k) => Accounts(q, u, k)
  <2> SUFFICES ASSUME NEW u \in Services, NEW k \in Gens, Accounts(p, u, k)
               PROVE  Accounts(q, u, k)
    OBVIOUS
  <2>1. Held(p, u, k)
    BY DEF Accounts, Held
  <2>2. u # s \/ k # g
    BY <1>1, <2>1
  <2>3. q.info[u][k] = p.info[u][k] /\ (p.services[u] = k => q.services[u] = k)
    BY <1>2, <1>4, <1>5, <2>2
  <2> QED  BY <1>3, <2>3 DEF Accounts
<1>11. SaidIsAccounted(q, said)
  <2> SUFFICES ASSUME q.state = "resumed", NEW u \in said
               PROVE  \E k \in Gens : Accounts(q, u, k)
    BY DEF SaidIsAccounted
  <2>1. PICK k \in Gens : Accounts(p, u, k)
    BY <1>3 DEF IInv, SaidIsAccounted
  <2> QED  BY <1>10, <2>1 DEF IInv
<1>12. /\ p' \in HostType /\ SameOffers(q, p') /\ InfoGrows(q, p')
       /\ \A u \in Services : p'.collected[u] \in {q.collected[u], q.services[u]}
  <2>1. CASE p.stopped[s] = "no"
    <3>1. p' = offer_remote_service(q, s)
      BY <1>1, <2>1 DEF q
    <3> QED  BY Zenon, <1>3, <3>1, OfferRemoteFacts
  <2>2. CASE p.stopped[s] # "no"
    <3>1. p' = [q EXCEPT !.stopped = [q.stopped EXCEPT ![s] = "pending"]]
      BY <1>1, <2>2 DEF q
    <3>2. [q.stopped EXCEPT ![s] = "pending"] \in [Services -> {"no", "window", "pending"}]
      BY <1>3, Fields
    <3> QED  BY Zenon, <1>3, <3>1, <3>2 DEF HostType, SameOffers, InfoGrows
  <2> QED  BY <2>1, <2>2
<1>13. Sound(p') /\ SaidIsAccounted(p', said)
  BY Zenon, <1>3, <1>8, <1>9, <1>11, <1>12, GrowKeeps DEF Sound, IInv
<1> QED  BY <1>2, <1>3, <1>12, <1>13 DEF IInv, Sound, RunsIfResumed, SameOffers

\* A message with the entries E.
LEMMA SendFacts ==
  ASSUME NEW E, send(E), IInv
  PROVE  /\ said' \subseteq Services
         /\ \A s \in said' : <<s, TRUE>> \in E \/ (s \in said /\ <<s, FALSE>> \notin E)
  BY Zenon DEF send, IInv

\* stop_offer_service: the StopOffer is sent, or the debounce handler has the offer
\* and will send it.
LEMMA StopIInv ==
  ASSUME IInv, NEW s \in Services, stop_offer_service(s), 0 \notin Gens
  PROVE  IInv'
<1> DEFINE g == p.services[s]
           w == IF is_suspended(p) THEN p.stopped[s] ELSE "window"
           a == [p EXCEPT !.waiting = @ \ {s}, !.stopped = [p.stopped EXCEPT ![s] = w]]
           stop == [NoOffers EXCEPT ![s] = g]
           q == StopInfos(a, stop)
           b == [q EXCEPT !.services = [q.services EXCEPT ![s] = 0]]
<1>1. /\ p \in HostType /\ p.services \in Offers /\ g \in Gens
      /\ p' = Freed(b)
      /\ IF ~q.suspended /\ stop_offer_required(p, s, g)
           THEN send(send_stop_offer(q, s, g)) ELSE UNCHANGED said
  <2>1. p \in HostType /\ p.services \in Offers /\ g # 0
    BY Fields DEF IInv, stop_offer_service
  <2>2. g \in Gens
    BY <2>1 DEF Offers
  <2> QED  BY <2>1, <2>2 DEF stop_offer_service
<1>2. /\ a \in HostType /\ a.services = p.services /\ a.debounce = p.debounce /\ a.timers = p.timers
      /\ a.state = p.state /\ a.suspended = p.suspended /\ a.info = p.info /\ a.collected = p.collected
  <2>1. p.waiting \ {s} \in SUBSET Services
    BY <1>1, Fields
  <2>2. [p.stopped EXCEPT ![s] = w] \in [Services -> {"no", "window", "pending"}]
    BY <1>1, Fields
  <2> HIDE DEF w
  <2> QED  BY Zenon, <1>1, <2>1, <2>2 DEF HostType
<1>3. stop \in Offers /\ stop[s] = g /\ \A u \in Services : u # s => stop[u] = 0
  BY SMTT(30), <1>1 DEF NoOffers, Offers
<1> HIDE DEF a, stop
<1>4. /\ q \in HostType
      /\ q.services = p.services /\ q.debounce = p.debounce
      /\ q.state = p.state /\ q.suspended = p.suspended
      /\ \A u \in Services, k \in Gens :
            /\ q.info[u][k].ttl <=> p.info[u][k].ttl /\ stop[u] # k
            /\ q.info[u][k].main = p.info[u][k].main
            /\ q.info[u][k].ready = p.info[u][k].ready
      /\ \A u \in Services : q.collected[u] = IF p.collected[u] = stop[u] THEN 0 ELSE p.collected[u]
  BY SMTT(30), <1>2, <1>3, StopFacts
<1>5. /\ \A t \in p.timers, u \in Services : t.offers[u] \in Gens /\ t.offers[u] # stop[u] =>
               \E v \in q.timers : v.offers[u] = t.offers[u] /\ v.repetition = t.repetition
      /\ \A v \in q.timers, u \in Services : v.offers[u] \in Gens =>
               v.offers[u] # stop[u] /\ \E t \in p.timers : t.offers[u] = v.offers[u]
  BY <1>2, <1>3, StopFacts
<1> HIDE DEF q, g
<1>6. /\ b \in HostType /\ b.debounce = p.debounce /\ b.timers = q.timers /\ b.info = q.info
      /\ b.state = p.state /\ b.suspended = p.suspended /\ b.collected = q.collected
      /\ b.services[s] = 0 /\ \A u \in Services : u # s => b.services[u] = p.services[u]
  <2>1. /\ [q.services EXCEPT ![s] = 0] \in Offers /\ [q.services EXCEPT ![s] = 0][s] = 0
        /\ \A u \in Services : u # s => [q.services EXCEPT ![s] = 0][u] = p.services[u]
    BY <1>1, <1>4 DEF Offers
  <2> QED  BY Zenon, <1>4, <2>1 DEF HostType
<1> HIDE DEF b
<1>7. \A u \in Services, k \in Gens : Held(b, u, k) => Held(p, u, k)
  <2> SUFFICES ASSUME NEW u \in Services, NEW k \in Gens, Held(b, u, k)
               PROVE  Held(p, u, k)
    OBVIOUS
  <2>1. CASE b.services[u] = k
    BY <1>6, <2>1 DEF Held
  <2>2. CASE b.collected[u] = k
    BY <1>4, <1>6, <2>2 DEF Held
  <2>3. CASE b.debounce.offers[u] = k
    BY <1>6, <2>3 DEF Held
  <2>4. CASE \E t \in b.timers : t.offers[u] = k
    BY <1>5, <1>6, <2>4 DEF Held
  <2> QED  BY <2>1, <2>2, <2>3, <2>4 DEF Held
<1>8. /\ p' \in HostType /\ SameOffers(b, p') /\ p'.collected = b.collected
      /\ \A u \in Services, k \in Gens : Held(b, u, k) => p'.info[u][k] = q.info[u][k]
  BY <1>1, <1>6, FreedFacts
<1>9. \A u \in Services, k \in Gens : Held(p', u, k) = Held(b, u, k)
  BY <1>8 DEF Held, SameOffers
<1>10. StaleIsDead(p')
  <2> SUFFICES ASSUME NEW u \in Services, NEW k \in Gens, Held(b, u, k), b.services[u] # k
               PROVE  ~q.info[u][k].ttl
    BY <1>8, <1>9 DEF StaleIsDead, SameOffers
  <2>1. Held(p, u, k)
    BY <1>7
  <2>2. CASE p.services[u] # k
    BY <1>4, <2>1, <2>2 DEF IInv, StaleIsDead
  <2>3. CASE p.services[u] = k
    BY <1>3, <1>4, <1>6, <2>3 DEF g
  <2> QED  BY <2>2, <2>3
<1>11. BuiltIsReady(p')
  <2> SUFFICES ASSUME NEW u \in Services, <<u, TRUE>> \in p'.debounce.entries
               PROVE  \E k \in Gens : p'.debounce.offers[u] = k /\ p'.info[u][k].ready
    BY Zenon DEF BuiltIsReady
  <2>1. p'.debounce = p.debounce
    BY <1>6, <1>8 DEF SameOffers
  <2>2. PICK k \in Gens : p.debounce.offers[u] = k /\ p.info[u][k].ready
    BY Zenon, <2>1 DEF IInv, BuiltIsReady
  <2>3. Held(b, u, k)
    BY <1>6, <2>2 DEF Held
  <2> QED  BY <1>4, <1>8, <2>1, <2>2, <2>3
<1>12. ASSUME NEW u \in Services, NEW k \in Gens, Accounts(p, u, k),
              u # s \/ k # g \/ p.debounce.offers[u] = k
       PROVE  Accounts(p', u, k)
  <2>1. p.services[u] = k => u # s \/ p.debounce.offers[u] = k
    BY <1>12 DEF g
  <2>2. /\ p'.debounce = p.debounce /\ p'.timers = q.timers
        /\ u # s => p'.services[u] = p.services[u]
    BY <1>6, <1>8 DEF SameOffers
  <2>3. CASE p.debounce.offers[u] = k
    <3>1. Held(b, u, k)
      BY <1>6, <2>3 DEF Held
    <3> QED  BY SMTT(30), <1>4, <1>8, <1>12, <2>2, <2>3, <3>1 DEF Accounts
  <2>4. CASE /\ p.debounce.offers[u] # k
             /\ \E t \in p.timers : t.offers[u] = k /\ (t.repetition # 0 \/ p.services[u] = k)
    <3>1. PICK t \in p.timers : t.offers[u] = k /\ (t.repetition # 0 \/ p.services[u] = k)
      BY <2>4
    <3>2. stop[u] # k
      BY <1>3, <1>12, <2>4
    <3>3. PICK v \in q.timers : v.offers[u] = k /\ v.repetition = t.repetition
      BY <1>5, <3>1, <3>2
    <3>4. Held(b, u, k)
      BY <1>6, <3>3 DEF Held
    <3>5. p'.info[u][k].ready
      BY <1>4, <1>8, <1>12, <3>4 DEF Accounts
    <3>6. v.repetition # 0 \/ p'.services[u] = k
      BY SMTT(30), <2>1, <2>2, <2>4, <3>1, <3>3
    <3> QED  BY <2>2, <3>3, <3>5, <3>6 DEF Accounts
  <2>5. CASE p.debounce.offers[u] # k /\ p.services[u] = k /\ p.info[u][k].main
    <3>1. Held(b, u, k)
      BY <1>6, <2>1, <2>5 DEF Held
    <3> QED  BY SMTT(30), <1>4, <1>8, <1>12, <2>1, <2>2, <2>5, <3>1 DEF Accounts
  <2> QED  BY <1>12, <2>3, <2>4, <2>5 DEF Accounts
<1>13. p.state = "resumed" /\ Accounts(p, s, g) /\ p.debounce.offers[s] # g => s \notin said'
  <2> SUFFICES ASSUME p.state = "resumed", Accounts(p, s, g), p.debounce.offers[s] # g
               PROVE  s \notin said'
    OBVIOUS
  <2>1. ~q.suspended /\ q.info[s][g].ready
    BY <1>1, <1>4 DEF IInv, RunsIfResumed, Accounts
  <2>2. stop_offer_required(p, s, g)
    BY DEF Accounts, stop_offer_required
  <2>3. q.info[s][g].ttl = FALSE
    <3>1. q.info[s][g] \in Info
      BY <1>1, <1>4, Fields
    <3> QED  BY <1>1, <1>3, <1>4, <3>1 DEF Info
  <2>4. send({<<s, FALSE>>})
    BY Zenon, <1>1, <2>1, <2>2, <2>3 DEF send_stop_offer, insert_offer_service
  <2> QED  BY Zenon, <2>4, SendFacts
<1>14. said' \subseteq said
  <2>1. CASE ~q.suspended /\ stop_offer_required(p, s, g)
    <3>1. send(send_stop_offer(q, s, g))
      BY <1>1, <2>1
    <3>2. \A u : <<u, TRUE>> \notin send_stop_offer(q, s, g)
      <4>1. q.info[s][g] \in Info
        BY <1>1, <1>4, Fields
      <4>2. q.info[s][g].ttl = FALSE
        BY <1>1, <1>3, <1>4, <4>1 DEF Info
      <4> QED  BY Zenon, <4>2 DEF send_stop_offer, insert_offer_service
    <3> QED  BY Zenon, <3>1, <3>2, SendFacts
  <2>2. CASE ~(~q.suspended /\ stop_offer_required(p, s, g))
    BY <1>1, <2>2
  <2> QED  BY <2>1, <2>2
<1>15. SaidIsAccounted(p', said')
  <2> SUFFICES ASSUME p'.state = "resumed", NEW u \in said'
               PROVE  \E k \in Gens : Accounts(p', u, k)
    BY DEF SaidIsAccounted
  <2>1. u \in Services /\ p.state = "resumed" /\ u \in said
    BY <1>6, <1>8, <1>14 DEF IInv, SameOffers
  <2>2. PICK k \in Gens : Accounts(p, u, k)
    BY <2>1 DEF IInv, SaidIsAccounted
  <2>3. u # s \/ k # g \/ p.debounce.offers[u] = k
    BY <1>13, <2>1, <2>2
  <2> QED  BY <1>12, <2>1, <2>2, <2>3
<1> QED
  BY <1>6, <1>8, <1>10, <1>11, <1>14, <1>15 DEF IInv, RunsIfResumed, SameOffers

\* Suspending: the offers stay, with a TTL of zero and in no timer.
LEMMA SuspendIInv ==
  ASSUME IInv, SetSuspended, 0 \notin Gens
  PROVE  IInv'
<1> DEFINE a == suspend([p EXCEPT !.state = "suspended"])
           q == StopInfos(a, p.services)
<1>1. p \in HostType /\ p.services \in Offers /\ p' = Freed(q) /\ send_collected_stop_offers(p')
  BY Fields DEF IInv, SetSuspended
<1>2. /\ a \in HostType /\ a.services = p.services /\ a.debounce = p.debounce /\ a.timers = p.timers
      /\ a.state = "suspended" /\ a.info = p.info /\ a.collected = p.collected
  BY Zenon, <1>1 DEF HostType, suspend
<1> HIDE DEF a
<1>3. /\ q \in HostType /\ q.services = p.services /\ q.debounce = p.debounce
      /\ q.state = "suspended"
      /\ \A u \in Services, k \in Gens :
            /\ q.info[u][k].ttl <=> p.info[u][k].ttl /\ p.services[u] # k
            /\ q.info[u][k].ready = p.info[u][k].ready
      /\ \A u \in Services : q.collected[u] \in {0, p.collected[u]}
      /\ \A v \in q.timers, u \in Services : v.offers[u] \in Gens =>
               \E t \in p.timers : t.offers[u] = v.offers[u]
  BY SMTT(30), <1>1, <1>2, StopFacts
<1> HIDE DEF q
<1>4. /\ p' \in HostType /\ SameOffers(q, p') /\ p'.collected = q.collected
      /\ \A u \in Services, k \in Gens : Held(q, u, k) => p'.info[u][k] = q.info[u][k]
  BY <1>1, <1>3, FreedFacts
<1>5. \A u \in Services, k \in Gens : /\ Held(p', u, k) = Held(q, u, k)
                                      /\ Held(q, u, k) => Held(p, u, k)
  <2>1. \A u \in Services, k \in Gens : Held(p', u, k) = Held(q, u, k)
    BY <1>4 DEF Held, SameOffers
  <2>2. \A u \in Services, k \in Gens : Held(q, u, k) => Held(p, u, k)
    BY <1>3 DEF Held
  <2> QED  BY <2>1, <2>2
<1>6. StaleIsDead(p')
  BY <1>3, <1>4, <1>5 DEF IInv, StaleIsDead, SameOffers
<1>7. BuiltIsReady(p')
  <2> SUFFICES ASSUME NEW u \in Services, <<u, TRUE>> \in p'.debounce.entries
               PROVE  \E k \in Gens : p'.debounce.offers[u] = k /\ p'.info[u][k].ready
    BY Zenon DEF BuiltIsReady
  <2>1. p'.debounce = p.debounce
    BY <1>3, <1>4 DEF SameOffers
  <2>2. PICK k \in Gens : p.debounce.offers[u] = k /\ p.info[u][k].ready
    BY Zenon, <2>1 DEF IInv, BuiltIsReady
  <2>3. Held(q, u, k)
    BY <1>3, <2>2 DEF Held
  <2> QED  BY <1>3, <1>4, <2>1, <2>2, <2>3
<1>8. said' \subseteq Services
  BY Zenon, <1>1 DEF send_collected_stop_offers, send
<1>9. p'.state # "resumed"
  BY <1>3, <1>4 DEF SameOffers
<1> QED  BY <1>4, <1>6, <1>7, <1>8, <1>9 DEF IInv, RunsIfResumed, SaidIsAccounted

\* Resuming, at once or once the network is up: new sessions begin.
LEMMA ResumedIInv ==
  ASSUME IInv, SetResumed, 0 \notin Gens
  PROVE  IInv'
<1>1. p \in HostType /\ Sound(p)
  BY DEF IInv, Sound
<1>2. CASE p.up
  <2>1. p' = resume(p) /\ said' = {}
    BY <1>2 DEF SetResumed, NewSessions
  <2>2. p' \in HostType /\ Sound(p') /\ ~p'.suspended
    BY <1>1, <2>1, ResumeFacts
  <2> QED  BY <2>1, <2>2 DEF IInv, Sound, RunsIfResumed, SaidIsAccounted
<1>3. CASE ~p.up
  <2>1. p' = [p EXCEPT !.state = "delayed"] /\ said' = said
    BY <1>3 DEF SetResumed
  <2>2. /\ p' \in HostType /\ p'.state = "delayed"
        /\ p'.services = p.services /\ p'.debounce = p.debounce /\ p'.timers = p.timers
        /\ p'.info = p.info /\ p'.collected = p.collected
    BY <1>1, <2>1 DEF HostType
  <2>3. Sound(p')
    BY <1>1, <2>2, SameKeeps
  <2> QED  BY <2>1, <2>2, <2>3 DEF IInv, Sound, RunsIfResumed, SaidIsAccounted
<1> QED  BY <1>2, <1>3

\* The network comes up: discovery starts, resumes or makes its pending offers ready.
LEMMA NetworkUpIInv ==
  ASSUME IInv, NetworkUp, 0 \notin Gens
  PROVE  IInv'
<1> DEFINE q == [p EXCEPT !.up = TRUE, !.running = TRUE]
           starts == ~p.running /\ ~is_suspended(p)
           r == IF starts THEN start(q) ELSE q
<1>1. /\ p' = CASE p.state = "delayed" -> resume(r)
                [] p.state = "resumed" -> init_pending_services(r)
                [] OTHER -> r
      /\ IF starts \/ p.state = "delayed" THEN said' = {} ELSE said' = said
  BY DEF NetworkUp, NewSessions
<1>2. p \in HostType /\ Sound(p)
  BY DEF IInv, Sound
<1>3. /\ q \in HostType /\ q.services = p.services /\ q.debounce = p.debounce /\ q.timers = p.timers
      /\ q.info = p.info /\ q.collected = p.collected /\ q.state = p.state /\ q.suspended = p.suspended
  BY Zenon, <1>2 DEF HostType
<1> HIDE DEF q
<1>4. /\ r \in HostType /\ r.services = p.services /\ r.debounce = p.debounce /\ r.timers = p.timers
      /\ r.info = p.info /\ r.collected = p.collected /\ r.state = p.state
      /\ starts => ~r.suspended
      /\ ~starts => r.suspended = p.suspended
  <2>1. CASE starts
    BY Zenon, <1>3, <2>1 DEF start, HostType
  <2>2. CASE ~starts
    BY <1>3, <2>2
  <2> QED  BY <2>1, <2>2
<1>5. Sound(r) /\ RunsIfResumed(r)
  BY <1>2, <1>4, SameKeeps DEF IInv, RunsIfResumed
<1> HIDE DEF r
<1>6. CASE p.state = "delayed"
  <2>1. p' = resume(r) /\ said' = {}
    BY <1>1, <1>6
  <2>2. p' \in HostType /\ Sound(p') /\ ~p'.suspended
    BY <1>4, <1>5, <2>1, ResumeFacts
  <2> QED  BY <2>1, <2>2 DEF IInv, Sound, RunsIfResumed, SaidIsAccounted
<1>7. CASE p.state = "resumed"
  <2>1. p' = init_pending_services(r)
    BY <1>1, <1>7
  <2>2. /\ p' \in HostType /\ SameOffers(r, p') /\ InfoGrows(r, p') /\ p'.collected = r.collected
    BY <1>4, <2>1, PendingFacts
  <2>3. said' \in {{}, said} /\ said' \subseteq Services
    BY <1>1 DEF IInv
  <2>4. \A sd \in SUBSET Services : SaidIsAccounted(p, sd) => SaidIsAccounted(r, sd)
    BY <1>4 DEF SaidIsAccounted, Accounts
  <2>5. SaidIsAccounted(r, said')
    BY <2>3, <2>4 DEF IInv, SaidIsAccounted
  <2>6. Sound(p') /\ SaidIsAccounted(p', said')
    BY <1>4, <1>5, <2>2, <2>3, <2>5, GrowKeeps
  <2> QED  BY <1>5, <2>2, <2>3, <2>6 DEF IInv, Sound, RunsIfResumed, SameOffers
<1>8. CASE p.state \notin {"delayed", "resumed"}
  <2>1. p' = r /\ said' \in {{}, said}
    BY <1>1, <1>8
  <2> QED  BY <1>4, <1>5, <1>8, <2>1 DEF IInv, Sound, RunsIfResumed, SaidIsAccounted
<1> QED  BY <1>6, <1>7, <1>8

\* The network goes, or the host starts again.
LEMMA NetworkDownIInv ==
  ASSUME IInv, NetworkDown
  PROVE  IInv'
<1>1. p' = [p EXCEPT !.up = FALSE] /\ p \in HostType
  BY DEF NetworkDown, IInv
<1>2. p' \in HostType /\ SameOffers(p, p') /\ p'.info = p.info /\ p'.collected = p.collected
  BY Zenon, <1>1 DEF HostType, SameOffers
<1> QED  BY <1>2, GrowStep DEF NetworkDown, InfoGrows


\* The initial state and the one after a restart.
LEMMA InitIInv == 0 \notin Gens /\ Init => IInv
  BY NewHostFacts DEF Init, IInv, Sound, SaidIsAccounted

\* A restart of the host.
LEMMA RebootIInv == 0 \notin Gens /\ Reboot => IInv'
  BY NewHostFacts DEF Reboot, NewSessions, IInv, Sound, SaidIsAccounted

\* The two uses of insert_offer_entries: all phases, and the main phase only.
AllEntries(q, offers) == insert_offer_entries(q, offers, TRUE)
MainEntries(q, offers) == insert_offer_entries(q, offers, FALSE)

\* insert_offer_entries of the debounce handler and of the repetitions: what is ready
\* is announced, positively or not, unless discovery is suspended ...
LEMMA EntriesFacts ==
  ASSUME NEW q \in HostType, NEW offers \in Offers, NEW E, E = AllEntries(q, offers)
  PROVE  /\ E \in SUBSET (Services \X BOOLEAN)
         /\ \A s \in Services : <<s, TRUE>> \in E =>
               offers[s] # 0 /\ q.info[s][offers[s]].ready /\ q.info[s][offers[s]].ttl
         /\ \A s \in Services : (/\ offers[s] # 0 /\ ~q.suspended
                                 /\ q.info[s][offers[s]].ready /\ ~q.info[s][offers[s]].ttl)
               => <<s, FALSE>> \in E
<1> DEFINE R == {t \in Offered(offers) : ~q.suspended /\ q.info[t][offers[t]].ready}
<1>1. E = {<<s, q.info[s][offers[s]].ttl>> : s \in R}
  BY DEF AllEntries, insert_offer_entries, insert_offer_service, is_ready_to_offer
<1>2. \A s \in R : s \in Services /\ offers[s] \in Gens
  BY DEF Offered, Offers
<1>3. \A s \in R : q.info[s][offers[s]].ttl \in BOOLEAN
  BY <1>2, Fields DEF Info
<1>4. \A s \in R : <<s, q.info[s][offers[s]].ttl>> \in Services \X BOOLEAN
  BY <1>2, <1>3
<1>5. \A s \in Services : s \in R <=> offers[s] # 0 /\ ~q.suspended /\ q.info[s][offers[s]].ready
  BY DEF Offered
<1> HIDE DEF R
<1>6. \A s, b : <<s, b>> \in E <=> s \in R /\ q.info[s][offers[s]].ttl = b
  BY <1>1
<1>7. \A s \in Services : <<s, TRUE>> \in E <=> s \in R /\ q.info[s][offers[s]].ttl = TRUE
  BY Zenon, <1>6
<1>8. \A s \in Services : <<s, FALSE>> \in E <=> s \in R /\ q.info[s][offers[s]].ttl = FALSE
  BY Zenon, <1>6
<1>9. \A s \in R : ~q.info[s][offers[s]].ttl => q.info[s][offers[s]].ttl = FALSE
  BY <1>3
<1>10. E \in SUBSET (Services \X BOOLEAN)
  BY Zenon, <1>1, <1>4
<1> QED  BY Zenon, <1>5, <1>7, <1>8, <1>9, <1>10

\* ... and those of the main phase.
LEMMA MainEntriesFacts ==
  ASSUME NEW q \in HostType, NEW offers \in Offers, NEW E, E = MainEntries(q, offers)
  PROVE  \A s \in Services : <<s, TRUE>> \in E =>
               /\ offers[s] # 0 /\ q.info[s][offers[s]].ready /\ q.info[s][offers[s]].main
<1> DEFINE R == {t \in Offered(offers) : /\ ~q.suspended /\ q.info[t][offers[t]].main
                                         /\ q.info[t][offers[t]].ready}
<1>1. E = {<<s, q.info[s][offers[s]].ttl>> : s \in R}
  BY DEF MainEntries, insert_offer_entries, insert_offer_service, is_ready_to_offer
<1>2. \A s \in Services : s \in R =>
          offers[s] # 0 /\ q.info[s][offers[s]].ready /\ q.info[s][offers[s]].main
  BY DEF Offered
<1> HIDE DEF R
<1>3. \A s, b : <<s, b>> \in E => s \in R
  BY <1>1
<1> QED  BY <1>2, <1>3

\* The debounce handler takes the collected offers.
LEMMA DebounceCopyIInv ==
  ASSUME IInv, DebounceCopy, 0 \notin Gens
  PROVE  IInv'
<1> DEFINE d == [Idle EXCEPT !.pc = "copied", !.offers = p.collected]
<1>1. /\ p \in HostType /\ p.collected \in Offers /\ p.debounce = Idle /\ said' = said
      /\ p' = [p EXCEPT !.armed = FALSE, !.collected = NoOffers, !.debounce = d]
  BY Fields DEF IInv, DebounceCopy
<1>2. /\ d \in [pc : {"idle", "copied", "built"}, offers : Offers,
                entries : SUBSET (Services \X BOOLEAN)]
      /\ d.offers = p.collected /\ d.entries = {}
      /\ NoOffers \in Offers
  BY Zenon, <1>1 DEF Idle, NoOffers, Offers
<1>3. \A s \in Services : p.debounce.offers[s] = 0 /\ NoOffers[s] = 0
  BY <1>1 DEF Idle, NoOffers
<1> HIDE DEF d
<1>4. p' \in HostType
  BY Zenon, <1>1, <1>2 DEF HostType
<1>5. /\ p'.services = p.services /\ p'.timers = p.timers /\ p'.info = p.info
      /\ p'.state = p.state /\ p'.suspended = p.suspended
      /\ p'.debounce = d /\ p'.collected = NoOffers
  BY <1>1 DEF HostType
<1>6. \A s \in Services, g \in Gens : Held(p', s, g) => Held(p, s, g)
  BY <1>2, <1>3, <1>5 DEF Held
<1>7. StaleIsDead(p')
  BY <1>5, <1>6 DEF IInv, StaleIsDead
<1>8. BuiltIsReady(p') /\ RunsIfResumed(p')
  BY Zenon, <1>2, <1>5 DEF IInv, BuiltIsReady, RunsIfResumed
<1>9. \A s \in Services, g \in Gens : Accounts(p, s, g) => Accounts(p', s, g)
  BY <1>3, <1>5 DEF Accounts
<1>10. SaidIsAccounted(p', said')
  <2> SUFFICES ASSUME p'.state = "resumed", NEW s \in said
               PROVE  \E g \in Gens : Accounts(p', s, g)
    BY <1>1 DEF SaidIsAccounted
  <2>1. s \in Services /\ \E g \in Gens : Accounts(p, s, g)
    BY <1>5 DEF IInv, SaidIsAccounted
  <2> QED  BY <1>9, <2>1
<1> QED  BY <1>1, <1>4, <1>7, <1>8, <1>10 DEF IInv

\* It makes the entries: they say what is true of the objects at this moment.
LEMMA DebounceBuildIInv ==
  ASSUME IInv, DebounceBuild, 0 \notin Gens
  PROVE  IInv'
<1> DEFINE E == AllEntries(p, p.debounce.offers)
           d == [p.debounce EXCEPT !.pc = "built", !.entries = E]
<1>1. p \in HostType /\ p.debounce.offers \in Offers /\ said' = said /\ p' = [p EXCEPT !.debounce = d]
  <2>1. p \in HostType /\ p.debounce.offers \in Offers /\ said' = said
    BY Fields DEF IInv, DebounceBuild
  <2>2. p' = [p EXCEPT !.debounce.pc = "built", !.debounce.entries = E]
    BY DEF DebounceBuild, AllEntries
  <2> HIDE DEF E
  <2> QED  BY Zenon, <2>1, <2>2 DEF HostType
<1>2. /\ E \in SUBSET (Services \X BOOLEAN)
      /\ \A s \in Services : <<s, TRUE>> \in E =>
            p.debounce.offers[s] # 0 /\ p.info[s][p.debounce.offers[s]].ready
  <2> DEFINE offers == p.debounce.offers
  <2>1. p \in HostType /\ offers \in Offers /\ E = AllEntries(p, offers)
    BY <1>1
  <2> HIDE DEF offers, E
  <2>2. /\ E \in SUBSET (Services \X BOOLEAN)
        /\ \A s \in Services : <<s, TRUE>> \in E =>
               offers[s] # 0 /\ p.info[s][offers[s]].ready /\ p.info[s][offers[s]].ttl
    BY Zenon, <2>1, EntriesFacts
  <2> QED  BY Zenon, <2>2 DEF offers
<1> HIDE DEF E
<1>3. /\ d \in [pc : {"idle", "copied", "built"}, offers : Offers,
                entries : SUBSET (Services \X BOOLEAN)]
      /\ d.offers = p.debounce.offers /\ d.entries = E
  BY Zenon, <1>1, <1>2 DEF HostType
<1> HIDE DEF d
<1>4. /\ p' \in HostType /\ p'.services = p.services /\ p'.timers = p.timers /\ p'.info = p.info
      /\ p'.state = p.state /\ p'.suspended = p.suspended
      /\ p'.debounce = d /\ p'.collected = p.collected
  BY SMTT(30), <1>1, <1>3 DEF HostType
<1>5. \A s \in Services, g \in Gens : Held(p', s, g) => Held(p, s, g)
  BY <1>3, <1>4 DEF Held
<1>6. StaleIsDead(p') /\ RunsIfResumed(p')
  BY <1>4, <1>5 DEF IInv, StaleIsDead, RunsIfResumed
<1>7. BuiltIsReady(p')
  <2>1. \A s \in Services : p.debounce.offers[s] # 0 => p.debounce.offers[s] \in Gens
    BY <1>1 DEF Offers
  <2> QED  BY Zenon, <1>2, <1>3, <1>4, <2>1 DEF BuiltIsReady
<1>8. \A s \in Services, g \in Gens : Accounts(p, s, g) => Accounts(p', s, g)
  BY <1>3, <1>4 DEF Accounts
<1>9. SaidIsAccounted(p', said')
  <2> SUFFICES ASSUME p'.state = "resumed", NEW s \in said
               PROVE  \E g \in Gens : Accounts(p', s, g)
    BY <1>1 DEF SaidIsAccounted
  <2>1. s \in Services /\ \E g \in Gens : Accounts(p, s, g)
    BY <1>4 DEF IInv, SaidIsAccounted
  <2> QED  BY <1>8, <2>1
<1> QED  BY <1>1, <1>4, <1>6, <1>7, <1>9 DEF IInv

\* It sends them, and the offers enter the repetition phase: whatever was stopped in
\* between is announced once more, with a TTL of zero.
LEMMA DebounceSendIInv ==
  ASSUME IInv, DebounceSend, 0 \notin Gens, RepetitionsMax > 0
  PROVE  IInv'
<1> DEFINE t == Phase(p.debounce.offers, 1)
<1>1. /\ p \in HostType /\ p.debounce.offers \in Offers /\ p.timers \subseteq Timer
      /\ p' = [p EXCEPT !.armed = TRUE, !.debounce = Idle, !.timers = @ \cup {t}]
      /\ send(p.debounce.entries)
  BY Fields DEF IInv, DebounceSend, FirstRepetition
<1>2. t \in Timer /\ t.offers = p.debounce.offers /\ t.repetition = 1
  BY <1>1 DEF Phase, Timer
<1>3. /\ Idle \in [pc : {"idle", "copied", "built"}, offers : Offers,
                   entries : SUBSET (Services \X BOOLEAN)]
      /\ Idle.entries = {} /\ \A s \in Services : Idle.offers[s] = 0
  BY DEF Idle, NoOffers, Offers
<1> HIDE DEF t
<1>4. p.timers \cup {t} \in SUBSET Timer
  BY <1>1, <1>2
<1>5. p' \in HostType
  BY Zenon, <1>1, <1>3, <1>4 DEF HostType
<1>6. /\ p'.services = p.services /\ p'.timers = p.timers \cup {t} /\ p'.info = p.info
      /\ p'.state = p.state /\ p'.suspended = p.suspended
      /\ p'.debounce = Idle /\ p'.collected = p.collected
  BY <1>1 DEF HostType
<1>7. \A s \in Services, g \in Gens : Held(p', s, g) => Held(p, s, g)
  BY <1>2, <1>3, <1>6 DEF Held
<1>8. StaleIsDead(p')
  BY <1>6, <1>7 DEF IInv, StaleIsDead
<1>9. BuiltIsReady(p') /\ RunsIfResumed(p')
  BY Zenon, <1>3, <1>6 DEF IInv, BuiltIsReady, RunsIfResumed
<1>10. \A s \in Services, g \in Gens : p.debounce.offers[s] = g /\ p.info[s][g].ready
                                         => Accounts(p', s, g)
  BY <1>2, <1>6 DEF Accounts
<1>11. \A s \in Services, g \in Gens : Accounts(p, s, g) => Accounts(p', s, g)
  <2> SUFFICES ASSUME NEW s \in Services, NEW g \in Gens, Accounts(p, s, g)
               PROVE  Accounts(p', s, g)
    OBVIOUS
  <2>1. CASE p.debounce.offers[s] = g
    BY <1>10, <2>1 DEF Accounts
  <2>2. CASE p.debounce.offers[s] # g
    BY <1>6, <2>2 DEF Accounts
  <2> QED  BY <2>1, <2>2
<1>12. SaidIsAccounted(p', said')
  <2> SUFFICES ASSUME p'.state = "resumed", NEW s \in said'
               PROVE  \E g \in Gens : Accounts(p', s, g)
    BY DEF SaidIsAccounted
  <2>1. s \in Services /\ (<<s, TRUE>> \in p.debounce.entries \/ s \in said)
    BY Zenon, <1>1, SendFacts
  <2>2. CASE <<s, TRUE>> \in p.debounce.entries
    <3>1. PICK g \in Gens : p.debounce.offers[s] = g /\ p.info[s][g].ready
      BY Zenon, <2>1, <2>2 DEF IInv, BuiltIsReady
    <3> QED  BY <1>10, <2>1, <3>1
  <2>3. CASE s \in said
    <3>1. PICK g \in Gens : Accounts(p, s, g)
      BY SMTT(30), <1>6, <2>3 DEF IInv, SaidIsAccounted
    <3> QED  BY <1>11, <2>1, <3>1
  <2> QED  BY <2>1, <2>2, <2>3
<1> QED
  BY Zenon, <1>1, <1>5, <1>8, <1>9, <1>12, SendFacts DEF IInv

\* move_offers_into_main_phase, and the destruction of what the timer alone held.
LEMMA MovedFacts ==
  ASSUME NEW q \in HostType, NEW t \in q.timers, NEW r, 0 \notin Gens,
         r = Freed(move_offers_into_main_phase(q, t))
  PROVE  /\ r \in HostType /\ r.services = q.services /\ r.debounce = q.debounce
         /\ r.state = q.state /\ r.suspended = q.suspended
         /\ r.collected = q.collected /\ r.timers = q.timers \ {t}
         /\ \A s \in Services, g \in Gens : Held(r, s, g) =>
               /\ r.info[s][g].ttl = q.info[s][g].ttl /\ r.info[s][g].ready = q.info[s][g].ready
               /\ t.offers[s] = g \/ q.info[s][g].main => r.info[s][g].main
<1> DEFINE x == [s \in Services |-> [g \in Gens |->
                    IF t.offers[s] = g THEN Main(q.info[s][g]) ELSE q.info[s][g]]]
           m == [[q EXCEPT !.info = x] EXCEPT !.timers = q.timers \ {t}]
<1>1. move_offers_into_main_phase(q, t) = m
  <2>1. OfInfos(q, t.offers, Main) = [q EXCEPT !.info = x]
    BY DEF OfInfos
  <2>2. [q EXCEPT !.info = x].timers = q.timers
    BY SMTT(30) DEF HostType
  <2> HIDE DEF x
  <2> QED  BY <2>1, <2>2 DEF move_offers_into_main_phase
<1>2. ASSUME NEW s \in Services, NEW g \in Gens
      PROVE  /\ x[s][g] \in Info
             /\ x[s][g].ttl = q.info[s][g].ttl /\ x[s][g].ready = q.info[s][g].ready
             /\ t.offers[s] = g \/ q.info[s][g].main => x[s][g].main
  <2>1. q.info[s][g] \in Info
    BY Fields
  <2>2. x[s][g] = IF t.offers[s] = g THEN Main(q.info[s][g]) ELSE q.info[s][g]
    BY SMTT(30)
  <2> QED  BY SMTT(30), <2>1, <2>2, InfoOps
<1>3. x \in [Services -> [Gens -> Info]]
  BY <1>2
<1> HIDE DEF x
<1>4. q.timers \ {t} \in SUBSET Timer
  BY Fields
<1>5. m \in HostType
  BY Zenon, <1>3, <1>4 DEF HostType
<1>6. /\ m.services = q.services /\ m.debounce = q.debounce
      /\ m.state = q.state /\ m.suspended = q.suspended
      /\ m.collected = q.collected /\ m.timers = q.timers \ {t} /\ m.info = x
  BY DEF HostType
<1> HIDE DEF m
<1>7. /\ r \in HostType /\ SameOffers(m, r) /\ r.collected = m.collected
      /\ \A s \in Services, g \in Gens : Held(m, s, g) => r.info[s][g] = x[s][g]
  BY <1>1, <1>5, <1>6, FreedFacts
<1>8. \A s \in Services, g \in Gens : Held(r, s, g) = Held(m, s, g)
  BY SMTT(30), <1>7 DEF Held, SameOffers
<1> QED  BY <1>2, <1>6, <1>7, <1>8 DEF SameOffers

\* Accounts survives the end of the timer t, or its next repetition, wherever it does
\* not rest on a repetition of t alone.
RestsOn(t, s, g) == t.offers[s] = g /\ p.services[s] # g /\ t.repetition # 0

\* What an expired repetition timer does to the invariant, whichever way it goes on.
TimerStep(t) ==
    /\ p' \in HostType /\ p'.state = p.state
    /\ Sound(p') /\ RunsIfResumed(p')
    /\ \A s \in Services, g \in Gens : Accounts(p, s, g) /\ ~RestsOn(t, s, g) => Accounts(p', s, g)
    /\ \A s \in Services, g \in Gens :
           t.offers[s] = g /\ p.services[s] = g /\ p.info[s][g].ready => Accounts(p', s, g)

\* The last repetition moves the offers of t into the main phase.
LEMMA MovedStep ==
  ASSUME IInv, NEW t \in p.timers, p' = Freed(move_offers_into_main_phase(p, t)), 0 \notin Gens
  PROVE  TimerStep(t)
<1>1. p \in HostType
  BY SMTT(30) DEF IInv
<1>2. /\ p' \in HostType /\ p'.services = p.services /\ p'.debounce = p.debounce
      /\ p'.state = p.state /\ p'.suspended = p.suspended
      /\ p'.collected = p.collected /\ p'.timers = p.timers \ {t}
      /\ \A s \in Services, g \in Gens : Held(p', s, g) =>
            /\ p'.info[s][g].ttl = p.info[s][g].ttl /\ p'.info[s][g].ready = p.info[s][g].ready
            /\ t.offers[s] = g \/ p.info[s][g].main => p'.info[s][g].main
  BY SMTT(30), <1>1, MovedFacts
<1>3. \A s \in Services, g \in Gens : Held(p', s, g) => Held(p, s, g)
  BY SMTT(30), <1>2 DEF Held
<1>4. StaleIsDead(p') /\ RunsIfResumed(p')
  BY SMTT(30), <1>2, <1>3 DEF IInv, StaleIsDead, RunsIfResumed
<1>5. BuiltIsReady(p')
  <2> SUFFICES ASSUME NEW u \in Services, <<u, TRUE>> \in p'.debounce.entries
               PROVE  \E k \in Gens : p'.debounce.offers[u] = k /\ p'.info[u][k].ready
    BY Zenon DEF BuiltIsReady
  <2>1. PICK k \in Gens : p.debounce.offers[u] = k /\ p.info[u][k].ready
    BY Zenon, <1>2 DEF IInv, BuiltIsReady
  <2>2. Held(p', u, k)
    BY SMTT(30), <1>2, <2>1 DEF Held
  <2> QED  BY <1>2, <2>1, <2>2
<1>6. ASSUME NEW s \in Services, NEW g \in Gens, Accounts(p, s, g), ~RestsOn(t, s, g)
      PROVE  Accounts(p', s, g)
  <2>1. CASE p.debounce.offers[s] = g
    <3>1. Held(p', s, g)
      BY SMTT(30), <1>2, <2>1 DEF Held
    <3> QED  BY SMTT(30), <1>2, <1>6, <2>1, <3>1 DEF Accounts
  <2>2. CASE \E u \in p.timers : u # t /\ u.offers[s] = g /\ (u.repetition # 0 \/ p.services[s] = g)
    <3>1. Held(p', s, g)
      BY SMTT(30), <1>2, <2>2 DEF Held
    <3> QED  BY SMTT(30), <1>2, <1>6, <2>2, <3>1 DEF Accounts
  <2>3. CASE p.services[s] = g /\ (t.offers[s] = g \/ p.info[s][g].main)
    <3>1. Held(p', s, g)
      BY SMTT(30), <1>2, <2>3 DEF Held
    <3> QED  BY SMTT(30), <1>2, <1>6, <2>3, <3>1 DEF Accounts
  <2> QED  BY SMTT(30), <1>6, <2>1, <2>2, <2>3 DEF Accounts, RestsOn
<1>7. ASSUME NEW s \in Services, NEW g \in Gens,
             t.offers[s] = g, p.services[s] = g, p.info[s][g].ready
      PROVE  Accounts(p', s, g)
  <2>1. Held(p', s, g)
    BY SMTT(30), <1>2, <1>7 DEF Held
  <2> QED  BY SMTT(30), <1>2, <1>7, <2>1 DEF Accounts
<1> QED  BY SMTT(30), <1>2, <1>4, <1>5, <1>6, <1>7 DEF TimerStep, Sound

\* An earlier repetition starts the timer again.
LEMMA AgainStep ==
  ASSUME IInv, NEW t \in p.timers, NEW n \in Nat, p' = Again(p, t, n), 0 \notin Gens
  PROVE  TimerStep(t)
<1> DEFINE v == Phase(t.offers, n)
           timers == (p.timers \ {t}) \cup {v}
<1>1. p \in HostType /\ t \in Timer /\ p' = [p EXCEPT !.timers = timers]
  BY Fields DEF IInv, Again
<1>2. v \in Timer /\ v.offers = t.offers
  BY <1>1 DEF Phase, Timer
<1> HIDE DEF v
<1>3. timers \in SUBSET Timer
  BY <1>1, <1>2, Fields
<1>4. /\ v \in timers /\ \A u \in p.timers : u # t => u \in timers
      /\ \A u \in timers : u = v \/ u \in p.timers
  OBVIOUS
<1> HIDE DEF timers
<1>5. /\ p' \in HostType /\ p'.services = p.services /\ p'.debounce = p.debounce
      /\ p'.state = p.state /\ p'.suspended = p.suspended /\ p'.info = p.info
      /\ p'.collected = p.collected /\ p'.timers = timers
  BY <1>1, <1>3 DEF HostType
<1>6. \A s \in Services, g \in Gens : Held(p', s, g) => Held(p, s, g)
  BY <1>2, <1>4, <1>5 DEF Held
<1>7. StaleIsDead(p') /\ RunsIfResumed(p')
  BY <1>5, <1>6 DEF IInv, StaleIsDead, RunsIfResumed
<1>8. BuiltIsReady(p')
  BY ZenonT(60), <1>5 DEF IInv, BuiltIsReady
<1>9. ASSUME NEW s \in Services, NEW g \in Gens,
             t.offers[s] = g, p.services[s] = g, p.info[s][g].ready
      PROVE  Accounts(p', s, g)
  BY <1>2, <1>4, <1>5, <1>9 DEF Accounts
<1>10. ASSUME NEW s \in Services, NEW g \in Gens, Accounts(p, s, g), ~RestsOn(t, s, g)
       PROVE  Accounts(p', s, g)
  <2>1. CASE t.offers[s] = g /\ p.services[s] = g
    BY <1>9, <1>10, <2>1 DEF Accounts
  <2>2. CASE p.debounce.offers[s] = g \/ (p.services[s] = g /\ p.info[s][g].main)
    BY <1>5, <1>10, <2>2 DEF Accounts
  <2>3. CASE \E u \in p.timers : u # t /\ u.offers[s] = g /\ (u.repetition # 0 \/ p.services[s] = g)
    BY <1>4, <1>5, <1>10, <2>3 DEF Accounts
  <2> QED  BY SMTT(30), <1>10, <2>1, <2>2, <2>3 DEF Accounts, RestsOn
<1> QED  BY <1>5, <1>7, <1>8, <1>9, <1>10 DEF TimerStep, Sound

\* on_repetition_phase_timer_expired: what only this repetition accounts for is stopped,
\* and withdrawn by the message it sends.
LEMMA RepetitionIInv ==
  ASSUME IInv, NEW t \in p.timers, Repetition(t), 0 \notin Gens
  PROVE  IInv'
<1>1. p \in HostType /\ t \in Timer /\ t.offers \in Offers
  BY Fields DEF IInv, Timer
<1>2. TimerStep(t)
  <2>1. CASE p' = Freed(move_offers_into_main_phase(p, t))
    BY <2>1, MovedStep
  <2>2. CASE \E n \in Nat : p' = Again(p, t, n)
    BY <2>2, AgainStep
  <2>3. t.repetition + 1 \in Nat /\ 0 \in Nat
    BY SMTT(30), <1>1 DEF Timer
  <2> QED  BY Zenon, <2>1, <2>2, <2>3 DEF Repetition
<1>3. CASE t.repetition = 0
  <2>1. said' = said
    BY SMTT(30), <1>3 DEF Repetition
  <2>2. SaidIsAccounted(p', said')
    <3> SUFFICES ASSUME p'.state = "resumed", NEW s \in said
                 PROVE  \E g \in Gens : Accounts(p', s, g)
      BY <2>1 DEF SaidIsAccounted
    <3>1. s \in Services
      BY DEF IInv
    <3>2. PICK g \in Gens : Accounts(p, s, g)
      BY <1>2 DEF IInv, SaidIsAccounted, TimerStep
    <3>3. ~RestsOn(t, s, g)
      BY SMTT(30), <1>3 DEF RestsOn
    <3> QED  BY SMTT(30), <1>2, <3>1, <3>2, <3>3 DEF TimerStep
  <2> QED  BY SMTT(30), <1>2, <2>1, <2>2 DEF IInv, TimerStep, Sound
<1>4. CASE t.repetition # 0
  <2> DEFINE offers == t.offers
             E == AllEntries(p, offers)
  <2>1. send(E)
    BY Zenon, <1>4 DEF Repetition, AllEntries
  <2>2. offers \in Offers
    BY <1>1
  <2> HIDE DEF offers
  <2>3. E = AllEntries(p, offers)
    OBVIOUS
  <2> HIDE DEF E
  <2>4. /\ \A s \in Services : <<s, TRUE>> \in E =>
               offers[s] # 0 /\ p.info[s][offers[s]].ready /\ p.info[s][offers[s]].ttl
        /\ \A s \in Services : (/\ offers[s] # 0 /\ ~p.suspended
                                /\ p.info[s][offers[s]].ready /\ ~p.info[s][offers[s]].ttl)
               => <<s, FALSE>> \in E
    BY Zenon, <1>1, <2>2, <2>3, EntriesFacts
  <2>5. \A s \in Services, g \in Gens : offers[s] = g => Held(p, s, g)
    BY DEF Held, offers
  <2>6. /\ said' \subseteq Services
        /\ \A s \in said' : <<s, TRUE>> \in E \/ (s \in said /\ <<s, FALSE>> \notin E)
    BY Zenon, <2>1, SendFacts
  <2>7. ASSUME p'.state = "resumed", NEW s \in said'
        PROVE  \E g \in Gens : Accounts(p', s, g)
    <3>1. s \in Services /\ p.state = "resumed" /\ ~p.suspended
      BY SMTT(30), <1>2, <2>6, <2>7 DEF TimerStep, IInv, RunsIfResumed
    <3>2. CASE <<s, TRUE>> \in E
      <4>1. offers[s] # 0 /\ p.info[s][offers[s]].ready /\ p.info[s][offers[s]].ttl
        BY Zenon, <2>4, <3>1, <3>2
      <4>2. PICK g \in Gens : offers[s] = g
        BY <2>2, <3>1, <4>1 DEF Offers
      <4>3. p.services[s] = g
        BY <2>5, <3>1, <4>1, <4>2 DEF IInv, StaleIsDead
      <4> QED  BY <1>2, <3>1, <4>1, <4>2, <4>3 DEF TimerStep, offers
    <3>3. CASE s \in said /\ <<s, FALSE>> \notin E
      <4>1. PICK g \in Gens : Accounts(p, s, g)
        BY <3>1, <3>3 DEF IInv, SaidIsAccounted
      <4>2. ASSUME RestsOn(t, s, g) PROVE FALSE
        <5>1. offers[s] = g /\ p.services[s] # g
          BY SMTT(30), <4>2 DEF RestsOn, offers
        <5>2. ~p.info[s][g].ttl /\ p.info[s][g].ready
          BY <2>5, <3>1, <4>1, <5>1 DEF IInv, StaleIsDead, Accounts
        <5>3. offers[s] # 0
          BY <5>1
        <5> QED  BY Zenon, <2>4, <3>1, <3>3, <5>1, <5>2, <5>3
      <4> QED  BY <1>2, <3>1, <4>1, <4>2 DEF TimerStep
    <3> QED  BY ZenonT(60), <2>6, <2>7, <3>2, <3>3
  <2> QED  BY <1>2, <2>6, <2>7 DEF IInv, TimerStep, Sound, SaidIsAccounted
<1> QED  BY <1>3, <1>4

\* on_main_phase_timer_expired announces offers of the main phase only.
LEMMA MainPhaseIInv ==
  ASSUME IInv, MainPhase
  PROVE  IInv'
<1> DEFINE offers == p.services
           E == MainEntries(p, offers)
<1>1. p \in HostType /\ offers \in Offers /\ p' = p /\ send(E)
  BY Zenon, Fields DEF IInv, MainPhase, MainEntries
<1> HIDE DEF offers
<1>2. E = MainEntries(p, offers)
  OBVIOUS
<1> HIDE DEF E
<1>3. \A s \in Services : <<s, TRUE>> \in E =>
          offers[s] # 0 /\ p.info[s][offers[s]].ready /\ p.info[s][offers[s]].main
  BY Zenon, <1>1, <1>2, MainEntriesFacts
<1>4. said' \subseteq Services /\ \A s \in said' : <<s, TRUE>> \in E \/ s \in said
  BY Zenon, <1>1, SendFacts
<1>5. SaidIsAccounted(p, said')
  <2> SUFFICES ASSUME p.state = "resumed", NEW s \in said'
               PROVE  \E g \in Gens : Accounts(p, s, g)
    BY DEF SaidIsAccounted
  <2>1. CASE s \in said
    BY <2>1 DEF IInv, SaidIsAccounted
  <2>2. CASE <<s, TRUE>> \in E
    <3>1. offers[s] # 0 /\ p.info[s][offers[s]].ready /\ p.info[s][offers[s]].main
      BY Zenon, <1>3, <1>4, <2>2
    <3>2. offers[s] \in Gens
      BY <1>1, <1>4, <3>1 DEF Offers
    <3> QED  BY <3>1, <3>2 DEF Accounts, offers
  <2> QED  BY Zenon, <1>4, <2>1, <2>2
<1> QED  BY <1>1, <1>4, <1>5 DEF IInv

\* stop_offer_graceful_timeout offers a service that was offered within the window.
LEMMA GracefulIInv ==
  ASSUME IInv, NEW s \in Services, stop_offer_graceful_timeout(s)
  PROVE  IInv'
<1> DEFINE q == [p EXCEPT !.stopped = [p.stopped EXCEPT ![s] = "no"]]
<1>1. /\ p \in HostType /\ said' = said
      /\ p' = IF p.stopped[s] = "pending" THEN offer_remote_service(q, s) ELSE q
  BY DEF IInv, stop_offer_graceful_timeout
<1>2. [p.stopped EXCEPT ![s] = "no"] \in [Services -> {"no", "window", "pending"}]
  BY <1>1, Fields
<1>3. q \in HostType /\ SameOffers(p, q) /\ q.info = p.info /\ q.collected = p.collected
  BY Zenon, <1>1, <1>2 DEF HostType, SameOffers
<1> HIDE DEF q
<1>4. /\ p' \in HostType /\ SameOffers(q, p') /\ InfoGrows(q, p')
      /\ \A u \in Services : p'.collected[u] \in {q.collected[u], q.services[u]}
  <2>1. CASE p.stopped[s] = "pending"
    BY SMTT(30), <1>1, <1>3, <2>1, OfferRemoteFacts
  <2>2. CASE p.stopped[s] # "pending"
    BY <1>1, <1>3, <2>2 DEF SameOffers, InfoGrows
  <2> QED  BY <2>1, <2>2
<1>5. SameOffers(p, p') /\ InfoGrows(p, p')
      /\ \A u \in Services : p'.collected[u] \in {p.collected[u], p.services[u]}
  BY SMTT(30), <1>3, <1>4 DEF SameOffers, InfoGrows
<1> QED  BY <1>1, <1>4, <1>5, GrowStep

\* Every step keeps the invariant if offers are repeated.
LEMMA NextIInv ==
  ASSUME 0 \notin Gens, RepetitionsMax > 0, IInv, [Next]_vars
  PROVE  IInv'
<1>1. CASE UNCHANGED vars
  BY <1>1 DEF vars, IInv
<1>2. CASE \E s \in Services : offer_service(s)
  BY <1>2, OfferIInv
<1>3. CASE \E s \in Services : stop_offer_service(s)
  BY <1>3, StopIInv
<1>4. CASE \E s \in Services : stop_offer_graceful_timeout(s)
  BY <1>4, GracefulIInv
<1>5. CASE SetResumed
  BY <1>5, ResumedIInv
<1>6. CASE SetSuspended
  BY <1>6, SuspendIInv
<1>7. CASE NetworkUp
  BY <1>7, NetworkUpIInv
<1>8. CASE NetworkDown
  BY <1>8, NetworkDownIInv
<1>9. CASE Reboot
  BY <1>9, RebootIInv
<1>10. CASE DebounceCopy
  BY <1>10, DebounceCopyIInv
<1>11. CASE DebounceBuild
  BY <1>11, DebounceBuildIInv
<1>12. CASE DebounceSend
  BY <1>12, DebounceSendIInv
<1>13. CASE MainPhase
  BY <1>13, MainPhaseIInv
<1>14. CASE \E t \in p.timers : Repetition(t)
  BY <1>14, RepetitionIInv
<1> QED
  BY <1>1, <1>2, <1>3, <1>4, <1>5, <1>6, <1>7, <1>8, <1>9, <1>10, <1>11, <1>12, <1>13, <1>14
     DEF Next

-----------------------------------------------------------------------------
(* Theorems *)

\* The invariant for every repetitions_max above zero.
OfferInv == RepetitionsMax > 0 => IInv

\* The invariant holds in every state of a host that repeats its offers.
THEOREM OffersInvariant == Spec => []OfferInv
<1>1. Init => OfferInv
  BY InitIInv, GensAssumption DEF OfferInv
<1>2. OfferInv /\ [Next]_vars => OfferInv'
  BY NextIInv, GensAssumption DEF OfferInv
<1> QED  BY <1>1, <1>2, PTL DEF Spec

\* Whatever stop_offer_service races with (the debounce handler between its three
\* sections, repetitions, graceful windows, network changes, suspends), a stopped
\* service whose last announcement is an offer is still held by a handler or a
\* repetition that will withdraw it.
THEOREM StoppedIsWithdrawn == Spec => []StopIsAnnounced
<1>1. OfferInv => StopIsAnnounced
  <2> SUFFICES ASSUME IInv, ~is_suspended(p), NEW s \in said, p.services[s] = 0
               PROVE  WillWithdraw(s)
    BY DEF OfferInv, StopIsAnnounced
  <2>1. s \in Services /\ p.state = "resumed"
    BY DEF IInv, is_suspended
  <2>2. PICK g \in Gens : Accounts(p, s, g)
    BY <2>1 DEF IInv, SaidIsAccounted
  <2>3. p.services[s] # g /\ g # 0
    BY GensAssumption
  <2>4. CASE p.debounce.offers[s] = g
    BY <2>3, <2>4 DEF WillWithdraw
  <2>5. CASE \E t \in p.timers : t.offers[s] = g /\ t.repetition # 0
    <3>1. PICK t \in p.timers : t.offers[s] = g /\ t.repetition # 0
      BY <2>5
    <3>2. Held(p, s, g)
      BY <3>1 DEF Held
    <3>3. ~p.info[s][g].ttl
      BY <2>1, <2>3, <3>2 DEF IInv, StaleIsDead
    <3> QED  BY <2>3, <3>1, <3>3 DEF WillWithdraw
  <2> QED  BY <2>2, <2>3, <2>4, <2>5 DEF Accounts
<1> QED  BY <1>1, OffersInvariant, PTL
=============================================================================
