-------------------------- MODULE RequestersProofs --------------------------
(***************************************************************************)
(* For any number of clients, services and messages: whoever has requested *)
(* a service gets to know its provider, whatever the request races with    *)
(* (RequestersInformed).                                                   *)
(*                                                                         *)
(* RequestersInformed compares what a client will know with the host's     *)
(* table.  What clients are told follows the routing information instead,  *)
(* which lags behind the table while mutex_ is held, so the invariant      *)
(* (Claim) is about that: a client that knows a provider is told of its    *)
(* end, and one that knows none is about to be told, or there is none that *)
(* stays.                                                                  *)
(***************************************************************************)
EXTENDS KnowledgeProofs, ServiceOffersProofs

USE SMTT(60)

-----------------------------------------------------------------------------
(* Offers *)

\* offer_service changes nothing clients know of; it is about to, for a service
\* nobody provides.
LEMMA OfferKnows ==
    ASSUME IInv, KInv, NEW c \in Clients, NEW k \in Keys, NEW by \in MaybeClient, NEW full \in BOOLEAN,
           OfferService(c, k, by, full), by # None => handler[by].op = "offer"
    PROVE  KInv'
<1> DEFINE old == h.table[k]
           ask == old \notin {None, c} /\ h.offers[k] = NoOffer /\ old \in endpoints
           refuse == old = c \/ (old # None /\ h.offers[k] # NoOffer)
           pends == ask /\ ~full
           s == IF ask THEN SendPing(h, old) ELSE h
<1>1. HostTypeOK /\ TablesInv /\ h \in Hosts /\ KnowledgeTypeOK /\ ToldInv
  BY DEF IInv, HostTypeOK, KInv
<1>2. /\ hold = Free /\ UNCHANGED <<endpoints, failing, cleaning, inbox, wants, view, late>>
      /\ (refuse \/ pends) => /\ h' = IF refuse THEN h ELSE [s EXCEPT !.offers[k] = [new |-> c, old |-> old]]
                              /\ handler' = IF by = None THEN handler ELSE [handler EXCEPT ![by] = Idle]
                              /\ UNCHANGED <<hold, spoiled>>
      /\ ~(refuse \/ pends) => /\ h' = [s EXCEPT !.table[k] = c, !.info = @ \cup {k}]
                               /\ hold' = [op |-> "offer", client |-> c, key |-> k, by |-> by]
                               /\ spoiled' = IF old = None /\ c \in endpoints THEN spoiled ELSE spoiled \cup {k}
                               /\ UNCHANGED handler
  BY SMTT(30) DEF OfferService, PingSent
<1>3. s \in Hosts /\ s.routing = h.routing /\ s.requests = h.requests /\ s.requested = h.requested
  <2>1. CASE ask
    <3>1. old \in Clients /\ s = SendPing(h, old)
      BY <1>1, <2>1 DEF HostTypeOK
    <3> HIDE DEF s, old, ask
    <3> QED BY ZenonT(60), <1>1, <3>1, PingResult
  <2>2. CASE ~ask
    BY <1>1, <2>2
  <2> QED BY <2>1, <2>2
<1> HIDE DEF s
<1>4. h'.routing = h.routing /\ h'.requests = h.requests /\ h'.requested = h.requested
  <2>1. \/ h' = h \/ h' = [s EXCEPT !.offers[k] = [new |-> c, old |-> old]]
        \/ h' = [s EXCEPT !.table[k] = c, !.info = @ \cup {k}]
    BY SMTT(30), <1>2
  <2> QED BY Zenon, <1>3, <2>1 DEF Hosts
<1>5. hold.op = "free"
  BY <1>2 DEF Free
<1>6. Idle.op = "idle" /\ Idle.todo = {}
  BY MessageValues
<1>7. CASE refuse \/ pends
  <2>1. UNCHANGED <<hold, spoiled>>
    BY SMTT(30), <1>2, <1>7
  <2>2. CASE by = None
    <3>1. handler' = handler
      BY SMTT(30), <1>2, <1>7, <2>2
    <3>2. ToldInv'
      BY <1>1, <1>2, <1>4, <2>1, ToldSame
    <3>3. \A d \in Clients, j \in Keys : Leaving(d, j) => Leaving(d, j)'
      BY <2>1 DEF Leaving
    <3> QED BY <1>1, <1>2, <1>4, <2>1, <3>1, <3>2, <3>3, SameHandlersKnows DEF KnowledgeTypeOK
  <2>3. CASE by # None
    <3>1. handler' = [handler EXCEPT ![by] = Idle] /\ by \in Clients
      BY SMTT(30), <1>2, <1>7, <2>3 DEF MaybeClient
    <3>2. handler[by].op \notin {"answer", "tell", "request"}
      BY <2>3
    <3>3. Idle.op \notin {"tell", "request", "release"}
      BY <1>6
    <3> QED BY Zenon, <1>2, <1>4, <1>6, <2>1, <3>1, <3>2, <3>3, OtherHandlerKnows
  <2> QED BY <2>2, <2>3
<1>8. CASE ~(refuse \/ pends)
  <2>1. /\ hold'.op = "offer" /\ hold'.key = k /\ hold'.client = c /\ handler' = handler
        /\ spoiled' = IF old = None /\ c \in endpoints THEN spoiled ELSE spoiled \cup {k}
    BY SMTT(30), <1>2, <1>8
  <2>2. spoiled \subseteq spoiled' /\ (k \notin spoiled' => h.table[k] = None /\ c \in endpoints)
    BY <2>1
  <2>3. ToldInv'
    <3> SUFFICES ASSUME NEW d \in Clients, NEW j \in Keys, j \notin spoiled'
                 PROVE  /\ <<d, j>> \in h.routing => d \in endpoints
                        /\ \A e \in Clients : <<d, j>> \in h.routing /\ <<e, j>> \in h.routing => d = e
                        /\ j = k => <<d, j>> \notin h.routing /\ c \in endpoints
      BY Zenon, <1>2, <1>4, <2>1 DEF ToldInv
    <3>1. j \notin spoiled
      BY <2>2
    <3>2. ASSUME j = k, <<d, j>> \in h.routing PROVE FALSE
      <4>1. h.table[k] = d
        BY <1>1, <1>5, <3>1, <3>2 DEF TablesInv
      <4> QED BY <2>2, <3>2, <4>1, OffersAssumption
    <3> QED BY <1>1, <2>2, <3>1, <3>2 DEF ToldInv
  <2>4. \A d \in Clients, j \in Keys : Leaving(d, j) => Leaving(d, j)'
    BY <1>5 DEF Leaving
  <2> QED BY <1>1, <1>2, <1>4, <2>1, <2>2, <2>3, <2>4, SameHandlersKnows DEF KnowledgeTypeOK
<1> QED BY SMTT(30), <1>7, <1>8

\* stop_offer_service: the provider is about to leave.
LEMMA StopKnows ==
    ASSUME IInv, KInv, NEW c \in Clients, StopOfferService(c)
    PROVE  KInv'
<1> DEFINE k == handler[c].key
           t == StoppedAtHost(h, c, {k})
<1>1. HostTypeOK /\ h \in Hosts /\ KnowledgeTypeOK /\ ToldInv
  BY DEF IInv, HostTypeOK, KInv
<1>2. /\ handler[c].op = "stop" /\ hold = Free
      /\ UNCHANGED <<endpoints, failing, cleaning, inbox, spoiled, wants, view, late>>
      /\ \/ h' = t /\ hold' = [op |-> "stop", client |-> c, key |-> k, by |-> c] /\ handler' = handler
         \/ h' = h /\ hold' = hold /\ handler' = [handler EXCEPT ![c] = Idle]
  BY SMTT(30) DEF StopOfferService, client
<1>3. t.routing = h.routing /\ t.requests = h.requests /\ t.requested = h.requested
  BY Zenon, <1>1 DEF StoppedAtHost, Hosts
<1> HIDE DEF t
<1>4. CASE h' = t /\ hold' = [op |-> "stop", client |-> c, key |-> k, by |-> c] /\ handler' = handler
  <2>1. hold.op = "free" /\ hold'.op = "stop"
    BY <1>2, <1>4 DEF Free
  <2>2. ToldInv'
    <3>1. h'.routing = h.routing /\ spoiled' = spoiled /\ endpoints' = endpoints
      BY <1>2, <1>3, <1>4
    <3> QED BY Zenon, <1>1, <2>1, <3>1 DEF ToldInv
  <2>3. \A d \in Clients, j \in Keys : Leaving(d, j) => Leaving(d, j)'
    BY <2>1 DEF Leaving
  <2> QED BY <1>1, <1>2, <1>3, <1>4, <2>2, <2>3, SameHandlersKnows DEF KnowledgeTypeOK
<1>5. CASE h' = h /\ hold' = hold /\ handler' = [handler EXCEPT ![c] = Idle]
  <2>1. Idle.op = "idle" /\ Idle.todo = {}
    BY MessageValues
  <2>2. handler[c].op \notin {"answer", "tell", "request"} /\ Idle.op \notin {"tell", "request", "release"}
    BY <1>2, <2>1
  <2> QED BY Zenon, <1>2, <1>5, <2>1, <2>2, OtherHandlerKnows
<1> QED BY <1>2, <1>4, <1>5

\* The end of a handler that holds mutex_ answers no request.
LEMMA DoneAnswers ==
    ASSUME HostTypeOK, AnswersTypeOK, Done
    PROVE  /\ AnswersTypeOK'
           /\ \A d \in Clients, j \in Keys : BeingAnswered(d, j)' <=> BeingAnswered(d, j)
           /\ \A d \in Clients, j \in Keys : Asks(d, j)' <=> Asks(d, j)
           /\ \A d \in Clients : handler'[d].op = "release" => handler'[d] = handler[d]
<1>1. CASE hold.by = None
  <2>1. handler' = handler
    BY <1>1 DEF Done
  <2> QED BY <2>1, SameHandlers
<1>2. CASE hold.by # None
  <2>1. PICK b \in Clients : handler' = [handler EXCEPT ![b] = Idle] /\ handler[b].op \in {"offer", "stop"}
    BY Zenon, <1>2 DEF Done, HostTypeOK
  <2>2. Idle.op = "idle" /\ Idle.todo = {}
    BY MessageValues
  <2>3. handler[b].op \notin {"answer", "tell"} /\ Idle.op # "tell"
    BY <2>1, <2>2
  <2>4. /\ AnswersTypeOK'
        /\ \A d \in Clients, j \in Keys : BeingAnswered(d, j)' <=> BeingAnswered(d, j)
        /\ handler'[b] = Idle /\ \A d \in Clients \ {b} : handler'[d] = handler[d]
    BY Zenon, <2>1, <2>2, <2>3, QuietHandler
  <2>5. \A d \in Clients, j \in Keys : Asks(d, j)' <=> Asks(d, j)
    BY <2>1, <2>2, <2>4 DEF Asks
  <2>6. \A d \in Clients : handler'[d].op = "release" => handler'[d] = handler[d]
    BY <2>2, <2>4
  <2> QED BY <2>4, <2>5, <2>6
<1> QED BY <1>1, <1>2

\* inform_requesters reaches every client that counts, but those whose request was
\* not handled yet, which know of no provider.
LEMMA InformedClaim ==
    ASSUME KeysInOrder, KnowledgeTypeOK, RequestedInv, NEW c \in Clients, NEW k \in Keys, NEW p \in MaybeClient,
           NEW keys \in SUBSET Keys, k \in keys, Counts(c, k), Claim(c, k),
           inbox' = Informed(h, p, keys), view' = view
    PROVE  \/ <<c, k>> \in h.requested /\ Knows(c, k, p)'
           \/ Asks(c, k) /\ Knows(c, k, None)'
<1>1. view[<<c, k>>] \in MaybeClient /\ inbox \in [Clients -> Seq(Infos)] /\ None \in MaybeClient
  BY DEF KnowledgeTypeOK, Pairs, MaybeClient
<1>2. /\ <<c, k>> \in wants => c \in endpoints
      /\ <<c, k>> \in wants \ late /\ <<c, k>> \notin h.requested => Asks(c, k)
  BY Zenon DEF RequestedInv
<1>3. c \in endpoints /\ (<<c, k>> \notin h.requested => Asks(c, k))
  BY <1>2 DEF Counts
<1> DEFINE v == view[<<c, k>>]
           q == Informed(h, p, keys)
<1>4. /\ <<c, k>> \in h.requested => KnownFrom(q[c], v, k, p)
      /\ <<c, k>> \notin h.requested => (KnownFrom(inbox[c], v, k, None) => KnownFrom(q[c], v, k, None))
  BY Zenon, <1>1, <1>3, InformedKnows
<1>5. CASE <<c, k>> \in h.requested
  <2>1. KnownFrom(q[c], v, k, p)
    BY <1>4, <1>5
  <2> HIDE DEF q
  <2>2. KnownFrom(inbox'[c], view'[<<c, k>>], k, p)
    BY <2>1 DEF q
  <2> QED BY <1>5, <2>2 DEF Knows
<1>6. CASE <<c, k>> \notin h.requested
  <2>1. Knows(c, k, None)
    BY Zenon, <1>6 DEF Claim
  <2>2. KnownFrom(q[c], v, k, None)
    BY <1>4, <1>6, <2>1 DEF Knows
  <2> HIDE DEF q
  <2>3. KnownFrom(inbox'[c], view'[<<c, k>>], k, None)
    BY <2>2 DEF q
  <2> QED BY <1>3, <1>6, <2>3, OffersAssumption DEF Knows
<1> QED BY <1>5, <1>6

\* What clients know of other services stays.
LEMMA InformedOthers ==
    ASSUME KeysInOrder, KnowledgeTypeOK, NEW c \in Clients, NEW k \in Keys, NEW p \in MaybeClient,
           NEW keys \in SUBSET Keys, k \notin keys, inbox' = Informed(h, p, keys), view' = view,
           NEW r \in MaybeClient, Knows(c, k, r)
    PROVE  Knows(c, k, r)'
<1>1. view[<<c, k>>] \in MaybeClient /\ inbox \in [Clients -> Seq(Infos)]
  BY DEF KnowledgeTypeOK, Pairs
<1> DEFINE v == view[<<c, k>>]
           q == Informed(h, p, keys)
<1>2. KnownFrom(inbox[c], v, k, r) => KnownFrom(q[c], v, k, r)
  BY Zenon, <1>1, InformedKnows
<1> HIDE DEF q
<1>3. KnownFrom(inbox'[c], view'[<<c, k>>], k, r)
  BY <1>2 DEF q, Knows
<1> QED BY <1>3 DEF Knows

\* on_offer_service: every requester is told of the new provider.
LEMMA OnOfferKnows ==
    ASSUME KeysInOrder, IInv, KInv, OnOfferService
    PROVE  KInv'
<1>1. KnowledgeTypeOK /\ ToldInv /\ RequestedInv /\ AnswersTypeOK /\ HostTypeOK /\ h \in Hosts
  BY DEF KInv, KnowledgeTypeOK, IInv, HostTypeOK
<1>2. PICK c \in Clients, k \in Keys : hold.client = c /\ hold.key = k
  BY <1>1 DEF OnOfferService, HostTypeOK
<1>3. PICK keys \in SUBSET Keys : keys = {k}
  BY Zenon
<1> DEFINE w == h.routing \cup {<<c, k>>}
<1>4. h' = [h EXCEPT !.routing = w] /\ inbox' = Informed(h, c, keys)
  BY Zenon, <1>2, <1>3 DEF OnOfferService
<1>5. /\ UNCHANGED <<endpoints, failing, cleaning, spoiled, wants, view, late>>
      /\ hold.op = "offer" /\ hold' = Free /\ Done
  BY Zenon DEF OnOfferService, client
<1>6. \A d \in Clients, j \in Keys :
        <<d, j>> \in w <=> (<<d, j>> \in h.routing \/ (d = c /\ j = k))
  OBVIOUS
<1> HIDE DEF w
<1>7. h'.routing = w /\ h'.requested = h.requested /\ h'.requests = h.requests
  BY Zenon, <1>1, <1>4 DEF Hosts
<1>8. /\ AnswersTypeOK'
      /\ \A d \in Clients, j \in Keys : BeingAnswered(d, j)' <=> BeingAnswered(d, j)
      /\ \A d \in Clients, j \in Keys : Asks(d, j)' <=> Asks(d, j)
      /\ \A d \in Clients : handler'[d].op = "release" => handler'[d] = handler[d]
  BY <1>1, <1>5, DoneAnswers
<1>9. c \in MaybeClient
  BY DEF MaybeClient
<1>10. KnowledgeTypeOK'
  <2>1. inbox' \in [Clients -> Seq(Infos)]
    BY <1>1, <1>4, <1>9, InformedKnows DEF KnowledgeTypeOK
  <2> QED BY <1>1, <1>5, <1>8, <2>1 DEF KnowledgeTypeOK
<1>11. hold'.op = "free"
  BY <1>5 DEF Free
<1>12. ToldInv'
  <2> SUFFICES ASSUME NEW d \in Clients, NEW j \in Keys, j \notin spoiled
               PROVE  /\ <<d, j>> \in h'.routing => d \in endpoints
                      /\ \A e \in Clients : <<d, j>> \in h'.routing /\ <<e, j>> \in h'.routing => d = e
    BY Zenon, <1>5, <1>11 DEF ToldInv
  <2>1. j = k => c \in endpoints /\ \A e \in Clients : <<e, k>> \notin h.routing
    BY Zenon, <1>1, <1>2, <1>5 DEF ToldInv
  <2>2. \A e \in Clients : <<e, j>> \in h'.routing <=> (<<e, j>> \in h.routing \/ (e = c /\ j = k))
    BY <1>6, <1>7
  <2> QED BY <1>1, <2>1, <2>2 DEF ToldInv
<1>13. RequestedInv'
  BY <1>1, <1>5, <1>7, <1>8, RequestedSame
<1>14. \A d \in Clients, j \in Keys : ~Leaving(d, j)
  BY <1>5 DEF Leaving
<1>15. ASSUME NEW d \in Clients, NEW j \in Keys, Counts(d, j)'
       PROVE  Claim(d, j)'
  <2>1. Counts(d, j) /\ Claim(d, j) /\ j \notin spoiled
    BY <1>5, <1>15 DEF Counts, KInv
  <2>2. CASE j = k
    <3>1. k \in keys
      BY <1>3
    <3>2. \/ <<d, k>> \in h.requested /\ Knows(d, k, c)'
          \/ Asks(d, k) /\ Knows(d, k, None)'
      BY Zenon, <1>1, <1>4, <1>5, <1>9, <2>1, <2>2, <3>1, InformedClaim
    <3>3. CASE <<d, k>> \in h.requested /\ Knows(d, k, c)'
      <4>1. <<c, k>> \in h'.routing /\ <<d, k>> \in h'.requested /\ c # None
        BY <1>6, <1>7, <3>3, OffersAssumption
      <4> QED BY Zenon, <1>9, <2>2, <3>3, <4>1 DEF Claim
    <3>4. CASE Asks(d, k) /\ Knows(d, k, None)'
      <4>1. Excused(d, k)' /\ None \in MaybeClient
        BY <1>8, <3>4 DEF Excused, MaybeClient
      <4> QED BY Zenon, <2>2, <3>4, <4>1 DEF Claim
    <3> QED BY <3>2, <3>3, <3>4
  <2>3. CASE j # k
    <3>1. j \notin keys
      BY <1>3, <2>3
    <3>2. \A r \in MaybeClient : Knows(d, j, r) => Knows(d, j, r)'
      BY Zenon, <1>1, <1>4, <1>5, <1>9, <3>1, InformedOthers
    <3>3. \A e \in Clients : <<e, j>> \in h'.routing <=> <<e, j>> \in h.routing
      BY <1>6, <1>7, <2>3
    <3>4. Excused(d, j) => Excused(d, j)'
      <4>1. \A o : <<o, j>> \in h.routing => <<o, j>> \in h'.routing
        <5>1. h.routing \subseteq h'.routing
          BY <1>7 DEF w
        <5> QED BY <5>1
      <4> QED BY <1>5, <1>7, <1>8, <4>1 DEF Excused
    <3> QED BY Zenon, <1>7, <1>14, <2>1, <3>2, <3>3, <3>4, ClaimKept
  <2> QED BY <2>2, <2>3
<1>16. \A d \in Clients, j \in Keys : Claim(d, j)'
  BY Zenon, <1>15, ClaimVoid
<1> QED BY <1>10, <1>12, <1>13, <1>16 DEF KInv

\* Clients that are told that a provider is gone know that there is none.
LEMMA GoneClaim ==
    ASSUME KeysInOrder, KnowledgeTypeOK, RequestedInv, NEW c \in Clients, NEW k \in Keys,
           NEW keys \in SUBSET Keys, k \in keys, Counts(c, k), Claim(c, k),
           inbox' = Informed(h, None, keys), view' = view,
           \A d \in Clients : <<d, k>> \notin h'.routing
    PROVE  Claim(c, k)'
<1>1. None \in MaybeClient
  BY DEF MaybeClient
<1>2. Knows(c, k, None)'
  BY Zenon, <1>1, InformedClaim
<1>3. NobodyStays(k)'
  BY DEF NobodyStays
<1> QED BY Zenon, <1>1, <1>2, <1>3 DEF Claim

\* on_stop_offer_service: the routing information loses its only provider of the
\* service and every requester is told, or the client is not that provider.
LEMMA OnStopKnows ==
    ASSUME KeysInOrder, IInv, KInv, OnStopOfferService
    PROVE  KInv'
<1>1. KnowledgeTypeOK /\ ToldInv /\ RequestedInv /\ AnswersTypeOK /\ HostTypeOK /\ h \in Hosts
  BY DEF KInv, KnowledgeTypeOK, IInv, HostTypeOK
<1>2. PICK c \in Clients, k \in Keys : hold.client = c /\ hold.key = k
  BY <1>1 DEF OnStopOfferService, HostTypeOK
<1>3. PICK keys \in SUBSET Keys : keys = {k}
  BY Zenon
<1> DEFINE s == StoppedAtStub(h, c, keys)
           t == Unoffered(s, c, keys)
<1>4. /\ h' = t
      /\ inbox' = IF <<c, k>> \in h.routing THEN Informed(h, None, keys) ELSE inbox
  BY Zenon, <1>2, <1>3 DEF OnStopOfferService, Unoffered
<1>5. /\ UNCHANGED <<endpoints, failing, cleaning, spoiled, wants, view, late>>
      /\ hold.op = "stop" /\ hold' = Free /\ Done
  BY Zenon DEF OnStopOfferService, client
<1>6. s \in Hosts /\ s.routing = h.routing \ ({c} \X keys) /\ s.requests = h.requests
  BY <1>1, StoppedAtStubResult
<1>7. s.requested = h.requested
  BY Zenon, <1>1 DEF StoppedAtStub, Hosts
<1> HIDE DEF s
<1>8. /\ t.requested = s.requested
      /\ \A j \in Keys, d \in Clients :
           /\ d \in t.requests[j].by => d \in s.requests[j].by
           /\ d \in s.requests[j].by /\ (j \notin keys \/ s.requests[j].old # c) => StillPends(s, t, d, j)
  BY <1>6, UnofferedBy
<1>9. t.routing = s.routing
  BY <1>6, RemovedOffering
<1> HIDE DEF t
<1>10. /\ h'.requested = h.requested
       /\ \A d \in Clients, j \in Keys :
            /\ <<d, j>> \in h'.routing <=> <<d, j>> \in h.routing /\ ~(d = c /\ j = k)
            /\ d \in h'.requests[j].by => d \in h.requests[j].by
            /\ d \in h.requests[j].by /\ (j # k \/ h.requests[j].old # c) => StillPends(h, h', d, j)
  BY <1>3, <1>4, <1>6, <1>7, <1>8, <1>9 DEF StillPends
<1>11. /\ AnswersTypeOK'
       /\ \A d \in Clients, j \in Keys : BeingAnswered(d, j)' <=> BeingAnswered(d, j)
       /\ \A d \in Clients, j \in Keys : Asks(d, j)' <=> Asks(d, j)
       /\ \A d \in Clients : handler'[d].op = "release" => handler'[d] = handler[d]
  BY <1>1, <1>5, DoneAnswers
<1>12. None \in MaybeClient /\ hold'.op = "free"
  BY <1>5 DEF MaybeClient, Free
<1>13. KnowledgeTypeOK'
  <2>1. Informed(h, None, keys) \in [Clients -> Seq(Infos)]
    BY Zenon, <1>1, <1>12, InformedKnows DEF KnowledgeTypeOK
  <2>2. inbox' \in [Clients -> Seq(Infos)]
    BY Zenon, <1>1, <1>4, <2>1 DEF KnowledgeTypeOK
  <2> QED BY <1>1, <1>5, <1>11, <2>2 DEF KnowledgeTypeOK
<1>14. ToldInv'
  <2> SUFFICES ASSUME NEW d \in Clients, NEW j \in Keys, j \notin spoiled
               PROVE  /\ <<d, j>> \in h'.routing => d \in endpoints
                      /\ \A e \in Clients : <<d, j>> \in h'.routing /\ <<e, j>> \in h'.routing => d = e
    BY Zenon, <1>5, <1>12 DEF ToldInv
  <2> QED BY <1>1, <1>10 DEF ToldInv
<1>15. RequestedInv'
  BY <1>1, <1>5, <1>10, <1>11, RequestedSame
<1>16. ASSUME NEW d \in Clients, NEW j \in Keys, Counts(d, j)', j # k \/ <<c, k>> \notin h.routing
       PROVE  /\ \A e \in Clients : <<e, j>> \in h'.routing <=> <<e, j>> \in h.routing
              /\ Excused(d, j) => Excused(d, j)'
              /\ \A e \in Clients : <<e, j>> \in h.routing => ~Leaving(e, j)
  <2>1. \A e \in Clients : <<e, j>> \in h'.routing <=> <<e, j>> \in h.routing
    BY <1>10, <1>16
  <2>2. \A e \in Clients : <<e, j>> \in h.routing => ~Leaving(e, j)
    BY <1>2, <1>5, <1>16 DEF Leaving
  <2>3. ASSUME d \in h.requests[j].by, <<h.requests[j].old, j>> \in h.routing
        PROVE  Excused(d, j)'
    <3>1. h.requests[j].old \in Clients
      BY <1>1, <2>3 DEF Hosts, Pairs
    <3>2. StillPends(h, h', d, j)
      BY Zenon, <1>10, <1>16, <2>3
    <3> QED BY <2>1, <2>3, <3>1, <3>2 DEF Excused, StillPends
  <2>4. Excused(d, j) => Excused(d, j)'
    BY <1>5, <1>11, <2>3 DEF Excused
  <2> QED BY <2>1, <2>2, <2>4
<1>17. ASSUME NEW d \in Clients, NEW j \in Keys, Counts(d, j)'
       PROVE  Claim(d, j)'
  <2>1. Counts(d, j) /\ Claim(d, j) /\ j \notin spoiled
    BY <1>5, <1>17 DEF Counts, KInv
  <2>2. CASE j = k /\ <<c, k>> \in h.routing
    <3>1. k \in keys /\ inbox' = Informed(h, None, keys) /\ view' = view
      BY <1>3, <1>4, <1>5, <2>2
    <3>2. \A e \in Clients : <<e, k>> \notin h'.routing
      BY <1>1, <1>10, <2>1, <2>2 DEF ToldInv
    <3> QED BY <1>1, <2>1, <2>2, <3>1, <3>2, GoneClaim
  <2>3. CASE j # k \/ <<c, k>> \notin h.routing
    <3>1. ASSUME NEW r \in MaybeClient, Knows(d, j, r) PROVE Knows(d, j, r)'
      <4>1. CASE <<c, k>> \in h.routing
        <5>1. j \notin keys /\ inbox' = Informed(h, None, keys) /\ view' = view
          BY <1>3, <1>4, <1>5, <2>3, <4>1
        <5> QED BY <1>1, <1>12, <3>1, <5>1, InformedOthers
      <4>2. CASE <<c, k>> \notin h.routing
        BY Zenon, <1>4, <1>5, <3>1, <4>2 DEF Knows
      <4> QED BY <4>1, <4>2
    <3> QED BY Zenon, <1>10, <1>16, <1>17, <2>1, <2>3, <3>1, ClaimKept
  <2> QED BY <2>2, <2>3
<1>18. \A d \in Clients, j \in Keys : Claim(d, j)'
  BY Zenon, <1>17, ClaimVoid
<1> QED BY <1>13, <1>14, <1>15, <1>18 DEF KInv

-----------------------------------------------------------------------------
(* cleanup_client *)

\* deregister_client drops the pending requests for a client, which is leaving, and
\* those of the client, which is dead.
LEMMA DeregisterKnows ==
    ASSUME IInv, KInv, NEW c \in Clients, Deregister(c)
    PROVE  KInv'
<1> DEFINE t == Dropped(h, c, Keys)
<1>1. KnowledgeTypeOK /\ ToldInv /\ RequestedInv /\ AnswersTypeOK /\ HostTypeOK /\ h \in Hosts
  BY DEF KInv, KnowledgeTypeOK, IInv, HostTypeOK
<1>2. /\ h' = t /\ c \in failing /\ hold = Free
      /\ hold' = [op |-> "deregister", client |-> c, key |-> None, by |-> None]
      /\ UNCHANGED <<endpoints, handler, failing, cleaning, inbox, spoiled, wants, view, late>>
  BY Zenon DEF Deregister, Dropped, client
<1>3. /\ t.requested = h.requested
      /\ \A k \in Keys, d \in Clients :
           /\ d \in t.requests[k].by => d \in h.requests[k].by
           /\ d \in h.requests[k].by /\ d # c /\ h.requests[k].old # c => StillPends(h, t, d, k)
  BY <1>1, DroppedBy
<1>4. t.routing = h.routing
  BY <1>1, RemovedBoth
<1> HIDE DEF t
<1>5. hold.op = "free" /\ hold'.op = "deregister" /\ hold'.client = c
  BY <1>2 DEF Free
<1>6. /\ AnswersTypeOK'
      /\ \A d \in Clients, k \in Keys : BeingAnswered(d, k)' <=> BeingAnswered(d, k)
      /\ \A d \in Clients, k \in Keys : Asks(d, k)' <=> Asks(d, k)
  BY <1>1, <1>2, SameHandlers
<1>7. KnowledgeTypeOK'
  BY <1>1, <1>2, <1>6 DEF KnowledgeTypeOK
<1>8. ToldInv'
  <2>1. h'.routing = h.routing /\ spoiled' = spoiled /\ endpoints' = endpoints
    BY Zenon, <1>2, <1>4
  <2> QED BY Zenon, <1>1, <1>5, <2>1 DEF ToldInv
<1>9. RequestedInv'
  BY <1>1, <1>2, <1>3, <1>6, RequestedSame
<1>10. \A d \in Clients, k \in Keys : Leaving(d, k) => Leaving(d, k)'
  BY <1>5 DEF Leaving
<1>11. ASSUME NEW d \in Clients, NEW k \in Keys, Counts(d, k)', Excused(d, k)
       PROVE  Excused(d, k)' \/ NobodyStays(k)'
  <2>1. k \notin spoiled
    BY <1>2, <1>11 DEF Counts
  <2>2. CASE Asks(d, k) \/ d \in failing \/ BeingAnswered(d, k) \/ d = c
    BY Zenon, <1>2, <1>6, <2>2 DEF Excused
  <2>3. CASE d \in h.requests[k].by /\ <<h.requests[k].old, k>> \in h.routing /\ h.requests[k].old # c /\ d # c
    BY <1>2, <1>3, <1>4, <2>3 DEF Excused, StillPends
  <2>4. CASE <<c, k>> \in h.routing
    <3>1. \A e \in Clients : <<e, k>> \in h.routing => e = c
      BY <1>1, <2>1, <2>4 DEF ToldInv
    <3> QED BY <1>2, <1>4, <1>5, <3>1 DEF NobodyStays, Leaving
  <2> QED BY <1>11, <2>2, <2>3, <2>4 DEF Excused
<1>12. h'.routing = h.routing /\ h'.requested = h.requested
  BY Zenon, <1>2, <1>3, <1>4
<1> QED BY <1>2, <1>7, <1>8, <1>9, <1>10, <1>11, <1>12, QuietKnows

\* The end of cleanup_client: the client provides nothing any more, and wants nothing.
LEMMA CleanupKnows ==
    ASSUME IInv, KInv, NEW c \in Clients, CleanupPending(c)
    PROVE  KInv'
<1> DEFINE t == Dropped(h, c, Keys)
<1>1. KnowledgeTypeOK /\ ToldInv /\ RequestedInv /\ AnswersTypeOK /\ HostTypeOK /\ h \in Hosts
  BY DEF KInv, KnowledgeTypeOK, IInv, HostTypeOK
<1>2. /\ cleaning' = cleaning \ {c} /\ c \in cleaning
      /\ UNCHANGED <<endpoints, hold, handler, failing, inbox, spoiled, wants, view, late>>
  BY Zenon DEF CleanupPending, client
<1>3. PICK o : h' = [t EXCEPT !.offers = o]
  BY Zenon DEF CleanupPending, Dropped
<1>4. /\ t.requested = h.requested
      /\ \A k \in Keys, d \in Clients :
           /\ d \in t.requests[k].by => d \in h.requests[k].by
           /\ d \in h.requests[k].by /\ d # c /\ h.requests[k].old # c => StillPends(h, t, d, k)
  BY <1>1, DroppedBy
<1>5. t \in Hosts /\ t.routing = h.routing
  BY <1>1, RemovedBoth
<1> HIDE DEF t
<1>6. h'.routing = h.routing /\ h'.requested = h.requested /\ h'.requests = t.requests
  BY Zenon, <1>3, <1>4, <1>5 DEF Hosts
<1>7. /\ AnswersTypeOK'
      /\ \A d \in Clients, k \in Keys : BeingAnswered(d, k)' <=> BeingAnswered(d, k)
      /\ \A d \in Clients, k \in Keys : Asks(d, k)' <=> Asks(d, k)
  BY <1>1, <1>2, SameHandlers
<1>8. KnowledgeTypeOK'
  BY <1>1, <1>2, <1>7 DEF KnowledgeTypeOK
<1>9. ToldInv'
  BY Zenon, <1>1, <1>2, <1>6, ToldSame
<1>10. RequestedInv'
  BY <1>1, <1>2, <1>4, <1>6, <1>7, RequestedSame
<1>11. \A d \in Clients, k \in Keys : Leaving(d, k) => Leaving(d, k)'
  BY <1>2 DEF Leaving
<1>12. c \notin endpoints
  BY <1>1, <1>2 DEF KnowledgeTypeOK
<1>13. ASSUME NEW d \in Clients, NEW k \in Keys, Counts(d, k)', Excused(d, k)
       PROVE  Excused(d, k)'
  <2>1. d # c /\ k \notin spoiled
    BY <1>1, <1>2, <1>12, <1>13 DEF Counts, RequestedInv
  <2>2. <<c, k>> \notin h.routing
    BY <1>1, <1>12, <2>1 DEF ToldInv
  <2> QED BY <1>2, <1>4, <1>6, <1>7, <1>13, <2>1, <2>2 DEF Excused, StillPends
<1> QED BY Zenon, <1>2, <1>6, <1>8, <1>9, <1>10, <1>11, <1>13, QuietKnows

\* on_deregister_application: the requesters of everything that the routing
\* information has of the dead client are told.
LEMMA OnDeregisterKnows ==
    ASSUME KeysInOrder, IInv, KInv, OnDeregisterApplication
    PROVE  KInv'
<1>1. KnowledgeTypeOK /\ ToldInv /\ RequestedInv /\ AnswersTypeOK /\ HostTypeOK /\ h \in Hosts
  BY DEF KInv, KnowledgeTypeOK, IInv, HostTypeOK
<1>2. PICK c \in Clients : hold.client = c
  BY <1>1 DEF OnDeregisterApplication, HostTypeOK
<1>3. PICK keys \in SUBSET Keys : keys = {k \in Keys : <<c, k>> \in h.routing}
  BY Zenon
<1> DEFINE s == StoppedAtHost(h, c, keys)
           t == StoppedAtStub(s, c, keys)
<1>4. /\ h' = t /\ inbox' = Informed(h, None, keys)
      /\ hold.op = "deregister" /\ hold' = [hold EXCEPT !.op = "remove"]
      /\ UNCHANGED <<endpoints, handler, failing, cleaning, spoiled, wants, view, late>>
  BY Zenon, <1>2, <1>3 DEF OnDeregisterApplication, client
<1>5. s \in Hosts /\ s.routing = h.routing /\ s.requests = h.requests
  BY Zenon, <1>1, StoppedAtHostResult
<1>6. s.requested = h.requested
  BY Zenon, <1>1 DEF StoppedAtHost, Hosts
<1> HIDE DEF s
<1>7. t.routing = s.routing \ ({c} \X keys) /\ t.requests = s.requests
  BY <1>5, StoppedAtStubResult
<1>8. t.requested = s.requested
  BY Zenon, <1>5 DEF StoppedAtStub, Hosts
<1> HIDE DEF t
<1>9. /\ h'.requested = h.requested /\ h'.requests = h.requests
      /\ \A d \in Clients, k \in Keys : <<d, k>> \in h'.routing <=> <<d, k>> \in h.routing /\ d # c
  BY <1>3, <1>4, <1>5, <1>6, <1>7, <1>8
<1>10. hold'.op = "remove" /\ hold \in Holds
  BY <1>1, <1>4 DEF HostTypeOK, Holds
<1>11. /\ AnswersTypeOK'
       /\ \A d \in Clients, k \in Keys : BeingAnswered(d, k)' <=> BeingAnswered(d, k)
       /\ \A d \in Clients, k \in Keys : Asks(d, k)' <=> Asks(d, k)
  BY <1>1, <1>4, SameHandlers
<1>12. None \in MaybeClient
  BY DEF MaybeClient
<1>13. KnowledgeTypeOK'
  <2>1. inbox' \in [Clients -> Seq(Infos)]
    BY Zenon, <1>1, <1>4, <1>12, InformedKnows DEF KnowledgeTypeOK
  <2> QED BY <1>1, <1>4, <1>11, <2>1 DEF KnowledgeTypeOK
<1>14. ToldInv'
  <2> SUFFICES ASSUME NEW d \in Clients, NEW k \in Keys, k \notin spoiled
               PROVE  /\ <<d, k>> \in h'.routing => d \in endpoints
                      /\ \A e \in Clients : <<d, k>> \in h'.routing /\ <<e, k>> \in h'.routing => d = e
    BY Zenon, <1>4, <1>10 DEF ToldInv
  <2> QED BY <1>1, <1>9 DEF ToldInv
<1>15. RequestedInv'
  BY <1>1, <1>4, <1>9, <1>11, RequestedSame
<1>16. ASSUME NEW d \in Clients, NEW k \in Keys, Counts(d, k)'
       PROVE  Claim(d, k)'
  <2>1. Counts(d, k) /\ Claim(d, k) /\ k \notin spoiled
    BY <1>4, <1>16 DEF Counts, KInv
  <2>2. CASE k \in keys
    <3>1. \A e \in Clients : <<e, k>> \notin h'.routing
      BY <1>1, <1>3, <1>9, <2>1, <2>2 DEF ToldInv
    <3>2. view' = view
      BY <1>4
    <3> QED BY <1>1, <1>4, <2>1, <2>2, <3>1, <3>2, GoneClaim
  <2>3. CASE k \notin keys
    <3>1. \A r \in MaybeClient : Knows(d, k, r) => Knows(d, k, r)'
      BY <1>1, <1>4, <1>12, <2>3, InformedOthers
    <3>2. \A e \in Clients : <<e, k>> \in h'.routing <=> <<e, k>> \in h.routing
      BY <1>3, <1>9, <2>3
    <3>3. \A e \in Clients : <<e, k>> \in h.routing => ~Leaving(e, k)
      BY <1>2, <1>3, <1>4, <2>3 DEF Leaving
    <3>4. Excused(d, k) => Excused(d, k)'
      <4>1. ASSUME <<h.requests[k].old, k>> \in h.routing
            PROVE  <<h'.requests[k].old, k>> \in h'.routing
        <5>1. h.requests[k].old \in Clients
          BY <1>1, <4>1 DEF Hosts, Pairs
        <5> QED BY <1>9, <3>2, <4>1, <5>1
      <4> QED BY <1>4, <1>9, <1>11, <4>1 DEF Excused
    <3> QED BY Zenon, <1>9, <1>16, <2>1, <3>1, <3>2, <3>3, <3>4, ClaimKept
  <2> QED BY <2>2, <2>3
<1>17. \A d \in Clients, k \in Keys : Claim(d, k)'
  BY Zenon, <1>16, ClaimVoid
<1> QED BY <1>13, <1>14, <1>15, <1>17 DEF KInv

\* remove_local: the client that is gone wants nothing, and nobody else's requests
\* are touched.
LEMMA RemoveKnows ==
    ASSUME IInv, KInv, RemoveLocal
    PROVE  KInv'
<1>1. KnowledgeTypeOK /\ ToldInv /\ RequestedInv /\ AnswersTypeOK /\ HostTypeOK /\ TablesInv /\ h \in Hosts
  BY DEF KInv, KnowledgeTypeOK, IInv, HostTypeOK
<1>2. PICK c \in Clients : hold.client = c
  BY <1>1 DEF RemoveLocal, HostTypeOK
<1>3. PICK keys : keys = {k \in Keys : <<c, k>> \in h.requested}
  BY Zenon
<1> DEFINE s == RemoveFromPinged(h, c)
           q == [k \in Keys |-> IF s.table[k] = c THEN None ELSE s.table[k]]
           w == s.requested \ ({c} \X Keys)
           u == [s EXCEPT !.table = q, !.requested = w]
           t == Unrequested(u, c, keys)
<1>4. h' = t
  BY <1>2, <1>3 DEF RemoveLocal, Unrequested
<1>5. /\ UNCHANGED <<handler, spoiled>> /\ hold.op = "remove"
      /\ endpoints' = endpoints \ {c} /\ failing' = failing \ {c} /\ cleaning' = cleaning \cup {c}
      /\ wants' = wants \ ({c} \X Keys) /\ late' = late \ ({c} \X Keys)
      /\ view' = [p \in Pairs |-> IF p \in {c} \X Keys THEN None ELSE view[p]]
      /\ inbox' = [inbox EXCEPT ![c] = <<>>]
  BY <1>2 DEF RemoveLocal
<1>6. hold'.op = "free"
  BY DEF RemoveLocal, Free
<1>7. s \in Hosts /\ s.table = h.table /\ s.routing = h.routing /\ s.requests = h.requests /\ s.requested = h.requested
  BY <1>1, PingResult
<1> HIDE DEF s
<1>8. q \in [Keys -> MaybeClient] /\ w \in SUBSET Pairs
  BY <1>7 DEF Hosts, MaybeClient
<1>9. \A d \in Clients, k \in Keys : <<d, k>> \in w <=> <<d, k>> \in h.requested /\ d # c
  BY <1>7
<1> HIDE DEF q, w
<1>10. u \in Hosts /\ u.routing = h.routing /\ u.requests = h.requests /\ u.requested = w
  BY ZenonT(60), <1>7, <1>8 DEF Hosts
<1> HIDE DEF u
<1>11. t.routing = u.routing
  BY <1>10, RemovedRequesting
<1>12. /\ t.requested = u.requested
       /\ \A k \in Keys, d \in Clients :
            /\ d \in t.requests[k].by => d \in u.requests[k].by /\ (k \notin keys \/ d # c)
            /\ d \in u.requests[k].by /\ (k \notin keys \/ d # c) => StillPends(u, t, d, k)
  BY <1>10, UnrequestedBy
<1> HIDE DEF t
<1>13. /\ h'.routing = h.routing
       /\ \A d \in Clients, k \in Keys :
            /\ <<d, k>> \in h'.requested <=> <<d, k>> \in h.requested /\ d # c
            /\ d \in h'.requests[k].by => d \in h.requests[k].by /\ (<<d, k>> \notin h.requested \/ d # c)
            /\ d \in h.requests[k].by /\ d # c => StillPends(h, h', d, k)
  BY Zenon, <1>3, <1>4, <1>9, <1>10, <1>11, <1>12 DEF StillPends
<1>14. /\ AnswersTypeOK'
       /\ \A d \in Clients, k \in Keys : BeingAnswered(d, k)' <=> BeingAnswered(d, k)
       /\ \A d \in Clients, k \in Keys : Asks(d, k)' <=> Asks(d, k)
  BY <1>1, <1>5, SameHandlers
<1>15. KnowledgeTypeOK'
  <2>1. view' \in [Pairs -> MaybeClient]
    BY <1>1, <1>5 DEF KnowledgeTypeOK, MaybeClient
  <2>2. inbox' \in [Clients -> Seq(Infos)]
    BY <1>1, <1>5 DEF KnowledgeTypeOK
  <2> QED BY <1>1, <1>5, <1>14, <2>1, <2>2 DEF KnowledgeTypeOK
<1>16. \A k \in Keys : <<c, k>> \notin h.routing
  BY <1>1, <1>2, <1>5 DEF TablesInv
<1>17. ToldInv'
  <2> SUFFICES ASSUME NEW d \in Clients, NEW k \in Keys, k \notin spoiled
               PROVE  /\ <<d, k>> \in h.routing => d \in endpoints'
                      /\ \A e \in Clients : <<d, k>> \in h.routing /\ <<e, k>> \in h.routing => d = e
    BY Zenon, <1>5, <1>6, <1>13 DEF ToldInv
  <2> QED BY <1>1, <1>5, <1>16 DEF ToldInv
<1>18. \A d \in Clients, k \in Keys :
         /\ <<d, k>> \in wants' <=> <<d, k>> \in wants /\ d # c
         /\ <<d, k>> \in late' <=> <<d, k>> \in late /\ d # c
  BY <1>5
<1>19. RequestedInv'
  <2> SUFFICES ASSUME NEW d \in Clients, NEW k \in Keys
               PROVE  /\ <<d, k>> \in wants' => d \in endpoints'
                      /\ d \in h'.requests[k].by => <<d, k>> \in h'.requested
                      /\ handler[d].op = "release" /\ handler[d].key = k => <<d, k>> \notin wants'
                      /\ <<d, k>> \in wants' \ late' /\ <<d, k>> \notin h'.requested =>
                           Asks(d, k)' /\ ~BeingAnswered(d, k)'
    BY Zenon, <1>5 DEF RequestedInv
  <2> QED BY <1>1, <1>5, <1>13, <1>14, <1>18 DEF RequestedInv
<1>20. ASSUME NEW d \in Clients, NEW k \in Keys, Counts(d, k)'
       PROVE  Claim(d, k)'
  <2>1. Counts(d, k) /\ Claim(d, k) /\ d # c
    BY <1>5, <1>18, <1>20 DEF Counts, KInv
  <2>2. inbox'[d] = inbox[d] /\ view'[<<d, k>>] = view[<<d, k>>]
    BY <1>1, <1>5, <2>1 DEF KnowledgeTypeOK, Pairs
  <2>3. \A r \in MaybeClient : Knows(d, k, r) => Knows(d, k, r)'
    BY Zenon, <2>2 DEF Knows
  <2>4. Excused(d, k) => Excused(d, k)'
    BY Zenon, <1>5, <1>13, <1>14, <2>1 DEF Excused, StillPends
  <2>5. \A e \in Clients : ~Leaving(e, k)
    BY <1>5 DEF Leaving
  <2> QED BY Zenon, <1>13, <1>20, <2>1, <2>3, <2>4, <2>5, ClaimKept
<1>21. \A d \in Clients, k \in Keys : Claim(d, k)'
  BY Zenon, <1>20, ClaimVoid
<1> QED BY <1>15, <1>17, <1>19, <1>21 DEF KInv

-----------------------------------------------------------------------------
(* The theorem *)

FS == INSTANCE FiniteSetTheorems

\* The services are finitely many, so they can be gone through.
LEMMA FiniteInOrder == KeysInOrder
<1> SUFFICES ASSUME NEW S \in SUBSET Keys
             PROVE  InOrder(S) \in Orders(S) /\ Cardinality(S) \in Nat
  BY Zenon DEF KeysInOrder
<1>1. FS!IsFiniteSet(Keys)
  BY Zenon, OffersAssumption DEF IsFiniteSet, FS!IsFiniteSet
<1>2. FS!Cardinality(S) \in Nat /\ FS!ExistsBijection(1..FS!Cardinality(S), S)
  BY <1>1, FS!FS_Subset, FS!FS_CardinalityType
<1>3. FS!Cardinality(S) = Cardinality(S)
  BY Zenon DEF Cardinality, FS!Cardinality
<1>4. PICK o : o \in FS!Bijection(1..Cardinality(S), S)
  BY Zenon, <1>2, <1>3 DEF FS!ExistsBijection
<1>5. o \in Orders(S)
  BY Zenon, <1>4 DEF Orders, FS!Bijection, FS!Injection, FS!Surjection, FS!IsInjective
<1>6. InOrder(S) \in Orders(S)
  BY Zenon, <1>5 DEF InOrder
<1> QED BY <1>2, <1>3, <1>6

\* Before anybody has registered nobody wants anything.
LEMMA InitKInv == Init => KInv
<1> SUFFICES ASSUME Init PROVE KInv
  OBVIOUS
<1>1. h.routing = {} /\ h.requested = {} /\ \A k \in Keys : h.requests[k] = NoRequest
  BY DEF Init
<1>2. \A c \in Clients : handler[c] = Idle
  BY DEF Init
<1>3. wants = {} /\ cleaning = {} /\ view \in [Pairs -> MaybeClient] /\ inbox \in [Clients -> Seq(Infos)]
  BY DEF Init, MaybeClient
<1>4. Idle.op = "idle" /\ Idle.todo = {}
  BY DEF Idle
<1>5. KnowledgeTypeOK
  BY <1>2, <1>3, <1>4 DEF KnowledgeTypeOK, AnswersTypeOK
<1>6. ToldInv
  <2>1. hold.op # "offer"
    BY DEF Init, Free
  <2> QED BY <1>1, <2>1 DEF ToldInv
<1>7. RequestedInv
  BY <1>1, <1>2, <1>3, <1>4 DEF RequestedInv, NoRequest
<1>8. \A c \in Clients, k \in Keys : Claim(c, k)
  BY <1>3 DEF Claim, Counts
<1> QED BY <1>5, <1>6, <1>7, <1>8 DEF KInv

\* Every step keeps what clients know in agreement with the routing information.
LEMMA NextKInv == IInv /\ KInv /\ [Next]_vars => KInv'
<1> SUFFICES ASSUME IInv, KInv, [Next]_vars PROVE KInv'
  OBVIOUS
<1>1. ASSUME NEW c \in Clients, NEW full \in BOOLEAN, HandleOffer(c, full)
      PROVE  KInv'
  <2>1. handler[c].op = "offer" /\ OfferService(c, handler[c].key, c, full)
    BY SMTT(30), <1>1 DEF HandleOffer
  <2>2. handler[c].key \in Keys
    BY SMTT(30), <2>1 DEF IInv, HostTypeOK, Keyed
  <2> QED BY SMTT(30), <2>1, <2>2, OfferKnows DEF MaybeClient
<1>2. ASSUME NEW c \in Clients, NEW k \in Keys, NEW full \in BOOLEAN, OfferAgain(c, k, full)
      PROVE  KInv'
  BY SMTT(30), <1>2, OfferKnows DEF OfferAgain, MaybeClient
<1>3. ASSUME NEW c \in Clients, Environment(c)
      PROVE  KInv'
  BY <1>3, ConnectionsKnow, SendKnows, SendRequestKnows, SendReleaseKnows DEF Environment
<1>4. ASSUME NEW c \in Clients, Host(c)
      PROVE  KInv'
  BY <1>1, <1>2, <1>4, StopKnows, HandleRequestsKnows, ReleaseKnows, PongKnows, DecideKnows, AnswerKnows,
     DeregisterKnows, CleanupKnows, RequestKnows DEF Host
<1>5. CASE Mutex
  BY <1>5, FiniteInOrder, OnOfferKnows, OnStopKnows, OnDeregisterKnows, RemoveKnows DEF Mutex
<1>6. CASE UNCHANGED vars
  <2>1. UNCHANGED <<h, handler, inbox, view, wants, late, hold, spoiled, endpoints, failing, cleaning>>
    BY <1>6 DEF vars, client
  <2>2. ToldInv' /\ cleaning' \cap endpoints' = {}
    BY <2>1, ToldSame DEF KInv, KnowledgeTypeOK
  <2>3. \A c \in Clients, k \in Keys : Leaving(c, k) => Leaving(c, k)'
    BY <2>1 DEF Leaving
  <2> QED BY <2>1, <2>2, <2>3, SameHandlersKnows
<1> QED BY <1>3, <1>4, <1>5, <1>6, ConnectionsKnow, RoutingInfoKnows DEF Next

\* Both invariants hold at any time, for any number of clients, services and messages.
LEMMA KInvHolds == Spec => [](IInv /\ KInv)
<1>1. Init => IInv /\ KInv
  BY InitIInv, InitKInv
<1>2. IInv /\ KInv /\ [Next]_vars => (IInv /\ KInv)'
  BY NextIInv, NextKInv
<1> QED BY <1>1, <1>2, PTL DEF Spec

\* A client whose request was handled knows the provider of the service, or that
\* there is none, as soon as it has read what is on its way to it: with mutex_ free
\* the routing information is the table, nobody is leaving, and a client that is not
\* waiting for an answer has no excuse.
THEOREM RequestersAreInformed == Spec => []RequestersInformed
<1>1. IInv /\ KInv => RequestersInformed
  <2> SUFFICES ASSUME IInv, KInv, hold = Free, NEW c \in endpoints, NEW k \in Keys,
                      <<c, k>> \in wants, handler[c] = Idle, c \notin failing,
                      c \notin h.requests[k].by, ~BeingAnswered(c, k),
                      k \notin spoiled, <<c, k>> \notin late
               PROVE  Knows(c, k, h.table[k])
    BY Zenon DEF RequestersInformed
  <2>1. c \in Clients /\ h \in Hosts /\ TablesInv
    BY DEF IInv, HostTypeOK
  <2>2. PICK p \in MaybeClient :
          /\ Knows(c, k, p)
          /\ p # None => <<p, k>> \in h.routing
          /\ p = None => Excused(c, k) \/ NobodyStays(k)
    BY Zenon, <2>1 DEF KInv, Claim, Counts
  <2>3. hold.op = "free"
    BY DEF Free
  <2>4. \A d \in Clients : <<d, k>> \in h.routing <=> h.table[k] = d
    BY <2>1, <2>3 DEF TablesInv
  <2>5. p = None => \A d \in Clients : <<d, k>> \notin h.routing
    <3>1. ~Excused(c, k)
      BY DEF Excused, Asks, Idle
    <3> QED BY <2>2, <2>3, <3>1 DEF NobodyStays, Leaving
  <2>6. h.table[k] \in MaybeClient
    BY <2>1 DEF Hosts
  <2>7. p = h.table[k]
    BY Zenon, <2>2, <2>4, <2>5, <2>6 DEF MaybeClient
  <2> QED BY Zenon, <2>2, <2>7
<1> QED BY <1>1, KInvHolds, PTL
=============================================================================
