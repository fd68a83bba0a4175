----------------------- MODULE ServiceOffersProofs -----------------------
(***************************************************************************)
(* For any number of clients, services and messages: the host's table and  *)
(* the stub's routing information agree, and nothing waits for an answer   *)
(* nobody expects.                                                         *)
(*                                                                         *)
(* TablesAgree speaks of states in which mutex_ is free, so it is not      *)
(* inductive.  TablesInv says what holds while it is taken: an offer is in *)
(* the table before it is in the routing information, a stopped one leaves *)
(* in the same order, and a client whose offers were stopped is in neither *)
(* when remove_local comes.                                                *)
(*                                                                         *)
(* PendingIsAwaited needs to know that the client waited for is connected  *)
(* or being cleaned up (the timer only reports clients with an endpoint),  *)
(* and that the client mutex_ is held for is the one that fails.           *)
(***************************************************************************)
EXTENDS OffersLemmas

\* Handlers another thread or a pending entry relies on.
Busy == {"decide", "offer", "stop"}

\* The handlers after a step that ends none of those.
HandlersKept ==
    /\ handler' \in [Clients -> Handlers]
    /\ \A d \in Clients : handler'[d].op \in Keyed => handler'[d].key \in Keys
    /\ \A d \in Clients : handler[d].op \in Busy => handler'[d].op = handler[d].op

\* A step that leaves the tables and mutex_ alone preserves TablesInv.
LEMMA TablesSame ==
    ASSUME TablesInv, h'.table = h.table, h'.routing = h.routing, hold' = hold, spoiled' = spoiled
    PROVE  TablesInv'
BY ZenonT(60) DEF TablesInv

\* What waits stays awaited by a step that forgets no ping, cleanup or endpoint and
\* starts to wait for connected, pinged clients only.
LEMMA AwaitedStep ==
    ASSUME PendingConnected, PendingIsAwaited, HostTypeOK,
           h.pinged \subseteq h'.pinged, failing \subseteq failing',
           endpoints \subseteq endpoints', cleaning \subseteq cleaning',
           \A d \in Clients : handler[d].op = "decide" => handler'[d].op = "decide",
           \A k \in Keys : h'.offers[k] # NoOffer =>
             \/ h.offers[k] # NoOffer /\ h'.offers[k].old = h.offers[k].old
             \/ h'.offers[k].old \in endpoints' /\ h'.offers[k].old \in h'.pinged,
           \A k \in Keys : h'.requests[k] # NoRequest =>
             \/ h.requests[k] # NoRequest /\ h'.requests[k].old = h.requests[k].old
             \/ h'.requests[k].old \in endpoints' /\ h'.requests[k].old \in h'.pinged
    PROVE  PendingConnected' /\ PendingIsAwaited'
<1>1. PendingConnected'
  BY DEF PendingConnected
<1>2. \A k \in Keys : /\ h.offers[k] # NoOffer => h.offers[k].old \in Clients
                      /\ h.requests[k] # NoRequest => h.requests[k].old \in Clients
  BY DEF PendingConnected, HostTypeOK
<1>3. PendingIsAwaited'
  BY <1>2 DEF PendingIsAwaited, Awaited
<1> QED BY <1>1, <1>3

\* The host starts with empty tables.
LEMMA InitIInv == Init => IInv
<1> SUFFICES ASSUME Init PROVE IInv
  OBVIOUS
<1>1. h \in Hosts
  BY DEF Init, Hosts, NoOffer, NoRequest, MaybeClient
<1>2. HostTypeOK
  BY <1>1 DEF Init, HostTypeOK, Holds, Free, Handlers, Idle, HandlerOps, MaybeClient, Keyed
<1>3. TablesInv
  BY OffersAssumption DEF Init, TablesInv, Free
<1>4. PendingConnected /\ PendingIsAwaited
  BY DEF Init, PendingConnected, PendingIsAwaited
<1> QED BY <1>2, <1>3, <1>4 DEF IInv

\* offer_service, of a client or of cleanup_client, preserves the invariant: the
\* offer waits for a provider that is connected and pinged, or it is in the table
\* and its thread is about to put it into the routing information.
LEMMA OfferStep ==
    ASSUME IInv, NEW c \in Clients, NEW k \in Keys, NEW by \in MaybeClient, NEW full \in BOOLEAN,
           OfferService(c, k, by, full), by # None => handler[by].op = "offer"
    PROVE  IInv'
<1> USE DEF IInv
<1> DEFINE old == h.table[k]
           ask == old \notin {None, c} /\ h.offers[k] = NoOffer /\ old \in endpoints
           refuse == old = c \/ (old # None /\ h.offers[k] # NoOffer)
           pends == ask /\ ~full
           s == IF ask THEN SendPing(h, old) ELSE h
<1>1. /\ hold = Free /\ UNCHANGED <<endpoints, failing, cleaning>>
      /\ (refuse \/ pends) => /\ h' = IF refuse THEN h ELSE [s EXCEPT !.offers[k] = [new |-> c, old |-> old]]
                              /\ handler' = IF by = None THEN handler ELSE [handler EXCEPT ![by] = Idle]
                              /\ UNCHANGED <<hold, spoiled>>
      /\ ~(refuse \/ pends) => /\ h' = [s EXCEPT !.table[k] = c, !.info = @ \cup {k}]
                               /\ hold' = [op |-> "offer", client |-> c, key |-> k, by |-> by]
                               /\ spoiled' = IF old = None /\ c \in endpoints THEN spoiled ELSE spoiled \cup {k}
                               /\ UNCHANGED handler
  BY SMTT(30) DEF OfferService, PingSent
<1>2. /\ s \in Hosts /\ s.table = h.table /\ s.routing = h.routing /\ s.offers = h.offers
      /\ s.requests = h.requests /\ h.pinged \subseteq s.pinged
      /\ ask => old \in s.pinged
  <2>1. CASE ask
    <3>1. old \in Clients
      BY <2>1 DEF HostTypeOK
    <3>2. s = SendPing(h, old) /\ h \in Hosts
      BY <2>1 DEF HostTypeOK
    <3> HIDE DEF s, old, ask
    <3> QED BY ZenonT(60), <3>1, <3>2, PingResult
  <2>2. CASE ~ask
    BY <2>2 DEF HostTypeOK
  <2> QED BY <2>1, <2>2
<1>3. handler' \in [Clients -> Handlers]
      /\ \A d \in Clients : handler'[d] = handler[d] \/ (handler'[d] = Idle /\ handler[d].op = "offer")
  <2>1. Idle \in Handlers /\ handler \in [Clients -> Handlers]
    BY DEF HostTypeOK, Handlers, Idle, HandlerOps, MaybeClient
  <2>2. handler' = handler \/ (by # None /\ handler' = [handler EXCEPT ![by] = Idle])
    BY <1>1
  <2>3. by # None => by \in Clients
    BY DEF MaybeClient
  <2> QED BY <2>1, <2>2, <2>3
<1>4. \A d \in Clients : handler[d].op = "decide" => handler'[d].op = "decide"
  BY <1>3
<1>5. CASE refuse
  <2>1. h' = h /\ hold' = hold /\ spoiled' = spoiled
    BY <1>1, <1>5
  <2>2. HostTypeOK'
    BY <1>1, <1>3, <2>1 DEF HostTypeOK, Idle, Keyed, Free
  <2>3. TablesInv'
    BY <2>1, TablesSame
  <2>4. PendingConnected' /\ PendingIsAwaited'
    BY <1>1, <1>4, <2>1, AwaitedStep
  <2> QED BY <2>2, <2>3, <2>4
<1>6. CASE ~refuse /\ pends
  <2> DEFINE o == [h.offers EXCEPT ![k] = [new |-> c, old |-> old]]
  <2>1. h' = [s EXCEPT !.offers = o]
    BY <1>1, <1>2, <1>6
  <2>2. hold' = hold /\ spoiled' = spoiled
    BY SMTT(30), <1>1, <1>6
  <2>3. /\ o \in [Keys -> [new : MaybeClient, old : MaybeClient]]
        /\ o[k] = [new |-> c, old |-> old] /\ \A j \in Keys \ {k} : o[j] = h.offers[j]
        /\ old \in endpoints /\ old \in s.pinged
    BY <1>2, <1>6 DEF HostTypeOK, Hosts, MaybeClient
  <2> HIDE DEF o, s
  <2>4. /\ h' \in Hosts /\ h'.offers = o /\ h'.table = h.table /\ h'.routing = h.routing
        /\ h'.requests = h.requests /\ h'.pinged = s.pinged
    BY Zenon, <1>2, <2>1, <2>3 DEF Hosts
  <2>5. HostTypeOK'
    BY <1>1, <1>3, <2>2, <2>4 DEF HostTypeOK, Idle, Keyed, Free
  <2>6. TablesInv'
    BY <2>2, <2>4, TablesSame
  <2>7. PendingConnected' /\ PendingIsAwaited'
    <3>1. \A j \in Keys : h'.offers[j] # NoOffer =>
            \/ h.offers[j] # NoOffer /\ h'.offers[j].old = h.offers[j].old
            \/ h'.offers[j].old \in endpoints' /\ h'.offers[j].old \in h'.pinged
      BY <1>1, <2>3, <2>4
    <3>2. UNCHANGED <<endpoints, failing, cleaning>> /\ h.pinged \subseteq h'.pinged
      BY <1>1, <1>2, <2>4
    <3> QED BY <1>4, <2>4, <3>1, <3>2, AwaitedStep
  <2> QED BY <2>5, <2>6, <2>7
<1>7. CASE ~refuse /\ ~pends
  <2> DEFINE q == [h.table EXCEPT ![k] = c]
  <2>1. h' = [s EXCEPT !.table = q, !.info = @ \cup {k}]
    BY Zenon, <1>1, <1>2, <1>7
  <2>2. /\ hold' = [op |-> "offer", client |-> c, key |-> k, by |-> by]
        /\ spoiled \subseteq spoiled' /\ (old # None => k \in spoiled')
    BY <1>1, <1>7
  <2>3. q \in [Keys -> MaybeClient] /\ q[k] = c /\ \A j \in Keys \ {k} : q[j] = h.table[j]
    BY DEF HostTypeOK, Hosts, MaybeClient
  <2> HIDE DEF q, s
  <2>4. /\ h' \in Hosts /\ h'.table = q /\ h'.routing = h.routing /\ h'.offers = h.offers
        /\ h'.requests = h.requests /\ h'.pinged = s.pinged
    BY Zenon, <1>2, <2>1, <2>3 DEF Hosts
  <2>5. /\ hold' \in Holds /\ hold'.op = "offer" /\ hold'.client = c /\ hold'.key = k
        /\ hold'.by = by /\ handler' = handler /\ (by # None => by \in Clients)
    BY <1>1, <1>7, <2>2 DEF Holds, MaybeClient
  <2>6. HostTypeOK'
    BY <1>1, <1>3, <2>4, <2>5 DEF HostTypeOK, Idle, Keyed
  <2>7. TablesInv'
    <3>1. hold.op = "free" /\ spoiled \subseteq spoiled' /\ (h.table[k] # None => k \in spoiled')
      BY <1>1, <2>2 DEF Free
    <3>2. ASSUME NEW d \in Clients, NEW j \in Keys, <<d, j>> \in h.routing
          PROVE  h'.table[j] = d \/ j \in spoiled'
      BY <2>3, <2>4, <3>1, <3>2, OffersAssumption DEF TablesInv
    <3>3. ASSUME NEW d \in Clients, NEW j \in Keys, h'.table[j] = d
          PROVE  <<d, j>> \in h.routing \/ (d = c /\ j = k)
      BY <2>3, <2>4, <3>1, <3>3 DEF TablesInv
    <3> QED BY ZenonT(60), <2>3, <2>4, <2>5, <3>2, <3>3 DEF TablesInv
  <2>8. PendingConnected' /\ PendingIsAwaited'
    <3>1. UNCHANGED <<endpoints, failing, cleaning>> /\ h.pinged \subseteq h'.pinged
      BY <1>1, <1>2, <2>4
    <3> QED BY <1>4, <2>4, <3>1, AwaitedStep
  <2> QED BY <2>6, <2>7, <2>8
<1> QED BY SMTT(30), <1>5, <1>6, <1>7

\* A handler that changes its state keeps the handlers well typed.
LEMMA HandlerStep ==
    ASSUME HostTypeOK, NEW c \in Clients, NEW m \in Handlers,
           m.op \in Keyed => m.key \in Keys, handler' = [handler EXCEPT ![c] = m]
    PROVE  /\ handler' \in [Clients -> Handlers]
           /\ \A d \in Clients : handler'[d].op \in Keyed => handler'[d].key \in Keys
           /\ \A d \in Clients \ {c} : handler'[d] = handler[d]
           /\ handler'[c] = m
           /\ handler[c].op \notin Busy => HandlersKept
<1>1. handler \in [Clients -> Handlers]
      /\ \A d \in Clients : handler[d].op \in Keyed => handler[d].key \in Keys
  BY DEF HostTypeOK
<1>2. /\ handler' \in [Clients -> Handlers] /\ handler'[c] = m
      /\ \A d \in Clients \ {c} : handler'[d] = handler[d]
  BY <1>1
<1>3. \A d \in Clients : handler'[d].op \in Keyed => handler'[d].key \in Keys
  BY <1>1, <1>2
<1> QED BY <1>2, <1>3 DEF HandlersKept

\* An untouched handler.
LEMMA HandlerSame ==
    ASSUME HostTypeOK, handler' = handler
    PROVE  HandlersKept
BY SMTT(30) DEF HostTypeOK, HandlersKept

\* The messages and states of handlers are well typed.
LEMMA HandlerValues ==
    /\ Idle \in Handlers /\ Idle.op = "idle"
    /\ \A op \in HandlerOps, k \in Keys \cup {None} :
         Message(op, k) \in Handlers /\ Message(op, k).op = op /\ Message(op, k).key = k
    /\ \A todo \in SUBSET Pairs :
         /\ [Idle EXCEPT !.op = "answer", !.todo = todo] \in Handlers
         /\ [Idle EXCEPT !.op = "answer", !.todo = todo].op = "answer"
    /\ \A k \in Keys, c \in Clients, todo \in SUBSET Pairs :
         /\ [op |-> "tell", key |-> k, to |-> c, todo |-> todo] \in Handlers
         /\ [op |-> "tell", key |-> k, to |-> c, todo |-> todo].op = "tell"
BY Zenon DEF Idle, Message, Handlers, HandlerOps, MaybeClient

\* A step outside mutex_ that changes neither table nor routing information, forgets
\* no ping, and starts to wait for connected, pinged clients only.
LEMMA QuietStep ==
    ASSUME IInv, HandlersKept, h' \in Hosts,
           h'.table = h.table, h'.routing = h.routing, h'.offers = h.offers,
           h.pinged \subseteq h'.pinged, hold' = hold, spoiled' = spoiled,
           endpoints \subseteq endpoints', endpoints' \subseteq Clients,
           failing \subseteq failing', failing' \subseteq endpoints', cleaning' = cleaning,
           \A k \in Keys : h'.requests[k] # NoRequest =>
             \/ h.requests[k] # NoRequest /\ h'.requests[k].old = h.requests[k].old
             \/ h'.requests[k].old \in endpoints' /\ h'.requests[k].old \in h'.pinged
    PROVE  IInv'
<1>1. HostTypeOK /\ TablesInv /\ PendingConnected /\ PendingIsAwaited
  BY DEF IInv
<1>2. HostTypeOK'
  BY <1>1 DEF HostTypeOK, HandlersKept, Busy
<1>3. TablesInv'
  BY <1>1, TablesSame
<1>4. PendingConnected' /\ PendingIsAwaited'
  <2>1. \A d \in Clients : handler[d].op = "decide" => handler'[d].op = "decide"
    BY DEF HandlersKept, Busy
  <2> QED BY <1>1, <2>1, AwaitedStep
<1> QED BY <1>2, <1>3, <1>4 DEF IInv

\* What clients and connections do, and handle_requests, only touch handlers, the
\* endpoints and what is on its way.
LEMMA ClientStep ==
    ASSUME IInv, NEW c \in Clients,
           Environment(c) \/ OnRoutingInfo(c) \/ HandleRequests(c)
    PROVE  IInv'
<1>1. HostTypeOK
  BY DEF IInv
<1>2. h \in Hosts /\ endpoints \subseteq Clients /\ failing \subseteq endpoints
      /\ handler \in [Clients -> Handlers]
  BY SMTT(30), <1>1 DEF HostTypeOK
<1>3. CASE Register(c)
  <2>1. HandlersKept
    BY <1>1, <1>3, HandlerSame DEF Register
  <2> QED BY <1>2, <1>3, <2>1, QuietStep DEF Register
<1>4. CASE Fails(c)
  <2>1. HandlersKept
    BY SMTT(30), <1>1, <1>4, HandlerSame DEF Fails
  <2> QED BY <1>2, <1>4, <2>1, QuietStep DEF Fails
<1>5. CASE OnRoutingInfo(c)
  <2>1. HandlersKept
    BY <1>1, <1>5, HandlerSame DEF OnRoutingInfo
  <2> QED BY <1>2, <1>5, <2>1, QuietStep DEF OnRoutingInfo
<1>6. ASSUME NEW op \in HandlerOps, NEW k \in Keys \cup {None}, op \in Keyed => k \in Keys,
             Send(c, op, k)
      PROVE  IInv'
  <2> DEFINE m == Message(op, k)
  <2>1. handler' = [handler EXCEPT ![c] = m] /\ handler[c].op = "idle"
    BY ZenonT(60), <1>6, HandlerValues DEF Send
  <2>2. m \in Handlers /\ m.op = op /\ m.key = k
    BY Zenon, <1>6, HandlerValues
  <2> HIDE DEF m
  <2>3. m.op \in Keyed => m.key \in Keys
    BY <1>6, <2>2
  <2>4. HandlersKept
    BY Zenon, <1>1, <2>1, <2>2, <2>3, HandlerStep DEF Busy
  <2> QED BY SMTT(30), <1>2, <1>6, <2>4, QuietStep DEF Send
<1>7. CASE SendPong(c)
  BY <1>6, <1>7 DEF SendPong, HandlerOps, Keyed
<1>8. CASE \E k \in Keys : SendOffer(c, k) \/ SendStop(c, k) \/ SendRequest(c, k) \/ SendRelease(c, k)
  BY <1>6, <1>8 DEF SendOffer, SendStop, SendRequest, SendRelease, HandlerOps
<1>9. CASE HandleRequests(c)
  <2> DEFINE m == IF handler[c].todo = {} THEN Idle
                  ELSE [Idle EXCEPT !.op = "answer", !.todo = handler[c].todo]
  <2>1. handler' = [handler EXCEPT ![c] = m] /\ handler[c].op = "tell"
    BY <1>9 DEF HandleRequests
  <2>2. handler[c].todo \in SUBSET Pairs
    BY <1>2 DEF Handlers
  <2>3. m \in Handlers /\ m.op \notin Keyed
    BY Zenon, <2>2, HandlerValues DEF Keyed
  <2> HIDE DEF m
  <2>4. HandlersKept
    BY Zenon, <1>1, <2>1, <2>3, HandlerStep DEF Busy
  <2> QED BY <1>2, <1>9, <2>4, QuietStep DEF HandleRequests
<1> QED BY <1>3, <1>4, <1>5, <1>7, <1>8, <1>9 DEF Environment

\* Requests change what is requested and pending, and ping.
LEMMA RequestStep ==
    ASSUME IInv, NEW c \in Clients, NEW full \in BOOLEAN, RequestService(c, full)
    PROVE  IInv'
<1>1. HostTypeOK /\ h \in Hosts /\ endpoints \subseteq Clients /\ failing \subseteq endpoints
  BY DEF IInv, HostTypeOK
<1> DEFINE k == handler[c].key
           old == h.table[k]
           again == <<c, k>> \in h.requested /\ old # None
           joins == again /\ h.requests[k] # NoRequest /\ h.requests[k].old = old
           ask == again /\ ~joins /\ old \in endpoints
           pends == ask /\ ~full
           s == IF ask THEN SendPing(h, old) ELSE h
           m == IF joins \/ pends THEN Idle ELSE [op |-> "tell", key |-> k, to |-> c, todo |-> {}]
           r == IF joins THEN [old |-> old, by |-> h.requests[k].by \cup {c}]
                ELSE [old |-> old, by |-> {c}]
           q == [h.requests EXCEPT ![k] = r]
<1>2. k \in Keys /\ handler[c].op = "request"
  BY Zenon, <1>1 DEF RequestService, HostTypeOK, Keyed
<1>3. /\ h' = IF joins THEN [h EXCEPT !.requests = q]
              ELSE IF pends THEN [s EXCEPT !.requests = q]
              ELSE [s EXCEPT !.requested = @ \cup {<<c, k>>}]
      /\ handler' = [handler EXCEPT ![c] = m]
      /\ UNCHANGED <<endpoints, hold, failing, cleaning, spoiled>>
  <2>1. h.requests[k] \in [old : MaybeClient, by : SUBSET Clients]
    BY SMTT(30), <1>1, <1>2 DEF Hosts
  <2>2. joins => r = [h.requests[k] EXCEPT !.by = @ \cup {c}]
    BY SMTT(30), <2>1
  <2>3. s.requests = h.requests
    BY <1>1 DEF SendPing, Hosts
  <2>4. joins => [h EXCEPT !.requests[k].by = @ \cup {c}] = [h EXCEPT !.requests = q]
    BY SMTT(30), <2>2
  <2>5. ~joins => [s EXCEPT !.requests[k] = [old |-> old, by |-> {c}]] = [s EXCEPT !.requests = q]
    BY ZenonT(60), <2>3
  <2>6. /\ h' = IF joins THEN [h EXCEPT !.requests[k].by = @ \cup {c}]
               ELSE IF pends THEN [s EXCEPT !.requests[k] = [old |-> old, by |-> {c}]]
               ELSE [s EXCEPT !.requested = @ \cup {<<c, k>>}]
        /\ handler' = [handler EXCEPT ![c] = m]
        /\ UNCHANGED <<endpoints, hold, failing, cleaning, spoiled>>
    BY ZenonT(60) DEF RequestService, PingSent
  <2> HIDE DEF s, q, r, m, joins, pends, k, old
  <2> QED BY <2>4, <2>5, <2>6
<1>4. HandlersKept
  <2>1. m \in Handlers /\ m.op \notin Keyed
    BY ZenonT(60), <1>2, HandlerValues DEF Keyed
  <2> HIDE DEF m
  <2> QED BY ZenonT(60), <1>1, <1>2, <1>3, <2>1, HandlerStep DEF Busy
<1>5. /\ s \in Hosts /\ s.table = h.table /\ s.routing = h.routing /\ s.offers = h.offers
      /\ s.requests = h.requests /\ h.pinged \subseteq s.pinged /\ (ask => old \in s.pinged)
  <2>1. CASE ask
    <3>1. old \in Clients /\ s = SendPing(h, old)
      BY <1>1, <2>1
    <3> HIDE DEF s, old, ask
    <3> QED BY ZenonT(60), <1>1, <3>1, PingResult
  <2>2. CASE ~ask
    BY ZenonT(60), <1>1, <2>2
  <2> QED BY ZenonT(60), <2>1, <2>2
<1>6. joins \/ pends => /\ q \in [Keys -> [old : MaybeClient, by : SUBSET Clients]]
                        /\ q[k].old = old /\ \A j \in Keys \ {k} : q[j] = h.requests[j]
  BY ZenonT(60), <1>1, <1>2 DEF Hosts, MaybeClient
<1>7. /\ joins => h.requests[k] # NoRequest /\ h.requests[k].old = old
      /\ pends => ask /\ old \in endpoints
  BY Zenon
<1> HIDE DEF q, s, m, r, old, joins, ask, pends, again, k
<1>8. CASE joins
  <2>1. h' = [h EXCEPT !.requests = q]
    BY <1>3, <1>8
  <2>2. /\ h' \in Hosts /\ h'.requests = q /\ h'.table = h.table /\ h'.routing = h.routing
        /\ h'.offers = h.offers /\ h'.pinged = h.pinged
    BY Zenon, <1>1, <1>6, <1>8, <2>1 DEF Hosts
  <2>3. \A j \in Keys : h'.requests[j] # NoRequest =>
          h.requests[j] # NoRequest /\ h'.requests[j].old = h.requests[j].old
    BY <1>6, <1>7, <1>8, <2>2
  <2> QED BY <1>1, <1>3, <1>4, <2>2, <2>3, QuietStep
<1>9. CASE ~joins /\ pends
  <2>1. h' = [s EXCEPT !.requests = q]
    BY <1>3, <1>9
  <2>2. /\ h' \in Hosts /\ h'.requests = q /\ h'.table = h.table /\ h'.routing = h.routing
        /\ h'.offers = h.offers /\ h'.pinged = s.pinged
    BY Zenon, <1>5, <1>6, <1>9, <2>1 DEF Hosts
  <2>3. \A j \in Keys : h'.requests[j] # NoRequest =>
          \/ h.requests[j] # NoRequest /\ h'.requests[j].old = h.requests[j].old
          \/ h'.requests[j].old \in endpoints' /\ h'.requests[j].old \in h'.pinged
    BY <1>3, <1>5, <1>6, <1>7, <1>9, <2>2
  <2>4. h.pinged \subseteq h'.pinged
    BY <1>5, <2>2
  <2>5. UNCHANGED <<endpoints, hold, failing, cleaning, spoiled>>
    BY <1>3
  <2> QED BY <1>1, <1>4, <2>2, <2>3, <2>4, <2>5, QuietStep
<1>10. CASE ~joins /\ ~pends
  <2> DEFINE w == s.requested \cup {<<c, k>>}
  <2>1. h' = [s EXCEPT !.requested = w] /\ w \in SUBSET Pairs
    BY <1>2, <1>3, <1>5, <1>10 DEF Hosts, Pairs
  <2> HIDE DEF w
  <2>2. /\ h' \in Hosts /\ h'.requests = h.requests /\ h'.table = h.table /\ h'.routing = h.routing
        /\ h'.offers = h.offers /\ h'.pinged = s.pinged
    BY SMTT(30), <1>5, <2>1 DEF Hosts
  <2>3. h.pinged \subseteq h'.pinged
    BY <1>5, <2>2
  <2>4. UNCHANGED <<endpoints, hold, failing, cleaning, spoiled>>
    BY <1>3
  <2> QED BY <1>1, <1>4, <2>2, <2>3, <2>4, QuietStep
<1> QED BY <1>8, <1>9, <1>10

\* A released service is not requested any more, and neither is it waited for.
LEMMA ReleaseStep ==
    ASSUME IInv, NEW c \in Clients, ReleaseService(c)
    PROVE  IInv'
<1> DEFINE k == handler[c].key
           w == h.requested \ {<<c, k>>}
           s == [h EXCEPT !.requested = w]
<1>1. HostTypeOK /\ h \in Hosts /\ endpoints \subseteq Clients /\ failing \subseteq endpoints
  BY DEF IInv, HostTypeOK
<1>2. /\ handler[c].op = "release" /\ handler' = [handler EXCEPT ![c] = Idle]
      /\ h' = h \/ h' = Unrequested(s, c, {k})
  BY Zenon DEF ReleaseService, Unrequested
<1>3. UNCHANGED <<endpoints, hold, failing, cleaning, spoiled>>
  BY DEF ReleaseService
<1>4. HandlersKept
  BY Zenon, <1>1, <1>2, HandlerStep, HandlerValues DEF Keyed, Busy
<1>5. w \in SUBSET Pairs
  BY <1>1 DEF Hosts
<1> HIDE DEF w, k
<1>6. /\ s \in Hosts /\ s.table = h.table /\ s.routing = h.routing /\ s.offers = h.offers
      /\ s.requests = h.requests /\ s.pinged = h.pinged
  BY SMTT(30), <1>1, <1>5 DEF Hosts
<1> HIDE DEF s
<1>7. /\ h' \in Hosts /\ h'.table = h.table /\ h'.routing = h.routing /\ h'.offers = h.offers
      /\ h'.pinged = h.pinged
      /\ \A j \in Keys : h'.requests[j] # NoRequest =>
           h.requests[j] # NoRequest /\ h'.requests[j].old = h.requests[j].old
  <2>1. CASE h' = h
    BY <1>1, <2>1
  <2>2. CASE h' = Unrequested(s, c, {k})
    <3> DEFINE t == Unrequested(s, c, {k})
    <3>1. /\ t \in Hosts /\ t.table = s.table /\ t.routing = s.routing /\ t.offers = s.offers
          /\ t.pinged = s.pinged
          /\ \A j \in Keys : t.requests[j] # NoRequest =>
               s.requests[j] # NoRequest /\ t.requests[j].old = s.requests[j].old
      BY <1>6, RemovedRequesting
    <3>2. h' = t
      BY <2>2
    <3> HIDE DEF t
    <3> QED BY <1>6, <3>1, <3>2
  <2> QED BY <1>2, <2>1, <2>2
<1> QED BY SMTT(30), <1>1, <1>3, <1>4, <1>7, QuietStep

\* The answer to a pending request changes what is requested.
LEMMA AnswerStep ==
    ASSUME IInv, NEW c \in Clients, OnPongAnswer(c)
    PROVE  IInv'
<1>1. HostTypeOK /\ h \in Hosts /\ endpoints \subseteq Clients /\ failing \subseteq endpoints
      /\ handler \in [Clients -> Handlers]
  BY DEF IInv, HostTypeOK
<1>2. PICK p \in handler[c].todo :
        /\ h' = [h EXCEPT !.requested = @ \cup {p}]
        /\ handler' = [handler EXCEPT ![c] = [op |-> "tell", key |-> p[2], to |-> p[1],
                                              todo |-> handler[c].todo \ {p}]]
  BY Zenon, <1>1 DEF OnPongAnswer
<1>3. UNCHANGED <<endpoints, hold, failing, cleaning, spoiled>> /\ handler[c].op = "answer"
  BY DEF OnPongAnswer
<1> DEFINE todo == handler[c].todo \ {p}
           m == [op |-> "tell", key |-> p[2], to |-> p[1], todo |-> todo]
           w == h.requested \cup {p}
<1>4. p \in Pairs /\ todo \in SUBSET Pairs
  BY <1>1, <1>2 DEF Handlers
<1>5. p[1] \in Clients /\ p[2] \in Keys
  BY <1>4 DEF Pairs
<1>6. m \in Handlers /\ m.op \notin Keyed
  BY Zenon, <1>4, <1>5, HandlerValues DEF Keyed
<1>7. handler' = [handler EXCEPT ![c] = m] /\ h' = [h EXCEPT !.requested = w] /\ w \in SUBSET Pairs
  BY <1>1, <1>2, <1>4 DEF Hosts
<1> HIDE DEF m, w, todo
<1>8. HandlersKept
  BY Zenon, <1>1, <1>3, <1>6, <1>7, HandlerStep DEF Busy
<1>9. /\ h' \in Hosts /\ h'.table = h.table /\ h'.routing = h.routing /\ h'.offers = h.offers
      /\ h'.requests = h.requests /\ h'.pinged = h.pinged
  BY ZenonT(60), <1>1, <1>7 DEF Hosts
<1> QED BY SMTT(30), <1>1, <1>3, <1>8, <1>9, QuietStep

\* Before the decision a pong only ends the ping: the decision is what is awaited.
LEMMA PongStep ==
    ASSUME IInv, NEW c \in Clients, OnPong(c)
    PROVE  IInv'
<1>1. HostTypeOK /\ TablesInv /\ PendingConnected /\ PendingIsAwaited /\ h \in Hosts
  BY DEF IInv, HostTypeOK
<1> DEFINE m == Message("decide", None)
<1>2. handler' = [handler EXCEPT ![c] = m] /\ h' = RemoveFromPinged(h, c) /\ handler[c].op = "pong"
  BY DEF OnPong
<1>3. UNCHANGED <<endpoints, hold, failing, cleaning, spoiled>>
  BY SMTT(30) DEF OnPong
<1>4. m \in Handlers /\ m.op = "decide"
  BY Zenon, HandlerValues DEF HandlerOps
<1> HIDE DEF m
<1>5. HandlersKept /\ handler'[c].op = "decide"
  BY ZenonT(60), <1>1, <1>2, <1>4, HandlerStep DEF Keyed, Busy
<1>6. /\ h' \in Hosts /\ h'.table = h.table /\ h'.routing = h.routing /\ h'.offers = h.offers
      /\ h'.requests = h.requests /\ h.pinged \ {c} \subseteq h'.pinged
  BY <1>1, <1>2, PingResult
<1>7. HostTypeOK'
  BY <1>1, <1>3, <1>5, <1>6 DEF HostTypeOK, HandlersKept, Busy
<1>8. TablesInv'
  BY <1>1, <1>3, <1>6, TablesSame
<1>9. PendingConnected'
  BY SMTT(30), <1>1, <1>3, <1>6 DEF PendingConnected
<1>10. PendingIsAwaited'
  <2>1. \A j \in Keys : /\ h.offers[j] # NoOffer => h.offers[j].old \in Clients
                        /\ h.requests[j] # NoRequest => h.requests[j].old \in Clients
    BY <1>1 DEF PendingConnected, HostTypeOK
  <2> QED BY SMTT(30), <1>1, <1>3, <1>5, <1>6, <2>1 DEF PendingIsAwaited, Awaited, HandlersKept, Busy
<1> QED BY <1>7, <1>8, <1>9, <1>10 DEF IInv

\* The decision of a pong ends whatever waited for the client.
LEMMA DecideStep ==
    ASSUME IInv, NEW c \in Clients, OnPongDecide(c)
    PROVE  IInv'
<1>1. HostTypeOK /\ TablesInv /\ PendingConnected /\ PendingIsAwaited /\ h \in Hosts
  BY DEF IInv, HostTypeOK
<1> DEFINE todo == {p \in Pairs : h.requests[p[2]].old = c /\ p[1] \in h.requests[p[2]].by}
           m == IF todo = {} THEN Idle ELSE [Idle EXCEPT !.op = "answer", !.todo = todo]
           o == [k \in Keys |-> IF h.offers[k].old = c THEN NoOffer ELSE h.offers[k]]
           q == [k \in Keys |-> IF h.requests[k].old = c THEN NoRequest ELSE h.requests[k]]
<1>2. handler' = [handler EXCEPT ![c] = m] /\ h' = [h EXCEPT !.offers = o, !.requests = q]
  BY <1>1 DEF OnPongDecide
<1>3. UNCHANGED <<endpoints, hold, failing, cleaning, spoiled>>
  BY SMTT(30) DEF OnPongDecide
<1>4. m \in Handlers /\ m.op \notin Keyed
  <2>1. todo \in SUBSET Pairs
    BY SMTT(30)
  <2> HIDE DEF todo
  <2> QED BY Zenon, <2>1, HandlerValues DEF Keyed
<1>5. /\ o \in [Keys -> [new : MaybeClient, old : MaybeClient]]
      /\ q \in [Keys -> [old : MaybeClient, by : SUBSET Clients]]
  BY SMTT(30), <1>1 DEF Hosts, NoOffer, NoRequest, MaybeClient
<1>6. \A k \in Keys : /\ o[k] # NoOffer => o[k] = h.offers[k] /\ h.offers[k].old # c
                      /\ q[k] # NoRequest => q[k] = h.requests[k] /\ h.requests[k].old # c
  OBVIOUS
<1> HIDE DEF m, o, q, todo
<1>7. /\ handler' \in [Clients -> Handlers]
      /\ \A d \in Clients : handler'[d].op \in Keyed => handler'[d].key \in Keys
      /\ \A d \in Clients \ {c} : handler'[d] = handler[d]
  BY Zenon, <1>1, <1>2, <1>4, HandlerStep
<1>8. /\ h' \in Hosts /\ h'.offers = o /\ h'.requests = q
      /\ h'.table = h.table /\ h'.routing = h.routing /\ h'.pinged = h.pinged
  BY Zenon, <1>1, <1>2, <1>5 DEF Hosts
<1>9. HostTypeOK'
  <2>1. handler[c].op = "decide"
    BY DEF OnPongDecide
  <2> QED BY <1>1, <1>3, <1>7, <1>8, <2>1 DEF HostTypeOK
<1>10. TablesInv'
  BY <1>1, <1>3, <1>8, TablesSame
<1>11. PendingConnected'
  BY SMTT(30), <1>1, <1>3, <1>6, <1>8 DEF PendingConnected
<1>12. PendingIsAwaited'
  <2>1. \A j \in Keys : /\ h.offers[j] # NoOffer => h.offers[j].old \in Clients
                        /\ h.requests[j] # NoRequest => h.requests[j].old \in Clients
    BY <1>1 DEF PendingConnected, HostTypeOK
  <2> QED BY <1>1, <1>3, <1>6, <1>7, <1>8, <2>1 DEF PendingIsAwaited, Awaited
<1> QED BY <1>9, <1>10, <1>11, <1>12 DEF IInv

\* The ping timer turns every ping of a connected client into the end of its
\* connection; who is not connected is being cleaned up.
LEMMA TimerStep ==
    ASSUME IInv, NEW expired \in SUBSET Clients, OnPingTimerExpired(expired)
    PROVE  IInv'
<1>1. HostTypeOK /\ TablesInv /\ PendingConnected /\ PendingIsAwaited /\ h \in Hosts
  BY DEF IInv, HostTypeOK
<1> DEFINE q == h.pinged \ expired
<1>2. h' = [h EXCEPT !.pinged = q, !.timer = (q # {})]
  BY DEF OnPingTimerExpired
<1>3. UNCHANGED <<endpoints, hold, handler, cleaning, spoiled>>
      /\ failing' = failing \cup (expired \cap endpoints)
  BY DEF OnPingTimerExpired
<1>4. q \in SUBSET Clients /\ h.pinged \subseteq q \cup expired
  BY SMTT(30), <1>1 DEF Hosts
<1> HIDE DEF q
<1>5. /\ h' \in Hosts /\ h'.offers = h.offers /\ h'.requests = h.requests
      /\ h'.table = h.table /\ h'.routing = h.routing /\ h'.pinged = q
  BY ZenonT(60), <1>1, <1>2, <1>4 DEF Hosts
<1>6. HostTypeOK'
  BY <1>1, <1>3, <1>5 DEF HostTypeOK
<1>7. TablesInv'
  BY <1>1, <1>3, <1>5, TablesSame
<1>8. PendingConnected'
  BY SMTT(30), <1>1, <1>3, <1>5 DEF PendingConnected
<1>9. PendingIsAwaited'
  <2>1. \A d \in endpoints \cup cleaning : Awaited(d) =>
          \/ d \in h'.pinged \cup failing' \cup cleaning'
          \/ handler'[d].op = "decide"
    BY SMTT(30), <1>3, <1>4, <1>5 DEF Awaited
  <2>2. \A k \in Keys : /\ h.offers[k] # NoOffer => /\ h.offers[k].old \in endpoints \cup cleaning
                                                    /\ Awaited(h.offers[k].old)
                        /\ h.requests[k] # NoRequest => /\ h.requests[k].old \in endpoints \cup cleaning
                                                        /\ Awaited(h.requests[k].old)
    BY <1>1 DEF PendingConnected, PendingIsAwaited
  <2>3. h'.offers = h.offers /\ h'.requests = h.requests
    BY <1>5
  <2> QED BY <2>1, <2>2, <2>3 DEF PendingIsAwaited, Awaited
<1> QED BY SMTT(30), <1>6, <1>7, <1>8, <1>9 DEF IInv

\* deregister_client takes mutex_ for a client that fails and drops pending requests.
LEMMA DeregisterStep ==
    ASSUME IInv, NEW c \in Clients, Deregister(c)
    PROVE  IInv'
<1>1. HostTypeOK /\ TablesInv /\ PendingConnected /\ PendingIsAwaited /\ h \in Hosts
  BY DEF IInv, HostTypeOK
<1> DEFINE t == Dropped(h, c, Keys)
<1>2. /\ t \in Hosts /\ t.table = h.table /\ t.routing = h.routing /\ t.offers = h.offers
      /\ t.pinged = h.pinged
      /\ \A j \in Keys : t.requests[j] # NoRequest =>
           h.requests[j] # NoRequest /\ t.requests[j].old = h.requests[j].old
  BY <1>1, RemovedBoth
<1>3. h' = t /\ UNCHANGED <<endpoints, handler, failing, cleaning, spoiled>> /\ c \in failing
  BY DEF Deregister, Dropped
<1>4. hold.op = "free" /\ hold' = [op |-> "deregister", client |-> c, key |-> None, by |-> None]
  BY DEF Deregister, Free
<1>5. hold' \in Holds /\ hold'.op = "deregister" /\ hold'.client = c /\ hold'.by = None
  BY SMTT(30), <1>4 DEF Holds, MaybeClient
<1> HIDE DEF t
<1>6. HostTypeOK'
  BY SMTT(30), <1>1, <1>2, <1>3, <1>5 DEF HostTypeOK
<1>7. h'.table = h.table /\ h'.routing = h.routing /\ spoiled' = spoiled /\ hold.op = "free"
  BY SMTT(30), <1>2, <1>3, <1>4
<1>8. TablesInv'
  BY ZenonT(60), <1>1, <1>5, <1>7 DEF TablesInv
<1>9. \A d \in Clients : handler[d].op = "decide" => handler'[d].op = "decide"
  BY <1>3
<1>10. PendingConnected' /\ PendingIsAwaited'
  BY SMTT(30), <1>1, <1>2, <1>3, <1>9, AwaitedStep
<1> QED BY SMTT(30), <1>6, <1>8, <1>10 DEF IInv

\* The end of cleanup_client: nothing waits for the client any more.
LEMMA CleanupStep ==
    ASSUME IInv, NEW c \in Clients, CleanupPending(c)
    PROVE  IInv'
<1>1. HostTypeOK /\ TablesInv /\ PendingConnected /\ PendingIsAwaited /\ h \in Hosts
  BY DEF IInv, HostTypeOK
<1> DEFINE t == Dropped(h, c, Keys)
           o == [k \in Keys |-> IF k \in {j \in Keys : h.offers[j].old = c} THEN NoOffer ELSE h.offers[k]]
<1>2. /\ t \in Hosts /\ t.table = h.table /\ t.routing = h.routing /\ t.offers = h.offers
      /\ t.pinged = h.pinged
      /\ \A j \in Keys : t.requests[j] # NoRequest =>
           /\ h.requests[j] # NoRequest /\ t.requests[j].old = h.requests[j].old
           /\ t.requests[j].old # c
  BY <1>1, RemovedBoth
<1>3. UNCHANGED <<endpoints, handler, failing, hold, spoiled>> /\ cleaning' = cleaning \ {c}
  BY SMTT(30) DEF CleanupPending
<1>4. /\ o \in [Keys -> [new : MaybeClient, old : MaybeClient]]
      /\ \A k \in Keys : o[k] # NoOffer => o[k] = h.offers[k] /\ h.offers[k].old # c
  BY <1>1 DEF Hosts, NoOffer, MaybeClient
<1>5. h' = [t EXCEPT !.offers = [k \in Keys |->
              IF k \in {j \in Keys : h.offers[j].old = c} THEN NoOffer ELSE @[k]]]
  BY DEF CleanupPending, Dropped
<1> HIDE DEF t
<1>6. h' = [t EXCEPT !.offers = o]
  BY <1>2, <1>5
<1> HIDE DEF o
<1>7. /\ h' \in Hosts /\ h'.offers = o /\ h'.requests = t.requests
      /\ h'.table = h.table /\ h'.routing = h.routing /\ h'.pinged = h.pinged
  BY ZenonT(60), <1>2, <1>4, <1>6 DEF Hosts
<1>8. HostTypeOK'
  BY <1>1, <1>3, <1>7 DEF HostTypeOK
<1>9. TablesInv'
  BY <1>1, <1>3, <1>7, TablesSame
<1>10. \A k \in Keys :
        /\ h'.offers[k] # NoOffer => h.offers[k] # NoOffer /\ h'.offers[k].old = h.offers[k].old
                                     /\ h.offers[k].old # c
        /\ h'.requests[k] # NoRequest => h.requests[k] # NoRequest
                                     /\ h'.requests[k].old = h.requests[k].old /\ h.requests[k].old # c
  BY <1>2, <1>4, <1>7
<1>11. PendingConnected'
  BY SMTT(30), <1>1, <1>3, <1>10 DEF PendingConnected
<1>12. PendingIsAwaited'
  <2>1. h'.pinged = h.pinged
    BY <1>7
  <2> QED BY <1>1, <1>3, <1>10, <2>1 DEF PendingIsAwaited, Awaited
<1> QED BY <1>8, <1>9, <1>11, <1>12 DEF IInv

\* The end of a handler that holds mutex_ keeps the other handlers.
LEMMA DoneStep ==
    ASSUME HostTypeOK, Done
    PROVE  /\ handler' \in [Clients -> Handlers]
           /\ \A d \in Clients : handler'[d].op \in Keyed => handler'[d].key \in Keys
           /\ \A d \in Clients : handler[d].op = "decide" => handler'[d].op = "decide"
<1>1. CASE hold.by = None
  BY <1>1 DEF Done, HostTypeOK
<1>2. CASE hold.by # None
  <2>1. handler' = [handler EXCEPT ![hold.by] = Idle] /\ hold.by \in Clients
        /\ handler[hold.by].op \in {"offer", "stop"}
    BY <1>2 DEF Done, HostTypeOK
  <2>2. Idle \in Handlers /\ Idle.op \notin Keyed
    BY Zenon, HandlerValues DEF Keyed
  <2>3. PICK b \in Clients : b = hold.by
    BY <2>1
  <2> QED BY Zenon, <2>1, <2>2, <2>3, HandlerStep
<1> QED BY SMTT(30), <1>1, <1>2

\* on_offer_service: the routing information follows the table.
LEMMA OnOfferStep ==
    ASSUME IInv, OnOfferService
    PROVE  IInv'
<1>1. HostTypeOK /\ TablesInv /\ PendingConnected /\ PendingIsAwaited /\ h \in Hosts
  BY DEF IInv, HostTypeOK
<1>2. PICK c \in Clients, k \in Keys : hold.client = c /\ hold.key = k
  BY <1>1 DEF OnOfferService, HostTypeOK
<1> DEFINE w == h.routing \cup {<<c, k>>}
<1>3. h' = [h EXCEPT !.routing = w] /\ w \in SUBSET Pairs
  BY <1>1, <1>2 DEF OnOfferService, Hosts, Pairs
<1>4. UNCHANGED <<endpoints, failing, cleaning, spoiled>> /\ hold.op = "offer" /\ Done
  BY DEF OnOfferService
<1>5. hold' = Free /\ hold' \in Holds /\ hold'.op = "free" /\ hold'.by = None
  BY SMTT(30) DEF OnOfferService, Free, Holds, MaybeClient
<1>6. w = h.routing \cup {<<c, k>>}
  OBVIOUS
<1> HIDE DEF w
<1>7. /\ h' \in Hosts /\ h'.routing = w /\ h'.table = h.table /\ h'.offers = h.offers
      /\ h'.requests = h.requests /\ h'.pinged = h.pinged
  BY Zenon, <1>1, <1>3 DEF Hosts
<1>8. HostTypeOK'
  BY <1>1, <1>4, <1>5, <1>7, DoneStep DEF HostTypeOK
<1>9. TablesInv'
  <2>1. \A d \in Clients, j \in Keys :
          <<d, j>> \in h'.routing <=> (<<d, j>> \in h.routing \/ (d = c /\ j = k))
    BY <1>6, <1>7
  <2>2. hold'.op = "free" /\ hold.op = "offer" /\ h'.table = h.table /\ spoiled' = spoiled
    BY <1>4, <1>5, <1>7
  <2>3. h.table[k] = c
    BY Zenon, <1>1, <1>2, <2>2 DEF TablesInv
  <2> QED BY ZenonT(60), <1>1, <1>2, <2>1, <2>2, <2>3 DEF TablesInv
<1>10. PendingConnected' /\ PendingIsAwaited'
  BY Zenon, <1>1, <1>4, <1>7, AwaitedStep, DoneStep
<1> QED BY SMTT(30), <1>8, <1>9, <1>10 DEF IInv

\* stop_offer_service: only the provider leaves the table.
LEMMA StopStep ==
    ASSUME IInv, NEW c \in Clients, StopOfferService(c)
    PROVE  IInv'
<1>1. HostTypeOK /\ TablesInv /\ PendingConnected /\ PendingIsAwaited /\ h \in Hosts
      /\ endpoints \subseteq Clients /\ failing \subseteq endpoints
  BY SMTT(30) DEF IInv, HostTypeOK
<1> DEFINE k == handler[c].key
           t == StoppedAtHost(h, c, {k})
<1>2. k \in Keys /\ handler[c].op = "stop" /\ hold = Free /\ hold.op = "free" /\ hold.by = None
  BY SMTT(30), <1>1 DEF StopOfferService, HostTypeOK, Keyed, Free
<1>3. UNCHANGED <<endpoints, failing, cleaning, spoiled>>
  BY SMTT(30) DEF StopOfferService
<1>4. CASE k \in h.info
  <2>1. /\ h' = t /\ handler' = handler
        /\ hold' = [op |-> "stop", client |-> c, key |-> k, by |-> c]
    BY SMTT(30), <1>4 DEF StopOfferService
  <2>2. /\ t \in Hosts /\ t.routing = h.routing /\ t.offers = h.offers /\ t.requests = h.requests
        /\ t.pinged = h.pinged
        /\ t.table = [j \in Keys |-> IF j \in {k} /\ h.table[j] = c THEN None ELSE h.table[j]]
    BY SMTT(30), <1>1, <1>2, StoppedAtHostResult
  <2>3. hold' \in Holds /\ hold'.op = "stop" /\ hold'.client = c /\ hold'.key = k /\ hold'.by = c
    BY SMTT(30), <1>2, <2>1 DEF Holds, MaybeClient
  <2> HIDE DEF t, k
  <2>4. HostTypeOK'
    <3>1. handler[c].op = "stop" /\ k \in Keys
      BY SMTT(30), <1>2
    <3> QED BY <1>1, <1>3, <2>1, <2>2, <2>3, <3>1 DEF HostTypeOK
  <2>5. TablesInv'
    <3>1. \A j \in Keys : h'.table[j] = h.table[j] \/ (j = k /\ h.table[j] = c /\ h'.table[j] = None)
      BY SMTT(30), <2>1, <2>2
    <3>2. h'.table[k] # c
      BY SMTT(30), <1>2, <2>1, <2>2, OffersAssumption
    <3>3. h'.routing = h.routing /\ spoiled' = spoiled /\ hold.op = "free"
      BY SMTT(30), <1>2, <1>3, <2>1, <2>2
    <3>4. ASSUME NEW d \in Clients, NEW j \in Keys
          PROVE  /\ h'.table[j] = d => <<d, j>> \in h.routing
                 /\ <<d, j>> \in h.routing => h'.table[j] = d \/ j \in spoiled \/ (d = c /\ j = k)
      <4>1. None # d
        BY OffersAssumption
      <4> QED BY <1>1, <3>1, <3>3, <4>1 DEF TablesInv
    <3>5. hold'.op = "stop" /\ hold'.client = c /\ hold'.key = k
      BY SMTT(30), <2>3
    <3> QED BY ZenonT(60), <3>2, <3>3, <3>4, <3>5 DEF TablesInv
  <2>6. PendingConnected' /\ PendingIsAwaited'
    BY SMTT(30), <1>1, <1>3, <2>1, <2>2, AwaitedStep
  <2> QED BY <2>4, <2>5, <2>6 DEF IInv
<1>5. CASE k \notin h.info
  <2>1. h' = h /\ hold' = hold /\ handler' = [handler EXCEPT ![c] = Idle]
    BY SMTT(30), <1>5 DEF StopOfferService
  <2>2. Idle \in Handlers /\ Idle.op \notin Keyed
    BY Zenon, HandlerValues DEF Keyed
  <2>3. /\ handler' \in [Clients -> Handlers]
        /\ \A d \in Clients : handler'[d].op \in Keyed => handler'[d].key \in Keys
        /\ \A d \in Clients : handler[d].op = "decide" => handler'[d].op = "decide"
    BY ZenonT(60), <1>1, <1>2, <2>1, <2>2, HandlerStep
  <2>4. HostTypeOK'
    BY <1>1, <1>2, <1>3, <2>1, <2>3 DEF HostTypeOK
  <2>5. TablesInv'
    BY <1>1, <1>3, <2>1, TablesSame
  <2>6. PendingConnected' /\ PendingIsAwaited'
    BY <1>1, <1>3, <2>1, <2>3, AwaitedStep
  <2> QED BY <2>4, <2>5, <2>6 DEF IInv
<1> QED BY SMTT(30), <1>4, <1>5

\* on_stop_offer_service: the routing information follows the table.
LEMMA OnStopStep ==
    ASSUME IInv, OnStopOfferService
    PROVE  IInv'
<1>1. HostTypeOK /\ TablesInv /\ PendingConnected /\ PendingIsAwaited /\ h \in Hosts
  BY DEF IInv, HostTypeOK
<1>2. PICK c \in Clients, k \in Keys : hold.client = c /\ hold.key = k
  BY SMTT(30), <1>1 DEF OnStopOfferService, HostTypeOK
<1> DEFINE s == StoppedAtStub(h, c, {k})
           t == Unoffered(s, c, {k})
<1>3. h' = t
  BY SMTT(30), <1>2 DEF OnStopOfferService, Unoffered
<1>4. UNCHANGED <<endpoints, failing, cleaning, spoiled>> /\ hold.op = "stop" /\ Done
  BY SMTT(30) DEF OnStopOfferService
<1>5. hold' = Free /\ hold' \in Holds /\ hold'.op = "free" /\ hold'.by = None
  BY DEF OnStopOfferService, Free, Holds, MaybeClient
<1>6. /\ s \in Hosts /\ s.table = h.table /\ s.routing = h.routing \ ({c} \X {k})
      /\ s.offers = h.offers /\ s.requests = h.requests /\ s.pinged = h.pinged
  <2>1. PICK keys \in SUBSET Keys : keys = {k}
    BY ZenonT(60)
  <2> DEFINE r == StoppedAtStub(h, c, keys)
  <2>2. /\ r \in Hosts /\ r.table = h.table /\ r.routing = h.routing \ ({c} \X keys)
        /\ r.offers = h.offers /\ r.requests = h.requests /\ r.pinged = h.pinged
    BY <1>1, StoppedAtStubResult
  <2>3. s = r
    BY <2>1
  <2> HIDE DEF s, r
  <2> QED BY <2>1, <2>2, <2>3
<1> HIDE DEF s
<1>7. /\ t \in Hosts /\ t.table = s.table /\ t.routing = s.routing /\ t.offers = s.offers
      /\ t.pinged = s.pinged
      /\ \A j \in Keys : t.requests[j] # NoRequest =>
           s.requests[j] # NoRequest /\ t.requests[j].old = s.requests[j].old
  BY <1>6, RemovedOffering
<1> HIDE DEF t
<1>8. HostTypeOK'
  BY <1>1, <1>3, <1>4, <1>5, <1>7, DoneStep DEF HostTypeOK
<1>9. TablesInv'
  <2>1. \A d \in Clients, j \in Keys :
          <<d, j>> \in h'.routing <=> (<<d, j>> \in h.routing /\ ~(d = c /\ j = k))
    BY <1>3, <1>6, <1>7
  <2>2. hold'.op = "free" /\ hold.op = "stop" /\ h'.table = h.table /\ spoiled' = spoiled
    BY <1>3, <1>4, <1>5, <1>6, <1>7
  <2>3. h.table[k] # c
    BY Zenon, <1>1, <1>2, <2>2 DEF TablesInv
  <2> QED BY ZenonT(60), <1>1, <1>2, <2>1, <2>2, <2>3 DEF TablesInv
<1>10. PendingConnected' /\ PendingIsAwaited'
  <2>1. /\ h'.pinged = h.pinged /\ h'.offers = h.offers
        /\ \A j \in Keys : h'.requests[j] # NoRequest =>
             h.requests[j] # NoRequest /\ h'.requests[j].old = h.requests[j].old
    BY <1>3, <1>6, <1>7
  <2> QED BY <1>1, <1>4, <2>1, AwaitedStep, DoneStep
<1> QED BY <1>8, <1>9, <1>10 DEF IInv

\* on_deregister_application: a dead client leaves both tables.
LEMMA OnDeregisterStep ==
    ASSUME IInv, OnDeregisterApplication
    PROVE  IInv'
<1>1. HostTypeOK /\ TablesInv /\ PendingConnected /\ PendingIsAwaited /\ h \in Hosts
  BY DEF IInv, HostTypeOK
<1>2. PICK c \in Clients : hold.client = c
  BY <1>1 DEF OnDeregisterApplication, HostTypeOK
<1>3. PICK keys \in SUBSET Keys : keys = {k \in Keys : <<c, k>> \in h.routing}
  BY ZenonT(60)
<1> DEFINE s == StoppedAtHost(h, c, keys)
           t == StoppedAtStub(s, c, keys)
<1>4. h' = t /\ hold.op = "deregister" /\ hold' = [hold EXCEPT !.op = "remove"]
  BY <1>2, <1>3 DEF OnDeregisterApplication
<1>5. UNCHANGED <<endpoints, failing, cleaning, spoiled, handler>>
  BY DEF OnDeregisterApplication
<1>6. hold' \in Holds /\ hold'.op = "remove" /\ hold'.client = c /\ hold'.by = hold.by
  BY <1>1, <1>2, <1>4 DEF HostTypeOK, Holds
<1>7. /\ s \in Hosts /\ s.routing = h.routing /\ s.offers = h.offers /\ s.requests = h.requests
      /\ s.pinged = h.pinged
      /\ s.table = [k \in Keys |-> IF k \in keys /\ h.table[k] = c THEN None ELSE h.table[k]]
  BY <1>1, StoppedAtHostResult
<1> HIDE DEF s
<1>8. /\ t \in Hosts /\ t.table = s.table /\ t.routing = s.routing \ ({c} \X keys)
      /\ t.offers = s.offers /\ t.requests = s.requests /\ t.pinged = s.pinged
  BY <1>7, StoppedAtStubResult
<1> HIDE DEF t
<1>9. HostTypeOK'
  <2>1. hold.client \in failing
    BY <1>1, <1>4 DEF HostTypeOK
  <2> QED BY <1>1, <1>2, <1>4, <1>5, <1>6, <1>8, <2>1 DEF HostTypeOK
<1>10. TablesInv'
  <2>1. \A k \in Keys : h'.table[k] = IF k \in keys /\ h.table[k] = c THEN None ELSE h.table[k]
    BY <1>4, <1>7, <1>8
  <2>2. \A d \in Clients, k \in Keys : <<d, k>> \in h'.routing <=> (<<d, k>> \in h.routing /\ d # c)
    BY <1>3, <1>4, <1>7, <1>8
  <2>3. hold.op = "deregister" /\ spoiled' = spoiled /\ hold'.op = "remove" /\ hold'.client = c
    BY SMTT(30), <1>4, <1>5, <1>6
  <2>4. ASSUME NEW d \in Clients, NEW k \in Keys
        PROVE  /\ h'.table[k] = d => <<d, k>> \in h'.routing
               /\ <<d, k>> \in h'.routing => h'.table[k] = d \/ k \in spoiled
    <3>1. None # d
      BY OffersAssumption
    <3>2. d # c => (h'.table[k] = d <=> h.table[k] = d)
      BY <2>1, <3>1
    <3>3. h'.table[k] # c
      <4>1. h.table[k] = c => k \in keys
        BY SMTT(30), <1>1, <1>3, <2>3 DEF TablesInv
      <4> QED BY SMTT(30), <2>1, <4>1, OffersAssumption
    <3> QED BY <1>1, <2>2, <2>3, <3>2, <3>3 DEF TablesInv
  <2> QED BY Zenon, <2>2, <2>3, <2>4 DEF TablesInv
<1>11. PendingConnected' /\ PendingIsAwaited'
  <2>1. h'.pinged = h.pinged /\ h'.offers = h.offers /\ h'.requests = h.requests
    BY <1>4, <1>7, <1>8
  <2> QED BY <1>1, <1>5, <2>1, AwaitedStep
<1> QED BY <1>9, <1>10, <1>11 DEF IInv

\* remove_local: the client loses its endpoint, and its cleanup goes on.
LEMMA RemoveStep ==
    ASSUME IInv, RemoveLocal
    PROVE  IInv'
<1>1. HostTypeOK /\ TablesInv /\ PendingConnected /\ PendingIsAwaited /\ h \in Hosts
  BY DEF IInv, HostTypeOK
<1>2. PICK c \in Clients : hold.client = c
  BY <1>1 DEF RemoveLocal, HostTypeOK
<1>3. PICK keys : keys = {k \in Keys : <<c, k>> \in h.requested}
  BY Zenon
<1> DEFINE s == RemoveFromPinged(h, c)
           q == [k \in Keys |-> IF s.table[k] = c THEN None ELSE s.table[k]]
           w == s.requested \ ({c} \X Keys)
           u == [s EXCEPT !.table = q, !.requested = w]
           t == Unrequested(u, c, keys)
<1>4. h' = t
  BY <1>2, <1>3 DEF RemoveLocal, Unrequested
<1>5. /\ UNCHANGED <<handler, spoiled>> /\ hold.op = "remove"
      /\ endpoints' = endpoints \ {c} /\ failing' = failing \ {c} /\ cleaning' = cleaning \cup {c}
  BY <1>2 DEF RemoveLocal
<1>6. hold' = Free /\ hold' \in Holds /\ hold'.op = "free" /\ hold'.by = None
  BY DEF RemoveLocal, Free, Holds, MaybeClient
<1>7. /\ s \in Hosts /\ s.table = h.table /\ s.routing = h.routing /\ s.offers = h.offers
      /\ s.requests = h.requests /\ h.pinged \ {c} \subseteq s.pinged
  BY <1>1, PingResult
<1> HIDE DEF s
<1>8. q \in [Keys -> MaybeClient] /\ w \in SUBSET Pairs
      /\ \A k \in Keys : q[k] = IF h.table[k] = c THEN None ELSE h.table[k]
  BY <1>7 DEF Hosts, MaybeClient
<1> HIDE DEF q, w
<1>9. /\ u \in Hosts /\ u.table = q /\ u.routing = h.routing /\ u.offers = h.offers
      /\ u.requests = h.requests /\ u.pinged = s.pinged
  BY ZenonT(60), <1>7, <1>8 DEF Hosts
<1> HIDE DEF u
<1>10. /\ t \in Hosts /\ t.table = u.table /\ t.routing = u.routing /\ t.offers = u.offers
       /\ t.pinged = u.pinged
       /\ \A k \in Keys : t.requests[k] # NoRequest =>
            u.requests[k] # NoRequest /\ t.requests[k].old = u.requests[k].old
  BY <1>9, RemovedRequesting
<1> HIDE DEF t
<1>11. /\ h' \in Hosts /\ h'.table = q /\ h'.routing = h.routing /\ h'.offers = h.offers
       /\ h.pinged \ {c} \subseteq h'.pinged
       /\ \A k \in Keys : h'.requests[k] # NoRequest =>
            h.requests[k] # NoRequest /\ h'.requests[k].old = h.requests[k].old
  BY <1>4, <1>7, <1>9, <1>10
<1>12. HostTypeOK'
  BY <1>1, <1>5, <1>6, <1>11 DEF HostTypeOK
<1>13. TablesInv'
  <2>1. hold.op = "remove" /\ hold'.op = "free" /\ spoiled' = spoiled /\ h'.routing = h.routing
    BY SMTT(30), <1>5, <1>6, <1>11
  <2>2. ASSUME NEW d \in Clients, NEW k \in Keys
        PROVE  /\ h'.table[k] = d => <<d, k>> \in h.routing
               /\ <<d, k>> \in h.routing => h'.table[k] = d \/ k \in spoiled
    <3>1. None # d /\ h'.table[k] = IF h.table[k] = c THEN None ELSE h.table[k]
      BY SMTT(30), <1>8, <1>11, OffersAssumption
    <3>2. <<c, k>> \notin h.routing
      BY SMTT(30), <1>1, <1>2, <2>1 DEF TablesInv
    <3> QED BY SMTT(30), <1>1, <2>1, <3>1, <3>2 DEF TablesInv
  <2> QED BY ZenonT(60), <2>1, <2>2 DEF TablesInv
<1>14. PendingConnected'
  BY SMTT(30), <1>1, <1>5, <1>11 DEF PendingConnected
<1>15. PendingIsAwaited'
  BY <1>1, <1>5, <1>11 DEF PendingIsAwaited, Awaited
<1> QED BY <1>12, <1>13, <1>14, <1>15 DEF IInv

-----------------------------------------------------------------------------
\* Every step of the host and its clients preserves the invariant.
LEMMA NextIInv == IInv /\ [Next]_vars => IInv'
<1> SUFFICES ASSUME IInv, [Next]_vars PROVE IInv'
  OBVIOUS
<1>1. HostTypeOK
  BY DEF IInv
<1>2. ASSUME NEW c \in Clients, NEW full \in BOOLEAN, HandleOffer(c, full)
      PROVE  IInv'
  <2>1. handler[c].op = "offer" /\ OfferService(c, handler[c].key, c, full)
    BY SMTT(30), <1>2 DEF HandleOffer
  <2>2. handler[c].key \in Keys
    BY SMTT(30), <1>1, <2>1 DEF HostTypeOK, Keyed
  <2> QED BY SMTT(30), <2>1, <2>2, OfferStep DEF MaybeClient
<1>3. ASSUME NEW c \in Clients, NEW k \in Keys, NEW full \in BOOLEAN, OfferAgain(c, k, full)
      PROVE  IInv'
  BY SMTT(30), <1>3, OfferStep DEF OfferAgain, MaybeClient
<1>4. ASSUME NEW c \in Clients, Host(c)
      PROVE  IInv'
  BY <1>2, <1>3, <1>4, ClientStep, RequestStep, ReleaseStep, AnswerStep, PongStep, DecideStep,
     DeregisterStep, CleanupStep, StopStep DEF Host
<1>5. CASE Mutex
  BY SMTT(30), <1>5, OnOfferStep, OnStopStep, OnDeregisterStep, RemoveStep DEF Mutex
<1>6. CASE UNCHANGED vars
  <2>1. HandlersKept
    BY SMTT(30), <1>1, <1>6, HandlerSame DEF vars
  <2>2. h \in Hosts /\ endpoints \subseteq Clients /\ failing \subseteq endpoints
    BY <1>1 DEF HostTypeOK
  <2> QED BY <1>6, <2>1, <2>2, QuietStep DEF vars
<1> QED BY <1>4, <1>5, <1>6, ClientStep, TimerStep DEF Next

\* The invariant holds at any time, for any number of clients, services and messages.
LEMMA IInvHolds == Spec => []IInv
BY InitIInv, NextIInv, PTL DEF Spec

\* Whenever mutex_ is free, local_services_table_ and routing_info_ name the same
\* provider, unless a provider was replaced without being asked.
THEOREM HostTablesAgree == Spec => []TablesAgree
<1>1. ASSUME IInv PROVE TablesAgree
  <2>1. hold = Free => hold.op = "free"
    BY DEF Free
  <2> QED BY Zenon, <1>1, <2>1 DEF IInv, TablesInv, TablesAgree
<1> QED BY <1>1, IInvHolds, PTL

\* What is in pending_offers_ or pending_requests_ always waits for a client that is
\* pinged, is answering, or is being cleaned up.
THEOREM HostPendingIsAwaited == Spec => []PendingIsAwaited
<1>1. IInv => PendingIsAwaited
  BY DEF IInv
<1> QED BY <1>1, IInvHolds, PTL

=============================================================================
