--------------------------- MODULE KnowledgeProofs ---------------------------
(***************************************************************************)
(* The invariant about what clients know (KInv), and that it survives what *)
(* clients do, requests, and the answers of providers to the stub's pings. *)
(* RequestersProofs shows the same of offers and of cleanup_client, and    *)
(* concludes.                                                              *)
(***************************************************************************)
EXTENDS OffersLemmas

USE SMTT(60)

\* The host is about to tell the requesters that c does not provide k any more.
Leaving(c, k) ==
    \/ hold.op = "stop" /\ hold.client = c /\ hold.key = k
    \/ hold.op = "deregister" /\ hold.client = c

\* c has sent a request of k that was not handled yet.
Asks(c, k) == handler[c].op = "request" /\ handler[c].key = k

\* Why a client need not know of a provider yet: its request is on its way, is
\* answered by a pong that is handled or, as long as the provider that was pinged
\* provides, still expected; or the client itself is dead.
Excused(c, k) ==
    \/ Asks(c, k)
    \/ c \in failing
    \/ c \in h.requests[k].by /\ <<h.requests[k].old, k>> \in h.routing
    \/ BeingAnswered(c, k)

\* Nobody provides k, or only somebody who is leaving.
NobodyStays(k) == \A d \in Clients : <<d, k>> \in h.routing => Leaving(d, k)

\* Only a pong that is handled has requests to answer.
AnswersTypeOK ==
    \A c \in Clients :
        /\ handler[c].todo # {} => handler[c].op \in {"answer", "tell"}
        /\ handler[c].op = "tell" => handler[c].to \in Clients /\ handler[c].key \in Keys

KnowledgeTypeOK ==
    /\ wants \subseteq Pairs
    /\ view \in [Pairs -> MaybeClient] /\ inbox \in [Clients -> Seq(Infos)]
    /\ cleaning \cap endpoints = {}
    /\ AnswersTypeOK

\* The routing information has one provider of a service, which is connected, and
\* none while one is about to be entered.
ToldInv ==
    \A c \in Clients, k \in Keys : k \notin spoiled =>
        /\ <<c, k>> \in h.routing => c \in endpoints
        /\ \A d \in Clients : <<c, k>> \in h.routing /\ <<d, k>> \in h.routing => c = d
        /\ hold.op = "offer" /\ hold.key = k => /\ <<c, k>> \notin h.routing
                                               /\ hold.client \in endpoints

\* The host knows of every request but those on their way.
RequestedInv ==
    \A c \in Clients, k \in Keys :
        /\ <<c, k>> \in wants => c \in endpoints
        /\ c \in h.requests[k].by => <<c, k>> \in h.requested
        /\ handler[c].op = "release" /\ handler[c].key = k => <<c, k>> \notin wants
        /\ <<c, k>> \in wants \ late /\ <<c, k>> \notin h.requested =>
             Asks(c, k) /\ ~BeingAnswered(c, k)

\* The requests RequestersInformed speaks of.
Counts(c, k) == <<c, k>> \in wants /\ <<c, k>> \notin late /\ k \notin spoiled

\* What c knows of k agrees with the routing information.
Claim(c, k) ==
    Counts(c, k) =>
        \E p \in MaybeClient :
            /\ Knows(c, k, p)
            /\ p # None => <<p, k>> \in h.routing /\ <<c, k>> \in h.requested
            /\ p = None => Excused(c, k) \/ NobodyStays(k)

KInv == KnowledgeTypeOK /\ ToldInv /\ RequestedInv /\ \A c \in Clients, k \in Keys : Claim(c, k)

-----------------------------------------------------------------------------
\* A handler that answers nothing, before or after its step, changes no answers.
LEMMA QuietHandler ==
    ASSUME HostTypeOK, AnswersTypeOK, NEW e \in Clients, NEW m, handler' = [handler EXCEPT ![e] = m],
           handler[e].op \notin {"answer", "tell"}, m.todo = {}, m.op # "tell"
    PROVE  /\ AnswersTypeOK'
           /\ \A c \in Clients, k \in Keys : BeingAnswered(c, k)' <=> BeingAnswered(c, k)
           /\ handler'[e] = m /\ \A d \in Clients \ {e} : handler'[d] = handler[d]
<1>1. handler'[e] = m /\ \A d \in Clients \ {e} : handler'[d] = handler[d]
  BY DEF HostTypeOK
<1>2. handler[e].todo = {}
  BY DEF AnswersTypeOK
<1>3. AnswersTypeOK'
  BY <1>1 DEF AnswersTypeOK
<1>4. \A c \in Clients, k \in Keys : BeingAnswered(c, k)' <=> BeingAnswered(c, k)
  BY <1>1, <1>2 DEF BeingAnswered
<1> QED BY <1>1, <1>3, <1>4

\* No handler changes.
LEMMA SameHandlers ==
    ASSUME AnswersTypeOK, handler' = handler
    PROVE  /\ AnswersTypeOK'
           /\ \A c \in Clients, k \in Keys : BeingAnswered(c, k)' <=> BeingAnswered(c, k)
           /\ \A c \in Clients, k \in Keys : Asks(c, k)' <=> Asks(c, k)
BY DEF AnswersTypeOK, BeingAnswered, Asks

-----------------------------------------------------------------------------
(* Steps that leave parts of the invariant alone *)

\* ToldInv is about the routing information and who holds mutex_.
LEMMA ToldSame ==
    ASSUME ToldInv, h'.routing = h.routing, hold' = hold, spoiled' = spoiled,
           endpoints \subseteq endpoints'
    PROVE  ToldInv'
BY ZenonT(30) DEF ToldInv

\* RequestedInv is kept by a step in which no client changes its requests and the
\* host loses none.
LEMMA RequestedSame ==
    ASSUME RequestedInv, wants' = wants, late' = late, endpoints \subseteq endpoints',
           h.requested \subseteq h'.requested,
           \A c \in Clients, k \in Keys :
             /\ c \in h'.requests[k].by => c \in h.requests[k].by \/ <<c, k>> \in h'.requested
             /\ handler'[c].op = "release" => handler'[c] = handler[c]
             /\ <<c, k>> \notin h'.requested /\ Asks(c, k) => Asks(c, k)'
             /\ <<c, k>> \notin h'.requested /\ BeingAnswered(c, k)' => BeingAnswered(c, k)
    PROVE  RequestedInv'
<1> SUFFICES ASSUME NEW c \in Clients, NEW k \in Keys
             PROVE  /\ <<c, k>> \in wants => c \in endpoints'
                    /\ c \in h'.requests[k].by => <<c, k>> \in h'.requested
                    /\ handler'[c].op = "release" /\ handler'[c].key = k => <<c, k>> \notin wants
                    /\ <<c, k>> \in wants \ late /\ <<c, k>> \notin h'.requested =>
                         Asks(c, k)' /\ ~BeingAnswered(c, k)'
  BY Zenon DEF RequestedInv
<1>1. /\ <<c, k>> \in wants => c \in endpoints
      /\ c \in h.requests[k].by => <<c, k>> \in h.requested
      /\ handler[c].op = "release" /\ handler[c].key = k => <<c, k>> \notin wants
      /\ <<c, k>> \in wants \ late /\ <<c, k>> \notin h.requested =>
           Asks(c, k) /\ ~BeingAnswered(c, k)
  BY Zenon DEF RequestedInv
<1> QED BY <1>1

\* What c knows of k still agrees with the routing information after a step that
\* changes neither and takes no excuse away that is needed.
LEMMA ClaimKept ==
    ASSUME NEW c \in Clients, NEW k \in Keys, Claim(c, k), Counts(c, k)' => Counts(c, k),
           \A p \in MaybeClient : Knows(c, k, p) => Knows(c, k, p)',
           \A d \in Clients : <<d, k>> \in h'.routing <=> <<d, k>> \in h.routing,
           <<c, k>> \in h.requested => <<c, k>> \in h'.requested,
           Excused(c, k) => Excused(c, k)' \/ NobodyStays(k)',
           \A d \in Clients : <<d, k>> \in h.routing /\ Leaving(d, k) => Leaving(d, k)'
    PROVE  Claim(c, k)'
<1> SUFFICES ASSUME Counts(c, k)'
             PROVE  \E p \in MaybeClient :
                      /\ Knows(c, k, p)'
                      /\ p # None => <<p, k>> \in h'.routing /\ <<c, k>> \in h'.requested
                      /\ p = None => Excused(c, k)' \/ NobodyStays(k)'
  BY Zenon DEF Claim
<1>1. PICK p \in MaybeClient :
        /\ Knows(c, k, p)
        /\ p # None => <<p, k>> \in h.routing /\ <<c, k>> \in h.requested
        /\ p = None => Excused(c, k) \/ NobodyStays(k)
  BY Zenon DEF Claim
<1>2. NobodyStays(k) => NobodyStays(k)'
  BY Zenon DEF NobodyStays
<1>3. p # None => p \in Clients
  BY DEF MaybeClient
<1> WITNESS p \in MaybeClient
<1> QED BY Zenon, <1>1, <1>2, <1>3

\* A step that touches neither the routing information nor what clients know.
LEMMA QuietKnows ==
    ASSUME KInv, KnowledgeTypeOK', ToldInv', RequestedInv',
           UNCHANGED <<inbox, view, wants, late>>, h'.routing = h.routing, spoiled \subseteq spoiled',
           h.requested \subseteq h'.requested,
           \A c \in Clients, k \in Keys :
             /\ Counts(c, k)' /\ Excused(c, k) => Excused(c, k)' \/ NobodyStays(k)'
             /\ Leaving(c, k) => Leaving(c, k)'
    PROVE  KInv'
<1> SUFFICES ASSUME NEW c \in Clients, NEW k \in Keys PROVE Claim(c, k)'
  BY Zenon DEF KInv
<1>1. CASE Counts(c, k)'
  <2>1. Counts(c, k) /\ Claim(c, k)
    BY <1>1 DEF Counts, KInv
  <2>2. \A p \in MaybeClient : Knows(c, k, p) => Knows(c, k, p)'
    BY Zenon DEF Knows
  <2> QED BY Zenon, <1>1, <2>1, <2>2, ClaimKept
<1>2. CASE ~Counts(c, k)'
  BY Zenon, <1>2 DEF Claim
<1> QED BY <1>1, <1>2

\* A step of a thread that is not handling a message, and leaves requests alone.
LEMMA SameHandlersKnows ==
    ASSUME IInv, KInv, handler' = handler, UNCHANGED <<inbox, view, wants, late>>, ToldInv',
           endpoints \subseteq endpoints', failing \subseteq failing', cleaning' \cap endpoints' = {},
           spoiled \subseteq spoiled', h'.routing = h.routing, h'.requested = h.requested,
           h'.requests = h.requests, \A c \in Clients, k \in Keys : Leaving(c, k) => Leaving(c, k)'
    PROVE  KInv'
<1>1. KnowledgeTypeOK /\ RequestedInv /\ AnswersTypeOK
  BY DEF KInv, KnowledgeTypeOK
<1>2. /\ AnswersTypeOK'
      /\ \A c \in Clients, k \in Keys : BeingAnswered(c, k)' <=> BeingAnswered(c, k)
      /\ \A c \in Clients, k \in Keys : Asks(c, k)' <=> Asks(c, k)
  BY <1>1, SameHandlers
<1>3. KnowledgeTypeOK'
  BY <1>1, <1>2 DEF KnowledgeTypeOK
<1>4. RequestedInv'
  BY <1>1, <1>2, RequestedSame
<1>5. \A c \in Clients, k \in Keys : Excused(c, k) => Excused(c, k)'
  BY <1>2 DEF Excused
<1> QED BY <1>3, <1>4, <1>5, QuietKnows

\* A step of a thread that handles a message that is no request, and leaves requests
\* alone.
LEMMA OtherHandlerKnows ==
    ASSUME IInv, KInv, NEW e \in Clients, NEW m, handler' = [handler EXCEPT ![e] = m],
           handler[e].op \notin {"answer", "tell", "request"},
           m.todo = {}, m.op \notin {"tell", "request", "release"},
           UNCHANGED <<inbox, view, wants, late, hold, spoiled, endpoints, failing, cleaning>>,
           h'.routing = h.routing, h'.requested = h.requested, h'.requests = h.requests
    PROVE  KInv'
<1>1. KnowledgeTypeOK /\ ToldInv /\ RequestedInv /\ AnswersTypeOK /\ HostTypeOK
  BY DEF KInv, KnowledgeTypeOK, IInv
<1>2. /\ AnswersTypeOK'
      /\ \A c \in Clients, k \in Keys : BeingAnswered(c, k)' <=> BeingAnswered(c, k)
      /\ handler'[e] = m /\ \A d \in Clients \ {e} : handler'[d] = handler[d]
  BY Zenon, <1>1, QuietHandler
<1>3. KnowledgeTypeOK'
  BY <1>1, <1>2 DEF KnowledgeTypeOK
<1>4. ToldInv'
  BY <1>1, ToldSame
<1>5. \A c \in Clients, k \in Keys : Asks(c, k)' <=> Asks(c, k)
  BY <1>2 DEF Asks
<1>6. RequestedInv'
  <2>1. \A c \in Clients : handler'[c].op = "release" => handler'[c] = handler[c]
    BY <1>2
  <2> QED BY <1>1, <1>2, <1>5, <2>1, RequestedSame
<1>7. \A c \in Clients, k \in Keys : Excused(c, k) => Excused(c, k)'
  BY <1>2, <1>5 DEF Excused
<1>8. \A c \in Clients, k \in Keys : Leaving(c, k) => Leaving(c, k)'
  BY DEF Leaving
<1> QED BY <1>3, <1>4, <1>6, <1>7, <1>8, QuietKnows

-----------------------------------------------------------------------------
(* Clients *)

\* Clients that connect or die, and the ping timer.
LEMMA ConnectionsKnow ==
    ASSUME IInv, KInv,
           \/ \E c \in Clients : Register(c) \/ Fails(c)
           \/ \E expired \in SUBSET Clients : OnPingTimerExpired(expired)
    PROVE  KInv'
<1>1. /\ handler' = handler /\ UNCHANGED <<inbox, view, wants, late, hold, spoiled>>
      /\ endpoints \subseteq endpoints' /\ failing \subseteq failing'
  BY Zenon DEF Register, Fails, OnPingTimerExpired, client
<1>2. cleaning' \cap endpoints' = {}
  BY Zenon DEF KInv, KnowledgeTypeOK, Register, Fails, OnPingTimerExpired
<1>3. h'.routing = h.routing /\ h'.requested = h.requested /\ h'.requests = h.requests
  <2>1. h \in Hosts
    BY DEF IInv, HostTypeOK
  <2> QED BY Zenon, <2>1 DEF Hosts, Register, Fails, OnPingTimerExpired
<1>4. ToldInv'
  BY <1>1, <1>3, ToldSame DEF KInv
<1>5. \A c \in Clients, k \in Keys : Leaving(c, k) => Leaving(c, k)'
  BY <1>1 DEF Leaving
<1> QED BY <1>1, <1>2, <1>3, <1>4, <1>5, SameHandlersKnows

\* A message that is sent.
LEMMA MessageValues ==
    ASSUME NEW op, NEW k
    PROVE  Message(op, k).op = op /\ Message(op, k).key = k /\ Message(op, k).todo = {}
           /\ Idle.op = "idle" /\ Idle.todo = {}
BY Zenon DEF Message, Idle

\* Offers, stopped offers and pongs are sent.
LEMMA SendKnows ==
    ASSUME IInv, KInv, NEW c \in Clients,
           SendPong(c) \/ \E k \in Keys : SendOffer(c, k) \/ SendStop(c, k)
    PROVE  KInv'
<1>1. PICK op \in {"offer", "stop", "pong"}, k \in Keys \cup {None} :
        Send(c, op, k) /\ UNCHANGED <<wants, view, late>>
  BY DEF SendPong, SendOffer, SendStop, client
<1> DEFINE m == Message(op, k)
<1>2. /\ handler' = [handler EXCEPT ![c] = m] /\ handler[c].op = "idle"
      /\ UNCHANGED <<h, inbox, hold, spoiled, endpoints, failing, cleaning>>
  BY Zenon, <1>1, MessageValues DEF Send
<1>3. m.op = op /\ m.todo = {}
  BY MessageValues
<1> HIDE DEF m
<1>4. m.op \notin {"tell", "request", "release"}
  BY <1>3
<1> QED BY Zenon, <1>1, <1>2, <1>3, <1>4, OtherHandlerKnows

\* A client reads a message: that does not change what it is going to know.
LEMMA RoutingInfoKnows ==
    ASSUME IInv, KInv, NEW c \in Clients, OnRoutingInfo(c)
    PROVE  KInv'
<1> DEFINE m == Head(inbox[c])
<1>1. KnowledgeTypeOK /\ ToldInv /\ RequestedInv /\ AnswersTypeOK
  BY DEF KInv, KnowledgeTypeOK
<1>2. /\ inbox[c] \in Seq(Infos) /\ inbox[c] # <<>> /\ m \in Infos /\ Tail(inbox[c]) \in Seq(Infos)
      /\ inbox' = [inbox EXCEPT ![c] = Tail(inbox[c])]
      /\ UNCHANGED <<h, endpoints, hold, handler, failing, cleaning, spoiled, wants, late>>
  BY <1>1 DEF KnowledgeTypeOK, OnRoutingInfo
<1>3. view' = IF m.provider # None /\ <<c, m.key>> \notin wants THEN view
              ELSE [view EXCEPT ![<<c, m.key>>] = m.provider]
  BY DEF OnRoutingInfo
<1>4. m.key \in Keys /\ m.provider \in MaybeClient
  BY <1>2 DEF Infos
<1> HIDE DEF m
<1>5. /\ inbox' \in [Clients -> Seq(Infos)] /\ inbox'[c] = Tail(inbox[c])
      /\ \A d \in Clients \ {c} : inbox'[d] = inbox[d]
  BY <1>1, <1>2 DEF KnowledgeTypeOK
<1>6. view' \in [Pairs -> MaybeClient]
  BY <1>1, <1>3, <1>4 DEF KnowledgeTypeOK, Pairs
<1>7. ASSUME NEW d \in Clients, NEW k \in Keys
      PROVE  /\ d # c \/ k # m.key => view'[<<d, k>>] = view[<<d, k>>]
             /\ d = c /\ k = m.key /\ <<d, k>> \in wants => view'[<<d, k>>] = m.provider
  BY Zenon, <1>1, <1>3, <1>4 DEF KnowledgeTypeOK, Pairs
<1>8. /\ AnswersTypeOK'
      /\ \A d \in Clients, k \in Keys : BeingAnswered(d, k)' <=> BeingAnswered(d, k)
      /\ \A d \in Clients, k \in Keys : Asks(d, k)' <=> Asks(d, k)
  BY <1>1, <1>2, SameHandlers
<1>9. KnowledgeTypeOK'
  BY <1>1, <1>2, <1>5, <1>6, <1>8 DEF KnowledgeTypeOK
<1>10. ToldInv' /\ RequestedInv'
  BY <1>1, <1>2, <1>8, ToldSame, RequestedSame
<1>11. ASSUME NEW d \in Clients, NEW k \in Keys, <<d, k>> \in wants, NEW p, Knows(d, k, p)
       PROVE  Knows(d, k, p)'
  <2>1. CASE d # c
    BY <1>5, <1>7, <1>11, <2>1 DEF Knows
  <2>2. CASE d = c
    <3> DEFINE v == view[<<c, k>>]
    <3>1. KnownFrom(Tail(inbox[c]), IF m.key = k THEN m.provider ELSE v, k, p)
      BY <1>2, <1>11, <2>2, KnownAfterHead DEF m, Knows
    <3>2. view'[<<c, k>>] = IF m.key = k THEN m.provider ELSE v
      BY <1>7, <1>11, <2>2
    <3> HIDE DEF v
    <3> QED BY Zenon, <1>5, <2>2, <3>1, <3>2 DEF Knows
  <2> QED BY <2>1, <2>2
<1>12. ASSUME NEW d \in Clients, NEW k \in Keys
       PROVE  Claim(d, k)'
  <2>1. Claim(d, k) /\ (Counts(d, k)' => Counts(d, k)) /\ (Counts(d, k) => <<d, k>> \in wants)
    BY <1>2 DEF KInv, Counts
  <2>2. CASE Counts(d, k)'
    <3>1. /\ \A p \in MaybeClient : Knows(d, k, p) => Knows(d, k, p)'
          /\ Excused(d, k) => Excused(d, k)'
          /\ \A e \in Clients : Leaving(e, k) => Leaving(e, k)'
      BY <1>2, <1>8, <1>11, <2>1, <2>2 DEF Excused, Leaving
    <3> QED BY Zenon, <1>2, <2>1, <3>1, ClaimKept
  <2>3. CASE ~Counts(d, k)'
    BY Zenon, <2>3 DEF Claim
  <2> QED BY <2>2, <2>3
<1> QED BY <1>9, <1>10, <1>12 DEF KInv

\* A claim is void for what does not count.
LEMMA ClaimVoid ==
    ASSUME NEW c \in Clients, NEW k \in Keys, ~Counts(c, k)' PROVE Claim(c, k)'
BY Zenon DEF Claim

\* A client requests a service: what it knows may be out of date, unless nothing
\* about the service is on its way, and its request excuses it.
LEMMA SendRequestKnows ==
    ASSUME IInv, KInv, NEW c \in Clients, NEW k \in Keys, SendRequest(c, k)
    PROVE  KInv'
<1> DEFINE m == Message("request", k)
<1>1. KnowledgeTypeOK /\ ToldInv /\ RequestedInv /\ AnswersTypeOK /\ HostTypeOK
  BY DEF KInv, KnowledgeTypeOK, IInv
<1>2. /\ handler' = [handler EXCEPT ![c] = m] /\ handler[c].op = "idle" /\ c \in endpoints
      /\ UNCHANGED <<h, inbox, hold, spoiled, endpoints, failing, cleaning>>
  BY Zenon, MessageValues DEF SendRequest, Send
<1>3. m.op = "request" /\ m.key = k /\ m.todo = {}
  BY MessageValues
<1> HIDE DEF m
<1>4. /\ wants' = wants \cup {<<c, k>>} /\ late \subseteq late' /\ late' \subseteq late \cup {<<c, k>>}
      /\ <<c, k>> \notin wants /\ <<c, k>> \notin late' =>
           ~BeingAnswered(c, k) /\ \A i \in DOMAIN inbox[c] : inbox[c][i].key # k
  BY Zenon DEF SendRequest
<1>5. /\ view' \in [Pairs -> MaybeClient] /\ view'[<<c, k>>] = None
      /\ \A d \in Clients, j \in Keys : <<d, j>> # <<c, k>> => view'[<<d, j>>] = view[<<d, j>>]
  BY <1>1 DEF SendRequest, KnowledgeTypeOK, Pairs, MaybeClient
<1>6. /\ AnswersTypeOK'
      /\ \A d \in Clients, j \in Keys : BeingAnswered(d, j)' <=> BeingAnswered(d, j)
      /\ handler'[c] = m /\ \A d \in Clients \ {c} : handler'[d] = handler[d]
  BY Zenon, <1>1, <1>2, <1>3, QuietHandler
<1>7. /\ Asks(c, k)' /\ \A j \in Keys : ~Asks(c, j)
      /\ \A d \in Clients \ {c}, j \in Keys : Asks(d, j)' <=> Asks(d, j)
  BY <1>2, <1>3, <1>6 DEF Asks
<1>8. KnowledgeTypeOK'
  BY <1>1, <1>2, <1>4, <1>5, <1>6 DEF KnowledgeTypeOK, Pairs
<1>9. ToldInv'
  BY <1>1, <1>2, ToldSame
<1>10. RequestedInv'
  <2> SUFFICES ASSUME NEW d \in Clients, NEW j \in Keys
               PROVE  /\ <<d, j>> \in wants' => d \in endpoints
                      /\ d \in h.requests[j].by => <<d, j>> \in h.requested
                      /\ handler'[d].op = "release" /\ handler'[d].key = j => <<d, j>> \notin wants'
                      /\ <<d, j>> \in wants' \ late' /\ <<d, j>> \notin h.requested =>
                           Asks(d, j)' /\ ~BeingAnswered(d, j)'
    BY Zenon, <1>2 DEF RequestedInv
  <2>1. /\ <<d, j>> \in wants => d \in endpoints
        /\ d \in h.requests[j].by => <<d, j>> \in h.requested
        /\ handler[d].op = "release" /\ handler[d].key = j => <<d, j>> \notin wants
        /\ <<d, j>> \in wants \ late /\ <<d, j>> \notin h.requested =>
             Asks(d, j) /\ ~BeingAnswered(d, j)
    BY Zenon, <1>1 DEF RequestedInv
  <2>2. CASE d = c
    BY <1>2, <1>3, <1>4, <1>6, <1>7, <2>1, <2>2
  <2>3. CASE d # c
    BY <1>4, <1>6, <1>7, <2>1, <2>3
  <2> QED BY <2>2, <2>3
<1>11. ASSUME NEW d \in Clients, NEW j \in Keys, Counts(d, j)'
       PROVE  Claim(d, j)'
  <2>1. CASE <<d, j>> = <<c, k>>
    <3>1. Excused(c, k)'
      BY <1>7 DEF Excused
    <3>2. \E p \in MaybeClient :
            KnownFrom(inbox[c], None, k, p) /\ (p # None => <<p, k>> \in h.routing /\ <<c, k>> \in h.requested)
      <4>1. CASE <<c, k>> \in wants
        <5>1. Counts(c, k) /\ Claim(c, k)
          BY <1>2, <1>4, <1>11, <2>1, <4>1 DEF Counts, KInv
        <5>2. PICK p \in MaybeClient :
                Knows(c, k, p) /\ (p # None => <<p, k>> \in h.routing /\ <<c, k>> \in h.requested)
          BY Zenon, <5>1 DEF Claim
        <5>3. KnownFrom(inbox[c], None, k, p) \/ KnownFrom(inbox[c], None, k, None)
          BY <5>2, KnownReset DEF Knows
        <5> QED BY Zenon, <5>2, <5>3 DEF MaybeClient
      <4>2. CASE <<c, k>> \notin wants
        <5>1. \A i \in DOMAIN inbox[c] : inbox[c][i].key # k
          BY <1>4, <1>11, <2>1, <4>2 DEF Counts
        <5>2. KnownFrom(inbox[c], None, k, None)
          BY <5>1, KnownNothing
        <5> QED BY Zenon, <5>2 DEF MaybeClient
      <4> QED BY <4>1, <4>2
    <3>3. PICK p \in MaybeClient :
            Knows(c, k, p)' /\ (p # None => <<p, k>> \in h'.routing /\ <<c, k>> \in h'.requested)
      BY Zenon, <1>2, <1>5, <3>2 DEF Knows
    <3>4. d = c /\ j = k
      BY <2>1
    <3> QED BY Zenon, <3>1, <3>3, <3>4 DEF Claim
  <2>2. CASE <<d, j>> # <<c, k>>
    <3>1. Counts(d, j) /\ Claim(d, j)
      BY <1>2, <1>4, <1>11, <2>2 DEF Counts, KInv
    <3>2. Excused(d, j) => Excused(d, j)'
      BY <1>2, <1>6, <1>7 DEF Excused
    <3>3. /\ \A p \in MaybeClient : Knows(d, j, p) => Knows(d, j, p)'
          /\ \A e \in Clients : Leaving(e, j) => Leaving(e, j)'
      BY Zenon, <1>2, <1>5, <2>2 DEF Knows, Leaving
    <3> QED BY Zenon, <1>2, <3>1, <3>2, <3>3, ClaimKept
  <2> QED BY <2>1, <2>2
<1>12. \A d \in Clients, j \in Keys : Claim(d, j)'
  BY Zenon, <1>11, ClaimVoid
<1> QED BY <1>8, <1>9, <1>10, <1>12 DEF KInv

\* A client releases a service.
LEMMA SendReleaseKnows ==
    ASSUME IInv, KInv, NEW c \in Clients, NEW k \in Keys, SendRelease(c, k)
    PROVE  KInv'
<1> DEFINE m == Message("release", k)
<1>1. KnowledgeTypeOK /\ ToldInv /\ RequestedInv /\ AnswersTypeOK /\ HostTypeOK
  BY DEF KInv, KnowledgeTypeOK, IInv
<1>2. /\ handler' = [handler EXCEPT ![c] = m] /\ handler[c].op = "idle"
      /\ UNCHANGED <<h, inbox, hold, spoiled, endpoints, failing, cleaning>>
      /\ wants' = wants \ {<<c, k>>} /\ late' = late
  BY Zenon, MessageValues DEF SendRelease, Send
<1>3. m.op = "release" /\ m.key = k /\ m.todo = {}
  BY MessageValues
<1> HIDE DEF m
<1>4. /\ view' \in [Pairs -> MaybeClient]
      /\ \A d \in Clients, j \in Keys : <<d, j>> # <<c, k>> => view'[<<d, j>>] = view[<<d, j>>]
  BY <1>1 DEF SendRelease, KnowledgeTypeOK, Pairs, MaybeClient
<1>5. /\ AnswersTypeOK'
      /\ \A d \in Clients, j \in Keys : BeingAnswered(d, j)' <=> BeingAnswered(d, j)
      /\ handler'[c] = m /\ \A d \in Clients \ {c} : handler'[d] = handler[d]
  BY Zenon, <1>1, <1>2, <1>3, QuietHandler
<1>6. \A d \in Clients, j \in Keys : Asks(d, j)' <=> Asks(d, j)
  BY <1>2, <1>3, <1>5 DEF Asks
<1>7. KnowledgeTypeOK'
  BY <1>1, <1>2, <1>4, <1>5 DEF KnowledgeTypeOK
<1>8. ToldInv'
  BY <1>1, <1>2, ToldSame
<1>9. RequestedInv'
  <2> SUFFICES ASSUME NEW d \in Clients, NEW j \in Keys
               PROVE  /\ <<d, j>> \in wants' => d \in endpoints
                      /\ d \in h.requests[j].by => <<d, j>> \in h.requested
                      /\ handler'[d].op = "release" /\ handler'[d].key = j => <<d, j>> \notin wants'
                      /\ <<d, j>> \in wants' \ late /\ <<d, j>> \notin h.requested =>
                           Asks(d, j)' /\ ~BeingAnswered(d, j)'
    BY Zenon, <1>2 DEF RequestedInv
  <2>1. /\ <<d, j>> \in wants => d \in endpoints
        /\ d \in h.requests[j].by => <<d, j>> \in h.requested
        /\ handler[d].op = "release" /\ handler[d].key = j => <<d, j>> \notin wants
        /\ <<d, j>> \in wants \ late /\ <<d, j>> \notin h.requested =>
             Asks(d, j) /\ ~BeingAnswered(d, j)
    BY Zenon, <1>1 DEF RequestedInv
  <2> QED BY <1>2, <1>3, <1>5, <1>6, <2>1
<1>10. ASSUME NEW d \in Clients, NEW j \in Keys, Counts(d, j)'
       PROVE  Claim(d, j)'
  <2>1. Counts(d, j) /\ Claim(d, j) /\ <<d, j>> # <<c, k>>
    BY <1>2, <1>10 DEF Counts, KInv
  <2>2. Excused(d, j) => Excused(d, j)'
    BY <1>2, <1>5, <1>6 DEF Excused
  <2>3. /\ \A p \in MaybeClient : Knows(d, j, p) => Knows(d, j, p)'
        /\ \A e \in Clients : Leaving(e, j) => Leaving(e, j)'
    BY Zenon, <1>2, <1>4, <2>1 DEF Knows, Leaving
  <2> QED BY Zenon, <1>2, <2>1, <2>2, <2>3, ClaimKept
<1>11. \A d \in Clients, j \in Keys : Claim(d, j)'
  BY Zenon, <1>10, ClaimVoid
<1> QED BY <1>7, <1>8, <1>9, <1>11 DEF KInv

-----------------------------------------------------------------------------
(* Requests *)

\* The request of c waits for the pong of the provider the table has.
Waits(c, k) ==
    /\ handler' = [handler EXCEPT ![c] = Idle]
    /\ <<c, k>> \in h.requested /\ h.table[k] \in Clients
    /\ c \in h'.requests[k].by /\ h'.requests[k].old = h.table[k]
    /\ \A d \in Clients : /\ d \in h'.requests[k].by => d = c \/ d \in h.requests[k].by
                          /\ d \in h.requests[k].by /\ h.requests[k].old = h.table[k] =>
                               d \in h'.requests[k].by

\* It is going to be answered by handle_requests.
IsAnswered(c, k) ==
    /\ handler' = [handler EXCEPT ![c] = [op |-> "tell", key |-> k, to |-> c, todo |-> {}]]
    /\ h'.requests[k] = h.requests[k] /\ <<c, k>> \in h'.requested

\* The request of k by c is handled, and the entries of other services stay.
Handled(c, k) ==
    /\ k \in Keys /\ handler[c].op = "request" /\ handler[c].key = k
    /\ UNCHANGED <<endpoints, hold, failing, cleaning, inbox, spoiled, wants, view, late>>
    /\ h'.routing = h.routing /\ h.requested \subseteq h'.requested
    /\ \A j \in Keys \ {k} : h'.requests[j] = h.requests[j]

\* What a request does to the host: it waits, or it is entered and answered.
LEMMA RequestEffects ==
    ASSUME IInv, NEW c \in Clients, NEW full \in BOOLEAN, RequestService(c, full),
           NEW k, k = handler[c].key
    PROVE  Handled(c, k) /\ (Waits(c, k) \/ IsAnswered(c, k))
<1> DEFINE old == h.table[k]
           again == <<c, k>> \in h.requested /\ old # None
           joins == again /\ h.requests[k] # NoRequest /\ h.requests[k].old = old
           ask == again /\ ~joins /\ old \in endpoints
           pends == ask /\ ~full
           s == IF ask THEN SendPing(h, old) ELSE h
           told == [op |-> "tell", key |-> k, to |-> c, todo |-> {}]
           r == IF joins THEN [old |-> old, by |-> h.requests[k].by \cup {c}]
                ELSE [old |-> old, by |-> {c}]
           q == [h.requests EXCEPT ![k] = r]
<1>1. HostTypeOK /\ h \in Hosts /\ endpoints \subseteq Clients
  BY DEF IInv, HostTypeOK
<1>2. k \in Keys /\ handler[c].op = "request"
  BY Zenon, <1>1 DEF RequestService, HostTypeOK, Keyed
<1>3. UNCHANGED <<endpoints, hold, failing, cleaning, inbox, spoiled, wants, view, late>>
  BY Zenon DEF RequestService
<1>4. h.requests[k] \in [old : MaybeClient, by : SUBSET Clients] /\ old \in MaybeClient
  BY SMTT(30), <1>1, <1>2 DEF Hosts
<1>5. /\ h' = IF joins THEN [h EXCEPT !.requests = q]
              ELSE IF pends THEN [s EXCEPT !.requests = q]
              ELSE [s EXCEPT !.requested = @ \cup {<<c, k>>}]
      /\ handler' = [handler EXCEPT ![c] = IF joins \/ pends THEN Idle ELSE told]
  <2>1. joins => r = [h.requests[k] EXCEPT !.by = @ \cup {c}]
    BY SMTT(30), <1>4
  <2>2. s.requests = h.requests
    BY <1>1 DEF SendPing, Hosts
  <2>3. joins => [h EXCEPT !.requests[k].by = @ \cup {c}] = [h EXCEPT !.requests = q]
    BY SMTT(30), <2>1
  <2>4. ~joins => [s EXCEPT !.requests[k] = [old |-> old, by |-> {c}]] = [s EXCEPT !.requests = q]
    BY ZenonT(60), <2>2
  <2>5. /\ h' = IF joins THEN [h EXCEPT !.requests[k].by = @ \cup {c}]
               ELSE IF pends THEN [s EXCEPT !.requests[k] = [old |-> old, by |-> {c}]]
               ELSE [s EXCEPT !.requested = @ \cup {<<c, k>>}]
        /\ handler' = [handler EXCEPT ![c] = IF joins \/ pends THEN Idle ELSE told]
    BY ZenonT(60) DEF RequestService, PingSent
  <2> HIDE DEF s, q, r, joins, pends, old, told
  <2> QED BY <2>3, <2>4, <2>5
<1>6. s \in Hosts /\ s.routing = h.routing /\ s.requests = h.requests /\ s.requested = h.requested
  <2>1. CASE ask
    <3>1. old \in Clients /\ s = SendPing(h, old)
      BY <1>1, <2>1
    <3> HIDE DEF s, old, ask
    <3> QED BY ZenonT(60), <1>1, <3>1, PingResult
  <2>2. CASE ~ask
    BY ZenonT(60), <1>1, <2>2
  <2> QED BY ZenonT(60), <2>1, <2>2
<1>7. q[k] = r /\ \A j \in Keys \ {k} : q[j] = h.requests[j]
  BY ZenonT(30), <1>1, <1>2 DEF Hosts
<1>8. joins \/ pends =>
        /\ <<c, k>> \in h.requested /\ old \in Clients
        /\ r.old = old /\ c \in r.by
        /\ \A d \in Clients : /\ d \in r.by => d = c \/ d \in h.requests[k].by
                              /\ d \in h.requests[k].by /\ h.requests[k].old = old => d \in r.by
  <2>1. old # None => old \in Clients
    BY <1>4 DEF MaybeClient
  <2>2. \A d : d \in h.requests[k].by => h.requests[k] # NoRequest
    BY DEF NoRequest
  <2> QED BY Zenon, <2>1, <2>2
<1> HIDE DEF q, r, s, joins, pends, ask, again, told
<1>9. CASE joins \/ pends
  <2>1. h'.requests = q /\ h'.routing = h.routing /\ h'.requested = h.requested
    BY Zenon, <1>1, <1>5, <1>6, <1>9 DEF Hosts
  <2>2. handler' = [handler EXCEPT ![c] = Idle]
    BY Zenon, <1>5, <1>9
  <2>3. Waits(c, k)
    BY <1>7, <1>8, <1>9, <2>1, <2>2 DEF Waits
  <2> QED BY <1>2, <1>3, <1>7, <2>1, <2>3 DEF Handled
<1>10. CASE ~(joins \/ pends)
  <2>1. h' = [s EXCEPT !.requested = @ \cup {<<c, k>>}] /\ handler' = [handler EXCEPT ![c] = told]
    BY <1>5, <1>10
  <2>2. /\ h'.requests = h.requests /\ h'.routing = h.routing
        /\ h'.requested = h.requested \cup {<<c, k>>}
    BY Zenon, <1>6, <2>1 DEF Hosts
  <2>3. IsAnswered(c, k)
    BY <2>1, <2>2 DEF IsAnswered, told
  <2> QED BY <1>2, <1>3, <2>2, <2>3 DEF Handled
<1> QED BY <1>9, <1>10

\* A request that waits: the answer is expected from the provider the client would
\* be told of, or there is none that stays.
LEMMA WaitsKnows ==
    ASSUME IInv, KInv, NEW c \in Clients, NEW k \in Keys, Handled(c, k), Waits(c, k)
    PROVE  KInv'
<1>kept. /\ UNCHANGED <<endpoints, hold, failing, cleaning, inbox, spoiled, wants, view, late>>
         /\ h'.routing = h.routing /\ h.requested \subseteq h'.requested
  BY DEF Handled
<1>1. KnowledgeTypeOK /\ ToldInv /\ RequestedInv /\ AnswersTypeOK /\ HostTypeOK /\ TablesInv
  BY DEF KInv, KnowledgeTypeOK, IInv
<1>2. /\ handler' = [handler EXCEPT ![c] = Idle] /\ <<c, k>> \in h.requested /\ h.table[k] \in Clients
      /\ c \in h'.requests[k].by /\ h'.requests[k].old = h.table[k]
      /\ \A d \in Clients : /\ d \in h'.requests[k].by => d = c \/ d \in h.requests[k].by
                            /\ d \in h.requests[k].by /\ h.requests[k].old = h.table[k] =>
                                 d \in h'.requests[k].by
  BY DEF Waits
<1>3. Idle.op = "idle" /\ Idle.todo = {}
  BY MessageValues
<1>4. /\ AnswersTypeOK'
      /\ \A d \in Clients, j \in Keys : BeingAnswered(d, j)' <=> BeingAnswered(d, j)
      /\ handler'[c] = Idle /\ \A d \in Clients \ {c} : handler'[d] = handler[d]
  BY Zenon, <1>1, <1>2, <1>3, QuietHandler DEF Handled
<1>5. KnowledgeTypeOK'
  BY <1>kept, <1>1, <1>4 DEF KnowledgeTypeOK
<1>6. ToldInv'
  BY <1>kept, <1>1, ToldSame
<1>7. \A d \in Clients, j \in Keys :
        /\ Asks(d, j) => Asks(d, j)' \/ (d = c /\ j = k)
        /\ handler'[d].op = "release" => handler'[d] = handler[d]
  BY <1>3, <1>4 DEF Asks, Handled
<1>8. RequestedInv'
  <2>1. \A d \in Clients, j \in Keys :
          d \in h'.requests[j].by => d \in h.requests[j].by \/ <<d, j>> \in h'.requested
    BY <1>kept, <1>2 DEF Handled
  <2>2. \A d \in Clients, j \in Keys : <<d, j>> \notin h'.requested /\ Asks(d, j) => Asks(d, j)'
    BY <1>kept, <1>2, <1>7
  <2> QED BY <1>kept, <1>1, <1>4, <1>7, <2>1, <2>2, RequestedSame
<1>9. \A d \in Clients, j \in Keys : Leaving(d, j) => Leaving(d, j)'
  BY <1>kept DEF Leaving
<1>10. ASSUME NEW d \in Clients, NEW j \in Keys, Counts(d, j)', Excused(d, j)
       PROVE  Excused(d, j)' \/ NobodyStays(j)'
  <2>1. j \notin spoiled
    BY <1>kept, <1>10 DEF Counts
  <2>2. CASE d = c /\ j = k
    <3>1. CASE <<h.table[k], k>> \in h.routing
      BY <1>kept, <1>2, <2>2, <3>1 DEF Excused
    <3>2. CASE <<h.table[k], k>> \notin h.routing
      <4>1. hold.op = "offer" /\ hold.key = k
        BY <1>1, <1>2, <3>2 DEF TablesInv
      <4>2. \A e \in Clients : <<e, k>> \notin h.routing
        BY <1>1, <2>1, <2>2, <4>1 DEF ToldInv
      <4> QED BY <1>kept, <2>2, <4>2 DEF NobodyStays
    <3> QED BY <3>1, <3>2
  <2>3. CASE ~(d = c /\ j = k) /\ d \in h.requests[j].by /\ <<h.requests[j].old, j>> \in h.routing
    <3>1. CASE j # k \/ h.requests[k].old = h.table[k]
      BY <1>kept, <1>2, <2>3, <3>1 DEF Excused, Handled
    <3>2. CASE j = k /\ h.requests[k].old # h.table[k]
      <4> DEFINE o == h.requests[k].old
      <4>1. o \in Clients /\ <<o, k>> \in h.routing
        BY <1>1, <2>3, <3>2 DEF HostTypeOK, Hosts, Pairs
      <4>2. Leaving(o, k)
        BY <1>1, <2>1, <3>2, <4>1 DEF TablesInv, Leaving
      <4> HIDE DEF o
      <4>3. \A e \in Clients : <<e, k>> \in h.routing => e = o
        BY <1>1, <2>1, <3>2, <4>1 DEF ToldInv
      <4> QED BY <1>kept, <1>9, <3>2, <4>1, <4>2, <4>3 DEF NobodyStays
    <3> QED BY <3>1, <3>2
  <2>4. CASE ~(d = c /\ j = k) /\ (Asks(d, j) \/ d \in failing \/ BeingAnswered(d, j))
    BY <1>kept, <1>4, <1>7, <2>4 DEF Excused
  <2> QED BY <1>10, <2>2, <2>3, <2>4 DEF Excused
<1> QED BY Zenon, <1>kept, <1>5, <1>6, <1>8, <1>9, <1>10, QuietKnows

\* A request that is answered at once.
LEMMA IsAnsweredKnows ==
    ASSUME IInv, KInv, NEW c \in Clients, NEW k \in Keys, Handled(c, k), IsAnswered(c, k)
    PROVE  KInv'
<1>kept. /\ UNCHANGED <<endpoints, hold, failing, cleaning, inbox, spoiled, wants, view, late>>
         /\ h'.routing = h.routing /\ h.requested \subseteq h'.requested
  BY DEF Handled
<1> DEFINE m == [op |-> "tell", key |-> k, to |-> c, todo |-> {}]
<1>1. KnowledgeTypeOK /\ ToldInv /\ RequestedInv /\ AnswersTypeOK /\ HostTypeOK
  BY DEF KInv, KnowledgeTypeOK, IInv
<1>2. /\ handler' = [handler EXCEPT ![c] = m]
      /\ h'.requests[k] = h.requests[k] /\ <<c, k>> \in h'.requested
  BY DEF IsAnswered
<1>3. m.op = "tell" /\ m.key = k /\ m.to = c /\ m.todo = {}
  OBVIOUS
<1> HIDE DEF m
<1>4. handler'[c] = m /\ \A d \in Clients \ {c} : handler'[d] = handler[d]
  BY <1>1, <1>2 DEF HostTypeOK
<1>5. AnswersTypeOK' /\ handler[c].todo = {}
  BY <1>1, <1>3, <1>4 DEF AnswersTypeOK, Handled
<1>6. \A d \in Clients, j \in Keys :
        /\ BeingAnswered(d, j)' => BeingAnswered(d, j) \/ (d = c /\ j = k)
        /\ BeingAnswered(d, j) => BeingAnswered(d, j)'
        /\ BeingAnswered(c, k)'
  BY <1>3, <1>4, <1>5 DEF BeingAnswered, Handled
<1>7. KnowledgeTypeOK'
  BY <1>kept, <1>1, <1>5 DEF KnowledgeTypeOK
<1>8. ToldInv'
  BY <1>kept, <1>1, ToldSame
<1>9. \A d \in Clients, j \in Keys :
        /\ Asks(d, j) => Asks(d, j)' \/ (d = c /\ j = k)
        /\ handler'[d].op = "release" => handler'[d] = handler[d]
  BY <1>3, <1>4 DEF Asks, Handled
<1>10. RequestedInv'
  <2>1. \A d \in Clients, j \in Keys :
          /\ <<d, j>> \notin h'.requested /\ Asks(d, j) => Asks(d, j)'
          /\ <<d, j>> \notin h'.requested /\ BeingAnswered(d, j)' => BeingAnswered(d, j)
    BY <1>2, <1>6, <1>9
  <2>2. \A d \in Clients, j \in Keys : d \in h'.requests[j].by => d \in h.requests[j].by
    BY Zenon, <1>2 DEF Handled
  <2> QED BY <1>kept, <1>1, <1>9, <2>1, <2>2, RequestedSame
<1>11. \A d \in Clients, j \in Keys : Leaving(d, j) => Leaving(d, j)'
  BY <1>kept DEF Leaving
<1>12. \A d \in Clients, j \in Keys : Excused(d, j) => Excused(d, j)'
  BY Zenon, <1>kept, <1>2, <1>6, <1>9 DEF Excused, Handled
<1> QED BY <1>kept, <1>7, <1>8, <1>10, <1>11, <1>12, QuietKnows

\* REQUEST_SERVICE.
LEMMA RequestKnows ==
    ASSUME IInv, KInv, NEW c \in Clients, NEW full \in BOOLEAN, RequestService(c, full)
    PROVE  KInv'
<1>1. PICK k : k = handler[c].key
  OBVIOUS
<1>2. k \in Keys /\ Handled(c, k) /\ (Waits(c, k) \/ IsAnswered(c, k))
  BY Zenon, <1>1, RequestEffects DEF Handled
<1> QED BY <1>2, WaitsKnows, IsAnsweredKnows

\* One more message.
LEMMA KnownAppended ==
    ASSUME NEW q \in Seq(Infos), NEW x \in Infos
    PROVE  /\ Append(q, x) \in Seq(Infos)
           /\ \A v \in MaybeClient : KnownFrom(Append(q, x), v, x.key, x.provider)
           /\ \A v \in MaybeClient, k \in Keys, p \in MaybeClient :
                k # x.key /\ KnownFrom(q, v, k, p) => KnownFrom(Append(q, x), v, k, p)
<1> DEFINE y == <<x>>
<1>1. y \in Seq(Infos) /\ DOMAIN y = {1} /\ y[1] = x /\ Append(q, x) = q \o y
  OBVIOUS
<1>2. Append(q, x) \in Seq(Infos)
  OBVIOUS
<1> HIDE DEF y
<1>3. ASSUME NEW v \in MaybeClient PROVE KnownFrom(q \o y, v, x.key, x.provider)
  <2>1. PICK n \in DOMAIN y : n = 1
    BY <1>1
  <2>2. y[n].key = x.key /\ y[n].provider = x.provider /\ \A i \in DOMAIN y : y[i].key = x.key => i = n
    BY <1>1, <2>1
  <2>3. KnownFrom(q \o y, v, x.key, y[n].provider)
    BY Zenon, <1>1, <2>2, KnownFromLast
  <2> QED BY Zenon, <2>2, <2>3
<1>4. ASSUME NEW v \in MaybeClient, NEW k \in Keys, NEW p \in MaybeClient,
             k # x.key, KnownFrom(q, v, k, p)
      PROVE  KnownFrom(q \o y, v, k, p)
  <2>1. \A i \in DOMAIN y : y[i].key # k
    BY <1>1, <1>4
  <2> QED BY Zenon, <1>1, <1>4, <2>1, KnownBesides
<1> QED BY Zenon, <1>1, <1>2, <1>3, <1>4

\* handle_requests tells the requester of the provider, or there is none that stays.
LEMMA HandleRequestsKnows ==
    ASSUME IInv, KInv, NEW c \in Clients, HandleRequests(c)
    PROVE  KInv'
<1> DEFINE n == IF handler[c].todo = {} THEN Idle
                ELSE [Idle EXCEPT !.op = "answer", !.todo = handler[c].todo]
<1>1. KnowledgeTypeOK /\ ToldInv /\ RequestedInv /\ AnswersTypeOK /\ HostTypeOK /\ TablesInv /\ h \in Hosts
  BY DEF KInv, KnowledgeTypeOK, IInv, HostTypeOK
<1>2. PICK to \in Clients, k \in Keys : handler[c].to = to /\ handler[c].key = k
  BY <1>1 DEF HandleRequests, AnswersTypeOK
<1> DEFINE p == h.table[k]
           x == [key |-> k, provider |-> p]
           told == <<p, k>> \in h.routing /\ to \in endpoints
<1>3. /\ handler[c].op = "tell" /\ handler' = [handler EXCEPT ![c] = n]
      /\ inbox' = IF told THEN [inbox EXCEPT ![to] = Append(inbox[to], x)] ELSE inbox
      /\ UNCHANGED <<h, endpoints, hold, failing, cleaning, spoiled, wants, view, late>>
  BY Zenon, <1>2 DEF HandleRequests, client
<1>4. n.op \in {"idle", "answer"} /\ n.todo = handler[c].todo /\ (n.todo # {} => n.op = "answer")
  BY Zenon DEF Idle
<1>5. p \in MaybeClient /\ x \in Infos /\ x.key = k /\ x.provider = p
  BY <1>1 DEF Hosts, Infos
<1> HIDE DEF n, x, p, told
<1>6. handler'[c] = n /\ \A d \in Clients \ {c} : handler'[d] = handler[d]
  BY <1>1, <1>3 DEF HostTypeOK
<1>7. AnswersTypeOK'
  BY <1>1, <1>4, <1>6 DEF AnswersTypeOK
<1>8. \A d \in Clients, j \in Keys :
        /\ BeingAnswered(d, j)' => BeingAnswered(d, j)
        /\ BeingAnswered(d, j) => BeingAnswered(d, j)' \/ (d = to /\ j = k)
  BY <1>2, <1>3, <1>4, <1>6 DEF BeingAnswered
<1>9. \A d \in Clients, j \in Keys : Asks(d, j)' <=> Asks(d, j)
  BY <1>3, <1>4, <1>6 DEF Asks
<1>10. /\ inbox \in [Clients -> Seq(Infos)] /\ inbox' \in [Clients -> Seq(Infos)]
       /\ \A d \in Clients : inbox'[d] = inbox[d] \/ (d = to /\ inbox'[d] = Append(inbox[d], x))
       /\ told => inbox'[to] = Append(inbox[to], x)
       /\ ~told => inbox' = inbox
  <2>1. inbox \in [Clients -> Seq(Infos)]
    BY <1>1 DEF KnowledgeTypeOK
  <2>2. Append(inbox[to], x) \in Seq(Infos)
    BY <1>5, <2>1
  <2> QED BY <1>3, <2>1, <2>2
<1>11. KnowledgeTypeOK'
  BY <1>1, <1>3, <1>7, <1>10 DEF KnowledgeTypeOK
<1>12. ToldInv'
  BY Zenon, <1>1, <1>3, ToldSame
<1>13. RequestedInv'
  <2>1. \A d \in Clients : handler'[d].op = "release" => handler'[d] = handler[d]
    BY <1>3, <1>4, <1>6
  <2> QED BY <1>1, <1>3, <1>8, <1>9, <2>1, RequestedSame
<1>14. \A d \in Clients, j \in Keys : view[<<d, j>>] \in MaybeClient
  BY <1>1 DEF KnowledgeTypeOK, Pairs
<1>15. ASSUME NEW d \in Clients, NEW j \in Keys, Counts(d, j)'
       PROVE  Claim(d, j)'
  <2>1. Counts(d, j) /\ Claim(d, j) /\ <<d, j>> \in wants /\ <<d, j>> \notin late /\ j \notin spoiled
    BY <1>3, <1>15 DEF Counts, KInv
  <2>2. CASE ~(d = to /\ j = k)
    <3>1. ASSUME NEW r \in MaybeClient, Knows(d, j, r) PROVE Knows(d, j, r)'
      <4>1. KnownFrom(inbox'[d], view[<<d, j>>], j, r)
        <5>1. CASE inbox'[d] = inbox[d]
          BY <3>1, <5>1 DEF Knows
        <5>2. CASE d = to /\ inbox'[d] = Append(inbox[d], x)
          <6>1. inbox[d] \in Seq(Infos) /\ j # x.key
            BY <1>5, <1>10, <2>2, <5>2
          <6> QED BY Zenon, <1>5, <1>14, <3>1, <5>2, <6>1, KnownAppended DEF Knows
        <5> QED BY <1>10, <5>1, <5>2
      <4> QED BY <1>3, <4>1 DEF Knows
    <3>2. Excused(d, j) => Excused(d, j)'
      BY <1>3, <1>8, <1>9, <2>2 DEF Excused
    <3>3. \A e \in Clients : Leaving(e, j) => Leaving(e, j)'
      BY <1>3 DEF Leaving
    <3> QED BY Zenon, <1>3, <2>1, <3>1, <3>2, <3>3, ClaimKept
  <2>3. CASE d = to /\ j = k /\ told
    <3>1. BeingAnswered(to, k)
      BY <1>2, <1>3 DEF BeingAnswered
    <3>2. <<to, k>> \in h.requested
      BY <1>1, <2>1, <2>3, <3>1 DEF RequestedInv
    <3>3. KnownFrom(inbox'[to], view[<<to, k>>], k, p)
      <4>1. inbox[to] \in Seq(Infos) /\ inbox'[to] = Append(inbox[to], x)
        BY <1>10, <2>3
      <4> QED BY <1>5, <1>14, <4>1, KnownAppended
    <3>4. <<p, k>> \in h.routing /\ p # None
      BY <1>1, <2>3, OffersAssumption DEF told, Hosts, Pairs
    <3>5. h' = h /\ view' = view
      BY <1>3
    <3>6. PICK r \in MaybeClient : r = p
      BY <1>5
    <3>7. Knows(to, k, r)'
      BY <3>3, <3>5, <3>6 DEF Knows
    <3>8. r # None /\ <<r, k>> \in h'.routing /\ <<to, k>> \in h'.requested
      BY <3>2, <3>4, <3>5, <3>6
    <3>9. Claim(to, k)'
      BY Zenon, <3>7, <3>8 DEF Claim
    <3> QED BY <2>3, <3>9
  <2>4. CASE d = to /\ j = k /\ ~told
    <3>1. <<p, k>> \notin h.routing
      <4>1. to \in endpoints
        BY <1>1, <2>1, <2>4 DEF RequestedInv
      <4> QED BY <2>4, <4>1 DEF told
    <3>2. NobodyStays(k)
      BY <1>1, <2>1, <2>4, <3>1 DEF NobodyStays, TablesInv, Leaving, p
    <3>3. NobodyStays(k)'
      BY <1>3, <3>2 DEF NobodyStays, Leaving
    <3>4. \A r \in MaybeClient : Knows(d, j, r) => Knows(d, j, r)'
      BY Zenon, <1>3, <1>10, <2>4 DEF Knows
    <3>5. \A e \in Clients : Leaving(e, j) => Leaving(e, j)'
      BY <1>3 DEF Leaving
    <3> QED BY Zenon, <1>3, <2>1, <2>4, <3>3, <3>4, <3>5, ClaimKept
  <2> QED BY <2>2, <2>3, <2>4
<1>16. \A d \in Clients, j \in Keys : Claim(d, j)'
  BY Zenon, <1>15, ClaimVoid
<1> QED BY <1>11, <1>12, <1>13, <1>16 DEF KInv

\* RELEASE_SERVICE: the client does not want the service any more.
LEMMA ReleaseKnows ==
    ASSUME IInv, KInv, NEW c \in Clients, ReleaseService(c)
    PROVE  KInv'
<1>1. KnowledgeTypeOK /\ ToldInv /\ RequestedInv /\ AnswersTypeOK /\ HostTypeOK /\ h \in Hosts
  BY DEF KInv, KnowledgeTypeOK, IInv, HostTypeOK
<1>2. PICK k \in Keys : k = handler[c].key
  BY <1>1 DEF ReleaseService, HostTypeOK, Keyed
<1> DEFINE w == h.requested \ {<<c, k>>}
           s == [h EXCEPT !.requested = w]
           t == Unrequested(s, c, {k})
<1>3. /\ handler[c].op = "release" /\ handler' = [handler EXCEPT ![c] = Idle]
      /\ \/ h' = h /\ <<c, k>> \notin h.requested
         \/ h' = t
  BY Zenon, <1>2 DEF ReleaseService, Unrequested
<1>4. UNCHANGED <<endpoints, hold, failing, cleaning, spoiled, inbox, wants, view, late>>
  BY DEF ReleaseService, client
<1>5. w \in SUBSET Pairs
  BY <1>1 DEF Hosts
<1>6. \A d \in Clients, j \in Keys : <<d, j>> \in w <=> <<d, j>> \in h.requested /\ ~(d = c /\ j = k)
  OBVIOUS
<1> HIDE DEF w
<1>7. s \in Hosts /\ s.routing = h.routing /\ s.requests = h.requests /\ s.requested = w
  BY Zenon, <1>1, <1>5 DEF Hosts
<1> HIDE DEF s
<1>8. /\ h'.routing = h.routing
      /\ \A d \in Clients, j \in Keys :
           /\ <<d, j>> \in h'.requested <=> <<d, j>> \in h.requested /\ ~(d = c /\ j = k)
           /\ d \in h'.requests[j].by => d \in h.requests[j].by /\ ~(d = c /\ j = k)
           /\ d \in h.requests[j].by /\ ~(d = c /\ j = k) => StillPends(h, h', d, j)
  <2>1. CASE h' = h /\ <<c, k>> \notin h.requested
    <3>1. c \notin h.requests[k].by
      BY <1>1, <2>1 DEF RequestedInv
    <3> QED BY <2>1, <3>1 DEF StillPends
  <2>2. CASE h' = t
    <3>1. /\ t.requested = s.requested
          /\ \A j \in Keys, d \in Clients :
               /\ d \in t.requests[j].by => d \in s.requests[j].by /\ (j \notin {k} \/ d # c)
               /\ d \in s.requests[j].by /\ (j \notin {k} \/ d # c) => StillPends(s, t, d, j)
      BY <1>7, UnrequestedBy
    <3>2. t.routing = s.routing
      BY <1>7, RemovedRequesting
    <3> HIDE DEF t
    <3> QED BY <1>6, <1>7, <2>2, <3>1, <3>2 DEF StillPends
  <2> QED BY <1>3, <2>1, <2>2
<1>9. Idle.op = "idle" /\ Idle.todo = {}
  BY MessageValues
<1>10. /\ AnswersTypeOK'
       /\ \A d \in Clients, j \in Keys : BeingAnswered(d, j)' <=> BeingAnswered(d, j)
       /\ handler'[c] = Idle /\ \A d \in Clients \ {c} : handler'[d] = handler[d]
  BY Zenon, <1>1, <1>3, <1>9, QuietHandler
<1>11. \A d \in Clients, j \in Keys : Asks(d, j)' <=> Asks(d, j)
  BY <1>3, <1>9, <1>10 DEF Asks
<1>12. KnowledgeTypeOK'
  BY <1>1, <1>4, <1>10 DEF KnowledgeTypeOK
<1>13. ToldInv'
  BY <1>1, <1>4, <1>8, ToldSame
<1>14. <<c, k>> \notin wants
  BY <1>1, <1>2, <1>3 DEF RequestedInv
<1>15. RequestedInv'
  <2> SUFFICES ASSUME NEW d \in Clients, NEW j \in Keys
               PROVE  /\ <<d, j>> \in wants => d \in endpoints
                      /\ d \in h'.requests[j].by => <<d, j>> \in h'.requested
                      /\ handler'[d].op = "release" /\ handler'[d].key = j => <<d, j>> \notin wants
                      /\ <<d, j>> \in wants \ late /\ <<d, j>> \notin h'.requested =>
                           Asks(d, j)' /\ ~BeingAnswered(d, j)'
    BY Zenon, <1>4 DEF RequestedInv
  <2>1. /\ <<d, j>> \in wants => d \in endpoints
        /\ d \in h.requests[j].by => <<d, j>> \in h.requested
        /\ handler[d].op = "release" /\ handler[d].key = j => <<d, j>> \notin wants
        /\ <<d, j>> \in wants \ late /\ <<d, j>> \notin h.requested =>
             Asks(d, j) /\ ~BeingAnswered(d, j)
    BY Zenon, <1>1 DEF RequestedInv
  <2> QED BY <1>8, <1>9, <1>10, <1>11, <1>14, <2>1
<1>16. ASSUME NEW d \in Clients, NEW j \in Keys, Counts(d, j)'
       PROVE  Claim(d, j)'
  <2>1. Counts(d, j) /\ Claim(d, j) /\ ~(d = c /\ j = k)
    BY <1>4, <1>14, <1>16 DEF Counts, KInv
  <2>2. Excused(d, j) => Excused(d, j)'
    BY Zenon, <1>4, <1>8, <1>10, <1>11, <2>1 DEF Excused, StillPends
  <2>3. /\ \A p \in MaybeClient : Knows(d, j, p) => Knows(d, j, p)'
        /\ \A e \in Clients : Leaving(e, j) => Leaving(e, j)'
    BY Zenon, <1>4 DEF Knows, Leaving
  <2>4. <<d, j>> \in h.requested => <<d, j>> \in h'.requested
    BY <1>8, <2>1
  <2> QED BY Zenon, <1>8, <2>1, <2>2, <2>3, <2>4, ClaimKept
<1>17. \A d \in Clients, j \in Keys : Claim(d, j)'
  BY Zenon, <1>16, ClaimVoid
<1> QED BY <1>12, <1>13, <1>15, <1>17 DEF KInv

-----------------------------------------------------------------------------
(* Pings *)

\* PONG: the end of a ping.
LEMMA PongKnows ==
    ASSUME IInv, KInv, NEW c \in Clients, OnPong(c)
    PROVE  KInv'
<1> DEFINE m == Message("decide", None)
<1>1. h \in Hosts
  BY DEF IInv, HostTypeOK
<1>2. /\ handler' = [handler EXCEPT ![c] = m] /\ h' = RemoveFromPinged(h, c) /\ handler[c].op = "pong"
      /\ UNCHANGED <<inbox, view, wants, late, hold, spoiled, endpoints, failing, cleaning>>
  BY Zenon DEF OnPong, client
<1>3. m.op = "decide" /\ m.todo = {}
  BY MessageValues
<1> HIDE DEF m
<1>4. h'.routing = h.routing /\ h'.requested = h.requested /\ h'.requests = h.requests
  BY <1>1, <1>2, PingResult
<1> QED BY Zenon, <1>2, <1>3, <1>4, OtherHandlerKnows

\* The decision: requests that waited are going to be answered.
LEMMA DecideKnows ==
    ASSUME IInv, KInv, NEW c \in Clients, OnPongDecide(c)
    PROVE  KInv'
<1> DEFINE todo == {p \in Pairs : h.requests[p[2]].old = c /\ p[1] \in h.requests[p[2]].by}
           m == IF todo = {} THEN Idle ELSE [Idle EXCEPT !.op = "answer", !.todo = todo]
           o == [k \in Keys |-> IF h.offers[k].old = c THEN NoOffer ELSE h.offers[k]]
           q == [k \in Keys |-> IF h.requests[k].old = c THEN NoRequest ELSE h.requests[k]]
<1>1. KnowledgeTypeOK /\ ToldInv /\ RequestedInv /\ AnswersTypeOK /\ HostTypeOK /\ h \in Hosts
  BY DEF KInv, KnowledgeTypeOK, IInv, HostTypeOK
<1>2. handler' = [handler EXCEPT ![c] = m] /\ h' = [h EXCEPT !.offers = o, !.requests = q]
  BY <1>1 DEF OnPongDecide
<1>3. /\ UNCHANGED <<endpoints, hold, failing, cleaning, spoiled, inbox, wants, view, late>>
      /\ handler[c].op = "decide"
  BY SMTT(30) DEF OnPongDecide, client
<1>4. \A k \in Keys : q[k] = IF h.requests[k].old = c THEN NoRequest ELSE h.requests[k]
  OBVIOUS
<1>5. \A d \in Clients, k \in Keys :
        <<d, k>> \in todo <=> h.requests[k].old = c /\ d \in h.requests[k].by
  BY DEF Pairs
<1> HIDE DEF o, q, todo
<1>6. m.op \in {"idle", "answer"} /\ m.todo = todo /\ (m.todo # {} => m.op = "answer")
  BY Zenon DEF Idle
<1> HIDE DEF m
<1>7. h'.routing = h.routing /\ h'.requested = h.requested /\ h'.requests = q
  BY Zenon, <1>1, <1>2 DEF Hosts
<1>8. /\ handler'[c] = m /\ (\A d \in Clients \ {c} : handler'[d] = handler[d])
      /\ handler[c].todo = {}
  BY <1>1, <1>2, <1>3 DEF HostTypeOK, AnswersTypeOK
<1>9. AnswersTypeOK'
  BY <1>1, <1>6, <1>8 DEF AnswersTypeOK
<1>10. \A d \in Clients, k \in Keys :
         BeingAnswered(d, k)' <=> BeingAnswered(d, k) \/ <<d, k>> \in todo
  BY <1>3, <1>6, <1>8 DEF BeingAnswered
<1>11. \A d \in Clients, k \in Keys : Asks(d, k)' <=> Asks(d, k)
  BY <1>3, <1>6, <1>8 DEF Asks
<1>12. KnowledgeTypeOK'
  BY <1>1, <1>3, <1>9 DEF KnowledgeTypeOK
<1>13. ToldInv'
  BY <1>1, <1>3, <1>7, ToldSame
<1>14. RequestedInv'
  <2>1. \A d \in Clients : handler'[d].op = "release" => handler'[d] = handler[d]
    BY <1>6, <1>8
  <2>2. \A d \in Clients, k \in Keys : d \in h'.requests[k].by => d \in h.requests[k].by
    BY <1>4, <1>7 DEF NoRequest
  <2>3. \A d \in Clients, k \in Keys :
          <<d, k>> \notin h'.requested /\ BeingAnswered(d, k)' => BeingAnswered(d, k)
    <3>1. \A d \in Clients, k \in Keys : <<d, k>> \in todo => <<d, k>> \in h.requested
      BY <1>1, <1>5 DEF RequestedInv
    <3> QED BY <1>7, <1>10, <3>1
  <2> QED BY <1>1, <1>3, <1>7, <1>11, <2>1, <2>2, <2>3, RequestedSame
<1>15. ASSUME NEW d \in Clients, NEW k \in Keys, Excused(d, k)
       PROVE  Excused(d, k)'
  <2>1. CASE d \in h.requests[k].by /\ h.requests[k].old = c
    BY Zenon, <1>5, <1>10, <2>1 DEF Excused
  <2>2. CASE ~(d \in h.requests[k].by /\ h.requests[k].old = c)
    BY Zenon, <1>3, <1>4, <1>7, <1>10, <1>11, <1>15, <2>2 DEF Excused
  <2> QED BY <2>1, <2>2
<1>16. \A d \in Clients, k \in Keys : Leaving(d, k) => Leaving(d, k)'
  BY Zenon, <1>3 DEF Leaving
<1> QED BY <1>3, <1>7, <1>12, <1>13, <1>14, <1>15, <1>16, QuietKnows

\* The next of the requests that waited is entered; handle_requests answers it.
LEMMA AnswerKnows ==
    ASSUME IInv, KInv, NEW c \in Clients, OnPongAnswer(c)
    PROVE  KInv'
<1>1. KnowledgeTypeOK /\ ToldInv /\ RequestedInv /\ AnswersTypeOK /\ HostTypeOK /\ h \in Hosts
      /\ handler \in [Clients -> Handlers]
  BY DEF KInv, KnowledgeTypeOK, IInv, HostTypeOK
<1>2. PICK p \in handler[c].todo :
        /\ h' = [h EXCEPT !.requested = @ \cup {p}]
        /\ handler' = [handler EXCEPT ![c] = [op |-> "tell", key |-> p[2], to |-> p[1],
                                              todo |-> handler[c].todo \ {p}]]
  BY Zenon, <1>1 DEF OnPongAnswer
<1>3. /\ UNCHANGED <<endpoints, hold, failing, cleaning, spoiled, inbox, wants, view, late>>
      /\ handler[c].op = "answer"
  BY DEF OnPongAnswer, client
<1>4. PICK to \in Clients, k \in Keys : p = <<to, k>>
  BY <1>1, <1>2 DEF Handlers, Pairs
<1> DEFINE todo == handler[c].todo \ {p}
           m == [op |-> "tell", key |-> p[2], to |-> p[1], todo |-> todo]
<1>5. m.op = "tell" /\ m.key = k /\ m.to = to /\ m.todo = todo
  BY <1>4
<1>6. /\ h'.routing = h.routing /\ h'.requests = h.requests
      /\ h'.requested = h.requested \cup {<<to, k>>}
  BY Zenon, <1>1, <1>2, <1>4 DEF Hosts
<1>7. \A d \in Clients, j \in Keys : <<d, j>> \in handler[c].todo <=> <<d, j>> \in todo \/ (d = to /\ j = k)
  BY <1>2, <1>4
<1>8. handler' = [handler EXCEPT ![c] = m]
  BY <1>2
<1> HIDE DEF m, todo
<1>9. handler'[c] = m /\ \A d \in Clients \ {c} : handler'[d] = handler[d]
  BY <1>1, <1>8
<1>10. AnswersTypeOK'
  BY <1>1, <1>5, <1>9 DEF AnswersTypeOK
<1>11. \A d \in Clients, j \in Keys : BeingAnswered(d, j)' <=> BeingAnswered(d, j)
  BY ZenonT(60), <1>3, <1>5, <1>7, <1>9 DEF BeingAnswered
<1>12. \A d \in Clients, j \in Keys : Asks(d, j)' <=> Asks(d, j)
  BY <1>3, <1>5, <1>9 DEF Asks
<1>13. KnowledgeTypeOK'
  BY <1>1, <1>3, <1>10 DEF KnowledgeTypeOK
<1>14. ToldInv'
  BY <1>1, <1>3, <1>6, ToldSame
<1>15. RequestedInv'
  <2>1. \A d \in Clients : handler'[d].op = "release" => handler'[d] = handler[d]
    BY <1>5, <1>9
  <2>2. h.requested \subseteq h'.requested
    BY <1>6
  <2> QED BY <1>1, <1>3, <1>6, <1>11, <1>12, <2>1, <2>2, RequestedSame
<1>16. \A d \in Clients, j \in Keys : Excused(d, j) => Excused(d, j)'
  BY <1>3, <1>6, <1>11, <1>12 DEF Excused
<1>17. \A d \in Clients, j \in Keys : Leaving(d, j) => Leaving(d, j)'
  BY <1>3 DEF Leaving
<1>18. h.requested \subseteq h'.requested
  BY <1>6
<1> QED BY Zenon, <1>3, <1>6, <1>13, <1>14, <1>15, <1>16, <1>17, <1>18, QuietKnows

=============================================================================
