---------------------------- MODULE OffersLemmas ----------------------------
(***************************************************************************)
(* What the proofs about offers and requests share: the inductive invariant *)
(* of the host's tables (IInv) and lemmas about the operators of           *)
(* ServiceOffers, the pending requests and pings of the stub and what a    *)
(* sequence of ROUTING_INFO leaves a client with.                          *)
(***************************************************************************)
EXTENDS ServiceOffers, TLAPS

Hosts == [table : [Keys -> MaybeClient], info : SUBSET Keys, routing : SUBSET Pairs,
          requested : SUBSET Pairs, offers : [Keys -> [new : MaybeClient, old : MaybeClient]],
          requests : [Keys -> [old : MaybeClient, by : SUBSET Clients]],
          pinged : SUBSET Clients, timer : BOOLEAN]
Holds == [op : {"free", "offer", "stop", "deregister", "remove"}, client : MaybeClient,
          key : Keys \cup {None}, by : MaybeClient]
Handlers == [op : HandlerOps, key : Keys \cup {None}, to : MaybeClient, todo : SUBSET Pairs]

\* Messages about one service.
Keyed == {"offer", "stop", "request", "release"}

\* The part of TypeOK the proofs need.
HostTypeOK ==
    /\ h \in Hosts
    /\ endpoints \subseteq Clients /\ failing \subseteq endpoints /\ cleaning \subseteq Clients
    /\ hold \in Holds
    /\ hold.op \in {"offer", "stop"} => hold.client \in Clients /\ hold.key \in Keys
    /\ hold.op \in {"deregister", "remove"} => hold.client \in failing
    /\ hold.op = "free" => hold = Free
    /\ hold.by # None => hold.by \in Clients /\ handler[hold.by].op \in {"offer", "stop"}
    /\ handler \in [Clients -> Handlers]
    /\ \A c \in Clients :
        handler[c].op \in Keyed => handler[c].key \in Keys

\* TablesAgree at any time, also while mutex_ is taken.
TablesInv ==
    \A c \in Clients, k \in Keys :
        /\ h.table[k] = c => \/ <<c, k>> \in h.routing
                             \/ hold.op = "offer" /\ hold.client = c /\ hold.key = k
        /\ <<c, k>> \in h.routing => \/ h.table[k] = c \/ k \in spoiled
                                     \/ hold.op = "stop" /\ hold.client = c /\ hold.key = k
        /\ hold.op = "offer" /\ hold.client = c /\ hold.key = k => h.table[k] = c
        /\ hold.op = "stop" /\ hold.client = c /\ hold.key = k => h.table[k] # c
        /\ hold.op = "remove" /\ hold.client = c => <<c, k>> \notin h.routing

\* Who is waited for is connected, or its cleanup is not finished.
PendingConnected ==
    \A k \in Keys :
        /\ h.offers[k] # NoOffer => h.offers[k].old \in endpoints \cup cleaning
        /\ h.requests[k] # NoRequest => h.requests[k].old \in endpoints \cup cleaning

IInv == HostTypeOK /\ TablesInv /\ PendingConnected /\ PendingIsAwaited

Infos == [key : Keys, provider : MaybeClient]

-----------------------------------------------------------------------------
(* Pending requests, pings and tables *)

\* The three ways the host removes pending requests.
Unoffered(s, c, keys) == Removed(s, TRUE, FALSE, c, keys)
Unrequested(s, c, keys) == Removed(s, FALSE, TRUE, c, keys)
Dropped(s, c, keys) == Removed(s, TRUE, TRUE, c, keys)

\* remove_pending_requests of a provider touches the pending requests only: an entry
\* goes, or stays with the same provider; none stays for the provider itself.
LEMMA RemovedOffering ==
    ASSUME NEW s \in Hosts, NEW c \in Clients, NEW keys,
           NEW t, t = Unoffered(s, c, keys)
    PROVE  /\ t \in Hosts /\ t.table = s.table /\ t.routing = s.routing
           /\ t.offers = s.offers /\ t.pinged = s.pinged
           /\ \A k \in Keys : t.requests[k] # NoRequest =>
                /\ s.requests[k] # NoRequest /\ t.requests[k].old = s.requests[k].old
                /\ k \in keys => t.requests[k].old # c
<1> DEFINE F(k) == LET r == s.requests[k]
                   IN  IF k \notin keys THEN r
                       ELSE IF r.old = c THEN NoRequest
                       ELSE r
           q == [k \in Keys |-> F(k)]
<1>1. t = [s EXCEPT !.requests = q]
  BY DEF Removed, Unoffered
<1>2. ASSUME NEW k \in Keys
      PROVE  /\ F(k) \in [old : MaybeClient, by : SUBSET Clients]
             /\ F(k) # NoRequest => /\ s.requests[k] # NoRequest /\ F(k).old = s.requests[k].old
                                    /\ k \in keys => F(k).old # c
  <2>1. s.requests[k] \in [old : MaybeClient, by : SUBSET Clients]
    BY DEF Hosts
  <2> QED BY <2>1 DEF NoRequest, MaybeClient
<1>3. q \in [Keys -> [old : MaybeClient, by : SUBSET Clients]] /\ \A k \in Keys : q[k] = F(k)
  BY <1>2
<1> HIDE DEF q, F
<1>4. /\ t \in Hosts /\ t.requests = q /\ t.table = s.table /\ t.routing = s.routing
      /\ t.offers = s.offers /\ t.pinged = s.pinged
  BY Zenon, <1>1, <1>3 DEF Hosts
<1> QED BY <1>2, <1>3, <1>4

\* Those of a requester: an entry goes, or stays with the same provider.
LEMMA RemovedRequesting ==
    ASSUME NEW s \in Hosts, NEW c \in Clients, NEW keys,
           NEW t, t = Unrequested(s, c, keys)
    PROVE  /\ t \in Hosts /\ t.table = s.table /\ t.routing = s.routing
           /\ t.offers = s.offers /\ t.pinged = s.pinged
           /\ \A k \in Keys : t.requests[k] # NoRequest =>
                /\ s.requests[k] # NoRequest /\ t.requests[k].old = s.requests[k].old
<1> DEFINE F(k) == LET r == s.requests[k]
                   IN  IF k \notin keys THEN r
                       ELSE IF r.by \subseteq {c} THEN NoRequest
                       ELSE [r EXCEPT !.by = @ \ {c}]
           q == [k \in Keys |-> F(k)]
<1>1. t = [s EXCEPT !.requests = q]
  BY DEF Removed, Unrequested
<1>2. ASSUME NEW k \in Keys
      PROVE  /\ F(k) \in [old : MaybeClient, by : SUBSET Clients]
             /\ F(k) # NoRequest => /\ s.requests[k] # NoRequest /\ F(k).old = s.requests[k].old
  <2>1. s.requests[k] \in [old : MaybeClient, by : SUBSET Clients]
    BY DEF Hosts
  <2> QED BY <2>1 DEF NoRequest, MaybeClient
<1>3. q \in [Keys -> [old : MaybeClient, by : SUBSET Clients]] /\ \A k \in Keys : q[k] = F(k)
  BY <1>2
<1> HIDE DEF q, F
<1>4. /\ t \in Hosts /\ t.requests = q /\ t.table = s.table /\ t.routing = s.routing
      /\ t.offers = s.offers /\ t.pinged = s.pinged
  BY Zenon, <1>1, <1>3 DEF Hosts
<1> QED BY <1>2, <1>3, <1>4

\* Those of a dead client: as for a provider.
LEMMA RemovedBoth ==
    ASSUME NEW s \in Hosts, NEW c \in Clients, NEW keys,
           NEW t, t = Dropped(s, c, keys)
    PROVE  /\ t \in Hosts /\ t.table = s.table /\ t.routing = s.routing
           /\ t.offers = s.offers /\ t.pinged = s.pinged
           /\ \A k \in Keys : t.requests[k] # NoRequest =>
                /\ s.requests[k] # NoRequest /\ t.requests[k].old = s.requests[k].old
                /\ k \in keys => t.requests[k].old # c
<1> DEFINE F(k) == LET r == s.requests[k]
                   IN  IF k \notin keys THEN r
                       ELSE IF r.old = c THEN NoRequest
                       ELSE IF r.by \subseteq {c} THEN NoRequest
                       ELSE [r EXCEPT !.by = @ \ {c}]
           q == [k \in Keys |-> F(k)]
<1>1. t = [s EXCEPT !.requests = q]
  BY DEF Removed, Dropped
<1>2. ASSUME NEW k \in Keys
      PROVE  /\ F(k) \in [old : MaybeClient, by : SUBSET Clients]
             /\ F(k) # NoRequest => /\ s.requests[k] # NoRequest /\ F(k).old = s.requests[k].old
                                    /\ k \in keys => F(k).old # c
  <2>1. s.requests[k] \in [old : MaybeClient, by : SUBSET Clients]
    BY DEF Hosts
  <2> QED BY <2>1 DEF NoRequest, MaybeClient
<1>3. q \in [Keys -> [old : MaybeClient, by : SUBSET Clients]] /\ \A k \in Keys : q[k] = F(k)
  BY SMTT(30), <1>2
<1> HIDE DEF q, F
<1>4. /\ t \in Hosts /\ t.requests = q /\ t.table = s.table /\ t.routing = s.routing
      /\ t.offers = s.offers /\ t.pinged = s.pinged
  BY Zenon, <1>1, <1>3 DEF Hosts
<1> QED BY <1>2, <1>3, <1>4

\* Pinging and forgetting a ping touch the set of pinged clients only.
LEMMA PingResult ==
    ASSUME NEW s \in Hosts, NEW c \in Clients
    PROVE  /\ SendPing(s, c) \in Hosts /\ RemoveFromPinged(s, c) \in Hosts
           /\ SendPing(s, c).pinged = s.pinged \cup {c}
           /\ s.pinged \ {c} \subseteq RemoveFromPinged(s, c).pinged
           /\ \A t \in {SendPing(s, c), RemoveFromPinged(s, c)} :
                /\ t.table = s.table /\ t.routing = s.routing /\ t.info = s.info
                /\ t.offers = s.offers /\ t.requests = s.requests /\ t.requested = s.requested
BY ZenonT(60) DEF SendPing, RemoveFromPinged, Hosts

\* Stopping offers of c at the host: c leaves the table, nobody else does.
LEMMA StoppedAtHostResult ==
    ASSUME NEW s \in Hosts, NEW c \in Clients, NEW keys \in SUBSET Keys
    PROVE  /\ StoppedAtHost(s, c, keys) \in Hosts
           /\ StoppedAtHost(s, c, keys).table =
                [k \in Keys |-> IF k \in keys /\ s.table[k] = c THEN None ELSE s.table[k]]
           /\ StoppedAtHost(s, c, keys).routing = s.routing
           /\ StoppedAtHost(s, c, keys).offers = s.offers
           /\ StoppedAtHost(s, c, keys).requests = s.requests
           /\ StoppedAtHost(s, c, keys).pinged = s.pinged
<1>1. [k \in Keys |-> IF k \in keys /\ s.table[k] = c THEN None ELSE s.table[k]]
        \in [Keys -> MaybeClient]
  BY DEF Hosts, MaybeClient
<1> QED BY Zenon, <1>1 DEF StoppedAtHost, Hosts

\* And at the stub: only c leaves the routing information.
LEMMA StoppedAtStubResult ==
    ASSUME NEW s \in Hosts, NEW c \in Clients, NEW keys \in SUBSET Keys
    PROVE  /\ StoppedAtStub(s, c, keys) \in Hosts
           /\ StoppedAtStub(s, c, keys).table = s.table
           /\ StoppedAtStub(s, c, keys).routing = s.routing \ ({c} \X keys)
           /\ StoppedAtStub(s, c, keys).offers = s.offers
           /\ StoppedAtStub(s, c, keys).requests = s.requests
           /\ StoppedAtStub(s, c, keys).pinged = s.pinged
BY Zenon DEF StoppedAtStub, Hosts

-----------------------------------------------------------------------------
(* What a sequence of ROUTING_INFO says *)

USE SMTT(60)

\* KnownFrom without its set of messages.
LEMMA KnownMeans ==
    ASSUME NEW q, NEW v, NEW k, NEW p
    PROVE  KnownFrom(q, v, k, p) <=>
             \/ v = p /\ \A i \in DOMAIN q : q[i].key # k
             \/ \E i \in DOMAIN q : /\ q[i].key = k /\ q[i].provider = p
                                  /\ \A j \in DOMAIN q : q[j].key = k => j <= i
<1> DEFINE about == {i \in DOMAIN q : q[i].key = k}
<1>1. KnownFrom(q, v, k, p) <=> \/ about = {} /\ v = p
                                \/ \E i \in about : q[i].provider = p /\ \A j \in about : j <= i
  BY Zenon DEF KnownFrom
<1>2. about = {} <=> \A i \in DOMAIN q : q[i].key # k
  BY Zenon
<1>3. \A i : i \in about <=> i \in DOMAIN q /\ q[i].key = k
  BY Zenon
<1> HIDE DEF about
<1> QED BY Zenon, <1>1, <1>2, <1>3

\* Reading the first message does not change what a client will know.
LEMMA KnownAfterHead ==
    ASSUME NEW q \in Seq(Infos), q # <<>>, NEW v, NEW k, NEW p, KnownFrom(q, v, k, p)
    PROVE  KnownFrom(Tail(q), IF Head(q).key = k THEN Head(q).provider ELSE v, k, p)
<1> DEFINE t == Tail(q)
           w == IF Head(q).key = k THEN Head(q).provider ELSE v
<1> SUFFICES KnownFrom(t, w, k, p)
  OBVIOUS
<1>1. /\ t \in Seq(Infos) /\ Len(q) \in Nat /\ Len(t) = Len(q) - 1 /\ Len(q) >= 1
      /\ DOMAIN q = 1..Len(q) /\ DOMAIN t = 1..Len(t) /\ Head(q) = q[1]
      /\ \A i \in 1..Len(t) : t[i] = q[i + 1]
  OBVIOUS
<1> HIDE DEF t
<1>2. CASE \A i \in DOMAIN q : q[i].key # k
  <2>1. v = p
    BY <1>2, KnownMeans
  <2>2. \A i \in DOMAIN t : t[i].key # k
    BY <1>1, <1>2
  <2>3. w = p
    BY <1>1, <1>2, <2>1
  <2> HIDE DEF w
  <2> QED BY <2>2, <2>3, KnownMeans
<1>3. CASE ~(\A i \in DOMAIN q : q[i].key # k)
  <2>1. PICK i \in DOMAIN q : q[i].key = k /\ q[i].provider = p /\ \A j \in DOMAIN q : q[j].key = k => j <= i
    BY <1>3, KnownMeans
  <2>2. CASE i = 1
    <3>1. w = p
      BY <1>1, <2>1, <2>2
    <3>2. \A j \in DOMAIN t : t[j].key # k
      BY <1>1, <2>1, <2>2
    <3> HIDE DEF w
    <3> QED BY <3>1, <3>2, KnownMeans
  <2>3. CASE i # 1
    <3>1. i - 1 \in DOMAIN t /\ t[i - 1].key = k /\ t[i - 1].provider = p
      BY <1>1, <2>1, <2>3
    <3>2. ASSUME NEW j \in DOMAIN t, t[j].key = k PROVE j <= i - 1
      <4>1. j \in Nat /\ j + 1 \in DOMAIN q /\ q[j + 1] = t[j]
        BY <1>1
      <4>2. j + 1 <= i /\ i \in Nat
        BY <1>1, <2>1, <3>2, <4>1
      <4> QED BY <4>1, <4>2
    <3> HIDE DEF w
    <3> QED BY <3>1, <3>2, KnownMeans
  <2> QED BY <2>2, <2>3
<1> QED BY <1>2, <1>3

\* Messages about other services do not either.
LEMMA KnownBesides ==
    ASSUME NEW q \in Seq(Infos), NEW x \in Seq(Infos), NEW v, NEW k, NEW p,
           KnownFrom(q, v, k, p), \A i \in DOMAIN x : x[i].key # k
    PROVE  KnownFrom(q \o x, v, k, p)
<1> DEFINE t == q \o x
<1> SUFFICES KnownFrom(t, v, k, p)
  OBVIOUS
<1>1. /\ t \in Seq(Infos) /\ Len(q) \in Nat /\ Len(x) \in Nat /\ Len(t) = Len(q) + Len(x)
      /\ DOMAIN q = 1..Len(q) /\ DOMAIN x = 1..Len(x) /\ DOMAIN t = 1..Len(t)
      /\ \A i \in 1..Len(q) : t[i] = q[i]
      /\ \A i \in 1..Len(t) : i > Len(q) => t[i] = x[i - Len(q)] /\ i - Len(q) \in 1..Len(x)
  OBVIOUS
<1> HIDE DEF t
<1>2. ASSUME NEW i \in DOMAIN t, t[i].key = k PROVE i \in DOMAIN q
  <2>1. i \in Nat /\ i >= 1 /\ (i <= Len(q) \/ i > Len(q))
    BY <1>1
  <2>2. ~(i > Len(q))
    BY <1>1, <1>2
  <2> QED BY <1>1, <2>1, <2>2
<1>3. DOMAIN q \subseteq DOMAIN t
  BY <1>1
<1> QED BY Zenon, <1>1, <1>2, <1>3, KnownMeans

\* The only message about a service decides when it comes last.
LEMMA KnownFromLast ==
    ASSUME NEW q \in Seq(Infos), NEW x \in Seq(Infos), NEW v, NEW k, NEW n \in DOMAIN x,
           x[n].key = k, \A i \in DOMAIN x : x[i].key = k => i = n
    PROVE  KnownFrom(q \o x, v, k, x[n].provider)
<1> DEFINE t == q \o x
<1> SUFFICES KnownFrom(t, v, k, x[n].provider)
  OBVIOUS
<1>1. /\ t \in Seq(Infos) /\ Len(q) \in Nat /\ Len(x) \in Nat /\ Len(t) = Len(q) + Len(x)
      /\ DOMAIN q = 1..Len(q) /\ DOMAIN x = 1..Len(x) /\ DOMAIN t = 1..Len(t)
      /\ \A i \in 1..Len(x) : t[Len(q) + i] = x[i]
      /\ \A i \in 1..Len(t) : i > Len(q) => t[i] = x[i - Len(q)] /\ i - Len(q) \in 1..Len(x)
  OBVIOUS
<1> HIDE DEF t
<1>2. Len(q) + n \in DOMAIN t /\ t[Len(q) + n] = x[n]
  BY <1>1
<1>3. \A j \in DOMAIN t : t[j].key = k => j <= Len(q) + n
  <2> SUFFICES ASSUME NEW j \in DOMAIN t, t[j].key = k PROVE j <= Len(q) + n
    OBVIOUS
  <2>1. j \in Nat /\ n \in Nat /\ (j <= Len(q) \/ j > Len(q))
    BY <1>1
  <2>2. CASE j > Len(q)
    <3>1. t[j] = x[j - Len(q)] /\ j - Len(q) \in DOMAIN x
      BY <1>1, <2>2
    <3>2. j - Len(q) = n
      BY <3>1
    <3> QED BY <1>1, <2>1, <3>2
  <2> QED BY <1>1, <2>1, <2>2
<1> QED BY <1>2, <1>3, KnownMeans

\* A client that requests a service afresh knows nothing of it if nothing is on its way.
LEMMA KnownNothing ==
    ASSUME NEW q, NEW k, \A i \in DOMAIN q : q[i].key # k
    PROVE  KnownFrom(q, None, k, None)
BY KnownMeans

\* A client that forgets what it knows will know what is on its way, or nothing.
LEMMA KnownReset ==
    ASSUME NEW q, NEW v, NEW k, NEW p, KnownFrom(q, v, k, p)
    PROVE  KnownFrom(q, None, k, p) \/ KnownFrom(q, None, k, None)
BY KnownMeans

\* Services can be gone through, one after the other.
KeysInOrder ==
    \A keys \in SUBSET Keys :
        InOrder(keys) \in Orders(keys) /\ Cardinality(keys) \in Nat

\* x has one message for c about each of the services it requested, and nothing else.
Tells(x, s, p, keys, c) ==
    /\ \A i \in DOMAIN x : /\ x[i].provider = p /\ x[i].key \in keys
                           /\ <<c, x[i].key>> \in s.requested /\ c \in endpoints
    /\ \A k \in keys : <<c, k>> \in s.requested /\ c \in endpoints =>
         \E n \in DOMAIN x : x[n].key = k /\ \A i \in DOMAIN x : x[i].key = k => i = n

\* inform_requesters sends a connected requester one message about each of the
\* services it requested, and nothing else.
LEMMA InformedSends ==
    ASSUME KeysInOrder, inbox \in [Clients -> Seq(Infos)], NEW s, NEW p \in MaybeClient,
           NEW keys \in SUBSET Keys, NEW c \in Clients
    PROVE  \E x \in Seq(Infos) :
             Informed(s, p, keys)[c] = inbox[c] \o x /\ Tells(x, s, p, keys, c)
<1> DEFINE told == {k \in keys : <<c, k>> \in s.requested /\ c \in endpoints}
           o == InOrder(told)
           x == [i \in DOMAIN o |-> [key |-> o[i], provider |-> p]]
<1>1. told \in SUBSET Keys
  OBVIOUS
<1>3. Informed(s, p, keys)[c] = inbox[c] \o x
  BY Zenon DEF Informed
<1>4. \A k : k \in told <=> k \in keys /\ <<c, k>> \in s.requested /\ c \in endpoints
  BY Zenon
<1> HIDE DEF told
<1>5. o \in Orders(told) /\ Cardinality(told) \in Nat
  BY <1>1 DEF KeysInOrder
<1> HIDE DEF o
<1> DEFINE n == Cardinality(told)
<1>6. /\ o \in [1..n -> told] /\ DOMAIN o = 1..n /\ n \in Nat
      /\ \A i, j \in 1..n : o[i] = o[j] => i = j
      /\ \A k \in told : \E i \in 1..n : o[i] = k
  BY Zenon, <1>5 DEF Orders
<1> HIDE DEF n
<1>7. /\ DOMAIN x = 1..n
      /\ \A i \in 1..n : x[i] = [key |-> o[i], provider |-> p]
      /\ \A i \in 1..n : x[i].key = o[i] /\ x[i].provider = p /\ o[i] \in told
  BY <1>6
<1>8. x \in Seq(Infos)
  <2>1. \A i \in 1..n : x[i] \in Infos
    BY <1>1, <1>7 DEF Infos
  <2> QED BY <1>6, <1>7, <2>1
<1> HIDE DEF x
<1>9. \A i \in DOMAIN x : /\ x[i].provider = p /\ x[i].key \in keys
                           /\ <<c, x[i].key>> \in s.requested /\ c \in endpoints
  BY <1>4, <1>7
<1>10. \A k \in keys : <<c, k>> \in s.requested /\ c \in endpoints =>
         \E j \in DOMAIN x : x[j].key = k /\ \A i \in DOMAIN x : x[i].key = k => i = j
  <2> SUFFICES ASSUME NEW k \in keys, <<c, k>> \in s.requested, c \in endpoints
               PROVE  \E j \in DOMAIN x : x[j].key = k /\ \A i \in DOMAIN x : x[i].key = k => i = j
    OBVIOUS
  <2>1. PICK j \in 1..n : o[j] = k
    BY <1>4, <1>6
  <2>2. j \in DOMAIN x /\ x[j].key = k /\ \A i \in DOMAIN x : x[i].key = k => i = j
    BY <1>6, <1>7, <2>1
  <2> QED BY <2>2
<1> QED BY <1>3, <1>8, <1>9, <1>10 DEF Tells

\* So that requester will know what it says, and the others what they knew.
LEMMA InformedKnows ==
    ASSUME KeysInOrder, inbox \in [Clients -> Seq(Infos)], NEW s, NEW p \in MaybeClient,
           NEW keys \in SUBSET Keys
    PROVE  /\ Informed(s, p, keys) \in [Clients -> Seq(Infos)]
           /\ \A c \in Clients, k \in Keys, v \in MaybeClient :
                /\ k \in keys /\ <<c, k>> \in s.requested /\ c \in endpoints =>
                     KnownFrom(Informed(s, p, keys)[c], v, k, p)
                /\ k \notin keys \/ <<c, k>> \notin s.requested \/ c \notin endpoints =>
                     \A r \in MaybeClient : KnownFrom(inbox[c], v, k, r) =>
                        KnownFrom(Informed(s, p, keys)[c], v, k, r)
<1> DEFINE q == Informed(s, p, keys)
<1>1. q = [c \in Clients |-> q[c]]
  BY Zenon DEF Informed
<1>0. ASSUME NEW c \in Clients
      PROVE  \E x \in Seq(Infos) : q[c] = inbox[c] \o x /\ Tells(x, s, p, keys, c)
  BY Zenon, InformedSends
<1> HIDE DEF q
<1>2. ASSUME NEW c \in Clients
      PROVE  q[c] \in Seq(Infos)
  <2>1. PICK x \in Seq(Infos) : q[c] = inbox[c] \o x
    BY Zenon, <1>0
  <2> QED BY <2>1
<1>3. ASSUME NEW c \in Clients, NEW k \in Keys, NEW v \in MaybeClient,
             k \in keys, <<c, k>> \in s.requested, c \in endpoints
      PROVE  KnownFrom(q[c], v, k, p)
  <2>1. PICK x \in Seq(Infos) :
          /\ q[c] = inbox[c] \o x
          /\ \A i \in DOMAIN x : x[i].provider = p
          /\ \E n \in DOMAIN x : x[n].key = k /\ \A i \in DOMAIN x : x[i].key = k => i = n
    BY ZenonT(60), <1>0, <1>3 DEF Tells
  <2>2. PICK n \in DOMAIN x : x[n].key = k /\ \A i \in DOMAIN x : x[i].key = k => i = n
    BY <2>1
  <2>3. KnownFrom(inbox[c] \o x, v, k, x[n].provider)
    BY Zenon, <2>2, KnownFromLast
  <2> QED BY Zenon, <2>1, <2>3
<1>4. ASSUME NEW c \in Clients, NEW k \in Keys, NEW v \in MaybeClient, NEW r \in MaybeClient,
             k \notin keys \/ <<c, k>> \notin s.requested \/ c \notin endpoints,
             KnownFrom(inbox[c], v, k, r)
      PROVE  KnownFrom(q[c], v, k, r)
  <2>1. PICK x \in Seq(Infos) :
          /\ q[c] = inbox[c] \o x
          /\ \A i \in DOMAIN x : /\ x[i].provider = p /\ x[i].key \in keys
                                 /\ <<c, x[i].key>> \in s.requested /\ c \in endpoints
    BY Zenon, <1>0 DEF Tells
  <2>2. \A i \in DOMAIN x : x[i].key # k
    BY Zenon, <1>4, <2>1
  <2>3. KnownFrom(inbox[c] \o x, v, k, r)
    BY Zenon, <1>4, <2>2, KnownBesides
  <2> QED BY Zenon, <2>1, <2>3
<1>5. q \in [Clients -> Seq(Infos)]
  BY Zenon, <1>1, <1>2
<1> QED BY Zenon, <1>3, <1>4, <1>5 DEF q

-----------------------------------------------------------------------------
(* Pending requests and handlers *)

\* d's pending request of k is the same in t as in s.
StillPends(s, t, d, k) == d \in t.requests[k].by /\ t.requests[k].old = s.requests[k].old

\* Removing the pending requests of a provider leaves those for others alone.
LEMMA UnofferedBy ==
    ASSUME NEW s \in Hosts, NEW c \in Clients, NEW keys, NEW t, t = Unoffered(s, c, keys)
    PROVE  /\ t.requested = s.requested
           /\ \A k \in Keys, d \in Clients :
                /\ d \in t.requests[k].by => d \in s.requests[k].by
                /\ d \in s.requests[k].by /\ (k \notin keys \/ s.requests[k].old # c) => StillPends(s, t, d, k)
<1> DEFINE F(k) == LET r == s.requests[k]
                   IN  IF k \notin keys THEN r
                       ELSE IF r.old = c THEN NoRequest
                       ELSE r
           q == [k \in Keys |-> F(k)]
<1>1. t = [s EXCEPT !.requests = q]
  BY DEF Removed, Unoffered
<1>2. \A k \in Keys : q[k] = F(k)
  OBVIOUS
<1> HIDE DEF q
<1>3. t.requests = q /\ t.requested = s.requested
  BY Zenon, <1>1 DEF Hosts
<1> QED BY <1>2, <1>3 DEF NoRequest, StillPends

\* Removing those of a requester leaves those of others alone.
LEMMA UnrequestedBy ==
    ASSUME NEW s \in Hosts, NEW c \in Clients, NEW keys, NEW t, t = Unrequested(s, c, keys)
    PROVE  /\ t.requested = s.requested
           /\ \A k \in Keys, d \in Clients :
                /\ d \in t.requests[k].by => d \in s.requests[k].by /\ (k \notin keys \/ d # c)
                /\ d \in s.requests[k].by /\ (k \notin keys \/ d # c) => StillPends(s, t, d, k)
<1> DEFINE F(k) == LET r == s.requests[k]
                   IN  IF k \notin keys THEN r
                       ELSE IF r.by \subseteq {c} THEN NoRequest
                       ELSE [r EXCEPT !.by = @ \ {c}]
           q == [k \in Keys |-> F(k)]
<1>1. t = [s EXCEPT !.requests = q]
  BY DEF Removed, Unrequested
<1>2. \A k \in Keys : q[k] = F(k)
  OBVIOUS
<1> HIDE DEF q
<1>3. t.requests = q /\ t.requested = s.requested
  BY Zenon, <1>1 DEF Hosts
<1>4. \A k \in Keys : s.requests[k] \in [old : MaybeClient, by : SUBSET Clients]
  BY DEF Hosts
<1>5. ASSUME NEW k \in Keys, NEW d \in Clients
      PROVE  /\ d \in F(k).by => d \in s.requests[k].by /\ (k \notin keys \/ d # c)
             /\ d \in s.requests[k].by /\ (k \notin keys \/ d # c) =>
                  d \in F(k).by /\ F(k).old = s.requests[k].old
  <2> DEFINE r == s.requests[k]
  <2>1. r \in [old : MaybeClient, by : SUBSET Clients]
    BY <1>4
  <2> HIDE DEF r
  <2>2. [r EXCEPT !.by = @ \ {c}].by = r.by \ {c} /\ [r EXCEPT !.by = @ \ {c}].old = r.old
    BY <2>1
  <2> QED BY Zenon, <2>2 DEF NoRequest, r
<1> QED BY Zenon, <1>2, <1>3, <1>5 DEF StillPends

\* Removing those of a dead client leaves those of others for others alone.
LEMMA DroppedBy ==
    ASSUME NEW s \in Hosts, NEW c \in Clients, NEW keys, NEW t, t = Dropped(s, c, keys)
    PROVE  /\ t.requested = s.requested
           /\ \A k \in Keys, d \in Clients :
                /\ d \in t.requests[k].by => d \in s.requests[k].by
                /\ d \in s.requests[k].by /\ d # c /\ s.requests[k].old # c => StillPends(s, t, d, k)
<1> DEFINE F(k) == LET r == s.requests[k]
                   IN  IF k \notin keys THEN r
                       ELSE IF r.old = c THEN NoRequest
                       ELSE IF r.by \subseteq {c} THEN NoRequest
                       ELSE [r EXCEPT !.by = @ \ {c}]
           q == [k \in Keys |-> F(k)]
<1>1. t = [s EXCEPT !.requests = q]
  BY DEF Removed, Dropped
<1>2. \A k \in Keys : q[k] = F(k)
  OBVIOUS
<1> HIDE DEF q
<1>3. t.requests = q /\ t.requested = s.requested
  BY Zenon, <1>1 DEF Hosts
<1>4. \A k \in Keys : s.requests[k] \in [old : MaybeClient, by : SUBSET Clients]
  BY DEF Hosts
<1>5. ASSUME NEW k \in Keys, NEW d \in Clients
      PROVE  /\ d \in F(k).by => d \in s.requests[k].by
             /\ d \in s.requests[k].by /\ d # c /\ s.requests[k].old # c =>
                  d \in F(k).by /\ F(k).old = s.requests[k].old
  <2> DEFINE r == s.requests[k]
  <2>1. r \in [old : MaybeClient, by : SUBSET Clients]
    BY <1>4
  <2> HIDE DEF r
  <2>2. [r EXCEPT !.by = @ \ {c}].by = r.by \ {c} /\ [r EXCEPT !.by = @ \ {c}].old = r.old
    BY <2>1
  <2> QED BY Zenon, <2>2 DEF NoRequest, r
<1> QED BY Zenon, <1>2, <1>3, <1>5 DEF StillPends

=============================================================================
