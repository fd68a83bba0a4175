------------------------------- MODULE MCHost -------------------------------
(***************************************************************************)
(* The routing host and what it knows of the network: the server that      *)
(* accepts the connections of local applications (LocalServer, which this  *)
(* module extends), remote services and discovery, the state of the        *)
(* network, security policies, the routing of messages and their           *)
(* end-to-end protection, checked side by side.  `part' chooses the        *)
(* instance that takes steps; the variables of the others are idle, those  *)
(* of the server in their initial state.                                   *)
(***************************************************************************)
EXTENDS LocalServer, Integers, Sequences, FiniteSets

CONSTANTS s1, s2, h1, t1, u1, NoPort, app1, app2, uid1, policy1, NoValue

VARIABLES part, changes, router, offered,
    r,                                                             \* RemoteServices
    active, announced, sent, epoch, wire, finds, c, heard, asked,       \* Discovery
    kernel, queue, requests, watcher, losses, blind, stranded,     \* NetworkState
    pm, force,                                                     \* PolicyRules
    policy, size,                                                  \* PolicyWire
    cache, update, call, task, client, used,                       \* PolicyDistribution
    cfg, life, up, requested, routes, view, linked, msg,           \* MessageRouting
    counter, seen, channel, sends, nr, last, verdict               \* E2eProtection

discoveryVars == <<active, announced, sent, epoch, wire, finds, c, heard, asked>>
networkVars == <<kernel, queue, requests, watcher, losses, blind, stranded>>
rulesVars == <<pm, force>>
wireVars == <<policy, size>>
distVars == <<cache, update, call, task, client, used>>
routingVars == <<life, up, requested, routes, view, linked, msg>>
e2eVars == <<counter, seen, channel, sends, nr, last, verdict>>
all == <<part, serverVars, changes, router, offered, r, discoveryVars, networkVars, rulesVars, wireVars,
         distVars, cfg, routingVars, e2eVars>>

-----------------------------------------------------------------------------
(* Discovery: the tables of the consumer, sessions that wrap and a provider *)
(* that restarts, several finds and repetitions.                            *)

P(t, v) == [k \in {"reliable", "unreliable"} |-> IF k = "reliable" THEN t ELSE v]
MCOffers(s) == IF s = s1 THEN {[host |-> h1, port |-> P(t1, u1)], [host |-> h1, port |-> P(t1, NoPort)]}
               ELSE {[host |-> h1, port |-> P(t1, NoPort)]}

Remote == INSTANCE RemoteServices WITH Services <- {s1, s2}, Hosts <- {h1}, Offers <- MCOffers,
              Ports <- {t1, u1}, Eps <- 1..3, MaxReports <- 1, TTL <- 0
Sessions == INSTANCE Discovery WITH Services <- {s1}, Width <- 3, MaxEpoch <- 1, MaxWire <- 1,
              Keys <- {"any"}, Gens <- {1}, RepetitionsMax <- 0, TTL <- 0
Restarts == INSTANCE Discovery WITH Services <- {s1}, Width <- 2, MaxEpoch <- 2, MaxWire <- 1,
              Keys <- {"any"}, Gens <- {1}, RepetitionsMax <- 0, TTL <- 0
Finds == INSTANCE Discovery WITH Services <- {s1}, Width <- 2, MaxEpoch <- 1, MaxWire <- 1,
              Keys <- {"any"}, Gens <- 1..2, RepetitionsMax <- 1, TTL <- 0

-----------------------------------------------------------------------------
(* Two network interfaces of which one gets the configured address. *)

Network == INSTANCE NetworkState WITH
    Ifs <- {1, 2}, WaitRoute <- TRUE, RequiresLink <- TRUE, InitialState <- "RESUMED",
    MaxChanges <- 2, MaxQueue <- 3, MaxLosses <- 1

-----------------------------------------------------------------------------
(* Policies.  Documents: single users, a blacklist, "deny nothing" for      *)
(* everyone else, overlapping entries, a body given twice.                  *)

Any == {<<0, 3>>}
Only(n) == {<<n, n>>}
Who(kind, uid, gid) == [tag |-> "credentials", kind |-> kind, list |-> {[uid |-> uid, gid |-> gid]}]
Body(tag, reqs, offs) == [tag |-> tag, requests |-> reqs, offers |-> offs]
Entry(service, instance, instances, plain) ==
    [service |-> service, instance |-> instance, instances |-> instances, plain |-> plain]
Some(ids, methods) == [ids |-> ids, methods |-> methods]

OfUserOne == <<Who("single", Only(1), Only(1)),
    Body("allow", {Entry(1, 2, {}, {}), Entry(2, 0, {Some({<<1, 2>>}, Only(2)), Some(Only(3), {})}, {})},
                  {Entry(1, 0, {}, {<<1, 2>>})})>>
OfUserTwo == <<Body("allow", {Entry(2, 0, {}, {<<2, 3>>})}, {}),
    Who("allow", Only(2), Any),
    Body("allow", {Entry(1, 4, {}, {})}, {Entry(2, 4, {}, {})})>>
NotUserTwo == <<Who("deny", Only(2), Any), Body("deny", {Entry(1, 1, {}, {})}, {Entry(1, 1, {}, {})})>>
Everyone == <<Who("ranges", {<<3, 3>>}, Any), Body("deny", {}, {})>>
Update(cred, reqs) == [who |-> {cred}, allow_who |-> TRUE, requests |-> reqs,
                       offers |-> {<<3, 1>>}, allow_what |-> TRUE]

Rules == INSTANCE PolicyRules WITH
    Top <- 3, Users <- 1..2, BaseFile <- "base",
    Files <- [base |-> [check |-> "true", policies |-> <<OfUserOne>>, uids |-> Only(1),
                        services |-> {<<1, 1>>, <<3, 3>>}, check_whitelist |-> TRUE],
              host |-> [check |-> "absent", policies |-> <<OfUserTwo, OfUserOne>>],
              other |-> [check |-> "true", policies |-> <<NotUserTwo, Everyone>>]],
    Updates <- [x \in {<<1, 1>>, <<1, 2>>, <<2, 1>>} |->
                   {Update(x, {<<1, 1, 1>>}), Update(x, {<<1, 1, 1>>, <<3, 3, 3>>}), Update(x, {<<2, 1, 1>>})}],
    Askers <- {<<1, 1>>, <<2, 1>>}, Asked <- {<<1, 1, 1>>}, MaxChanges <- 3

\* One or two intervals of services with one or two of instances.
Intervals == {<<1, 1>>, <<1, 2>>, <<3, 3>>}
MethodSets == {<<>>, <<<<2, 2>>>>, <<<<1, 1>>, <<3, 4>>>>}
Ids == {<<<<i, m>>>> : i \in {<<1, 1>>, <<2, 3>>}, m \in MethodSets} \cup
       {<<<<<<1, 2>>, m>>, <<<<4, 4>>, n>>>> : m \in MethodSets, n \in MethodSets}
Wire == INSTANCE PolicyWire WITH
    ANY_METHOD <- 9,
    Policies <- [uid : {1}, gid : {2}, offers : {<<<<<<1, 2>>, <<<<1, 1>>>>>>>>},
                 requests : {<< >>} \cup {<<<<x, i>>>> : x \in Intervals, i \in Ids} \cup
                     {<<<<<<1, 2>>, i>>, <<<<3, 3>>, j>>>> : i \in Ids, j \in Ids}]

Mixed == INSTANCE PolicyDistribution WITH
    Clients <- {app1, app2}, Uids <- {uid1}, Payloads <- {policy1}, Refusing <- {app2}, Requesters <- {app1},
    MaxCalls <- 1, MaxDisconnects <- 1, None <- NoValue
Leaving == INSTANCE PolicyDistribution WITH
    Clients <- {app1}, Uids <- {uid1}, Payloads <- {policy1}, Refusing <- {}, Requesters <- {},
    MaxCalls <- 2, MaxDisconnects <- 1, None <- NoValue
-----------------------------------------------------------------------------
(* Messages: one request while up to three things change, and the           *)
(* protection of two events with every profile, at both ends of its counter. *)

Routing == INSTANCE MessageRouting WITH Requests <- {1}, MaxLives <- 2, MaxChanges <- 3

E2eKeys == {<<"e", 1>>, <<"e", 256>>, <<"f", 1>>}
E2eTop == [x \in {"P01", "CSTM", "P04", "P05", "P07"} |->
    CASE x = "P04" -> 65535 [] x = "P05" -> 255 [] x = "P07" -> 1073741823 [] OTHER -> 14]
Config(x, mode, keys, sizes, starts, max) ==
    [profile |-> x, mode |-> mode, keys |-> keys, top |-> E2eTop[x], max_delta_counter |-> 1,
     min_data_length |-> 20, max_data_length |-> 80000, sizes |-> sizes, starts |-> starts, sends |-> max]
Wide == {Config(x, "BOTH", E2eKeys, {8, 30, 70000, 90000}, {0}, 2) : x \in DOMAIN E2eTop}
          \cup {Config("P01", m, E2eKeys, {8, 30}, {14}, 2) : m \in {"ALT", "LOW", "NIBBLE"}}
Long == {Config(x, "BOTH", {<<"e", 1>>}, {30}, {0, E2eTop[x] - 1}, 5) :
            x \in {"P04", "P05", "P07"}}
E2e == INSTANCE E2eProtection WITH
    Configurations <- Wide \cup Long, MaxInFlight <- 2,
    DataId <- [e \in {"e", "f"} |-> IF e = "e" THEN <<1, 2>> ELSE <<1, 3>>]

-----------------------------------------------------------------------------

IdleDiscovery == /\ active = 0 /\ announced = 0 /\ sent = 0 /\ epoch = 0 /\ wire = 0
                 /\ finds = 0 /\ c = 0 /\ heard = 0 /\ asked = 0
IdleNetwork == /\ kernel = 0 /\ queue = 0 /\ requests = 0 /\ watcher = 0
               /\ losses = 0 /\ blind = 0 /\ stranded = 0
IdlePolicies == pm = 0 /\ force = 0 /\ policy = 0 /\ size = 0
IdleDist == cache = 0 /\ update = 0 /\ call = 0 /\ task = 0 /\ client = 0 /\ used = 0
IdleRouting == /\ life = 0 /\ up = 0 /\ requested = 0 /\ routes = 0 /\ view = 0
               /\ linked = 0 /\ msg = 0
IdleE2e == counter = 0 /\ seen = 0 /\ channel = 0 /\ sends = 0 /\ nr = 0 /\ last = 0 /\ verdict = 0

PartInit ==
    \/ /\ part = "remote" /\ Remote!Init /\ changes = 0 /\ router = 0 /\ offered = 0 /\ cfg = 0
       /\ IdleDiscovery /\ IdleNetwork /\ IdlePolicies /\ IdleDist /\ IdleRouting /\ IdleE2e
    \/ /\ \/ part = "sessions" /\ Sessions!Init
          \/ part = "restarts" /\ Restarts!Init
          \/ part = "finds" /\ Finds!Init
       /\ changes = 0 /\ router = 0 /\ r = 0 /\ cfg = 0
       /\ IdleNetwork /\ IdlePolicies /\ IdleDist /\ IdleRouting /\ IdleE2e
    \/ /\ part = "network" /\ Network!Init /\ offered = 0 /\ r = 0 /\ cfg = 0
       /\ IdleDiscovery /\ IdlePolicies /\ IdleDist /\ IdleRouting /\ IdleE2e
    \/ /\ part = "rules" /\ Rules!Init /\ policy = 0 /\ size = 0
       /\ router = 0 /\ offered = 0 /\ r = 0 /\ cfg = 0
       /\ IdleDiscovery /\ IdleNetwork /\ IdleDist /\ IdleRouting /\ IdleE2e
    \/ /\ part = "wire" /\ Wire!Init /\ pm = 0 /\ force = 0
       /\ changes = 0 /\ router = 0 /\ offered = 0 /\ r = 0 /\ cfg = 0
       /\ IdleDiscovery /\ IdleNetwork /\ IdleDist /\ IdleRouting /\ IdleE2e
    \/ /\ \/ part = "mixed" /\ Mixed!Init
          \/ part = "leaving" /\ Leaving!Init
       /\ changes = 0 /\ offered = 0 /\ r = 0 /\ cfg = 0
       /\ IdleDiscovery /\ IdleNetwork /\ IdlePolicies /\ IdleRouting /\ IdleE2e
    \/ /\ part = "routing" /\ Routing!Init /\ router = 0 /\ r = 0
       /\ IdleDiscovery /\ IdleNetwork /\ IdlePolicies /\ IdleDist /\ IdleE2e
    \/ /\ part = "e2e" /\ E2e!Init /\ changes = 0 /\ router = 0 /\ offered = 0 /\ r = 0
       /\ IdleDiscovery /\ IdleNetwork /\ IdlePolicies /\ IdleDist /\ IdleRouting

AcceptInit ==
    /\ part = "server" /\ changes = 0 /\ router = 0 /\ offered = 0 /\ r = 0 /\ cfg = 0
    /\ IdleDiscovery /\ IdleNetwork /\ IdlePolicies /\ IdleDist /\ IdleRouting /\ IdleE2e

DiscoveryNext ==
    /\ \/ part = "sessions" /\ Sessions!Next
       \/ part = "restarts" /\ Restarts!Next
       \/ part = "finds" /\ Finds!Next
    /\ UNCHANGED <<part, changes, router, r, networkVars, rulesVars, wireVars, distVars, cfg, routingVars, e2eVars>>

DistributionNext ==
    /\ \/ part = "mixed" /\ Mixed!Next
       \/ part = "leaving" /\ Leaving!Next
    /\ UNCHANGED <<part, changes, offered, r, discoveryVars, networkVars, rulesVars, wireVars, cfg, routingVars, e2eVars>>

PartNext ==
    \/ /\ part = "remote" /\ Remote!Next
       /\ UNCHANGED <<part, changes, router, offered, discoveryVars, networkVars, rulesVars, wireVars, distVars, cfg, routingVars, e2eVars>>
    \/ DiscoveryNext
    \/ /\ part = "network" /\ Network!Next
       /\ UNCHANGED <<part, offered, r, discoveryVars, rulesVars, wireVars, distVars, cfg, routingVars, e2eVars>>
    \/ /\ part = "rules" /\ Rules!Next
       /\ UNCHANGED <<part, router, offered, r, discoveryVars, networkVars, wireVars, distVars, cfg, routingVars, e2eVars>>
    \/ /\ part = "wire" /\ Wire!Next
       /\ UNCHANGED <<part, changes, router, offered, r, discoveryVars, networkVars, rulesVars, distVars, cfg, routingVars, e2eVars>>
    \/ DistributionNext
    \/ /\ part = "routing" /\ Routing!Next
       /\ UNCHANGED <<part, router, r, discoveryVars, networkVars, rulesVars, wireVars, distVars, e2eVars>>
    \/ /\ part = "e2e" /\ E2e!Next
       /\ UNCHANGED <<part, changes, router, offered, r, discoveryVars, networkVars, rulesVars, wireVars, distVars, routingVars>>

AcceptNext ==
    /\ part = "server" /\ ServerNext
    /\ UNCHANGED <<part, changes, router, offered, r, discoveryVars, networkVars, rulesVars, wireVars, distVars, cfg, routingVars, e2eVars>>

MCInit == ServerInit /\ (PartInit \/ AcceptInit)
MCNext == (PartNext /\ UNCHANGED serverVars) \/ AcceptNext

MCSpec == MCInit /\ [][MCNext]_all
NetworkSpec == MCInit /\ part = "network" /\ [][MCNext]_all
E2eSpec == MCInit /\ part = "e2e" /\ [][MCNext]_all

-----------------------------------------------------------------------------

\* The tables of remote services and client endpoints agree, and no report that
\* a service has become available is lost for good (RemoteServices).
RemoteTablesAgree == part = "remote" => Remote!TablesAgree /\ Remote!BecomesAvailable

\* Only a provider that has begun new sessions is taken for rebooted, and a
\* request is looked for until its service is offered (Discovery).
NoFalseReboot ==
    /\ part = "sessions" => Sessions!NoFalseReboot
    /\ part = "restarts" => Restarts!NoFalseReboot
    /\ part = "finds" => Finds!NoFalseReboot /\ Finds!SearchesFully

\* The routing manager follows the interface, a network that is there is
\* noticed, and no offer waits for it (NetworkState).
RouterFollows == part = "network" => Network!RouterFollows /\ Network!NothingWaits /\ Network!ComesUp

\* Every decision is the one the policies in force give, and a policy arrives
\* whole or is refused (PolicyRules, PolicyWire).
DecisionsFollowPolicies ==
    /\ part = "rules" => Rules!DecisionsFollowPolicies
    /\ part = "wire" => Wire!ArrivesOrIsRefused

\* The caller of an update hears once, of a success when it is one, and the
\* registered clients have what the router has (PolicyDistribution).
ReportedOnceAndTrue ==
    /\ part = "mixed" => Mixed!ReportedOnceAndTrue /\ Mixed!LateClientComplete
    /\ part = "leaving" => Leaving!ReportedOnceAndTrue /\ Leaving!LateClientComplete

\* A request goes where it may, is answered unless something changed on its
\* way, and nobody gets the answer to another's request (MessageRouting).
AnsweredIfPermitted ==
    part = "routing" => Routing!PermittedOnly /\ Routing!AnsweredUnlessDisturbed /\ Routing!NoForeignAnswer

\* What is accepted is genuine and in sequence, and what is both is accepted
\* (E2eProtection).
AcceptedIsGenuine ==
    part = "e2e" => E2e!AcceptedIsGenuine /\ E2e!AcceptedIsInSequence /\ E2e!GenuineIsAccepted

\* Discovery runs only with a route for its multicast group (NetworkState).
RouteIsPresent == part = "network" => Network!RouteIsPresent

\* Large messages are protected and accepted (E2eProtection).
LargeIsAccepted == part = "e2e" => E2e!LargeIsAccepted
=============================================================================
