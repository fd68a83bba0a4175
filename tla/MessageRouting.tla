---------------------------- MODULE MessageRouting ----------------------------
(***************************************************************************)
(* The way of a request and of its answer. The application "a" calls a     *)
(* method of the local service "l", offered by the application "p", on     *)
(* their own connection or by way of the router, and of the service "r" of *)
(* another host; a client of the other host calls "l"                      *)
(* (routing_manager_client::send and on_message, routing_manager_stub,     *)
(* routing_manager_impl::send and on_message).                             *)
(*                                                                         *)
(* One request causes one message at a time, so its state is the place of  *)
(* that message: "a>r" is on the connection from a to the router, "p" is   *)
(* with the application p, "net" with the other host. The applications     *)
(* come, go and come again under the same client id.                       *)
(***************************************************************************)
EXTENDS Naturals, FiniteSets

CONSTANTS
  Requests,       \* requests made
  MaxLives,       \* bound: registrations of an application
  MaxChanges      \* bound: changes of offers, requests and routes

VARIABLES
  cfg,            \* what the policies and the configuration allow
  life,           \* registration of a and p; up[x] says whether it lasts
  up,
  offered,        \* the router knows p as the provider of l
  requested,      \* services the router knows a as a requester of
  routes,         \* transports of r there is an endpoint for
  view,           \* what a knows of l: "none", "unnamed" (the provider's
                  \* identity is not known) or "named"
  linked,         \* p has an endpoint for a's own connection
  msg,            \* the message of each request
  changes

vars == <<cfg, life, up, offered, requested, routes, view, linked, msg, changes>>

Apps == {"a", "p"}
Transports == {"tcp", "udp"}

Unsent == [at |-> "unsent", type |-> "request", by |-> "a", to |-> "l", fire |-> FALSE,
           good |-> TRUE, over |-> "tcp", life |-> 0, seen |-> FALSE, fair |-> FALSE, by_router |-> FALSE, stray |-> FALSE]

\* the connections of an application, and the application itself
Places(x) == IF x = "a" THEN {"a>r", "a>p", "r>a", "p>a"} ELSE {"p>r", "a>p", "r>p", "p>a", "p"}
Lost(m) == [m EXCEPT !.at = "lost"]

(***************************************************************************)
(* The routing host.                                                       *)
(***************************************************************************)
\* find_service(...)->is_local() for the service of a message
IsLocal(m) == m.to = "l" /\ offered

\* find_or_create_remote_client, the transport asked for or else the other
RemoteTarget(m) == m.to = "r" /\ (m.over \in routes \/ routes # {})

\* routing_manager_impl::send for a request
RequestRouted(m) ==
  IF IsLocal(m) /\ up["p"] THEN [m EXCEPT !.at = "r>p", !.by_router = TRUE]
  ELSE IF RemoteTarget(m) THEN [m EXCEPT !.at = "r>net"]
  ELSE Lost(m)

\* what reaches a by way of the router; stray if this registration of a
\* neither made the request nor requests the service
ToCaller(m) == [m EXCEPT !.at = "r>a", !.by_router = TRUE,
                         !.stray = m.life # life["a"] /\ m.to \notin requested]

\* Bug: the answer is passed on to whoever has the client id
AnswerRouted_Anyone(m) ==
  IF m.by = "a" THEN IF up["a"] THEN ToCaller(m) ELSE Lost(m)
  ELSE IF IsLocal(m) THEN [m EXCEPT !.at = "r>net"] ELSE Lost(m)

\* routing_manager_impl::send for a response or an error: of a service that is
\* not offered here, only a requester gets the answers
AnswerRouted(m) ==
  IF m.by = "a" THEN IF up["a"] /\ (IsLocal(m) \/ m.to \in requested) THEN ToCaller(m) ELSE Lost(m)
  ELSE IF IsLocal(m) THEN [m EXCEPT !.at = "r>net"] ELSE Lost(m)

Routed(m) == IF m.type = "request" THEN RequestRouted(m) ELSE AnswerRouted(m)

\* check_error: a version nobody offers, or a service that is not offered here
check_error(m) ==
  IF m.type # "request" THEN "ok"
  ELSE IF ~offered THEN "unknown_service"
  ELSE IF ~m.good THEN "wrong_version" ELSE "ok"

\* send_error back to where the request came from, unless it asks for nothing
send_error(m) == IF m.fire THEN Lost(m) ELSE [m EXCEPT !.type = "error", !.at = "r>net"]

is_acl_message_allowed(m) == cfg.acl

\* routing_manager_impl::on_message for a message of another host
FromNetwork(m) ==
  IF check_error(m) # "ok" THEN send_error(m)
  ELSE IF m.type # "request" /\ routes = {} THEN Lost(m)    \* no matching instance
  ELSE IF m.type = "request" /\ ~(cfg.offered_remote /\ cfg.remote_access) THEN Lost(m)
  ELSE IF ~is_acl_message_allowed(m) THEN Lost(m)
  ELSE Routed(m)

\* SEND in routing_manager_stub::on_message: requests are checked against the
\* policy of the application they come from
FromApplication(m) ==
  IF m.type = "request" /\ m.to = "l" /\ ~cfg.member_access THEN Lost(m) ELSE Routed(m)

Place(n, m) == msg' = [msg EXCEPT ![n] = m]

HostReceives(n) ==
  /\ msg[n].at \in {"a>r", "p>r", "net>r"}
  /\ Place(n, IF msg[n].at = "net>r" THEN FromNetwork(msg[n]) ELSE FromApplication(msg[n]))
  /\ UNCHANGED <<cfg, life, up, offered, requested, routes, view, linked, changes>>

(***************************************************************************)
(* The applications.                                                       *)
(***************************************************************************)
\* routing_manager_client::send of a request: on a's own connection if the
\* provider is known by name and may offer, otherwise by way of the router
Call(n, to, fire, over) ==
  /\ msg[n].at = "unsent"
  /\ up["a"]
  /\ to \in requested
  /\ IF to = "l" THEN view # "none" ELSE routes # {}
  /\ LET m == [Unsent EXCEPT !.to = to, !.fire = fire, !.over = over, !.life = life["a"],
                 !.fair = IF to = "l" THEN offered /\ up["p"] /\ (view = "named" => cfg.offer_access)
                          ELSE TRUE]
     IN \/ /\ to = "l" /\ view = "named" /\ cfg.offer_access /\ up["p"]
           /\ linked' = TRUE
           /\ Place(n, [m EXCEPT !.at = "a>p"])
        \/ \* the service of another host, an unnamed provider or no connection to it
           /\ to = "r" \/ view = "unnamed" \/ (cfg.offer_access /\ ~up["p"])
           /\ linked' = linked
           /\ Place(n, [m EXCEPT !.at = "a>r"])
        \/ /\ to = "l" /\ view = "named" /\ ~cfg.offer_access
           /\ linked' = linked
           /\ Place(n, Lost(m))
  /\ UNCHANGED <<cfg, life, up, offered, requested, routes, view, changes>>

\* SEND in routing_manager_client::on_message at the provider
ProviderReceives(n) ==
  /\ msg[n].at \in {"r>p", "a>p"}
  /\ Place(n, IF (IF msg[n].at = "a>p" THEN cfg.member_access ELSE cfg.remote_access)
              THEN [msg[n] EXCEPT !.at = IF msg[n].fire THEN "done" ELSE "p", !.seen = TRUE]
              ELSE Lost(msg[n]))
  /\ UNCHANGED <<cfg, life, up, offered, requested, routes, view, linked, changes>>

\* routing_manager_client::send of a response: on the connection the client
\* has to this provider, otherwise by way of the router
Answer(n) ==
  /\ msg[n].at = "p"
  /\ Place(n, [msg[n] EXCEPT !.type = "response", !.at = IF msg[n].by = "a" /\ linked THEN "p>a" ELSE "p>r"])
  /\ UNCHANGED <<cfg, life, up, offered, requested, routes, view, linked, changes>>

\* SEND in routing_manager_client::on_message at the caller
CallerReceives(n) ==
  /\ msg[n].at \in {"r>a", "p>a"}
  /\ Place(n, IF (IF msg[n].at = "p>a" THEN cfg.offer_access ELSE cfg.remote_access)
              THEN [msg[n] EXCEPT !.at = "done"]
              ELSE Lost(msg[n]))
  /\ UNCHANGED <<cfg, life, up, offered, requested, routes, view, linked, changes>>

\* The other host: its client calls l, its service answers.
RemoteCall(n, fire, good) ==
  /\ msg[n].at = "unsent"
  /\ Place(n, [Unsent EXCEPT !.by = "remote", !.fire = fire, !.good = good, !.at = "net>r", !.fair = TRUE])
  /\ UNCHANGED <<cfg, life, up, offered, requested, routes, view, linked, changes>>

NetworkReceives(n) ==
  /\ msg[n].at = "r>net"
  /\ Place(n, IF msg[n].by = "remote" \/ msg[n].fire THEN [msg[n] EXCEPT !.at = "done"]
              ELSE [msg[n] EXCEPT !.type = "response", !.at = "net>r"])
  /\ UNCHANGED <<cfg, life, up, offered, requested, routes, view, linked, changes>>

(***************************************************************************)
(* What happens meanwhile. Requests it interferes with are no longer       *)
(* "fair": nobody promises an answer to them.                              *)
(***************************************************************************)
Disturbed(hit(_), drop(_)) ==
  [n \in Requests |-> LET m == msg[n]
                          h == [m EXCEPT !.fair = @ /\ ~hit(m)]
                      IN IF drop(m) THEN Lost(h) ELSE h]

Change == changes < MaxChanges /\ changes' = changes + 1
Nothing(m) == FALSE

\* an application leaves: the router forgets its offers and requests
Leave(x) ==
  /\ Change /\ up[x]
  /\ up' = [up EXCEPT ![x] = FALSE]
  /\ msg' = LET hit(m) == (x = "a" /\ m.by = "a") \/ (x = "p" /\ m.to = "l")
                drop(m) == m.at \in Places(x)
            IN Disturbed(hit, drop)
  /\ linked' = FALSE
  /\ offered' = (offered /\ x # "p")
  /\ requested' = IF x = "a" THEN {} ELSE requested
  /\ view' = IF x = "a" THEN "none" ELSE view
  /\ UNCHANGED <<cfg, life, routes>>

Enter(x) ==
  /\ ~up[x] /\ life[x] < MaxLives
  /\ up' = [up EXCEPT ![x] = TRUE]
  /\ life' = [life EXCEPT ![x] = @ + 1]
  /\ UNCHANGED <<cfg, offered, requested, routes, view, linked, msg, changes>>

Offer ==
  /\ up["p"] /\ ~offered
  /\ Change
  /\ offered' = TRUE
  /\ UNCHANGED <<cfg, life, up, requested, routes, view, linked, msg>>

StopOffer ==
  /\ offered /\ Change
  /\ offered' = FALSE
  /\ msg' = LET hit(m) == m.to = "l" IN Disturbed(hit, Nothing)
  /\ UNCHANGED <<cfg, life, up, requested, routes, view, linked>>

Request(s) ==
  /\ up["a"] /\ s \notin requested
  /\ requested' = requested \cup {s}
  /\ UNCHANGED <<cfg, life, up, offered, routes, view, linked, msg, changes>>

Release(s) ==
  /\ up["a"] /\ s \in requested /\ Change
  /\ requested' = requested \ {s}
  /\ view' = IF s = "l" THEN "none" ELSE view
  /\ msg' = LET hit(m) == m.by = "a" /\ m.to = s IN Disturbed(hit, Nothing)
  /\ UNCHANGED <<cfg, life, up, offered, routes, linked>>

\* routing info reaches a some time later
Learn ==
  /\ up["a"] /\ "l" \in requested
  /\ view' \in (IF offered THEN {"unnamed", "named"} ELSE {"none"}) \ {view}
  /\ UNCHANGED <<cfg, life, up, offered, requested, routes, linked, msg, changes>>

RouteAdded(t) ==
  /\ t \notin routes
  /\ routes' = routes \cup {t}
  /\ UNCHANGED <<cfg, life, up, offered, requested, view, linked, msg, changes>>

RouteRemoved(t) ==
  /\ t \in routes /\ Change
  /\ routes' = routes \ {t}
  /\ msg' = LET hit(m) == m.to = "r" /\ routes' = {} IN Disturbed(hit, Nothing)
  /\ UNCHANGED <<cfg, life, up, offered, requested, view, linked>>

LinkBreaks ==
  /\ linked /\ Change
  /\ linked' = FALSE
  /\ msg' = LET cut(m) == m.at \in {"a>p", "p>a"} IN Disturbed(cut, cut)
  /\ UNCHANGED <<cfg, life, up, offered, requested, routes, view>>

Init ==
  /\ cfg \in [member_access : BOOLEAN, offer_access : BOOLEAN, remote_access : BOOLEAN,
              offered_remote : BOOLEAN, acl : BOOLEAN]
  /\ Cardinality({f \in DOMAIN cfg : ~cfg[f]}) <= 1
  /\ life = [x \in Apps |-> 1] /\ up = [x \in Apps |-> TRUE]
  /\ offered = TRUE /\ requested = {"l", "r"} /\ routes = Transports
  /\ view = "none" /\ linked = FALSE /\ changes = 0
  /\ msg = [n \in Requests |-> Unsent]

Step(n) ==
  \/ HostReceives(n) \/ ProviderReceives(n) \/ Answer(n) \/ CallerReceives(n) \/ NetworkReceives(n)
  \/ \E to \in {"l", "r"}, fire \in BOOLEAN, over \in Transports : Call(n, to, fire, over)
  \/ \E fire, good \in BOOLEAN : RemoteCall(n, fire, good)

Next ==
  \/ \E n \in Requests : Step(n)
  \/ \E x \in Apps : Leave(x) \/ Enter(x)
  \/ Offer \/ StopOffer \/ Learn \/ LinkBreaks
  \/ \E s \in {"l", "r"} : Request(s) \/ Release(s)
  \/ \E t \in Transports : RouteAdded(t) \/ RouteRemoved(t)

(***************************************************************************)
(* What it is for.                                                         *)
(***************************************************************************)
Permitted(m) ==
  /\ m.by = "a" /\ m.to = "l" => cfg.member_access /\ (m.by_router => cfg.remote_access)
  /\ m.by = "a" /\ m.to = "r" => cfg.remote_access /\ cfg.acl
  /\ m.by = "remote" => cfg.offered_remote /\ cfg.remote_access /\ cfg.acl

\* On whichever way it comes, a request reaches the provider only if the
\* policies let the caller have it: the checks of the stub, of the provider
\* and of routing_manager_impl::on_message leave no way around them.
PermittedOnly ==
  \A n \in Requests : msg[n].seen =>
    /\ msg[n].by = "a" => cfg.member_access
    /\ msg[n].by = "remote" => cfg.offered_remote /\ cfg.remote_access /\ cfg.acl

\* A request that expects an answer gets one - a response or an error - if the
\* policies permit it and the caller, the provider and the way between them
\* stay: whatever changes on other ways, no message of it is dropped
\* (routing_manager_impl::send, routing_manager_client::send).
AnsweredUnlessDisturbed ==
  \A n \in Requests : msg[n].at = "lost" /\ msg[n].fair /\ ~msg[n].fire => ~Permitted(msg[n])

\* The answer of another host's service never reaches an application that got
\* the client id of the caller but does not request the service (the requester
\* check of routing_manager_impl::send).
NoForeignAnswer ==
  \A n \in Requests : msg[n].to = "r" => ~msg[n].stray
=============================================================================
