------------------------ MODULE RoutingConnections ------------------------
(***************************************************************************)
(* How the routing host takes connections of applications in and lets them *)
(* go: local_server::add_connection, the client identifiers of utility,    *)
(* the routing endpoints of endpoint_manager_impl, the registration in     *)
(* routing_manager_stub and routing_manager_impl::cleanup_client.          *)
(*                                                                         *)
(* Each of them has a mutex of its own, so one connection is a chain of    *)
(* steps of io threads: identifier assigned, endpoint created (handed),    *)
(* life cycle token checked (checked), installed or queued as pending, and *)
(* registered (information, policies, acknowledge).  Its end is a chain    *)
(* too, executed under routing_manager_impl::mutex_ by one thread at a     *)
(* time: deregister, remove (and promote a pending successor), register    *)
(* the successor, release the identifier.  stop() and                      *)
(* change_connection_control() run beside them.                            *)
(***************************************************************************)
EXTENDS Naturals, FiniteSets

CONSTANTS Conns,       \* connections, each used once
          Names,       \* applications
          ConfiguredId,\* configuration::get_id: Names -> Ids, or Unset
          DynamicIds,  \* identifiers the routing host hands out, ascending
          Unset,       \* VSOMEIP_CLIENT_UNSET
          Peers,       \* peer endpoints: [tcp, ip, port]; a UDS client may advertise
                       \* the address it can be reached at, or NoIp
          NoIp,
          None,
          MayStop,     \* whether routing_manager_impl::stop() is called
          MayBlock     \* whether change_connection_control() is called

ConfiguredIds == {ConfiguredId[n] : n \in Names} \ {Unset}
Ids == ConfiguredIds \cup DynamicIds \cup {Unset}
Ips == {p.ip : p \in Peers} \ {NoIp}

\* configuration_impl::load_application_data refuses a second application with a
\* client identifier that is configured already.
ASSUME ConnectionsAssumption ==
    /\ Names # {} /\ Peers # {}
    /\ DynamicIds \subseteq Nat
    /\ DOMAIN ConfiguredId = Names
    /\ \A m, n \in Names : (ConfiguredId[m] = ConfiguredId[n] /\ ConfiguredId[m] # Unset) => m = n
    /\ \A p \in Peers : p.tcp \in BOOLEAN /\ (p.tcp => p.ip # NoIp)
    /\ Unset \notin DynamicIds /\ None \notin Conns /\ None \notin Ips
    /\ MayStop \in BOOLEAN /\ MayBlock \in BOOLEAN

VARIABLES conn,      \* the connections
          used,      \* used_clients_
          routing,   \* routing_endpoints_
          pending,   \* pending_routing_endpoints_
          info,      \* keys of routing_info_
          calls,     \* connections whose cleanup handler was called and waits for mutex_
          cleanup,   \* the cleanup_client() that holds mutex_
          blocked,   \* blocked_addresses_
          control,   \* the change_connection_control(BLOCK) that is under way
          stop       \* progress of routing_manager_impl::stop()

vars == <<conn, used, routing, pending, info, calls, cleanup, blocked, control, stop>>

Phases == {"idle", "assigned", "handed", "checked", "pending", "installed", "closed"}
Registration == {"no", "info", "policies", "ack", "done"}
AnyName == CHOOSE n \in Names : TRUE
AnyPeer == CHOOSE p \in Peers : TRUE
Idle == [c |-> None, pc |-> "idle", promoted |-> None]

Init ==
    /\ conn = [c \in Conns |-> [phase |-> "idle", name |-> AnyName,
                                id |-> Unset, peer |-> AnyPeer,
                                failed |-> FALSE, error |-> FALSE, reg |-> "no",
                                policies |-> FALSE, acked |-> FALSE]]
    /\ used = {}
    /\ routing = [i \in Ids |-> None]
    /\ pending = [i \in Ids |-> None]
    /\ info = {} /\ calls = {}
    /\ cleanup = Idle
    /\ blocked = {}
    /\ control = None
    /\ stop = "no"

-----------------------------------------------------------------------------
(* utility *)

FreeIds == {i \in DynamicIds : i \notin used /\ i \notin ConfiguredIds}
LeastFreeId == CHOOSE i \in FreeIds : \A j \in FreeIds : i <= j

\* Bug: an identifier in use is given to whoever asks for it.
RequestClientId_Shared(name, requested) ==
    IF requested # Unset THEN requested
    ELSE IF FreeIds = {} THEN Unset
    ELSE LeastFreeId

\* utility::request_client_id: the identifier returned.
RequestClientId(name, requested) ==
    IF requested # Unset /\ requested \notin used THEN requested
    ELSE IF requested # Unset /\ ConfiguredId[name] # Unset THEN ConfiguredId[name]
    ELSE IF FreeIds = {} THEN Unset
    ELSE LeastFreeId

-----------------------------------------------------------------------------
(* local_server *)

\* tmp_connection::receive_cbk gets ASSIGN_CLIENT: a configured application asks
\* for its identifier, any other for none or for one it had before.
AssignClient(c, name, requested, peer) ==
    /\ conn[c].phase = "idle"
    /\ requested \in IF ConfiguredId[name] # Unset THEN {ConfiguredId[name]}
                     ELSE (DynamicIds \ ConfiguredIds) \cup {Unset}
    /\ LET id == RequestClientId(name, requested)
       IN  /\ conn' = [conn EXCEPT ![c].phase = "assigned", ![c].name = name,
                                   ![c].id = id, ![c].peer = peer]
           /\ used' = IF id = Unset THEN used ELSE used \cup {id}
    /\ UNCHANGED <<routing, pending, info, calls, cleanup, blocked, control, stop>>

\* local_server::add_connection up to its unlock: a connection of a former life
\* cycle is dropped, one that is not allowed (create_server_ep) or blocked also
\* gives its identifier back.
AddConnection(c, allowed) ==
    /\ conn[c].phase = "assigned"
    /\ LET sameLifecycle == stop \in {"no", "servers"}
           accepted == allowed /\ ~(conn[c].peer.tcp /\ conn[c].peer.ip \in blocked)
       IN  /\ conn' = [conn EXCEPT ![c].phase = IF sameLifecycle /\ accepted THEN "handed" ELSE "closed"]
           /\ used' = IF sameLifecycle /\ ~accepted THEN used \ {conn[c].id} ELSE used
    /\ UNCHANGED <<routing, pending, info, calls, cleanup, blocked, control, stop>>

\* The connection handler of routing_manager_stub::start checks lc_token_.
CheckToken(c) ==
    /\ conn[c].phase = "handed"
    /\ conn' = [conn EXCEPT ![c].phase = IF stop = "no" THEN "checked" ELSE "closed"]
    /\ UNCHANGED <<used, routing, pending, info, calls, cleanup, blocked, control, stop>>

-----------------------------------------------------------------------------
(* endpoint_manager_impl *)

\* trigger_error() on an endpoint: the error is posted.
WithError(cs, c) == [cs EXCEPT ![c].error = TRUE]
Closed(cs, c) == IF c = None THEN cs ELSE [cs EXCEPT ![c].phase = "closed"]
SamePeer(c) == {d \in Conns : /\ conn[c].peer.ip # NoIp
                              /\ conn[d].peer.ip = conn[c].peer.ip /\ conn[d].peer.port = conn[c].peer.port
                              /\ \E i \in Ids \ {conn[c].id} : routing[i] = d}

\* add_local_routing_endpoint_unlocked where no endpoint of the identifier exists:
\* at most one other client of the same peer is told to go.
Installed(cs, c) == [cs EXCEPT ![c].phase = "installed"]
Install(cs, c) ==
    /\ routing' = [routing EXCEPT ![conn[c].id] = c]
    /\ IF SamePeer(c) = {} THEN conn' = Installed(cs, c)
       ELSE \E d \in SamePeer(c) : conn' = Installed(WithError(cs, d), c)

\* Bug: the endpoint that is in the way is not told to go.
AddRoutingEndpoint_NoError(c) ==
    /\ conn[c].phase = "checked"
    /\ LET id == conn[c].id
       IN  IF routing[id] # None
             THEN /\ conn' = [Closed(conn, pending[id]) EXCEPT ![c].phase = "pending"]
                  /\ pending' = [pending EXCEPT ![id] = c]
                  /\ UNCHANGED routing
             ELSE /\ Install([conn EXCEPT ![c].reg = "info"], c)
                  /\ UNCHANGED pending
    /\ UNCHANGED <<used, info, calls, cleanup, blocked, control, stop>>

\* Bug: a new endpoint replaces the one that has not been cleaned up.
AddRoutingEndpoint_Replaces(c) ==
    /\ conn[c].phase = "checked"
    /\ Install([conn EXCEPT ![c].reg = "info"], c)
    /\ UNCHANGED <<used, pending, info, calls, cleanup, blocked, control, stop>>

\* add_local_routing_endpoint
AddRoutingEndpoint(c) ==
    /\ conn[c].phase = "checked"
    /\ LET id == conn[c].id
       IN  IF routing[id] # None
             THEN /\ conn' = WithError([Closed(conn, pending[id]) EXCEPT ![c].phase = "pending"], routing[id])
                  /\ pending' = [pending EXCEPT ![id] = c]
                  /\ UNCHANGED routing
             ELSE /\ Install([conn EXCEPT ![c].reg = "info"], c)
                  /\ UNCHANGED pending
    /\ UNCHANGED <<used, info, calls, cleanup, blocked, control, stop>>

-----------------------------------------------------------------------------
(* routing_manager_stub::on_register_application, one action per lock *)

Registering(c) == conn[c].reg \in {"info", "policies", "ack"}

\* The sends go to whatever endpoint the identifier has at that moment.
Registered(cs, step, c) ==
    LET target == routing[conn[c].id]
    IN  CASE step = "info" -> [cs EXCEPT ![c].reg = "policies"]
          [] step = "policies" ->
                 [d \in Conns |->
                     [cs[d] EXCEPT !.reg = IF d = c THEN "ack" ELSE @,
                                   !.policies = @ \/ d = target]]
          [] step = "ack" ->
                 [d \in Conns |->
                     [cs[d] EXCEPT !.reg = IF d = c THEN "done" ELSE @,
                                   !.acked = @ \/ d = target]]

\* One step of on_register_application for the connection c.
Register(c) ==
    /\ Registering(c)
    /\ conn' = Registered(conn, conn[c].reg, c)
    /\ info' = IF conn[c].reg = "info" THEN info \cup {conn[c].id} ELSE info
    /\ UNCHANGED <<used, routing, pending, calls, cleanup, blocked, control, stop>>

-----------------------------------------------------------------------------
(* Failure and cleanup *)

\* escalate_internal of an installed endpoint: an I/O error, or the posted error.
Fail(c) ==
    /\ conn[c].phase = "installed" /\ ~conn[c].failed
    /\ conn' = [conn EXCEPT ![c].failed = TRUE]
    /\ calls' = calls \cup {c}
    /\ UNCHANGED <<used, routing, pending, info, cleanup, blocked, control, stop>>

PostedError(c) == conn[c].error /\ Fail(c)

\* cleanup_client takes mutex_; on_deregister_application.
Deregister(c) ==
    /\ c \in calls /\ cleanup = Idle
    /\ calls' = calls \ {c}
    /\ cleanup' = [c |-> c, pc |-> "remove", promoted |-> None]
    /\ info' = info \ {conn[c].id}
    /\ UNCHANGED <<conn, used, routing, pending, blocked, control, stop>>

\* remove_local and remove_routing_endpoint: whatever endpoint has the identifier
\* is stopped and erased, a pending one takes its place.
RemoveEndpoint ==
    /\ cleanup.pc = "remove"
    /\ LET id == conn[cleanup.c].id
           p == pending[id]
           closed == Closed(conn, routing[id])
       IN  IF p = None
             THEN /\ conn' = closed
                  /\ routing' = [routing EXCEPT ![id] = None]
                  /\ cleanup' = [cleanup EXCEPT !.pc = "release"]
                  /\ UNCHANGED pending
             ELSE /\ Install([closed EXCEPT ![p].reg = "info"], p)
                  /\ pending' = [pending EXCEPT ![id] = None]
                  /\ cleanup' = [cleanup EXCEPT !.pc = "register", !.promoted = p]
    /\ UNCHANGED <<used, info, calls, blocked, control, stop>>

\* The promoted endpoint is registered (Register) before cleanup goes on.
PromotedRegistered ==
    /\ cleanup.pc = "register" /\ ~Registering(cleanup.promoted)
    /\ cleanup' = [cleanup EXCEPT !.pc = "release"]
    /\ UNCHANGED <<conn, used, routing, pending, info, calls, blocked, control, stop>>

\* Bug: the routing information goes last, as the identifier does.
ReleaseClientId_WithInfo ==
    /\ cleanup.pc = "release"
    /\ used' = used \ {conn[cleanup.c].id}
    /\ info' = info \ {conn[cleanup.c].id}
    /\ cleanup' = Idle
    /\ UNCHANGED <<conn, routing, pending, calls, blocked, control, stop>>

\* release_client_id, the end of deregister_client.
ReleaseClientId ==
    /\ cleanup.pc = "release"
    /\ used' = used \ {conn[cleanup.c].id}
    /\ cleanup' = Idle
    /\ UNCHANGED <<conn, routing, pending, info, calls, blocked, control, stop>>

-----------------------------------------------------------------------------
(* change_connection_control and routing_manager_impl::stop *)

BlockFrom(a) ==
    /\ MayBlock /\ control = None
    /\ blocked' = blocked \cup {a}
    /\ control' = a
    /\ UNCHANGED <<conn, used, routing, pending, info, calls, cleanup, stop>>

AllowFrom(a) ==
    /\ MayBlock /\ a \in blocked
    /\ blocked' = blocked \ {a}
    /\ UNCHANGED <<conn, used, routing, pending, info, calls, cleanup, control, stop>>

\* drop_from
DropFrom ==
    /\ control # None
    /\ LET dropped == {c \in Conns : conn[c].peer.ip = control /\ \E i \in Ids : pending[i] = c}
           errors == {c \in Conns : conn[c].peer.ip = control /\ \E i \in Ids : routing[i] = c}
       IN  /\ conn' = [c \in Conns |-> [conn[c] EXCEPT !.phase = IF c \in dropped THEN "closed" ELSE @,
                                                       !.error = @ \/ c \in errors]]
           /\ pending' = [i \in Ids |-> IF pending[i] \in dropped THEN None ELSE pending[i]]
    /\ control' = None
    /\ UNCHANGED <<used, routing, info, calls, cleanup, blocked, stop>>

\* routing_manager_stub::stop: lc_token_ first, then the servers.
StubStop ==
    /\ MayStop /\ stop = "no"
    /\ stop' = "servers"
    /\ UNCHANGED <<conn, used, routing, pending, info, calls, cleanup, blocked, control>>

StopServers ==
    /\ stop = "servers"
    /\ stop' = "clear"
    /\ UNCHANGED <<conn, used, routing, pending, info, calls, cleanup, blocked, control>>

\* clear_routing_endpoints
ClearRoutingEndpoints ==
    /\ stop = "clear"
    /\ conn' = [c \in Conns |-> IF \E i \in Ids : c \in {routing[i], pending[i]}
                                  THEN [conn[c] EXCEPT !.phase = "closed"] ELSE conn[c]]
    /\ routing' = [i \in Ids |-> None]
    /\ pending' = [i \in Ids |-> None]
    /\ stop' = "reset"
    /\ UNCHANGED <<used, info, calls, cleanup, blocked, control>>

\* reset_client_ids
ResetClientIds ==
    /\ stop = "reset"
    /\ used' = {}
    /\ stop' = "done"
    /\ UNCHANGED <<conn, routing, pending, info, calls, cleanup, blocked, control>>

-----------------------------------------------------------------------------

Next ==
    \/ \E c \in Conns :
          \/ \E n \in Names, p \in Peers, r \in Ids : AssignClient(c, n, r, p)
          \/ \E allowed \in BOOLEAN : AddConnection(c, allowed)
          \/ CheckToken(c)
          \/ AddRoutingEndpoint(c)
          \/ Register(c)
          \/ Fail(c)
          \/ Deregister(c)
    \/ RemoveEndpoint \/ PromotedRegistered \/ ReleaseClientId
    \/ \E a \in Ips : BlockFrom(a) \/ AllowFrom(a)
    \/ DropFrom
    \/ StubStop \/ StopServers \/ ClearRoutingEndpoints \/ ResetClientIds

Spec == Init /\ [][Next]_vars

\* The io threads run what is posted and finish what they have begun; no
\* connection has to fail by itself.
Fairness ==
    /\ \A c \in Conns : /\ WF_vars(CheckToken(c)) /\ WF_vars(AddRoutingEndpoint(c))
                        /\ WF_vars(Register(c)) /\ WF_vars(PostedError(c))
                        /\ WF_vars(Deregister(c))
    /\ WF_vars(RemoveEndpoint) /\ WF_vars(PromotedRegistered) /\ WF_vars(ReleaseClientId)

FairSpec == Spec /\ Fairness

-----------------------------------------------------------------------------

\* Identifiers stay in the range utility::request_client_id hands out, and the
\* tables hold connections only.
TypeOK ==
    /\ conn \in [Conns -> [phase : Phases, name : Names, id : Ids, peer : Peers,
                           failed : BOOLEAN, error : BOOLEAN, reg : Registration,
                           policies : BOOLEAN, acked : BOOLEAN]]
    /\ used \subseteq Ids
    /\ routing \in [Ids -> Conns \cup {None}]
    /\ pending \in [Ids -> Conns \cup {None}]
    /\ info \subseteq Ids
    /\ calls \subseteq Conns
    /\ blocked \subseteq Ips

Live(c) == conn[c].phase \in {"assigned", "handed", "checked", "pending", "installed"} /\ ~conn[c].failed

\* Two applications never hold the same identifier at a time: connections that
\* share one belong to the same configured application, however registration,
\* reconnection, failures and releases overlap, until stop() resets them all.
OneApplicationPerId ==
    stop # "done" => \A c, d \in Conns : (Live(c) /\ Live(d) /\ conn[c].id = conn[d].id /\ conn[c].id # Unset)
        => conn[c].name = conn[d].name /\ (c # d => ConfiguredId[conn[c].name] = conn[c].id)

\* A connection that is queued behind an old one waits for something that will
\* happen: the old one is installed and has failed or has been told to.
PendingHasPredecessor ==
    \A i \in Ids : pending[i] # None =>
        /\ routing[i] # None
        /\ conn[routing[i]].failed \/ conn[routing[i]].error

\* cleanup_client(_client) knows only an identifier; it removes the connection
\* that failed, never one that took its place (as long as stop() has not intervened).
RemovesTheFailed ==
    [][\A i \in Ids : (cleanup.pc = "remove" /\ stop = "no" /\ routing[i] # None /\ routing'[i] # routing[i])
           => routing[i] = cleanup.c]_vars

\* The routing information of a connection whose registration is complete survives
\* the cleanup of its predecessor, which erases by identifier as well.
RegisteredIsKnown ==
    \A c \in Conns : (stop = "no" /\ conn[c].phase = "installed" /\ conn[c].reg = "done" /\ ~conn[c].failed)
        => conn[c].id \in info

\* A queued connection is promoted or closed in the end.
PendingEnds == \A c \in Conns : conn[c].phase = "pending" ~> conn[c].phase # "pending"

\* An installed connection gets its ASSIGN_CLIENT_ACK, or is gone.
InstalledIsAcked ==
    \A c \in Conns : conn[c].phase = "installed" ~> (conn[c].acked \/ conn[c].phase = "closed")

\* on_register_application: ASSIGN_CLIENT_ACK "Must be sent after the security
\* credentials" the connection needs.
AckAfterPolicies == \A c \in Conns : conn[c].acked => conn[c].policies

\* change_connection_control: once drop_from has returned "no endpoint is in a
\* transient state into the endpoint_manager_impl", so that no endpoint of a
\* blocked address is or becomes installed.
BlockedIsDropped ==
    \A i \in Ids : LET c == routing[i] IN
        (c # None /\ control = None) =>
            (~conn[c].peer.tcp \/ conn[c].peer.ip \notin blocked \/ conn[c].error \/ conn[c].failed)
=============================================================================
