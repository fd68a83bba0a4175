--------------------- MODULE RoutingConnectionsProofs ---------------------
(***************************************************************************)
(* What RoutingConnections promises, proved for any number of connections, *)
(* applications, identifiers and peers.  The inductive invariant says that *)
(* the tables of endpoint_manager_impl agree with the connections, that a  *)
(* connection fails while it is installed and is cleaned up once, and that *)
(* an identifier utility has handed out belongs to one connection from     *)
(* ASSIGN_CLIENT to release_client_id.  It has one lemma per action.       *)
(***************************************************************************)
EXTENDS RoutingConnections, WellFoundedInduction, TLAPS

\* The records cleanup_client() goes through.
Cleanups == [c : Conns \cup {None}, pc : {"idle", "remove", "register", "release"}, promoted : Conns \cup {None}]

\* The type invariant, with the variables TypeOK leaves open.
FullType ==
    /\ TypeOK
    /\ cleanup \in Cleanups
    /\ cleanup.pc = "idle" <=> cleanup.c = None
    /\ cleanup.pc = "register" => cleanup.promoted \in Conns
    /\ control \in Ips \cup {None}
    /\ stop \in {"no", "servers", "clear", "reset", "done"}

\* The tables of the endpoint manager and the connections agree.
Tables ==
    /\ \A i \in Ids : routing[i] # None => conn[routing[i]].phase = "installed" /\ conn[routing[i]].id = i
    /\ \A c \in Conns : conn[c].phase = "installed" => routing[conn[c].id] = c
    /\ \A i \in Ids : pending[i] # None => conn[pending[i]].phase = "pending" /\ conn[pending[i]].id = i
    /\ \A c \in Conns : conn[c].phase = "pending" => pending[conn[c].id] = c

\* A connection fails while it is installed and is cleaned up once.
Failures ==
    /\ \A c \in Conns : conn[c].failed => conn[c].phase \in {"installed", "closed"}
    /\ \A c \in calls : conn[c].failed /\ (stop \in {"no", "servers", "clear"} => conn[c].phase = "installed")
    /\ cleanup.c # None => conn[cleanup.c].failed /\ cleanup.c \notin calls
    /\ (cleanup.pc = "remove" /\ stop \in {"no", "servers", "clear"}) => conn[cleanup.c].phase = "installed"
    /\ cleanup.pc \in {"register", "release"} => conn[cleanup.c].phase = "closed"

\* A connection registers once it is installed.
Registrations ==
    \A c \in Conns : conn[c].reg # "no" => conn[c].phase \in {"installed", "closed"}

\* A registration that has passed add_known_client keeps its routing information
\* until the connection fails.
Known ==
    \A c \in Conns : (stop = "no" /\ conn[c].phase = "installed" /\ ~conn[c].failed
                        /\ conn[c].reg \in {"policies", "ack", "done"}) => conn[c].id \in info

\* A connection keeps its identifier from ASSIGN_CLIENT until it is closed and,
\* if it has failed, until its cleanup has released the identifier.
Holding(c) ==
    \/ conn[c].phase \in {"assigned", "handed", "checked", "pending", "installed"}
    \/ c \in calls
    \/ cleanup.c = c

\* A configured identifier belongs to its application; any other one in use has a
\* single holder, and utility knows that it is used.
Identifiers ==
    /\ \A c \in Conns : conn[c].phase = "idle" => conn[c].id = Unset
    /\ \A c \in Conns : conn[c].id \in ConfiguredIds => ConfiguredId[conn[c].name] = conn[c].id
    /\ stop # "done" =>
         \A c \in Conns : (Holding(c) /\ conn[c].id # Unset /\ conn[c].id \notin ConfiguredIds) =>
             conn[c].id \in used /\ \A d \in Conns : (Holding(d) /\ conn[d].id = conn[c].id) => d = c

\* The inductive invariant.
IInv == FullType /\ Tables /\ PendingHasPredecessor /\ Failures /\ Registrations /\ Known /\ Identifiers

\* A connection.
ConnType == [phase : Phases, name : Names, id : Ids, peer : Peers, failed : BOOLEAN, error : BOOLEAN,
             reg : Registration, policies : BOOLEAN, acked : BOOLEAN]

\* A routing host that has just started has no connections and empty tables.
LEMMA InitIInv == Init => IInv
<1> SUFFICES ASSUME Init PROVE IInv
  OBVIOUS
<1>1. AnyName \in Names /\ AnyPeer \in Peers
  BY Zenon, ConnectionsAssumption DEF AnyName, AnyPeer
<1>2. cleanup.c = None /\ cleanup.pc = "idle" /\ cleanup \in Cleanups /\ calls = {}
  BY DEF Init, Idle, Cleanups
<1>3. FullType
  BY <1>1, <1>2 DEF Init, FullType, TypeOK, Phases, Registration, Ids
<1>4. Tables /\ PendingHasPredecessor
  BY DEF Init, Tables, PendingHasPredecessor
<1>5. Failures /\ Registrations /\ Known
  BY <1>2 DEF Init, Failures, Registrations, Known
<1>6. Identifiers
  BY <1>2, ConnectionsAssumption DEF Init, Identifiers, ConfiguredIds
<1> QED
  BY <1>3, <1>4, <1>5, <1>6 DEF IInv

\* While an identifier is free, utility::request_client_id finds the least one: the
\* naturals are well-founded.
LEMMA LeastFreeIdIsFree == ASSUME FreeIds # {} PROVE LeastFreeId \in FreeIds
<1>1. FreeIds \subseteq Nat
  BY Zenon, ConnectionsAssumption DEF FreeIds
<1>2. PICK x \in FreeIds : \A y \in FreeIds : ~ (<<y, x>> \in OpToRel(<, Nat))
  BY Zenon, <1>1, NatLessThanWellFounded, WFMin
<1>3. \A y \in FreeIds : x <= y
  <2> SUFFICES ASSUME NEW y \in FreeIds, ~ (x <= y) PROVE FALSE
    OBVIOUS
  <2>1. <<y, x>> \in OpToRel(<, Nat)
    BY <1>1 DEF OpToRel
  <2> QED
    BY Zenon, <2>1, <1>2
<1> QED
  BY <1>3, Zenon DEF LeastFreeId

\* utility::request_client_id gives a configured application its own identifier,
\* and any other one an identifier that is not used.
LEMMA AssignedId ==
    ASSUME NEW n \in Names, NEW r,
           r \in IF ConfiguredId[n] # Unset THEN {ConfiguredId[n]} ELSE (DynamicIds \ ConfiguredIds) \cup {Unset}
    PROVE  /\ RequestClientId(n, r) \in Ids
           /\ RequestClientId(n, r) \in ConfiguredIds => ConfiguredId[n] = RequestClientId(n, r)
           /\ RequestClientId(n, r) \notin ConfiguredIds \cup {Unset} => RequestClientId(n, r) \notin used
<1>1. FreeIds # {} => LeastFreeId \in DynamicIds /\ LeastFreeId \notin used /\ LeastFreeId \notin ConfiguredIds
  BY LeastFreeIdIsFree DEF FreeIds
<1>2. ConfiguredId[n] # Unset => ConfiguredId[n] \in ConfiguredIds
  BY DEF ConfiguredIds
<1> QED
  BY <1>1, <1>2, ConnectionsAssumption DEF RequestClientId, Ids

\* tmp_connection::receive_cbk: the new holder of an identifier is its only one.
LEMMA AssignClientIInv ==
    ASSUME IInv, NEW c \in Conns, NEW n \in Names, NEW p \in Peers, NEW r \in Ids, AssignClient(c, n, r, p)
    PROVE  IInv'
<1> DEFINE id == RequestClientId(n, r)
           new == [conn[c] EXCEPT !.phase = "assigned", !.name = n, !.id = id, !.peer = p]
<1>1. /\ id \in Ids
      /\ id \in ConfiguredIds => ConfiguredId[n] = id
      /\ id \notin ConfiguredIds \cup {Unset} => id \notin used
  BY AssignedId DEF AssignClient
<1>2. conn \in [Conns -> ConnType] /\ conn[c] \in ConnType
  BY DEF IInv, FullType, TypeOK, ConnType
<1>3. conn[c].phase = "idle" /\ conn' = [conn EXCEPT ![c] = new]
      /\ used' = IF id = Unset THEN used ELSE used \cup {id}
  BY Zenon, <1>2 DEF AssignClient
<1>4. new \in ConnType
  BY <1>1, <1>2, Zenon DEF ConnType, Phases
<1>5. new.phase = "assigned" /\ new.id = id /\ new.name = n /\ new.reg = conn[c].reg /\ new.failed = conn[c].failed
      /\ new.error = conn[c].error
  BY <1>2 DEF ConnType
<1> HIDE DEF id, new
<1>6. conn' \in [Conns -> ConnType] /\ conn'[c] = new /\ \A d \in Conns : d # c => conn'[d] = conn[d]
  BY <1>2, <1>3, <1>4
<1>u. UNCHANGED <<routing, pending, info, calls, cleanup, blocked, control, stop>>
  BY DEF AssignClient
<1>7. FullType'
  BY <1>1, <1>3, <1>6, <1>u DEF IInv, FullType, TypeOK, ConnType
<1>8. Tables' /\ PendingHasPredecessor'
  BY <1>3, <1>5, <1>6, <1>u, ConnectionsAssumption DEF IInv, FullType, TypeOK, Tables, PendingHasPredecessor
<1>9. Failures' /\ Registrations'
  BY <1>3, <1>5, <1>6, <1>u DEF IInv, FullType, TypeOK, Cleanups, Failures, Registrations
<1>10. Known'
  BY <1>3, <1>5, <1>6, <1>u DEF IInv, Known
<1>11. Identifiers'
  BY <1>1, <1>3, <1>5, <1>6, <1>u DEF IInv, FullType, TypeOK, Identifiers, Holding, Failures
<1> QED
  BY <1>7, <1>8, <1>9, <1>10, <1>11 DEF IInv

\* local_server::add_connection: a connection that is refused gives back its
\* identifier, which nobody else holds.
LEMMA AddConnectionIInv ==
    ASSUME IInv, NEW c \in Conns, NEW allowed \in BOOLEAN, AddConnection(c, allowed)
    PROVE  IInv'
<1>1. PICK ph \in {"handed", "closed"} :
          /\ conn[c].phase = "assigned"
          /\ conn' = [conn EXCEPT ![c].phase = ph]
          /\ used' = used \/ (ph = "closed" /\ used' = used \ {conn[c].id})
  BY Zenon DEF AddConnection
<1>2. conn \in [Conns -> ConnType] /\ conn[c] \in ConnType
  BY DEF IInv, FullType, TypeOK, ConnType
<1>3. conn' \in [Conns -> ConnType] /\ \A d \in Conns : d # c => conn'[d] = conn[d]
  BY <1>1, <1>2 DEF ConnType, Phases
<1>4. /\ conn'[c].phase = ph /\ conn'[c].id = conn[c].id /\ conn'[c].name = conn[c].name
      /\ conn'[c].reg = conn[c].reg /\ conn'[c].failed = conn[c].failed /\ conn'[c].error = conn[c].error
  BY <1>1, <1>2 DEF ConnType
<1>u. UNCHANGED <<routing, pending, info, calls, cleanup, blocked, control, stop>>
  BY DEF AddConnection
<1>5. FullType'
  BY <1>1, <1>3, <1>u DEF IInv, FullType, TypeOK, ConnType
<1>6. Tables' /\ PendingHasPredecessor'
  BY <1>1, <1>3, <1>4, <1>u, ConnectionsAssumption DEF IInv, FullType, TypeOK, Tables, PendingHasPredecessor
<1>7. Failures' /\ Registrations'
  BY <1>1, <1>3, <1>4, <1>u DEF IInv, FullType, TypeOK, Cleanups, Failures, Registrations
<1>8. Known'
  BY <1>1, <1>3, <1>4, <1>u DEF IInv, Known
<1>9. \A d \in Conns : Holding(d)' => Holding(d)
  BY <1>1, <1>3, <1>4, <1>u DEF Holding
<1>10. ph = "closed" => ~Holding(c)'
  BY <1>1, <1>4, <1>u, ConnectionsAssumption DEF IInv, FullType, TypeOK, Failures, Holding
<1>11. Identifiers'
  <2>1. /\ \A d \in Conns : conn'[d].phase = "idle" => conn'[d].id = Unset
        /\ \A d \in Conns : conn'[d].id \in ConfiguredIds => ConfiguredId[conn'[d].name] = conn'[d].id
    BY <1>1, <1>3, <1>4 DEF IInv, Identifiers
  <2>2. \A d \in Conns : conn'[d].id = conn[d].id
    BY <1>3, <1>4
  <2>3. Holding(c)
    BY <1>1 DEF Holding
  <2>4. ASSUME stop' # "done", NEW d \in Conns, Holding(d)', conn'[d].id # Unset, conn'[d].id \notin ConfiguredIds
        PROVE  conn'[d].id \in used' /\ \A e \in Conns : (Holding(e)' /\ conn'[e].id = conn'[d].id) => e = d
    BY <1>1, <1>9, <1>10, <1>u, <2>2, <2>3, <2>4 DEF IInv, Identifiers
  <2> QED
    BY <2>1, <2>4 DEF Identifiers
<1> QED
  BY <1>5, <1>6, <1>7, <1>8, <1>11 DEF IInv

\* The check of the life cycle token closes a connection or lets it pass.
LEMMA CheckTokenIInv == ASSUME IInv, NEW c \in Conns, CheckToken(c) PROVE IInv'
<1>1. PICK ph \in {"checked", "closed"} :
          /\ conn[c].phase = "handed"
          /\ conn' = [conn EXCEPT ![c].phase = ph]
  BY Zenon DEF CheckToken
<1>2. conn \in [Conns -> ConnType] /\ conn[c] \in ConnType
  BY DEF IInv, FullType, TypeOK, ConnType
<1>3. conn' \in [Conns -> ConnType] /\ \A d \in Conns : d # c => conn'[d] = conn[d]
  BY <1>1, <1>2 DEF ConnType, Phases
<1>4. /\ conn'[c].phase = ph /\ conn'[c].id = conn[c].id /\ conn'[c].name = conn[c].name
      /\ conn'[c].reg = conn[c].reg /\ conn'[c].failed = conn[c].failed /\ conn'[c].error = conn[c].error
  BY <1>1, <1>2 DEF ConnType
<1>u. UNCHANGED <<used, routing, pending, info, calls, cleanup, blocked, control, stop>>
  BY DEF CheckToken
<1>5. FullType'
  BY <1>1, <1>3, <1>u DEF IInv, FullType, TypeOK, ConnType
<1>6. Tables' /\ PendingHasPredecessor'
  BY <1>1, <1>3, <1>4, <1>u, ConnectionsAssumption DEF IInv, FullType, TypeOK, Tables, PendingHasPredecessor
<1>7. Failures' /\ Registrations'
  BY <1>1, <1>3, <1>4, <1>u DEF IInv, FullType, TypeOK, Cleanups, Failures, Registrations
<1>8. Known'
  BY <1>1, <1>3, <1>4, <1>u DEF IInv, Known
<1>9. Identifiers'
  BY <1>1, <1>3, <1>4, <1>u DEF IInv, FullType, TypeOK, Identifiers, Holding, Failures
<1> QED
  BY <1>5, <1>6, <1>7, <1>8, <1>9 DEF IInv

\* A connection that fails is installed, and its cleanup is called once.
LEMMA FailIInv == ASSUME IInv, NEW c \in Conns, Fail(c) PROVE IInv'
<1>1. /\ conn[c].phase = "installed" /\ ~conn[c].failed
      /\ conn' = [conn EXCEPT ![c].failed = TRUE]
      /\ calls' = calls \cup {c}
  BY DEF Fail
<1>2. conn \in [Conns -> ConnType] /\ conn[c] \in ConnType
  BY DEF IInv, FullType, TypeOK, ConnType
<1>3. conn' \in [Conns -> ConnType] /\ \A d \in Conns : d # c => conn'[d] = conn[d]
  BY Zenon, <1>1, <1>2 DEF ConnType
<1>4. /\ conn'[c].phase = conn[c].phase /\ conn'[c].id = conn[c].id /\ conn'[c].name = conn[c].name
      /\ conn'[c].reg = conn[c].reg /\ conn'[c].failed /\ conn'[c].error = conn[c].error
  BY <1>1, <1>2 DEF ConnType
<1>u. UNCHANGED <<used, routing, pending, info, cleanup, blocked, control, stop>>
  BY DEF Fail
<1>5. FullType'
  BY <1>1, <1>3, <1>u DEF IInv, FullType, TypeOK, ConnType
<1>6. Tables' /\ PendingHasPredecessor'
  BY <1>1, <1>3, <1>4, <1>u, ConnectionsAssumption DEF IInv, FullType, TypeOK, Tables, PendingHasPredecessor
<1>7. Failures' /\ Registrations'
  BY <1>1, <1>3, <1>4, <1>u DEF IInv, FullType, TypeOK, Cleanups, Failures, Registrations
<1>8. Known'
  BY <1>1, <1>3, <1>4, <1>u DEF IInv, Known
<1>9. Identifiers'
  BY <1>1, <1>3, <1>4, <1>u DEF IInv, FullType, TypeOK, Identifiers, Holding, Failures
<1> QED
  BY <1>5, <1>6, <1>7, <1>8, <1>9 DEF IInv

\* on_deregister_application erases the routing information of a connection that
\* has failed, and of no other that is installed: they would share the identifier.
LEMMA DeregisterIInv == ASSUME IInv, NEW c \in Conns, Deregister(c) PROVE IInv'
<1>1. /\ c \in calls /\ cleanup.c = None /\ cleanup.pc = "idle"
      /\ calls' = calls \ {c}
      /\ info' = info \ {conn[c].id}
      /\ cleanup' \in Cleanups /\ cleanup'.c = c /\ cleanup'.pc = "remove"
  BY DEF Deregister, Idle, Cleanups
<1>u. UNCHANGED <<conn, used, routing, pending, blocked, control, stop>>
  BY DEF Deregister
<1>5. FullType'
  BY <1>1, <1>u, ConnectionsAssumption DEF IInv, FullType, TypeOK
<1>6. Tables' /\ PendingHasPredecessor'
  BY <1>u DEF IInv, Tables, PendingHasPredecessor
<1>7. Failures' /\ Registrations'
  BY <1>1, <1>u DEF IInv, FullType, TypeOK, Failures, Registrations
<1>8. Known'
  BY <1>1, <1>u DEF IInv, FullType, TypeOK, Tables, Failures, Known
<1>9. Identifiers'
  BY <1>1, <1>u DEF IInv, FullType, TypeOK, Identifiers, Holding
<1> QED
  BY <1>5, <1>6, <1>7, <1>8, <1>9 DEF IInv

\* Going on after the registration of the promoted endpoint changes no table.
LEMMA PromotedRegisteredIInv == ASSUME IInv, PromotedRegistered PROVE IInv'
<1>1. /\ cleanup.pc = "register"
      /\ cleanup' \in Cleanups /\ cleanup'.c = cleanup.c /\ cleanup'.pc = "release"
  BY DEF PromotedRegistered, IInv, FullType, Cleanups
<1>u. UNCHANGED <<conn, used, routing, pending, info, calls, blocked, control, stop>>
  BY DEF PromotedRegistered
<1>5. FullType'
  BY <1>1, <1>u DEF IInv, FullType, TypeOK
<1>6. Tables' /\ PendingHasPredecessor' /\ Registrations' /\ Known'
  BY <1>u DEF IInv, Tables, PendingHasPredecessor, Registrations, Known
<1>7. Failures'
  BY <1>1, <1>u DEF IInv, Failures
<1>9. Identifiers'
  BY <1>1, <1>u DEF IInv, Identifiers, Holding
<1> QED
  BY <1>5, <1>6, <1>7, <1>9 DEF IInv

\* release_client_id: the connection that held the identifier is closed by then.
LEMMA ReleaseClientIdIInv == ASSUME IInv, ReleaseClientId PROVE IInv'
<1>1. /\ cleanup.pc = "release" /\ cleanup.c \in Conns
      /\ used' = used \ {conn[cleanup.c].id}
      /\ cleanup' \in Cleanups /\ cleanup'.c = None /\ cleanup'.pc = "idle"
  BY DEF ReleaseClientId, IInv, FullType, Cleanups, Idle
<1>u. UNCHANGED <<conn, routing, pending, info, calls, blocked, control, stop>>
  BY DEF ReleaseClientId
<1>5. FullType'
  BY <1>1, <1>u DEF IInv, FullType, TypeOK
<1>6. Tables' /\ PendingHasPredecessor' /\ Registrations' /\ Known'
  BY <1>u DEF IInv, Tables, PendingHasPredecessor, Registrations, Known
<1>7. Failures'
  BY SMTT(30), <1>1, <1>u DEF IInv, Failures
<1>9. Identifiers'
  BY <1>1, <1>u, ConnectionsAssumption DEF IInv, Failures, Identifiers, Holding
<1> QED
  BY <1>5, <1>6, <1>7, <1>9 DEF IInv

\* change_connection_control and the steps of stop() that leave connections alone.
LEMMA ControlIInv ==
    ASSUME IInv, (\E a \in Ips : BlockFrom(a) \/ AllowFrom(a)) \/ StubStop \/ StopServers \/ ResetClientIds
    PROVE  IInv'
<1>1. /\ UNCHANGED <<conn, routing, pending, info, calls, cleanup>>
      /\ used' = used \/ (used' = {} /\ stop' = "done")
      /\ control' \in Ips \cup {None} /\ blocked' \subseteq Ips
      /\ stop' = stop \/ (stop = "no" /\ stop' = "servers") \/ (stop = "servers" /\ stop' = "clear")
                      \/ (stop = "reset" /\ stop' = "done")
  BY DEF IInv, FullType, TypeOK, BlockFrom, AllowFrom, StubStop, StopServers, ResetClientIds
<1>2. FullType'
  BY SMTT(30), <1>1 DEF IInv, FullType, TypeOK
<1>3. Tables' /\ PendingHasPredecessor' /\ Registrations'
  BY <1>1 DEF IInv, Tables, PendingHasPredecessor, Registrations
<1>4. Failures' /\ Known'
  BY <1>1 DEF IInv, Failures, Known
<1>5. Identifiers'
  BY <1>1 DEF IInv, Identifiers, Holding
<1> QED
  BY <1>2, <1>3, <1>4, <1>5 DEF IInv

\* What the registration steps leave alone.
Untouched(d) ==
    /\ conn'[d].phase = conn[d].phase /\ conn'[d].id = conn[d].id /\ conn'[d].name = conn[d].name
    /\ conn'[d].failed = conn[d].failed /\ conn'[d].error = conn[d].error

\* on_register_application, whichever endpoint its sends reach.
LEMMA RegisterIInv == ASSUME IInv, NEW c \in Conns, Register(c) PROVE IInv'
<1>1. conn \in [Conns -> ConnType]
  BY DEF IInv, FullType, TypeOK, ConnType
<1>2. conn[c].reg \in {"info", "policies", "ack"}
  BY DEF Register, Registering
<1>3. /\ conn' \in [Conns -> ConnType]
      /\ \A d \in Conns : Untouched(d) /\ (d # c => conn'[d].reg = conn[d].reg)
  <2>1. CASE conn[c].reg = "info"
    BY <1>1, <2>1 DEF Register, Registered, ConnType, Registration, Untouched
  <2>2. CASE conn[c].reg = "policies"
    <3> DEFINE target == routing[conn[c].id]
    <3>1. conn' = [d \in Conns |-> [conn[d] EXCEPT !.reg = IF d = c THEN "ack" ELSE conn[d].reg,
                                                   !.policies = conn[d].policies \/ d = target]]
      BY Zenon, <2>2 DEF Register, Registered
    <3> HIDE DEF target
    <3>2. ASSUME NEW d \in Conns PROVE conn'[d] \in ConnType
      <4>1. (conn[d].policies \/ d = target) \in BOOLEAN
        OBVIOUS
      <4>2. (IF d = c THEN "ack" ELSE conn[d].reg) \in Registration
        BY <1>1 DEF ConnType, Registration
      <4>3. conn[d] \in ConnType
        BY SMTT(30), <1>1
      <4>4. conn'[d] = [conn[d] EXCEPT !.reg = IF d = c THEN "ack" ELSE conn[d].reg,
                                       !.policies = conn[d].policies \/ d = target]
        BY ZenonT(60), <3>1
      <4> QED
        BY <4>1, <4>2, <4>3, <4>4, Zenon DEF ConnType
    <3>3. conn' \in [Conns -> ConnType]
      BY ZenonT(60), <3>1, <3>2
    <3>4. \A d \in Conns : Untouched(d) /\ (d # c => conn'[d].reg = conn[d].reg)
      BY ZenonT(60), <1>1, <3>1 DEF ConnType, Untouched
    <3> QED
      BY <3>3, <3>4, ZenonT(60)
  <2>3. CASE conn[c].reg = "ack"
    <3> DEFINE target == routing[conn[c].id]
    <3>1. conn' = [d \in Conns |-> [conn[d] EXCEPT !.reg = IF d = c THEN "done" ELSE conn[d].reg,
                                                   !.acked = conn[d].acked \/ d = target]]
      BY Zenon, <2>3 DEF Register, Registered
    <3> HIDE DEF target
    <3>2. ASSUME NEW d \in Conns PROVE conn'[d] \in ConnType
      <4>1. (conn[d].acked \/ d = target) \in BOOLEAN
        OBVIOUS
      <4>2. (IF d = c THEN "done" ELSE conn[d].reg) \in Registration
        BY SMTT(30), <1>1 DEF ConnType, Registration
      <4>3. conn[d] \in ConnType
        BY <1>1
      <4>4. conn'[d] = [conn[d] EXCEPT !.reg = IF d = c THEN "done" ELSE conn[d].reg,
                                       !.acked = conn[d].acked \/ d = target]
        BY ZenonT(60), <3>1
      <4> QED
        BY <4>1, <4>2, <4>3, <4>4, Zenon DEF ConnType
    <3>3. conn' \in [Conns -> ConnType]
      BY ZenonT(60), <3>1, <3>2
    <3>4. \A d \in Conns : Untouched(d) /\ (d # c => conn'[d].reg = conn[d].reg)
      BY ZenonT(60), <1>1, <3>1 DEF ConnType, Untouched
    <3> QED
      BY <3>3, <3>4, Zenon
  <2> QED
    BY <1>2, <2>1, <2>2, <2>3, Zenon
<1>4. info' = IF conn[c].reg = "info" THEN info \cup {conn[c].id} ELSE info
  BY DEF Register
<1>u. UNCHANGED <<used, routing, pending, calls, cleanup, blocked, control, stop>>
  BY DEF Register
<1>5. FullType'
  BY SMTT(30), <1>1, <1>3, <1>4, <1>u DEF IInv, FullType, TypeOK, ConnType
<1>6. Tables' /\ PendingHasPredecessor'
  BY SMTT(30), <1>3, <1>u DEF Untouched, IInv, FullType, TypeOK, Tables, PendingHasPredecessor
<1>7. Failures' /\ Registrations'
  BY SMTT(30), <1>2, <1>3, <1>u, ConnectionsAssumption DEF Untouched, IInv, FullType, TypeOK, Cleanups, Failures, Registrations
<1>8. Known'
  BY <1>2, <1>3, <1>4, <1>u DEF Untouched, IInv, Known
<1>9. Identifiers'
  BY <1>3, <1>u DEF Untouched, IInv, Identifiers, Holding
<1> QED
  BY <1>5, <1>6, <1>7, <1>8, <1>9 DEF IInv

\* drop_from closes endpoints that are pending and tells installed ones to go.
LEMMA DropFromIInv == ASSUME IInv, DropFrom PROVE IInv'
<1> DEFINE dropped == {c \in Conns : conn[c].peer.ip = control /\ \E i \in Ids : pending[i] = c}
           errors == {c \in Conns : conn[c].peer.ip = control /\ \E i \in Ids : routing[i] = c}
<1>1. conn \in [Conns -> ConnType]
  BY SMTT(30) DEF IInv, FullType, TypeOK, ConnType
<1>2. /\ conn' = [c \in Conns |-> [conn[c] EXCEPT !.phase = IF c \in dropped THEN "closed" ELSE @,
                                                   !.error = @ \/ c \in errors]]
      /\ pending' = [i \in Ids |-> IF pending[i] \in dropped THEN None ELSE pending[i]]
      /\ control' = None
  BY Zenon DEF DropFrom
<1>3. \A c \in dropped : conn[c].phase = "pending"
  BY SMTT(30), ConnectionsAssumption DEF IInv, Tables
<1> HIDE DEF dropped, errors
<1>4. /\ conn' \in [Conns -> ConnType]
      /\ \A c \in Conns : /\ conn'[c].phase = IF c \in dropped THEN "closed" ELSE conn[c].phase
                          /\ conn'[c].id = conn[c].id /\ conn'[c].name = conn[c].name
                          /\ conn'[c].failed = conn[c].failed /\ conn'[c].reg = conn[c].reg
                          /\ conn[c].error => conn'[c].error
  BY ZenonT(60), <1>1, <1>2 DEF ConnType, Phases
<1>u. UNCHANGED <<used, routing, info, calls, cleanup, blocked, stop>>
  BY Zenon DEF DropFrom
<1>5. FullType'
  BY ZenonT(60), <1>2, <1>4, <1>u DEF IInv, FullType, TypeOK, ConnType
<1>6. \A i \in Ids : pending'[i] = IF pending[i] \in dropped THEN None ELSE pending[i]
  BY Zenon, <1>2
<1>10. Tables'
  <2>1. \A c \in Conns : conn[c].id \in Ids
    BY <1>1 DEF ConnType
  <2>2. \A i \in Ids : routing'[i] # None => conn'[routing'[i]].phase = "installed" /\ conn'[routing'[i]].id = i
    BY SMTT(30), <1>3, <1>4, <1>u DEF IInv, FullType, TypeOK, Tables
  <2>3. \A c \in Conns : conn'[c].phase = "installed" => routing'[conn'[c].id] = c
    BY <1>4, <1>u DEF IInv, Tables
  <2>4. \A i \in Ids : pending'[i] # None => conn'[pending'[i]].phase = "pending" /\ conn'[pending'[i]].id = i
    BY SMTT(30), <1>4, <1>6 DEF IInv, FullType, TypeOK, Tables
  <2>5. \A c \in Conns : conn'[c].phase = "pending" => pending'[conn'[c].id] = c
    BY <1>4, <1>6, <2>1 DEF IInv, Tables
  <2> QED
    BY <2>2, <2>3, <2>4, <2>5 DEF Tables
<1>9. PendingHasPredecessor'
  <2>1. ASSUME NEW i \in Ids, pending'[i] # None
        PROVE  routing[i] \in Conns /\ (conn[routing[i]].failed \/ conn[routing[i]].error)
    BY SMTT(30), <1>6, <2>1 DEF IInv, FullType, TypeOK, PendingHasPredecessor
  <2> QED
    BY <1>4, <1>u, <2>1, ConnectionsAssumption DEF PendingHasPredecessor
<1>7. Failures' /\ Registrations' /\ Known'
  BY SMTT(30), <1>3, <1>4, <1>u, ConnectionsAssumption DEF IInv, FullType, TypeOK, Cleanups, Failures, Registrations, Known
<1>8. Identifiers'
  <2>1. Identifiers
    BY Zenon DEF IInv
  <2> QED
    BY <1>3, <1>4, <1>u, <2>1 DEF Identifiers, Holding
<1> QED
  BY <1>5, <1>7, <1>8, <1>9, <1>10 DEF IInv

\* clear_routing_endpoints closes exactly the installed and the pending ones.
LEMMA ClearRoutingEndpointsIInv == ASSUME IInv, ClearRoutingEndpoints PROVE IInv'
<1> DEFINE cleared == {c \in Conns : \E i \in Ids : c \in {routing[i], pending[i]}}
<1>1. conn \in [Conns -> ConnType]
  BY DEF IInv, FullType, TypeOK, ConnType
<1>2. /\ conn' = [c \in Conns |-> IF c \in cleared THEN [conn[c] EXCEPT !.phase = "closed"] ELSE conn[c]]
      /\ routing' = [i \in Ids |-> None] /\ pending' = [i \in Ids |-> None]
      /\ stop = "clear" /\ stop' = "reset"
  BY DEF ClearRoutingEndpoints
<1>3. \A c \in Conns : c \in cleared <=> conn[c].phase \in {"installed", "pending"}
  <2>1. \A c \in Conns : conn[c].id \in Ids
    BY <1>1 DEF ConnType
  <2> QED
    BY <2>1, ConnectionsAssumption DEF IInv, Tables
<1> HIDE DEF cleared
<1>4. /\ conn' \in [Conns -> ConnType]
      /\ \A c \in Conns : /\ conn'[c].phase = IF c \in cleared THEN "closed" ELSE conn[c].phase
                          /\ conn'[c].id = conn[c].id /\ conn'[c].name = conn[c].name
                          /\ conn'[c].failed = conn[c].failed /\ conn'[c].reg = conn[c].reg
  BY <1>1, <1>2 DEF ConnType, Phases
<1>u. UNCHANGED <<used, info, calls, cleanup, blocked, control>>
  BY DEF ClearRoutingEndpoints
<1>5. FullType'
  BY <1>2, <1>4, <1>u DEF IInv, FullType, TypeOK, ConnType
<1>6. Tables' /\ PendingHasPredecessor'
  BY <1>2, <1>3, <1>4, <1>u DEF Tables, PendingHasPredecessor
<1>7. Failures' /\ Registrations' /\ Known'
  BY <1>2, <1>3, <1>4, <1>u, ConnectionsAssumption DEF IInv, FullType, TypeOK, Cleanups, Failures, Registrations, Known
<1>8. Identifiers'
  BY <1>2, <1>3, <1>4, <1>u DEF IInv, Identifiers, Holding
<1> QED
  BY <1>5, <1>6, <1>7, <1>8 DEF IInv

\* add_local_routing_endpoint_unlocked installs one connection; another one of the
\* same peer gets an error and nothing else.
LEMMA InstallFacts ==
    ASSUME NEW cs \in [Conns -> ConnType], NEW c \in Conns, Install(cs, c)
    PROVE  /\ routing' = [routing EXCEPT ![conn[c].id] = c]
           /\ conn' \in [Conns -> ConnType]
           /\ \A d \in Conns : /\ conn'[d].phase = IF d = c THEN "installed" ELSE cs[d].phase
                               /\ conn'[d].id = cs[d].id /\ conn'[d].name = cs[d].name
                               /\ conn'[d].failed = cs[d].failed /\ conn'[d].reg = cs[d].reg
                               /\ cs[d].error => conn'[d].error
<1>1. routing' = [routing EXCEPT ![conn[c].id] = c]
  BY DEF Install
<1>2. CASE SamePeer(c) = {}
  BY SMTT(30), <1>1, <1>2 DEF Install, Installed, ConnType, Phases
<1>3. CASE SamePeer(c) # {}
  <2>1. PICK e \in Conns : conn' = Installed(WithError(cs, e), c)
    BY <1>3 DEF Install, SamePeer
  <2>2. WithError(cs, e) \in [Conns -> ConnType]
    BY ZenonT(60) DEF WithError, ConnType
  <2>3. \A d \in Conns : LET r == WithError(cs, e)[d] IN
            /\ r.phase = cs[d].phase /\ r.id = cs[d].id /\ r.name = cs[d].name
            /\ r.failed = cs[d].failed /\ r.reg = cs[d].reg /\ (cs[d].error => r.error)
    BY DEF WithError, ConnType
  <2> DEFINE ws == WithError(cs, e)
  <2> HIDE DEF ws
  <2>4. conn' = [ws EXCEPT ![c].phase = "installed"] /\ ws \in [Conns -> ConnType]
    BY <2>1, <2>2 DEF Installed, ws
  <2>5. /\ conn' \in [Conns -> ConnType]
        /\ \A d \in Conns : /\ conn'[d].phase = IF d = c THEN "installed" ELSE ws[d].phase
                            /\ conn'[d].id = ws[d].id /\ conn'[d].name = ws[d].name
                            /\ conn'[d].failed = ws[d].failed /\ conn'[d].reg = ws[d].reg
                            /\ ws[d].error => conn'[d].error
    BY <2>4 DEF ConnType, Phases
  <2> QED
    BY <1>1, <2>3, <2>5 DEF ws
<1> QED
  BY <1>2, <1>3

\* Stopping an endpoint closes that connection and no other.
LEMMA ClosedFacts ==
    ASSUME conn \in [Conns -> ConnType], NEW q \in Conns \cup {None}
    PROVE  /\ Closed(conn, q) \in [Conns -> ConnType]
           /\ \A d \in Conns : /\ Closed(conn, q)[d].phase = IF d = q THEN "closed" ELSE conn[d].phase
                               /\ Closed(conn, q)[d].id = conn[d].id /\ Closed(conn, q)[d].name = conn[d].name
                               /\ Closed(conn, q)[d].failed = conn[d].failed
                               /\ Closed(conn, q)[d].reg = conn[d].reg
                               /\ Closed(conn, q)[d].error = conn[d].error
  BY ConnectionsAssumption DEF Closed, ConnType, Phases

\* add_local_routing_endpoint: a connection whose identifier has an endpoint
\* becomes pending, in place of one that was pending before; any other one is
\* installed.
LEMMA AddRoutingEndpointIInv == ASSUME IInv, NEW c \in Conns, AddRoutingEndpoint(c) PROVE IInv'
<1> DEFINE id == conn[c].id
           q == pending[id]
<1>1. conn \in [Conns -> ConnType] /\ id \in Ids /\ conn[c].phase = "checked" /\ conn[c].reg = "no" /\ ~conn[c].failed
  BY DEF IInv, FullType, TypeOK, ConnType, AddRoutingEndpoint, Registrations, Failures
<1>2. routing \in [Ids -> Conns \cup {None}] /\ pending \in [Ids -> Conns \cup {None}]
  BY DEF IInv, FullType, TypeOK
<1>u. UNCHANGED <<used, info, calls, cleanup, blocked, control, stop>>
  BY DEF AddRoutingEndpoint
<1>3. CASE routing[id] # None
  <2>1. /\ routing[id] \in Conns /\ q \in Conns \cup {None} /\ routing' = routing
        /\ pending' \in [Ids -> Conns \cup {None}]
        /\ \A i \in Ids : pending'[i] = IF i = id THEN c ELSE pending[i]
    BY SMTT(30), <1>1, <1>2, <1>3 DEF AddRoutingEndpoint
  <2> DEFINE cs == Closed(conn, q)
             ds == [cs EXCEPT ![c].phase = "pending"]
  <2>2. /\ cs \in [Conns -> ConnType]
        /\ \A d \in Conns : /\ cs[d].phase = IF d = q THEN "closed" ELSE conn[d].phase
                            /\ cs[d].id = conn[d].id /\ cs[d].name = conn[d].name
                            /\ cs[d].failed = conn[d].failed /\ cs[d].reg = conn[d].reg
                            /\ cs[d].error = conn[d].error
    BY <1>1, <2>1, ClosedFacts
  <2> HIDE DEF cs
  <2>4. ds \in [Conns -> ConnType]
    BY <2>2 DEF ConnType, Phases
  <2>5. \A d \in Conns : /\ ds[d].phase = IF d = c THEN "pending" ELSE cs[d].phase
                         /\ ds[d].id = cs[d].id /\ ds[d].name = cs[d].name
                         /\ ds[d].failed = cs[d].failed /\ ds[d].reg = cs[d].reg
                         /\ ds[d].error = cs[d].error
    BY SMTT(30), <2>2 DEF ConnType
  <2> HIDE DEF ds
  <2>6. conn' = [ds EXCEPT ![routing[id]].error = TRUE]
    BY Zenon, <1>3 DEF AddRoutingEndpoint, WithError, ds, cs
  <2>7. conn' \in [Conns -> ConnType]
    <3>1. PICK o \in Conns : o = routing[id]
      BY <2>1
    <3>2. conn' = [ds EXCEPT ![o].error = TRUE]
      BY <2>6, <3>1
    <3> QED
      BY ZenonT(60), <2>4, <3>2 DEF ConnType
  <2>8. \A d \in Conns : /\ conn'[d].phase = IF d = c THEN "pending" ELSE IF d = q THEN "closed" ELSE conn[d].phase
                         /\ conn'[d].id = conn[d].id /\ conn'[d].name = conn[d].name
                         /\ conn'[d].failed = conn[d].failed /\ conn'[d].reg = conn[d].reg
                         /\ (conn[d].error \/ d = routing[id]) => conn'[d].error
    BY <2>2, <2>4, <2>5, <2>6 DEF ConnType
  <2>9. q # None => conn[q].phase = "pending" /\ ~conn[q].failed /\ conn[q].reg = "no" /\ conn[q].id = id
    BY <1>1, <1>2 DEF IInv, Tables, Failures, Registrations
  <2> HIDE DEF id, q
  <2>10. FullType'
    BY <1>1, <1>u, <2>1, <2>7 DEF IInv, FullType, TypeOK, ConnType
  <2>11. Tables'
    <3>1. \A d \in Conns : conn[d].id \in Ids
      BY SMTT(30), <1>1 DEF ConnType
    <3>2. \A i \in Ids : routing'[i] # None => conn'[routing'[i]].phase = "installed" /\ conn'[routing'[i]].id = i
      BY SMTT(30), <1>1, <1>2, <2>1, <2>8, <2>9 DEF IInv, Tables
    <3>3. \A d \in Conns : conn'[d].phase = "installed" => routing'[conn'[d].id] = d
      BY SMTT(30), <2>1, <2>8 DEF IInv, Tables
    <3>4. \A i \in Ids : pending'[i] # None => conn'[pending'[i]].phase = "pending" /\ conn'[pending'[i]].id = i
      BY SMTT(30), <1>1, <1>2, <2>1, <2>8, <2>9 DEF IInv, Tables, id
    <3>5. \A d \in Conns : conn'[d].phase = "pending" => pending'[conn'[d].id] = d
      BY SMTT(30), <1>1, <2>1, <2>8, <3>1 DEF IInv, Tables, id, q
    <3> QED
      BY <3>2, <3>3, <3>4, <3>5 DEF Tables
  <2>12. PendingHasPredecessor'
    BY SMTT(30), <1>2, <1>3, <2>1, <2>8 DEF IInv, PendingHasPredecessor
  <2>13. Failures' /\ Registrations' /\ Known'
    <3>1. Failures'
      BY <1>1, <1>u, <2>8, <2>9, ConnectionsAssumption DEF IInv, FullType, TypeOK, Cleanups, Failures
    <3>2. Registrations'
      BY <1>1, <1>u, <2>8, <2>9 DEF IInv, FullType, TypeOK, Registrations
    <3>3. Known'
      BY <1>1, <1>u, <2>8, <2>9 DEF IInv, FullType, TypeOK, Known
    <3> QED
      BY <3>1, <3>2, <3>3
  <2>14. Identifiers'
    <3>1. Identifiers
      BY Zenon DEF IInv
    <3> QED
      BY <1>1, <1>u, <2>8, <3>1 DEF Identifiers, Holding
  <2> QED
    BY <2>10, <2>11, <2>12, <2>13, <2>14 DEF IInv
<1>4. CASE routing[id] = None
  <2> DEFINE cs == [conn EXCEPT ![c].reg = "info"]
  <2>1. Install(cs, c) /\ pending' = pending
    BY <1>4 DEF AddRoutingEndpoint
  <2>2. cs \in [Conns -> ConnType]
    BY <1>1 DEF ConnType, Registration
  <2>3. \A d \in Conns : /\ cs[d].phase = conn[d].phase /\ cs[d].id = conn[d].id /\ cs[d].name = conn[d].name
                         /\ cs[d].failed = conn[d].failed /\ cs[d].error = conn[d].error
                         /\ cs[d].reg = IF d = c THEN "info" ELSE conn[d].reg
    BY <1>1 DEF ConnType
  <2> HIDE DEF cs
  <2>4. /\ routing' = [routing EXCEPT ![id] = c] /\ conn' \in [Conns -> ConnType]
        /\ \A d \in Conns : /\ conn'[d].phase = IF d = c THEN "installed" ELSE conn[d].phase
                            /\ conn'[d].id = conn[d].id /\ conn'[d].name = conn[d].name
                            /\ conn'[d].failed = conn[d].failed
                            /\ conn'[d].reg = IF d = c THEN "info" ELSE conn[d].reg
                            /\ conn[d].error => conn'[d].error
    BY <2>1, <2>2, <2>3, InstallFacts
  <2> HIDE DEF id
  <2>10. FullType'
    BY <1>1, <1>u, <2>1, <2>4 DEF IInv, FullType, TypeOK, ConnType
  <2>11. Tables'
    BY <1>1, <1>2, <1>4, <2>1, <2>4, ConnectionsAssumption DEF IInv, Tables, id
  <2>12. PendingHasPredecessor'
    BY <1>1, <1>2, <1>4, <2>1, <2>4, ConnectionsAssumption DEF IInv, PendingHasPredecessor
  <2>13. Failures' /\ Registrations' /\ Known'
    <3>1. Failures'
      BY <1>1, <1>u, <2>4, ConnectionsAssumption DEF IInv, FullType, TypeOK, Cleanups, Failures
    <3>2. Registrations'
      BY Zenon, <1>1, <1>u, <2>4 DEF IInv, FullType, TypeOK, Registrations
    <3>3. Known'
      BY <1>1, <1>u, <2>4 DEF IInv, FullType, TypeOK, Known
    <3> QED
      BY <3>1, <3>2, <3>3
  <2>14. Identifiers'
    BY SMTT(30), <1>1, <1>u, <2>4 DEF IInv, Identifiers, Holding
  <2> QED
    BY <2>10, <2>11, <2>12, <2>13, <2>14 DEF IInv
<1> QED
  BY <1>3, <1>4

\* remove_routing_endpoint: the endpoint of the identifier goes, and the pending one
\* takes its place.
LEMMA RemoveEndpointIInv == ASSUME IInv, RemoveEndpoint PROVE IInv'
<1> DEFINE x == cleanup.c
           id == conn[x].id
           o == routing[id]
           p == pending[id]
           closed == Closed(conn, o)
<1>1. /\ cleanup.pc = "remove" /\ x \in Conns /\ conn[x].failed /\ x \notin calls
      /\ conn \in [Conns -> ConnType] /\ cleanup \in Cleanups
      /\ routing \in [Ids -> Conns \cup {None}] /\ pending \in [Ids -> Conns \cup {None}]
  BY DEF IInv, FullType, TypeOK, ConnType, RemoveEndpoint, Cleanups, Failures
<1>2. id \in Ids /\ o \in Conns \cup {None} /\ p \in Conns \cup {None} /\ \A d \in Conns : conn[d].id \in Ids
  BY SMTT(30), <1>1 DEF ConnType
<1>3. /\ closed \in [Conns -> ConnType]
      /\ \A d \in Conns : /\ closed[d].phase = IF d = o THEN "closed" ELSE conn[d].phase
                          /\ closed[d].id = conn[d].id /\ closed[d].name = conn[d].name
                          /\ closed[d].failed = conn[d].failed /\ closed[d].reg = conn[d].reg
                          /\ closed[d].error = conn[d].error
  <2> HIDE DEF x, id, o, p
  <2> QED BY SMTT(30), <1>1, <1>2, ClosedFacts
\* The connection that failed is the one that is removed, or was removed by stop().
<1>4. (conn[x].phase = "installed" /\ o = x) \/ conn[x].phase = "closed"
  BY <1>1 DEF IInv, Failures, Tables
<1>5. \A d \in calls : stop \in {"no", "servers", "clear"} => d # o
  BY SMTT(30), <1>1, <1>4 DEF IInv, Failures
<1>6. o # None => conn[o].phase = "installed" /\ conn[o].id = id
  BY SMTT(30), <1>2 DEF IInv, Tables
<1>7. p # None => o \in Conns /\ conn[p].phase = "pending" /\ conn[p].id = id /\ p # o /\ conn[p].reg = "no"
                  /\ ~conn[p].failed
  BY SMTT(30), <1>2, <1>6 DEF IInv, Tables, PendingHasPredecessor, Registrations, Failures
<1>u. UNCHANGED <<used, info, calls, blocked, control, stop>>
  BY Zenon DEF RemoveEndpoint
<1>8. CASE p = None
  <2>1. /\ conn' = closed
        /\ routing' \in [Ids -> Conns \cup {None}]
        /\ \A i \in Ids : routing'[i] = IF i = id THEN None ELSE routing[i]
        /\ cleanup' \in Cleanups /\ cleanup'.c = x /\ cleanup'.pc = "release"
        /\ pending' = pending
    BY SMTT(30), <1>1, <1>8 DEF RemoveEndpoint, Cleanups
  <2> HIDE DEF id, o, p, closed
  <2>2. FullType'
    BY SMTT(30), <1>1, <1>3, <1>u, <2>1, ConnectionsAssumption DEF IInv, FullType, TypeOK, ConnType
  <2>3. Tables'
    <3>1. \A i \in Ids : routing'[i] # None => conn'[routing'[i]].phase = "installed" /\ conn'[routing'[i]].id = i
      BY SMTT(30), <1>1, <1>2, <1>3, <1>6, <2>1, ConnectionsAssumption DEF IInv, Tables
    <3>2. \A d \in Conns : conn'[d].phase = "installed" => routing'[conn'[d].id] = d
      BY SMTT(30), <1>2, <1>3, <2>1 DEF IInv, Tables, o
    <3>3. \A i \in Ids : pending'[i] # None => conn'[pending'[i]].phase = "pending" /\ conn'[pending'[i]].id = i
      BY SMTT(30), <1>1, <1>2, <1>3, <1>6, <2>1, ConnectionsAssumption DEF IInv, Tables
    <3>4. \A d \in Conns : conn'[d].phase = "pending" => pending'[conn'[d].id] = d
      BY SMTT(30), <1>3, <2>1 DEF IInv, Tables
    <3> QED
      BY <3>1, <3>2, <3>3, <3>4 DEF Tables
  <2>4. PendingHasPredecessor'
    BY SMTT(30), <1>1, <1>2, <1>3, <1>8, <2>1 DEF IInv, PendingHasPredecessor, p
  <2>5. Failures'
    BY SMTT(30), <1>1, <1>3, <1>4, <1>5, <1>u, <2>1, ConnectionsAssumption DEF IInv, FullType, TypeOK, Failures
  <2>6. Registrations' /\ Known'
    BY ZenonT(60), <1>3, <1>u, <2>1 DEF IInv, Registrations, Known
  <2>7. Identifiers'
    BY SMTT(30), <1>1, <1>3, <1>u, <2>1 DEF IInv, Identifiers, Holding
  <2> QED
    BY <2>2, <2>3, <2>4, <2>5, <2>6, <2>7 DEF IInv
<1>9. CASE p # None
  <2> DEFINE cs == [closed EXCEPT ![p].reg = "info"]
  <2>1. /\ Install(cs, p)
        /\ pending' \in [Ids -> Conns \cup {None}]
        /\ \A i \in Ids : pending'[i] = IF i = id THEN None ELSE pending[i]
        /\ cleanup' \in Cleanups /\ cleanup'.c = x /\ cleanup'.pc = "register" /\ cleanup'.promoted = p
    BY ZenonT(60), <1>1, <1>2, <1>9 DEF RemoveEndpoint, Cleanups
  <2>2. p \in Conns
    BY <1>2, <1>9
  <2> HIDE DEF closed, p, o
  <2>3. cs \in [Conns -> ConnType]
    BY <1>3, <2>2 DEF ConnType, Registration
  <2>4. \A d \in Conns : /\ cs[d].phase = closed[d].phase /\ cs[d].id = closed[d].id /\ cs[d].name = closed[d].name
                         /\ cs[d].failed = closed[d].failed /\ cs[d].error = closed[d].error
                         /\ cs[d].reg = IF d = p THEN "info" ELSE closed[d].reg
    BY SMTT(30), <1>3, <2>2 DEF ConnType
  <2> HIDE DEF cs
  <2>5. /\ routing' = [routing EXCEPT ![conn[p].id] = p]
        /\ conn' \in [Conns -> ConnType]
        /\ \A d \in Conns : /\ conn'[d].phase = IF d = p THEN "installed" ELSE cs[d].phase
                            /\ conn'[d].id = cs[d].id /\ conn'[d].name = cs[d].name
                            /\ conn'[d].failed = cs[d].failed /\ conn'[d].reg = cs[d].reg
                            /\ cs[d].error => conn'[d].error
    BY SMTT(30), <2>1, <2>2, <2>3, InstallFacts
  <2>6. \A d \in Conns : /\ conn'[d].phase = IF d = p THEN "installed" ELSE IF d = o THEN "closed" ELSE conn[d].phase
                         /\ conn'[d].id = conn[d].id /\ conn'[d].name = conn[d].name
                         /\ conn'[d].failed = conn[d].failed
                         /\ conn'[d].reg = IF d = p THEN "info" ELSE conn[d].reg
                         /\ conn[d].error => conn'[d].error
    BY SMTT(30), <1>3, <2>4, <2>5
  <2> HIDE DEF id
  <2>7. routing' \in [Ids -> Conns \cup {None}] /\ \A i \in Ids : routing'[i] = IF i = id THEN p ELSE routing[i]
    BY SMTT(30), <1>1, <1>2, <1>7, <1>9, <2>2, <2>5
  <2>8. FullType'
    BY SMTT(30), <1>1, <1>u, <2>1, <2>2, <2>5, <2>7, ConnectionsAssumption DEF IInv, FullType, TypeOK, ConnType
  <2>9. Tables'
    <3>1. \A i \in Ids : routing'[i] # None => conn'[routing'[i]].phase = "installed" /\ conn'[routing'[i]].id = i
      BY SMTT(30), <1>1, <1>2, <1>6, <1>7, <1>9, <2>2, <2>6, <2>7 DEF IInv, Tables
    <3>2. \A d \in Conns : conn'[d].phase = "installed" => routing'[conn'[d].id] = d
      BY SMTT(30), <1>2, <1>7, <1>9, <2>6, <2>7 DEF IInv, Tables, o
    <3>3. \A i \in Ids : pending'[i] # None => conn'[pending'[i]].phase = "pending" /\ conn'[pending'[i]].id = i
      BY SMTT(30), <1>1, <1>2, <1>6, <1>7, <1>9, <2>1, <2>6 DEF IInv, Tables
    <3>4. \A d \in Conns : conn'[d].phase = "pending" => pending'[conn'[d].id] = d
      BY SMTT(30), <1>2, <2>1, <2>6 DEF IInv, Tables, p
    <3> QED
      BY <3>1, <3>2, <3>3, <3>4 DEF Tables
  <2>10. PendingHasPredecessor'
    BY SMTT(30), <1>1, <1>2, <2>1, <2>6, <2>7 DEF IInv, PendingHasPredecessor
  <2>11. Failures'
    <3>1. Failures /\ calls \subseteq Conns
      BY Zenon DEF IInv, FullType, TypeOK
    <3>2. \A c \in Conns : conn'[c].failed => conn'[c].phase \in {"installed", "closed"}
      BY <2>6, <3>1 DEF Failures
    <3>3. \A c \in calls' : /\ conn'[c].failed
                            /\ stop' \in {"no", "servers", "clear"} => conn'[c].phase = "installed"
      BY <1>5, <1>u, <2>6, <3>1 DEF Failures
    <3>4. conn'[x].failed /\ x \notin calls' /\ conn'[x].phase = "closed"
      BY <1>1, <1>4, <1>7, <1>9, <1>u, <2>6
    <3> QED
      BY <2>1, <3>2, <3>3, <3>4 DEF Failures
  <2>12. Registrations' /\ Known'
    BY SMTT(30), <1>u, <1>7, <1>9, <2>6 DEF IInv, Registrations, Known
  <2>13. Identifiers'
    BY <1>1, <1>7, <1>9, <1>u, <2>1, <2>6 DEF IInv, Identifiers, Holding
  <2> QED
    BY <2>8, <2>9, <2>10, <2>11, <2>12, <2>13 DEF IInv
<1> QED
  BY SMTT(30), <1>8, <1>9

\* Every step of the routing host keeps the invariant.
LEMMA NextIInv == IInv /\ [Next]_vars => IInv'
<1> SUFFICES ASSUME IInv, [Next]_vars PROVE IInv'
  OBVIOUS
<1>1. CASE \E c \in Conns : \E n \in Names, p \in Peers, r \in Ids : AssignClient(c, n, r, p)
  BY <1>1, AssignClientIInv
<1>2. CASE \E c \in Conns : \E allowed \in BOOLEAN : AddConnection(c, allowed)
  BY <1>2, AddConnectionIInv
<1>3. CASE \E c \in Conns : CheckToken(c)
  BY <1>3, CheckTokenIInv
<1>4. CASE \E c \in Conns : AddRoutingEndpoint(c)
  BY <1>4, AddRoutingEndpointIInv
<1>5. CASE \E c \in Conns : Register(c)
  BY <1>5, RegisterIInv
<1>6. CASE \E c \in Conns : Fail(c)
  BY <1>6, FailIInv
<1>7. CASE \E c \in Conns : Deregister(c)
  BY <1>7, DeregisterIInv
<1>8. CASE RemoveEndpoint \/ PromotedRegistered \/ ReleaseClientId
  BY <1>8, RemoveEndpointIInv, PromotedRegisteredIInv, ReleaseClientIdIInv
<1>9. CASE (\E a \in Ips : BlockFrom(a) \/ AllowFrom(a)) \/ StubStop \/ StopServers \/ ResetClientIds
  BY <1>9, ControlIInv
<1>10. CASE DropFrom \/ ClearRoutingEndpoints
  BY SMTT(30), <1>10, DropFromIInv, ClearRoutingEndpointsIInv
<1>11. CASE UNCHANGED vars
  BY ZenonT(60), <1>11 DEF vars, IInv, FullType, TypeOK, Tables, PendingHasPredecessor, Failures, Registrations, Known,
               Identifiers, Holding
<1> QED
  BY <1>1, <1>2, <1>3, <1>4, <1>5, <1>6, <1>7, <1>8, <1>9, <1>10, <1>11 DEF Next

\* The invariant holds in every reachable state.
THEOREM RegistryInvariant == Spec => []IInv
  BY InitIInv, NextIInv, PTL DEF Spec

\* Two applications never hold the same identifier at a time, whatever the order in
\* which request_client_id, add_connection, cleanup_client and release_client_id run.
THEOREM NobodySharesAnId == Spec => []OneApplicationPerId
<1>1. IInv => OneApplicationPerId
  <2> SUFFICES ASSUME IInv, stop # "done", NEW c \in Conns, NEW d \in Conns,
                      Live(c), Live(d), conn[c].id = conn[d].id, conn[c].id # Unset
               PROVE  conn[c].name = conn[d].name /\ (c # d => ConfiguredId[conn[c].name] = conn[c].id)
    BY DEF OneApplicationPerId
  <2>1. Holding(c) /\ Holding(d) /\ conn[c].name \in Names /\ conn[d].name \in Names
    BY DEF Live, Holding, IInv, FullType, TypeOK
  <2>2. CASE conn[c].id \in ConfiguredIds
    BY <2>1, <2>2, ConnectionsAssumption DEF IInv, Identifiers
  <2>3. CASE conn[c].id \notin ConfiguredIds
    BY <2>1, <2>3 DEF IInv, Identifiers
  <2> QED
    BY <2>2, <2>3
<1> QED
  BY <1>1, RegistryInvariant, PTL

\* A pending endpoint waits for an installed one that has failed or was told to:
\* add_local_routing_endpoint, drop_from and cleanup_client leave no orphan.
THEOREM PendingAwaitsAnEnd == Spec => []PendingHasPredecessor
<1>1. IInv => PendingHasPredecessor
  BY DEF IInv
<1> QED
  BY <1>1, RegistryInvariant, PTL

\* The routing information of a registered connection is not erased by the cleanup
\* of a predecessor with the same identifier (on_deregister_application).
THEOREM InfoSurvivesCleanup == Spec => []RegisteredIsKnown
<1>1. IInv => RegisteredIsKnown
  BY DEF IInv, Known, RegisteredIsKnown
<1> QED
  BY <1>1, RegistryInvariant, PTL

\* remove_routing_endpoint, which looks an endpoint up by identifier, takes away the
\* one whose failure called cleanup_client.
THEOREM OnlyTheFailedIsRemoved == Spec => RemovesTheFailed
<1> DEFINE Removes == \A i \in Ids : (cleanup.pc = "remove" /\ stop = "no" /\ routing[i] # None /\ routing'[i] # routing[i])
                                          => routing[i] = cleanup.c
<1>1. ASSUME IInv, [Next]_vars PROVE [Removes]_vars
  <2> SUFFICES ASSUME Next, NEW i \in Ids, cleanup.pc = "remove", stop = "no", routing[i] # None, routing'[i] # routing[i]
               PROVE  routing[i] = cleanup.c
    BY <1>1
  <2>1. /\ conn \in [Conns -> ConnType] /\ routing \in [Ids -> Conns \cup {None}] /\ pending \in [Ids -> Conns \cup {None}]
        /\ cleanup.c \in Conns
    BY <1>1 DEF IInv, FullType, TypeOK, ConnType, Cleanups
  <2>2. \A d \in Conns : conn[d].id \in Ids
    BY <2>1 DEF ConnType
  <2>3. CASE \E c \in Conns : AddRoutingEndpoint(c)
    BY <2>1, <2>2, <2>3 DEF AddRoutingEndpoint, Install
  <2>4. CASE RemoveEndpoint
    <3> DEFINE id == conn[cleanup.c].id
    <3>1. routing[id] = cleanup.c
      BY <1>1, <2>1 DEF IInv, Failures, Tables
    <3>2. routing'[i] = routing[i] \/ i = id
      <4>1. CASE pending[id] = None
        BY SMTT(30), <2>1, <2>4, <4>1 DEF RemoveEndpoint
      <4>2. CASE pending[id] # None
        <5>1. pending[id] \in Conns /\ conn[pending[id]].id = id
          BY SMTT(30), <1>1, <2>1, <2>2, <4>2 DEF IInv, Tables
        <5>2. routing' = [routing EXCEPT ![conn[pending[id]].id] = pending[id]]
          BY ZenonT(60), <2>4, <4>2 DEF RemoveEndpoint, Install
        <5> QED
          BY SMTT(30), <2>1, <5>1, <5>2
      <4> QED
        BY <4>1, <4>2
    <3> QED
      BY SMTT(30), <3>1, <3>2
  <2>5. CASE \E c \in Conns : \/ \E n \in Names, p \in Peers, r \in Ids : AssignClient(c, n, r, p)
                              \/ \E allowed \in BOOLEAN : AddConnection(c, allowed)
                              \/ CheckToken(c) \/ Register(c) \/ Fail(c) \/ Deregister(c)
    <3>1. \A c \in Conns, n \in Names, p \in Peers, r \in Ids : AssignClient(c, n, r, p) => routing' = routing
      BY DEF AssignClient
    <3>2. \A c \in Conns : \A allowed \in BOOLEAN : AddConnection(c, allowed) => routing' = routing
      BY DEF AddConnection
    <3>3. \A c \in Conns : CheckToken(c) \/ Register(c) \/ Fail(c) \/ Deregister(c) => routing' = routing
      BY DEF CheckToken, Register, Fail, Deregister
    <3> QED
      BY Zenon, <2>5, <3>1, <3>2, <3>3
  <2>6. CASE PromotedRegistered \/ ReleaseClientId \/ \E a \in Ips : BlockFrom(a) \/ AllowFrom(a)
    BY SMTT(30), <2>6 DEF PromotedRegistered, ReleaseClientId, BlockFrom, AllowFrom
  <2>7. CASE DropFrom \/ StubStop \/ StopServers \/ ClearRoutingEndpoints \/ ResetClientIds
    BY Zenon, <2>7 DEF DropFrom, StubStop, StopServers, ClearRoutingEndpoints, ResetClientIds
  <2> QED
    BY <2>3, <2>4, <2>5, <2>6, <2>7 DEF Next
<1> QED
  BY <1>1, RegistryInvariant, PTL DEF Spec, RemovesTheFailed
=============================================================================
