----------------------- MODULE MCRoutingConnections -----------------------
(***************************************************************************)
(* RoutingConnections with an application that has a configured identifier *)
(* and one that has not, three UDS connections and a routing manager that  *)
(* stops; and with three TCP connections of the configured application,    *)
(* whose address is blocked and allowed again.  `part' tells which.        *)
(***************************************************************************)
EXTENDS RoutingConnections, TLC

VARIABLE part

MCNames == {"configured", "dynamic"}
MCConfiguredId == [n \in MCNames |-> IF n = "configured" THEN 2 ELSE 0]
MCDynamicIds == {1, 2}
MCPeers == {[tcp |-> FALSE, ip |-> "none", port |-> 0]}

Blocking == INSTANCE RoutingConnections WITH
    Names <- {"configured"}, ConfiguredId <- [n \in {"configured"} |-> 2],
    Peers <- {[tcp |-> TRUE, ip |-> "guest", port |-> 1]},
    MayStop <- FALSE, MayBlock <- TRUE

MCInit == (part = "uds" /\ Init) \/ (part = "tcp" /\ Blocking!Init)
MCNext ==
    \/ part = "uds" /\ Next /\ UNCHANGED part
    \/ part = "tcp" /\ Blocking!Next /\ UNCHANGED part
MCSpec == MCInit /\ [][MCNext]_<<vars, part>>

Symmetry == Permutations(Conns)
=============================================================================
