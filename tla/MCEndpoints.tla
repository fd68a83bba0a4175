----------------------------- MODULE MCEndpoints -----------------------------
(***************************************************************************)
(* Endpoints and what they do with the bytes they receive: TCP and UDP     *)
(* clients and servers, the batching stages, the framing of streams and    *)
(* datagrams, the reassembly of segmented messages, the messages of        *)
(* service discovery, and the endpoints between local applications         *)
(* (LocalEndpoint, which this module extends), checked side by side.       *)
(* `part' chooses the instance that takes steps; the variables of the      *)
(* others are idle, those of the local endpoint in their initial state.    *)
(***************************************************************************)
EXTENDS LocalEndpoint, FiniteSets

CONSTANTS p1, g, h

VARIABLES part, budget, now,
    c,                                                     \* client endpoint
    e, u,                                                  \* TCP server, UDP server
    sender, count, departed, errors,                       \* trains
    stream, taken, rx,                                     \* stream framing
    datagram, arrived, server, client,                     \* datagram framing
    entry, timer, running, arriving, delivered, result,    \* reassembly
    data, messages, host, results                          \* discovery messages

serverVars == <<e, u>>
trainVars == <<sender, count, departed>>
streamVars == <<stream, taken, rx>>
datagramVars == <<datagram, arrived, server, client>>
tpVars == <<entry, timer, running, arriving, delivered, result>>
sdVars == <<data, messages, host, results>>

all == <<part, vars, budget, now, c, serverVars, trainVars, errors, streamVars, datagramVars, tpVars, sdVars>>

-----------------------------------------------------------------------------
(* Clients: a TCP endpoint, one that is started again, a UDP endpoint and   *)
(* the batching stage they share.                                           *)

TcpClient == INSTANCE ClientEndpoint WITH
    Reliable <- TRUE, QueueLimit <- 2, MaxSends <- 2, MaxFaults <- 1,
    MaxStarts <- 1, MaxRestarts <- 1, RestartAbortsMax <- 1

TcpStarts == INSTANCE ClientEndpoint WITH
    Reliable <- TRUE, QueueLimit <- 2, MaxSends <- 1, MaxFaults <- 1,
    MaxStarts <- 2, MaxRestarts <- 1, RestartAbortsMax <- 1

UdpClient == INSTANCE ClientEndpoint WITH
    Reliable <- FALSE, QueueLimit <- 2, MaxSends <- 2, MaxFaults <- 2,
    MaxStarts <- 2, MaxRestarts <- 1, RestartAbortsMax <- 1

\* The default times of two methods: debounce shorter than retention.
ClientTrains == INSTANCE NpduTrains WITH
    Methods <- {g, h}, Debounce <- [x \in {g, h} |-> 1],
    Retention <- [x \in {g, h} |-> 2], TrainSize <- 2, QueueLimit <- 3,
    MaxMessages <- 4, Horizon <- 5, MaxErrors <- 0

-----------------------------------------------------------------------------
(* Servers, and the bytes an endpoint receives.                             *)

TcpServer == INSTANCE TcpServerEndpoint WITH
    Peers <- {p1}, MaxConnections <- 3, MaxSends <- 3, MaxStops <- 1,
    MaxFaults <- 1, QueueLimit <- 2

UdpGroups == INSTANCE UdpServerEndpoint WITH
    Groups <- {g, h}, MaxStarts <- 1, MaxRestarts <- 2, MaxJoins <- 2,
    MaxFaults <- 1, MaxSends <- 0

UdpOutput == INSTANCE UdpServerEndpoint WITH
    Groups <- {g}, MaxStarts <- 1, MaxRestarts <- 2, MaxJoins <- 0,
    MaxFaults <- 1, MaxSends <- 4

\* One method without times, one with a debounce time shorter than its
\* retention time.
Trains == INSTANCE NpduTrains WITH
    Methods <- {g, h},
    Debounce <- [x \in {g, h} |-> IF x = g THEN 0 ELSE 1],
    Retention <- [x \in {g, h} |-> IF x = g THEN 0 ELSE 2],
    TrainSize <- 2, QueueLimit <- 2, MaxMessages <- 3, Horizon <- 4, MaxErrors <- 1

Piece(n, k) == [len |-> n, kind |-> k]
Cookie == Piece(4, "cookie")
SoundPieces == {Piece(4, "message"), Piece(9, "message"), Piece(13, "message"), Cookie}

\* Four messages of three lengths and cookies, or three of which some are
\* too long or malformed; the first buffer is shorter than most messages.
Stream == INSTANCE StreamFraming WITH
    Streams <- [1..4 -> SoundPieces] \cup
               [1..3 -> (SoundPieces \ {Piece(13, "message")}) \cup
                        {Piece(14, "message"), Piece(5, "bad")}],
    MaxMessageSize <- 13, Initial <- 6, ShrinkThreshold <- 1

Datagram == INSTANCE DatagramFraming WITH
    Lengths <- {3, 4, 7},
    Kinds <- {"notify", "request", "sd", "tp", "tp_foreign", "version", "type"},
    MaxMessages <- 3, MaxMessageSize <- 6, MaxUdpMessageSize <- 14, SdPort <- FALSE

Tp == INSTANCE TpReassembly WITH
    Sessions <- {1, 2}, Length <- <<4, 5>>, SegmentLength <- 2,
    MaxMessageSize <- 8, MaxDeliveries <- 8, Period <- 1, Horizon <- 5

-----------------------------------------------------------------------------
(* Service discovery: batches of up to three subscriptions with shared      *)
(* options in messages too small for all of them, and messages of one entry *)
(* with every combination of two options, right or wrong.                   *)

TcpOption == [type |-> "ip4", l4 |-> "tcp", address |-> "near", port |-> 1, clients |-> {}]
UdpOption(n) == [type |-> "ip4", l4 |-> "udp", address |-> "near", port |-> n, clients |-> {}]
Sel(ids) == [type |-> "selective", l4 |-> "none", address |-> "none", port |-> 1, clients |-> ids]
Odd(type, l4, address, port) == [type |-> type, l4 |-> l4, address |-> address, port |-> port, clients |-> {}]

MCChoices == {{TcpOption}, {UdpOption(1)}, {UdpOption(2)}, {TcpOption, UdpOption(1)}, {TcpOption, UdpOption(2)}, {UdpOption(1), Sel({1})}, {TcpOption, Sel({2})}}

Good == [known |-> {1, 2, 3}, header |-> TRUE, code |-> "ok", multicast |-> FALSE, major |-> TRUE,
         offered |-> "yes", connected |-> TRUE, acceptance |-> "open", reliability |-> "unknown"]
MCHosts ==
  LET variants == {[Good EXCEPT !.known = {}], [Good EXCEPT !.header = FALSE], [Good EXCEPT !.code = "low"],
                   [Good EXCEPT !.code = "high"], [Good EXCEPT !.multicast = TRUE], [Good EXCEPT !.major = FALSE],
                   [Good EXCEPT !.offered = "no"], [Good EXCEPT !.offered = "ttl0"],
                   [Good EXCEPT !.connected = FALSE], [Good EXCEPT !.acceptance = "refused"]}
  IN {[v EXCEPT !.reliability = "both"] : v \in variants}
     \cup {[Good EXCEPT !.reliability = x] : x \in {"unknown", "reliable", "unreliable", "both"}}

Values == {TcpOption, UdpOption(1), UdpOption(0), Odd("ip4", "udp", "far", 1), Odd("ip4", "tcp", "own", 1),
           Odd("ip4", "unknown", "near", 1), Odd("ip6", "tcp", "near", 1), Odd("multicast", "udp", "near", 1),
           Sel({1}), Odd("configuration", "none", "none", 1), Odd("unknown", "none", "none", 1),
           Odd("malformed", "none", "none", 1)}
Lists == {<<>>} \cup {<<x>> : x \in Values} \cup {<<x, y>> : x \in Values, y \in Values}
         \cup [1..3 -> {TcpOption, UdpOption(1), Odd("ip4", "unknown", "near", 1)}]
Runs == {<<x, y>> : x \in {<<>>, <<1>>, <<1, 2>>, <<1, 2, 3>>}, y \in {<<>>, <<1>>, <<2>>}}
MCInputs ==
  {[entries |-> <<[kind |-> k, group |-> 1, ttl |-> t, runs |-> r]>>, options |-> o, size |-> 0, short |-> s] :
     k \in {"subscribe", "ack"}, t \in {0, 1}, r \in Runs, o \in Lists, s \in BOOLEAN}

Pack == INSTANCE SdMessages WITH
  Groups <- {1, 2, 3}, OptionSets <- MCChoices, MaxData <- 3, MaxSize <- 100, Inputs <- {}, Hosts <- {Good}
Read == INSTANCE SdMessages WITH
  Groups <- {}, OptionSets <- {}, MaxData <- 0, MaxSize <- 0, Inputs <- MCInputs, Hosts <- MCHosts

-----------------------------------------------------------------------------

IdleServers == e = 0 /\ u = 0
IdleTrains == sender = 0 /\ count = 0 /\ departed = 0
IdleStream == stream = 0 /\ taken = 0 /\ rx = 0
IdleDatagram == datagram = 0 /\ arrived = 0 /\ server = 0 /\ client = 0
IdleTp == /\ entry = 0 /\ timer = 0 /\ running = 0
          /\ arriving = 0 /\ delivered = 0 /\ result = 0
IdleSd == data = 0 /\ messages = 0 /\ host = 0 /\ results = 0

PartInit ==
    \/ /\ \/ part = "tcp_client" /\ TcpClient!Init
          \/ part = "tcp_starts" /\ TcpStarts!Init
          \/ part = "udp_client" /\ UdpClient!Init
       /\ now = 0 /\ IdleServers /\ IdleTrains /\ errors = 0 /\ IdleStream /\ IdleDatagram
       /\ IdleTp /\ IdleSd
    \/ /\ part = "tcp_server" /\ TcpServer!Init
       /\ now = 0 /\ c = 0 /\ u = 0 /\ IdleTrains /\ errors = 0 /\ IdleStream /\ IdleDatagram
       /\ IdleTp /\ IdleSd
    \/ /\ \/ part = "groups" /\ UdpGroups!Init
          \/ part = "output" /\ UdpOutput!Init
       /\ now = 0 /\ c = 0 /\ e = 0 /\ IdleTrains /\ errors = 0 /\ IdleStream /\ IdleDatagram
       /\ IdleTp /\ IdleSd
    \/ /\ part = "client_trains" /\ ClientTrains!Init
       /\ budget = 0 /\ c = 0 /\ IdleServers /\ errors = 0 /\ IdleStream /\ IdleDatagram /\ IdleTp /\ IdleSd
    \/ /\ part = "server_trains" /\ Trains!ServerInit
       /\ budget = 0 /\ c = 0 /\ IdleServers /\ IdleStream /\ IdleDatagram /\ IdleTp /\ IdleSd
    \/ /\ part = "stream" /\ Stream!Init
       /\ budget = 0 /\ now = 0 /\ c = 0 /\ IdleServers /\ IdleTrains /\ errors = 0
       /\ IdleDatagram /\ IdleTp /\ IdleSd
    \/ /\ part = "datagram" /\ Datagram!Init
       /\ budget = 0 /\ now = 0 /\ c = 0 /\ IdleServers /\ IdleTrains /\ errors = 0 /\ IdleStream
       /\ IdleTp /\ IdleSd
    \/ /\ part = "tp" /\ Tp!Init
       /\ budget = 0 /\ c = 0 /\ IdleServers /\ IdleTrains /\ errors = 0 /\ IdleStream
       /\ IdleDatagram /\ IdleSd
    \/ /\ \/ part = "pack" /\ Pack!PackInit
          \/ part = "read" /\ Read!ReadInit
       /\ budget = 0 /\ now = 0 /\ c = 0 /\ IdleServers /\ IdleTrains /\ errors = 0 /\ IdleStream
       /\ IdleDatagram /\ IdleTp

LocalInit ==
    /\ part = "local" /\ budget = 0 /\ now = 0 /\ c = 0 /\ IdleServers /\ IdleTrains /\ errors = 0
    /\ IdleStream /\ IdleDatagram /\ IdleTp /\ IdleSd

PartNext ==
    \/ /\ \/ part = "tcp_client" /\ TcpClient!Next
          \/ part = "tcp_starts" /\ TcpStarts!Next
          \/ part = "udp_client" /\ UdpClient!Next
       /\ UNCHANGED <<part, now, serverVars, trainVars, errors, streamVars, datagramVars, tpVars, sdVars>>
    \/ /\ part = "tcp_server" /\ TcpServer!Next
       /\ UNCHANGED <<part, now, c, u, trainVars, errors, streamVars, datagramVars, tpVars, sdVars>>
    \/ /\ \/ part = "groups" /\ UdpGroups!Next
          \/ part = "output" /\ UdpOutput!Next
       /\ UNCHANGED <<part, now, c, e, trainVars, errors, streamVars, datagramVars, tpVars, sdVars>>
    \/ /\ part = "client_trains" /\ ClientTrains!Next
       /\ UNCHANGED <<part, budget, c, serverVars, errors, streamVars, datagramVars, tpVars, sdVars>>
    \/ /\ part = "server_trains" /\ Trains!ServerNext
       /\ UNCHANGED <<part, budget, c, serverVars, streamVars, datagramVars, tpVars, sdVars>>
    \/ /\ part = "stream" /\ Stream!Next
       /\ UNCHANGED <<part, budget, now, c, serverVars, trainVars, errors, datagramVars, tpVars, sdVars>>
    \/ /\ part = "datagram" /\ Datagram!Next
       /\ UNCHANGED <<part, budget, now, c, serverVars, trainVars, errors, streamVars, tpVars, sdVars>>
    \/ /\ part = "tp" /\ Tp!Next
       /\ UNCHANGED <<part, budget, c, serverVars, trainVars, errors, streamVars, datagramVars, sdVars>>
    \/ /\ \/ part = "pack" /\ Pack!PackNext
          \/ part = "read" /\ Read!ReadNext
       /\ UNCHANGED <<part, budget, now, c, serverVars, trainVars, errors, streamVars, datagramVars, tpVars>>

LocalNext ==
    /\ part = "local" /\ Next
    /\ UNCHANGED <<part, budget, now, c, serverVars, trainVars, errors, streamVars, datagramVars, tpVars, sdVars>>

\* A local endpoint of either side, whose peer takes part of a message.
MCInit == Init /\ (LocalInit \/ (ep.kind = "client" /\ PartInit))
MCNext == LocalNext \/ (PartNext /\ UNCHANGED vars)
MCSpec == MCInit /\ [][MCNext]_all

-----------------------------------------------------------------------------

\* A client endpoint always gets back to its connection, and a stopped one ends
\* closed (ClientEndpoint).
Recovers ==
    /\ part = "tcp_client" => TcpClient!Recovers /\ TcpClient!SizeOfQueue /\ TcpClient!StopCloses
    /\ part = "tcp_starts" => TcpStarts!Recovers /\ TcpStarts!SizeOfQueue /\ TcpStarts!StopCloses
    /\ part = "udp_client" => UdpClient!Recovers /\ UdpClient!StopCloses

\* The TCP server goes on accepting, writes one message at a time to a peer and
\* knows exactly the live connections (TcpServerEndpoint); the UDP server has
\* one receive loop per socket and is a member of the groups it joined
\* (UdpServerEndpoint).
ServersServe ==
    /\ part = "tcp_server" => TcpServer!AlwaysAccepts /\ TcpServer!OneWrite /\ TcpServer!KnownIsAlive
    /\ part = "groups" => UdpGroups!ListensOnce /\ UdpGroups!JoinedIsMember
    /\ part = "output" => UdpOutput!ListensOnce

\* Neither a waiting train nor a queued message is left behind, and messages to
\* one method leave in the order they were sent (NpduTrains,
\* UdpServerEndpoint).
OutputMoves ==
    /\ part = "client_trains" => ClientTrains!NoneLeftBehind /\ ClientTrains!InOrder
    /\ part = "server_trains" => Trains!NoneWaits /\ Trains!InOrder
    /\ part = "output" => UdpOutput!NotStuck

\* However the bytes arrive, the messages cut out of them are those sent
\* (StreamFraming, DatagramFraming, TpReassembly); entries of service discovery
\* arrive as they were meant and are answered by the rules (SdMessages).
MessagesIntact ==
    /\ part = "stream" => Stream!Framed /\ Stream!BufferBound
    /\ part = "datagram" => Datagram!Unpacked
    /\ part = "tp" => Tp!Reassembled /\ Tp!BufferHoldsSegments
    /\ part = "pack" => Pack!ArrivesAsMeant /\ Pack!SizeBound
    /\ part = "read" => Read!AnsweredByTheRules

=============================================================================
