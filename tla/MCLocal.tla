------------------------------ MODULE MCLocal ------------------------------
(***************************************************************************)
(* What every local connection is built from, and how it comes and goes:   *)
(* the timer, the receive buffer, the server that accepts, an endpoint,    *)
(* the routing host's registry of connections, and the dispatcher of an    *)
(* application.  They are checked side by side: `part' chooses one that    *)
(* takes steps, the others stay in their initial state, in which none of   *)
(* the steps that fairness speaks of is enabled.                           *)
(***************************************************************************)
EXTENDS Timer, Sequences

CONSTANTS w1, w2, w3, a1, a2, c1, c2, ip, s, None

MCWaits == {w1, w2, w3}

VARIABLES part,
    lens, got, consumed, delivered, start, end, size, cap, mem, shrink_ct, sanity, pc,
    serverState, lc, handler, accept, accepted, refused, debounce, lingering,
    ep, drain, closers, sent, wire, chunks,
    conn, used, routing, pending, info, calls, cleanup, blocked, control, stop,
    app, thread, life, stopping, caller, joining, owed, count

buffer == <<lens, got, consumed, delivered, start, end, size, cap, mem, shrink_ct, sanity, pc>>
server == <<serverState, lc, handler, accept, accepted, refused, debounce, lingering>>
endpoint == <<ep, drain, closers, sent, wire, chunks>>
registry == <<conn, used, routing, pending, info, calls, cleanup, blocked, control, stop>>
dispatcher == <<app, thread, life, stopping, caller, joining, owed, count>>
all == <<part, timerVars, buffer, server, endpoint, registry, dispatcher>>

\* Commands of 3 + {0, 1, 5} bytes in a buffer of 4 bytes, so that it grows,
\* shrinks and meets headers split at every offset; two lengths are refused.
Buffer == INSTANCE LocalReceiveBuffer WITH
    HeaderSize <- 3, LengthPos <- 1, InitialSize <- 4, MaxMessageLength <- 7,
    ShrinkThreshold <- 2, MaxUint32 <- 9, Lengths <- {0, 1, 5, 7, 8}, NumMessages <- 4

Server == INSTANCE LocalServer WITH
    Accepts <- {a1, a2}, Conns <- {c1}, Ips <- {ip}, MaxLc <- 3,
    state <- serverState, conn <- accepted, blocked <- refused, NoHandler <- None

\* The same for five life cycles, in which the retry timer of an old one lingers.
LongServer == INSTANCE LocalServer WITH
    Accepts <- {a1, a2}, Conns <- {c1}, Ips <- {ip}, MaxLc <- 5,
    state <- serverState, conn <- accepted, blocked <- refused, NoHandler <- None

Endpoint == INSTANCE LocalEndpoint WITH
    Kinds <- {"client", "router", "server"}, MaxReconnects <- 1, QueueLimit <- 3,
    MaxMessageSize <- 2, MaxRetries <- 0, Sizes <- {1}, MaxChunks <- 1,
    MaxMessages <- 1, FifoIo <- TRUE, stopping <- closers, accepted <- sent

\* One application with a configured identifier and one without.
Registry == INSTANCE RoutingConnections WITH
    Conns <- {c1, c2}, Names <- {"configured", "dynamic"},
    ConfiguredId <- [n \in {"configured", "dynamic"} |-> IF n = "configured" THEN 2 ELSE 0],
    DynamicIds <- {1, 2}, Unset <- 0, Peers <- {[tcp |-> TRUE, ip |-> "guest", port |-> 1]},
    NoIp <- "none", MayStop <- FALSE, MayBlock <- TRUE

Dispatch == INSTANCE Dispatcher WITH
    Services <- {s}, Clients <- {s}, Threads <- 1..3, max_dispatchers <- 2,
    Types <- {"STATE", "AVAILABILITY"}, MaxHandlers <- 3, MaxStarts <- 2,
    MaxClears <- 0, EarlyRestart <- FALSE

IdleBuffer ==
    /\ lens = <<>> /\ got = 0 /\ consumed = 0 /\ delivered = <<>> /\ start = 0 /\ end = 0
    /\ size = 0 /\ cap = 0 /\ mem = <<>> /\ shrink_ct = 0 /\ sanity = FALSE /\ pc = "receive"

MCInit ==
    /\ part \in {"timer", "buffer", "server", "endpoint", "registry", "dispatcher"}
    /\ TimerInit
    /\ IF part = "buffer" THEN Buffer!Init ELSE IdleBuffer
    /\ Server!ServerInit
    /\ Endpoint!Init /\ (part # "endpoint" => ep.kind = "client")
    /\ Registry!Init
    /\ Dispatch!Init

MCNext ==
    \/ /\ part = "timer" /\ TimerNext
       /\ UNCHANGED <<part, buffer, server, endpoint, registry, dispatcher>>
    \/ /\ part = "buffer" /\ Buffer!Next
       /\ UNCHANGED <<part, timerVars, server, endpoint, registry, dispatcher>>
    \/ /\ part = "server" /\ Server!ServerNext
       /\ UNCHANGED <<part, timerVars, buffer, endpoint, registry, dispatcher>>
    \/ /\ part = "endpoint" /\ Endpoint!Next
       /\ UNCHANGED <<part, timerVars, buffer, server, registry, dispatcher>>
    \/ /\ part = "registry" /\ Registry!Next
       /\ UNCHANGED <<part, timerVars, buffer, server, endpoint, dispatcher>>
    \/ /\ part = "dispatcher" /\ Dispatch!Next
       /\ UNCHANGED <<part, timerVars, buffer, server, endpoint, registry>>

MCSpec ==
    /\ MCInit /\ [][MCNext]_all
    /\ TimerFairness /\ WF_buffer(Buffer!Next) /\ Server!ServerFairness /\ Endpoint!Fairness
    /\ Registry!Fairness /\ Dispatch!Fairness

\* The server alone, for five life cycles.
LongSpec ==
    /\ MCInit /\ part = "server"
    /\ [][LongServer!ServerNext /\ UNCHANGED <<part, timerVars, buffer, endpoint, registry, dispatcher>>]_all

-----------------------------------------------------------------------------

\* The receive buffer frames every command, has room to receive and stays
\* within its memory (LocalReceiveBuffer).
Framing ==
    part = "buffer" => Buffer!TypeOK /\ Buffer!RoomToReceive /\ Buffer!Framing /\ Buffer!MemoryBound

\* What is to end, ends: the wait of a started timer (Fires, for one of the
\* waits, which are alike), an endpoint that fails or is flushed (EndsStopped),
\* a connection that is queued behind an old one (PendingEnds, for one of two
\* that are alike) and start() of an application that is stopped (StopEnds).
WhatEndsEnds ==
    (\/ part = "timer" /\ timerState = "STARTED" /\ cur = w1
     \/ part = "endpoint" /\ (ep.flushing \/ ep.state = "FAILED")
     \/ part = "registry" /\ conn[c1].phase = "pending"
     \/ part = "dispatcher" /\ stopping /\ life # "created")
    ~>
    (/\ part = "timer" => timerState # "STARTED" \/ cur # w1
     /\ part = "endpoint" => ep.state = "STOPPED"
     /\ part = "registry" => conn[c1].phase # "pending"
     /\ part = "dispatcher" => life \in {"stopped", "created"})

\* What is begun gets through: the commands of a peer (AllDelivered), an acceptor
\* that lacked descriptors (AcceptsAgain), an endpoint on its way to a connection
\* and its socket (ConnectEnds) and the acknowledgement of an installed connection
\* (InstalledIsAcked).
WhatBeginsGetsThrough ==
    (\/ part = "buffer"
     \/ part = "server" /\ Server!Retrying
     \/ part = "endpoint" /\ ep.started /\ ep.state \in {"INIT", "CONNECTING", "CONNECTED"}
     \/ part = "registry" /\ conn[c1].phase = "installed")
    ~>
    (/\ part = "buffer" => Buffer!Delivered
     /\ part = "server" => Server!AcceptedAgain
     /\ part = "endpoint" => \/ ep.state = "CONNECTED" /\ ep.assigned /\ ep.sock = "connected"
                             \/ ep.state \in {"FAILED", "STOPPED"}
     /\ part = "registry" => conn[c1].acked \/ conn[c1].phase = "closed")

\* A started server accepts in every life cycle (LocalServer).
KeepsAccepting == LongServer!KeepsAccepting
=============================================================================
