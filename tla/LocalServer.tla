---------------------------- MODULE LocalServer ----------------------------
(***************************************************************************)
(* local_server: the loop of async_accept, its life cycles (start, halt,   *)
(* stop), the retry after a lack of descriptors, blocked addresses, and    *)
(* the temporary connections that end in add_connection.                   *)
(*                                                                         *)
(* All operations run under mtx_, so each is one action.  An accept        *)
(* operation is waiting until it completes or is cancelled, and its        *)
(* callback runs some time later, so a result may be handled in a later    *)
(* life cycle.  Slots of accepts and connections are recycled.             *)
(***************************************************************************)
EXTENDS Naturals

CONSTANTS Accepts,   \* slots for outstanding async_accept operations
          Conns,     \* slots for temporary connections
          Ips,       \* addresses of peers
          MaxLc,     \* bound on lc_count_
          NoHandler

VARIABLES state,     \* state_
          lc,        \* lc_count_
          handler,   \* life cycle whose start() installed connection_handler_, or NoHandler
          accept,    \* accept operations: [op, lc]
          conn,      \* temporary connections: [phase, lc, ip, handler]
          blocked,   \* blocked_addresses_
          debounce,  \* debounce_: [kind, lc, timer]
          lingering  \* a bad descriptor has ended an accept loop

serverVars == <<state, lc, handler, accept, conn, blocked, debounce, lingering>>

Errors == {"no_descriptors", "bad_descriptor", "error"}
NoAccept == [op |-> "none", lc |-> 0]
Results == {"ok", "aborted"} \cup Errors
AnyIp == CHOOSE ip \in Ips : TRUE
NoConn(ip) == [phase |-> "none", lc |-> 0, ip |-> ip, handler |-> NoHandler]

ServerInit ==
    /\ state = "STOPPED" /\ lc = 0 /\ handler = NoHandler
    /\ accept = [a \in Accepts |-> NoAccept]
    /\ conn = [c \in Conns |-> NoConn(AnyIp)]
    /\ blocked = {}
    /\ debounce = [kind |-> "none", lc |-> 0, timer |-> "off"]
    /\ lingering = FALSE

-----------------------------------------------------------------------------

\* start_unlock: async_accept in a free slot of as.
Issued(as, n) ==
    {[as EXCEPT ![a] = [op |-> "waiting", lc |-> n]] : a \in {x \in Accepts : as[x].op = "none"}}

Cancelled == [a \in Accepts |-> IF accept[a].op = "waiting" THEN [accept[a] EXCEPT !.op = "aborted"]
                                ELSE accept[a]]

\* A server that was stopped has closed its acceptor and is not started again.
ServerStart ==
    /\ state = "STOPPED" => lc = 0
    /\ lc < MaxLc
    /\ IF state = "STARTED"
         THEN handler' = lc /\ UNCHANGED <<state, lc, accept>>
         ELSE /\ state' = "STARTED" /\ lc' = lc + 1 /\ handler' = lc + 1
              /\ accept' \in Issued(accept, lc + 1)
    /\ UNCHANGED <<conn, blocked, debounce, lingering>>

TimerStopped(t) == IF t = "on" THEN "off" ELSE IF t = "task_on" THEN "task" ELSE t
TimerStarted(t) == IF t \in {"off", "on"} THEN "on" ELSE "task_on"

ServerStop ==
    /\ state # "STOPPED"
    /\ state' = "STOPPED" /\ lc' = lc + 1 /\ handler' = NoHandler
    /\ accept' = Cancelled
    /\ debounce' = [debounce EXCEPT !.timer = TimerStopped(@)]
    /\ UNCHANGED <<conn, blocked, lingering>>

Halt ==
    /\ state = "STARTED"
    /\ state' = "HALTED" /\ lc' = lc + 1 /\ handler' = NoHandler
    /\ accept' = Cancelled
    /\ UNCHANGED <<conn, blocked, debounce, lingering>>

BlockFrom(ip) ==
    /\ blocked' = blocked \cup {ip}
    /\ UNCHANGED <<state, lc, handler, accept, conn, debounce, lingering>>

AllowFrom(ip) ==
    /\ blocked' = blocked \ {ip}
    /\ UNCHANGED <<state, lc, handler, accept, conn, debounce, lingering>>

-----------------------------------------------------------------------------
(* Accepting *)

\* The operating system completes an accept, on a closed acceptor with an error.
Complete(a, result) ==
    /\ accept[a].op = "waiting"
    /\ state = "STOPPED" => result = "bad_descriptor"
    /\ accept' = [accept EXCEPT ![a].op = result]
    /\ UNCHANGED <<state, lc, handler, conn, blocked, debounce, lingering>>

Freed(a) == [accept EXCEPT ![a] = NoAccept]

\* Bug: nothing is accepted any more after a blocked peer.
AcceptOk_BlockedEnds(a, c, ip) ==
    /\ accept[a].op = "ok"
    /\ IF accept[a].lc # lc
         THEN accept' = Freed(a) /\ UNCHANGED conn
       ELSE IF ip \in blocked
         THEN accept' = Freed(a) /\ UNCHANGED conn
         ELSE /\ conn[c].phase = "none"
              /\ conn' = [conn EXCEPT ![c] = [phase |-> "handshake", lc |-> lc, ip |-> ip, handler |-> NoHandler]]
              /\ accept' \in Issued(Freed(a), lc)
    /\ UNCHANGED <<state, lc, handler, blocked, debounce, lingering>>

\* accept_cbk without an error
AcceptOk(a, c, ip) ==
    /\ accept[a].op = "ok"
    /\ IF accept[a].lc # lc
         THEN accept' = Freed(a) /\ UNCHANGED conn
       ELSE IF ip \in blocked
         THEN accept' \in Issued(Freed(a), lc) /\ UNCHANGED conn
         ELSE /\ conn[c].phase = "none"
              /\ conn' = [conn EXCEPT ![c] = [phase |-> "handshake", lc |-> lc, ip |-> ip, handler |-> NoHandler]]
              /\ accept' \in Issued(Freed(a), lc)
    /\ UNCHANGED <<state, lc, handler, blocked, debounce, lingering>>

\* accept_cbk with an error.  The timer of a lack of descriptors is created once and
\* keeps the life cycle it was created in; none of the two timers is a matter of the
\* life cycle of the accept.
AcceptFailed(a) ==
    /\ accept[a].op \in Errors \cup {"aborted"}
    /\ CASE accept[a].op = "bad_descriptor" ->
              /\ debounce' = [kind |-> "log", lc |-> 0, timer |-> "on"]
              /\ lingering' = TRUE
              /\ accept' = Freed(a)
         [] accept[a].op = "no_descriptors" ->
              /\ debounce' = IF debounce.kind = "none" THEN [kind |-> "retry", lc |-> lc, timer |-> "on"]
                             ELSE [debounce EXCEPT !.timer = TimerStarted(@)]
              /\ accept' = Freed(a)
              /\ UNCHANGED lingering
         [] accept[a].op = "error" ->
              /\ IF accept[a].lc = lc THEN accept' \in Issued(Freed(a), lc) ELSE accept' = Freed(a)
              /\ UNCHANGED <<debounce, lingering>>
         [] accept[a].op = "aborted" ->
              /\ accept' = Freed(a)
              /\ UNCHANGED <<debounce, lingering>>
    /\ UNCHANGED <<state, lc, handler, conn, blocked>>

\* timer::handle: the task begins.
DebounceExpires ==
    /\ debounce.timer = "on"
    /\ debounce' = [debounce EXCEPT !.timer = "task"]
    /\ UNCHANGED <<state, lc, handler, accept, conn, blocked, lingering>>

AfterTask == [debounce EXCEPT !.timer = IF @ = "task_on" \/ debounce.kind = "log" THEN "on" ELSE "off"]

\* The task of the timer, and timer::handle after it.
DebounceTask ==
    /\ debounce.timer \in {"task", "task_on"}
    /\ IF debounce.kind = "retry" /\ debounce.lc = lc
         THEN accept' \in Issued(accept, lc) ELSE UNCHANGED accept
    /\ debounce' = AfterTask
    /\ UNCHANGED <<state, lc, handler, conn, blocked, lingering>>

-----------------------------------------------------------------------------
(* Temporary connections *)

\* tmp_connection::receive_cbk: a read error, a wrong command, or a malformed one.
BreakConnection(c) ==
    /\ conn[c].phase = "handshake"
    /\ conn' = [conn EXCEPT ![c] = NoConn(conn[c].ip)]
    /\ UNCHANGED <<state, lc, handler, accept, blocked, debounce, lingering>>

\* Bug: connections are handed over whatever life cycle they are from.
AddConnection_AnyLifecycle(c, accepted) ==
    /\ conn[c].phase = "handshake"
    /\ conn' = [conn EXCEPT ![c] = IF accepted /\ conn[c].ip \notin blocked
                                     THEN [conn[c] EXCEPT !.phase = "handed", !.handler = handler]
                                     ELSE NoConn(conn[c].ip)]
    /\ UNCHANGED <<state, lc, handler, accept, blocked, debounce, lingering>>

\* hand_over and add_connection up to the unlock.  accepted: the expected identifier
\* is the own one, the routing host exists and the endpoint could be created.
AddConnection(c, accepted) ==
    /\ conn[c].phase = "handshake"
    /\ conn' = [conn EXCEPT ![c] = IF conn[c].lc = lc /\ accepted /\ conn[c].ip \notin blocked
                                     THEN [conn[c] EXCEPT !.phase = "handed", !.handler = handler]
                                     ELSE NoConn(conn[c].ip)]
    /\ UNCHANGED <<state, lc, handler, accept, blocked, debounce, lingering>>

\* The handler, if there is one, is called after the unlock.
CallHandler(c) ==
    /\ conn[c].phase = "handed"
    /\ conn' = [conn EXCEPT ![c] = NoConn(conn[c].ip)]
    /\ UNCHANGED <<state, lc, handler, accept, blocked, debounce, lingering>>

-----------------------------------------------------------------------------

ServerNext ==
    \/ ServerStart \/ ServerStop \/ Halt
    \/ \E ip \in Ips : BlockFrom(ip) \/ AllowFrom(ip)
    \/ \E a \in Accepts :
          \/ \E r \in {"ok"} \cup Errors : Complete(a, r)
          \/ \E c \in Conns, ip \in Ips : AcceptOk(a, c, ip)
          \/ AcceptFailed(a)
    \/ DebounceExpires \/ DebounceTask
    \/ \E c \in Conns :
          \/ BreakConnection(c)
          \/ \E accepted \in BOOLEAN : AddConnection(c, accepted)
          \/ CallHandler(c)

ServerSpec == ServerInit /\ [][ServerNext]_serverVars

\* Timers expire, tasks and callbacks run, handshakes end.
ServerFairness ==
    /\ \A a \in Accepts : /\ WF_serverVars(\E c \in Conns, ip \in Ips : AcceptOk(a, c, ip))
                          /\ WF_serverVars(AcceptFailed(a))
    /\ WF_serverVars(DebounceExpires) /\ WF_serverVars(DebounceTask)
    /\ \A c \in Conns : /\ WF_serverVars(BreakConnection(c) \/ \E b \in BOOLEAN : AddConnection(c, b))
                        /\ WF_serverVars(CallHandler(c))

ServerFairSpec == ServerSpec /\ ServerFairness

-----------------------------------------------------------------------------

Lcs == 0..(MaxLc + 2)

\* Life cycles, accepts, connections and the retry timer keep their domains.
ServerTypeOK ==
    /\ state \in {"HALTED", "STARTED", "STOPPED"}
    /\ lc \in Lcs
    /\ handler \in Lcs \cup {NoHandler}
    /\ accept \in [Accepts -> [op : {"none", "waiting"} \cup Results, lc : Lcs]]
    /\ conn \in [Conns -> [phase : {"none", "handshake", "handed"}, lc : Lcs, ip : Ips,
                           handler : Lcs \cup {NoHandler}]]
    /\ blocked \subseteq Ips
    /\ debounce \in [kind : {"none", "retry", "log"}, lc : Lcs,
                     timer : {"off", "on", "task", "task_on"}]
    /\ lingering \in BOOLEAN

\* The server rejects "connections from previous incarnations": a connection goes to
\* the handler that was installed in the life cycle it was accepted in, however long
\* its handshake took.
HandedToOwnLifecycle ==
    \A c \in Conns : conn[c].phase = "handed" => conn[c].handler \in {conn[c].lc, NoHandler}

Accepting == \E a \in Accepts : accept[a].op \notin {"none", "aborted"} /\ accept[a].lc = lc
Retrying == debounce.kind = "retry" /\ debounce.lc = lc /\ debounce.timer # "off"

\* A started server goes on accepting after refused peers and errors, unless a bad
\* descriptor has ended the loop or the retry timer is one of an earlier life cycle.
AcceptsOrRetries ==
    (state = "STARTED" /\ ~lingering /\ (debounce.kind = "none" \/ debounce.lc = lc))
        => Accepting \/ Retrying

\* Whoever connects is served after a lack of descriptors as well: the accept is issued
\* again in the same life cycle.
AcceptedAgain ==
    \/ lingering \/ debounce.lc # lc
    \/ \E a \in Accepts : accept[a].op = "waiting" /\ accept[a].lc = lc
AcceptsAgain == Retrying ~> AcceptedAgain

\* "Will try to accept again in 1000ms" for every life cycle of a server that is halted
\* and started again.
KeepsAccepting == (state = "STARTED" /\ ~lingering) => Accepting \/ Retrying
=============================================================================
