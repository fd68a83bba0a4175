--------------------------- MODULE ClientEndpoint ---------------------------
(***************************************************************************)
(* The connection of a client endpoint to a remote service: the states of  *)
(* client_endpoint_impl with the TCP and the UDP endpoint built on it.     *)
(* Connection attempts, their time limit, reconnects, restarts, the output *)
(* queue and the receive loop run as callbacks on several io threads.      *)
(*                                                                         *)
(* Most callbacks run on the endpoint's strand, modelled as a queue of     *)
(* tasks; a dispatch from within the strand runs at once, one from outside *)
(* is appended.  Timer callbacks and the UDP send callback run beside the  *)
(* strand.  A callback is one step.  An expired timer whose callback has   *)
(* not run yet can no longer be cancelled ("late").  Buffers are counted,  *)
(* not named: how messages become buffers is the module NpduTrains.        *)
(***************************************************************************)
EXTENDS Naturals, Sequences

CONSTANTS
    Reliable,     \* TRUE: tcp_client_endpoint_impl, FALSE: udp_client_...
    QueueLimit,   \* buffers of size one
    MaxSends,     \* bound: buffers handed to the endpoint
    MaxFaults,    \* bound: failures of network, socket and peer
    MaxStarts,    \* bound: calls of start_if_closed
    MaxRestarts,  \* bound: restarts asked for by the host
    RestartAbortsMax  \* tcp_restart_aborts_max_

VARIABLES
    c,        \* the endpoint
    budget    \* what is left of the bounds, and whether stop() was called

vars == <<c, budget>>

States == {"CLOSED", "CONNECTING", "CONNECTED", "ESTABLISHED"}

Started(e) == e.state \in {"CONNECTED", "ESTABLISHED"}

Dispatch(e, task) == [e EXCEPT !.strand = Append(@, task)]

\* old: the completion of an operation of a socket that was closed since.
Task(name, arg) == [name |-> name, arg |-> arg, old |-> FALSE]

-----------------------------------------------------------------------------
(* The socket.  Completions of its operations enter the strand, those of   *)
(* UDP sends the queue done of the io threads.                             *)

Repeat(x, n) == [i \in 1..n |-> x]

Sent(e, result, n) ==
    IF Reliable THEN [e EXCEPT !.strand = @ \o Repeat(Task("sent", result), n)]
                ELSE [e EXCEPT !.done = @ \o Repeat(result, n)]

\* All operations of a closed socket end as aborted; an aborted read is
\* ignored by receive_cbk.
close_socket_unlocked(e) ==
    LET e1 == IF e.conn THEN Dispatch(e, Task("connected", "aborted")) ELSE e
        e2 == Sent(e1, "aborted", e.writes)
        old == [i \in 1..Len(e2.strand) |->
                  [e2.strand[i] EXCEPT
                       !.old = e2.strand[i].name \in {"connected", "sent"}]]
    IN  [e2 EXCEPT !.open = FALSE, !.link = "none", !.conn = FALSE,
                   !.writes = 0, !.read = FALSE, !.state = "CLOSED",
                   !.strand = old]

\* close_socket waits for data in the send buffer; the wait is bounded.
close_socket(e) == close_socket_unlocked(e)

StartWrite(e) ==
    IF e.link = "down" THEN Sent(e, "error", 1) ELSE [e EXCEPT !.writes = @ + 1]

StartRead(e) ==
    IF e.link = "down" THEN Dispatch(e, Task("received", "eof"))
                       ELSE [e EXCEPT !.read = TRUE]

-----------------------------------------------------------------------------
(* Timers *)

start_connect_timer(e) == [e EXCEPT !.connect_timer = TRUE]

start_connecting_timer(e) == [e EXCEPT !.connecting_timer = TRUE]

-----------------------------------------------------------------------------
(* The host: endpoint_manager_impl reports the services of the endpoint,   *)
(* host tells what it reported last; the endpoint becomes established when *)
(* the host's timer expires or at once.                                    *)

set_established(e) ==
    IF e.state = "CONNECTING" THEN e
    ELSE [e EXCEPT !.state = IF e.open THEN "ESTABLISHED" ELSE "CLOSED"]

set_connected(e) ==
    [e EXCEPT !.state = IF e.open THEN "CONNECTED" ELSE "CLOSED"]

on_connect(e) ==
    [set_connected(e) EXCEPT !.host = TRUE, !.establish = TRUE]

notify_disconnect(e) == [e EXCEPT !.state = "CLOSED", !.host = FALSE]

-----------------------------------------------------------------------------
(* Sending *)

send_queued(e) ==
    IF e.open THEN StartWrite(e)
    ELSE [e EXCEPT !.not_connected = TRUE, !.sending = FALSE,
                   !.state = IF Reliable THEN @ ELSE "CLOSED"]

\* The part of queue_train behind the append: start writing if nobody does.
queue_train(e) ==
    LET e1 == [e EXCEPT !.queue = @ + 1, !.queue_size = @ + 1]
    IN  IF e.sending THEN e1
        ELSE Dispatch([e1 EXCEPT !.sending = TRUE], Task("send", "none"))

\* A finished write: the front leaves the queue and the next one follows.
PopFront(e) ==
    IF e.queue = 0 THEN e
    ELSE LET e1 == [e EXCEPT !.queue = @ - 1, !.queue_size = @ - 1]
         IN  IF e1.queue = 0 THEN [e1 EXCEPT !.sending = FALSE] ELSE send_queued(e1)

-----------------------------------------------------------------------------
(* Restart and connect *)

\* tcp_client_endpoint_impl::restart, the part on the strand.
restart_func(e) ==
    start_connect_timer([close_socket_unlocked(e) EXCEPT
        !.state = "CONNECTING", !.not_connected = TRUE,
        !.queue = 0, !.queue_size = 0, !.sending = FALSE])

\* udp_client_endpoint_impl::restart clears queue_ but not queue_size_.
udp_restart(e) ==
    start_connect_timer([close_socket([e EXCEPT !.queue = 0, !.sending = FALSE])
        EXCEPT !.state = "CONNECTING", !.not_connected = TRUE])

\* An attempt that fails before connecting (no socket, or the port is taken,
\* as it is when the socket is already open and bound).
ConnectFailed(e) ==
    Dispatch([e EXCEPT !.connecting_timer = FALSE], Task("connect_cbk", "error"))

\* The outcomes of connect().  A UDP socket is connected at once.
connect(e) ==
    LET e1 == IF Reliable THEN start_connecting_timer(e) ELSE e
        e2 == [e1 EXCEPT !.open = TRUE]
        up == [e2 EXCEPT !.state = "CONNECTING", !.aborts = 0]
    IN  IF e.open THEN {ConnectFailed(e1)}
        ELSE {ConnectFailed(e1), ConnectFailed(e2)}
             \cup (IF Reliable THEN {[up EXCEPT !.conn = TRUE]}
                   ELSE {Dispatch([up EXCEPT !.link = "up"], Task("connected", "ok"))})

\* Success: a queue that was waiting for the connection is resumed.
Connected(e) ==
    LET e1 == [e EXCEPT !.connect_timer = FALSE, !.not_connected = FALSE]
        e2 == IF e.not_connected /\ e.queue > 0
              THEN send_queued([e1 EXCEPT !.sending = TRUE]) ELSE e1
        e3 == IF e2.state # "ESTABLISHED" THEN on_connect(e2) ELSE e2
    IN  IF e3.open THEN StartRead(e3) ELSE e3

connect_cbk(e, error) ==
    CASE error = "aborted" \/ e.blocked -> close_socket(e)
      [] error = "error" /\ ~e.blocked ->
           start_connect_timer([notify_disconnect(close_socket(e)) EXCEPT
               !.sending = FALSE, !.not_connected = TRUE])
      [] OTHER -> Connected(e)

\* Bug: the result of an attempt that was given up is used.
cancel_and_connect_cbk_Late(e, error) ==
    connect_cbk([e EXCEPT !.connecting_timer = FALSE], error)

\* TCP: the result counts only if the time limit has not been reached.
cancel_and_connect_cbk(e, error) ==
    IF e.connecting_timer
    THEN connect_cbk([e EXCEPT !.connecting_timer = FALSE], error) ELSE e

\* wait_until_sent: the connection is given up once nothing is being written,
\* or after a time limit.  sent_timer holds the waits: "armed", "cancelled".
wait_until_sent(e, timeout, onStrand) ==
    IF ~e.sending \/ timeout
    THEN IF onStrand THEN restart_func(notify_disconnect(e))
         ELSE Dispatch(notify_disconnect(e), Task("restart", "force"))
    ELSE [e EXCEPT !.sent_timer =
              {"armed"} \cup (IF "armed" \in @ THEN {"cancelled"} ELSE @)]

-----------------------------------------------------------------------------
(* Send and receive callbacks *)

tcp_send_cbk(e, result) ==
    LET e1 == [e EXCEPT !.sent_timer =
                   IF "armed" \in @ THEN {"cancelled"} ELSE @]
        e2 == [e1 EXCEPT !.sending = FALSE]
    IN  CASE result = "ok" -> PopFront(e1)
          [] result = "aborted" -> close_socket(e2)
          [] OTHER -> IF e.state = "CONNECTING" THEN e2
                      ELSE restart_func(notify_disconnect(e2))

\* "bad": broken_pipe, not_connected, bad_descriptor and no_permission.  Only
\* the last clears the queue ("denied").
udp_send_cbk(e, result) ==
    LET e1 == [e EXCEPT !.sending = FALSE, !.not_connected = TRUE]
        e2 == [e EXCEPT !.sending = FALSE]
    IN  CASE result = "ok" -> PopFront(e)
          [] result = "bad" -> Dispatch(close_socket(e1), Task("connect", "none"))
          [] result = "denied" ->
               Dispatch(close_socket([e1 EXCEPT !.queue = 0, !.queue_size = 0]),
                        Task("connect", "none"))
          [] result = "aborted" -> close_socket([e2 EXCEPT !.blocked = TRUE])
          [] OTHER -> IF e.state = "CONNECTING" THEN e2
                      ELSE notify_disconnect(close_socket(e2))

\* A complete message keeps the loop running and is left out.  "bad": data
\* that cannot be a message; "eof": the peer is gone.
tcp_receive_cbk(e, result) ==
    IF result = "eof" /\ e.state = "CONNECTING" THEN e
    ELSE wait_until_sent(e, FALSE, TRUE)

udp_receive_cbk(e) == notify_disconnect(close_socket(e))

-----------------------------------------------------------------------------
(* The steps of the strand *)

\* misled records that the completion of an operation on an earlier socket was
\* taken for one of the present socket: it reports a connection, or closes one.
Pop(e) ==
    LET t == Head(e.strand)
    IN  [e EXCEPT !.strand = Tail(@),
                  !.misled = \/ @
                             \/ /\ t.old
                                /\ \/ t.name = "connected" /\ t.arg = "ok"
                                      /\ (e.connecting_timer \/ ~Reliable)
                                   \/ t.name = "sent" /\ t.arg = "aborted" /\ e.open]

Run(name) == c.strand # <<>> /\ Head(c.strand).name = name

Arg == Head(c.strand).arg

DoConnect == Run("connect") /\ c' \in connect(Pop(c)) /\ UNCHANGED budget

\* Without force, a restart during a connection attempt is dropped, but only
\* tcp_restart_aborts_max_ times.  An attempt is shorter than the time limit
\* (tcp_connect_time_max_); between attempts that limit may have passed.
DoRestart ==
    /\ Run("restart")
    /\ LET droppable == /\ Arg # "force"
                        /\ c.state = "CONNECTING"
                        /\ c.aborts < RestartAbortsMax
       IN  \/ droppable /\ c' = [Pop(c) EXCEPT !.aborts = @ + 1]
           \/ ~(droppable /\ c.open) /\ c' = restart_func(Pop(c))
    /\ UNCHANGED budget

DoClose == Run("close") /\ c' = close_socket(Pop(c)) /\ UNCHANGED budget

DoSend == Run("send") /\ c' = send_queued(Pop(c)) /\ UNCHANGED budget

DoConnectCbk ==
    /\ Run("connect_cbk")
    /\ c' = connect_cbk(Pop(c), Arg)
    /\ UNCHANGED budget

DoConnected ==
    /\ Run("connected")
    /\ c' = IF Reliable THEN cancel_and_connect_cbk(Pop(c), Arg)
                        ELSE connect_cbk(Pop(c), Arg)
    /\ UNCHANGED budget

DoSent == Run("sent") /\ c' = tcp_send_cbk(Pop(c), Arg) /\ UNCHANGED budget

DoReceived ==
    /\ Run("received")
    /\ c' = IF Reliable THEN tcp_receive_cbk(Pop(c), Arg) ELSE udp_receive_cbk(Pop(c))
    /\ UNCHANGED budget

\* The UDP send callback is not bound to the strand.
UdpSent ==
    /\ c.done # <<>>
    /\ c' = udp_send_cbk([c EXCEPT !.done = Tail(@)], Head(c.done))
    /\ UNCHANGED budget

-----------------------------------------------------------------------------
(* Timers: expiry, then the callback *)

\* The delay between attempts is long compared with callbacks ready to run.
ConnectExpires ==
    /\ c.connect_timer
    /\ c.strand = <<>> /\ c.done = <<>> /\ "cancelled" \notin c.sent_timer
    /\ c' = [c EXCEPT !.connect_timer = FALSE, !.late_connect = TRUE]
    /\ UNCHANGED budget

wait_connect_cbk ==
    /\ c.late_connect
    /\ LET e == [c EXCEPT !.late_connect = FALSE]
       IN  c' = IF c.blocked THEN e ELSE Dispatch(e, Task("connect", "none"))
    /\ UNCHANGED budget

ConnectingExpires ==
    /\ c.connecting_timer
    /\ c' = [c EXCEPT !.connecting_timer = FALSE, !.late_connecting = TRUE]
    /\ UNCHANGED budget

\* Runs beside the strand.
wait_connecting_cbk ==
    /\ c.late_connecting
    /\ LET e == [c EXCEPT !.late_connecting = FALSE]
       IN  c' = IF c.blocked THEN e ELSE connect_cbk(e, "error")
    /\ UNCHANGED budget

SentWaitEnds ==
    /\ \E w \in c.sent_timer :
          c' = wait_until_sent([c EXCEPT !.sent_timer = @ \ {w}], w = "armed", FALSE)
    /\ UNCHANGED budget

\* The host's timer after on_connect.
Establish ==
    /\ c.establish
    /\ c' = set_established([c EXCEPT !.establish = FALSE])
    /\ UNCHANGED budget

-----------------------------------------------------------------------------
(* The host and the application *)

Send ==
    /\ budget.sends > 0
    /\ ~c.blocked
    /\ c.queue_size < QueueLimit
    /\ c' = queue_train(c)
    /\ budget' = [budget EXCEPT !.sends = @ - 1]

\* A service using the endpoint is offered (again).
start_if_closed ==
    /\ ~budget.stopped
    /\ budget.starts > 0
    /\ c.state = "CLOSED"
    /\ c' \in (IF Reliable THEN {Dispatch(c, Task("connect", "none"))} ELSE connect(c))
    /\ budget' = [budget EXCEPT !.starts = @ - 1]

\* A negative acknowledgement of a subscription, or the end of a suspend.
restart ==
    /\ ~budget.stopped
    /\ budget.restarts > 0
    /\ budget' = [budget EXCEPT !.restarts = @ - 1]
    /\ IF Reliable THEN c' = Dispatch(c, Task("restart", "none"))
       ELSE c' = IF c.state = "CONNECTING" THEN c ELSE udp_restart(c)

stop ==
    /\ ~budget.stopped
    /\ c' = Dispatch([c EXCEPT !.blocked = TRUE, !.queue = 0, !.queue_size = 0,
                               !.connect_timer = FALSE], Task("close", "none"))
    /\ budget' = [budget EXCEPT !.stopped = TRUE]

-----------------------------------------------------------------------------
(* Network and peer *)

Fault == budget.faults > 0 /\ budget' = [budget EXCEPT !.faults = @ - 1]

ConnectSucceeds ==
    /\ c.conn
    /\ c' = Dispatch([c EXCEPT !.conn = FALSE, !.link = "up"], Task("connected", "ok"))
    /\ UNCHANGED budget

ConnectFails ==
    /\ c.conn
    /\ Fault
    /\ c' = Sent(Dispatch([c EXCEPT !.conn = FALSE, !.writes = 0],
                          Task("connected", "error")), "error", c.writes)

Written ==
    /\ c.link = "up" /\ c.writes > 0
    /\ c' = Sent([c EXCEPT !.writes = @ - 1], "ok", 1)
    /\ UNCHANGED budget

\* The peer resets a TCP connection.
PeerResets ==
    /\ Reliable /\ c.link = "up"
    /\ Fault
    /\ LET e == [c EXCEPT !.link = "down", !.writes = 0, !.read = FALSE]
       IN  c' = Sent(IF c.read THEN Dispatch(e, Task("received", "eof")) ELSE e,
                     "error", c.writes)

\* TCP data that cannot be framed, or the ICMP answer of a closed UDP port.
ReadFails ==
    /\ c.read
    /\ Fault
    /\ c' = Dispatch([c EXCEPT !.read = FALSE], Task("received", "bad"))

UdpWriteFails ==
    /\ ~Reliable /\ c.writes > 0
    /\ Fault
    /\ \E r \in {"bad", "denied", "other"} : c' = Sent([c EXCEPT !.writes = @ - 1], r, 1)

-----------------------------------------------------------------------------

Init ==
    /\ c = [state |-> "CLOSED", open |-> FALSE, link |-> "none", conn |-> FALSE,
            writes |-> 0, read |-> FALSE, queue |-> 0, queue_size |-> 0,
            sending |-> FALSE, not_connected |-> FALSE, blocked |-> FALSE,
            aborts |-> 0, misled |-> FALSE,
            connect_timer |-> FALSE, late_connect |-> FALSE,
            connecting_timer |-> FALSE, late_connecting |-> FALSE,
            sent_timer |-> {}, establish |-> FALSE, host |-> FALSE,
            strand |-> <<>>, done |-> <<>>]
    /\ budget = [sends |-> MaxSends, faults |-> MaxFaults, starts |-> MaxStarts,
                 restarts |-> MaxRestarts, stopped |-> FALSE]

Strand ==
    \/ DoConnect \/ DoRestart \/ DoClose \/ DoSend
    \/ DoConnectCbk \/ DoConnected \/ DoSent \/ DoReceived

Timers ==
    \/ ConnectExpires \/ wait_connect_cbk
    \/ ConnectingExpires \/ wait_connecting_cbk
    \/ SentWaitEnds \/ Establish

Next ==
    \/ Strand \/ UdpSent \/ Timers
    \/ Send \/ start_if_closed \/ restart \/ stop
    \/ ConnectSucceeds \/ ConnectFails \/ Written
    \/ PeerResets \/ ReadFails \/ UdpWriteFails

Spec == Init /\ [][Next]_vars

-----------------------------------------------------------------------------

\* No callback, timer or operation other than the read is under way.
Quiescent ==
    /\ c.strand = <<>> /\ c.done = <<>> /\ c.sent_timer = {}
    /\ ~c.connect_timer /\ ~c.late_connect
    /\ ~c.connecting_timer /\ ~c.late_connecting
    /\ ~c.conn /\ c.writes = 0 /\ ~c.establish

\* Once started, an endpoint that is not stopped always works towards a
\* connection: when nothing is under way, it is connected, it reads, its queue
\* is written and its host knows.  A UDP endpoint may instead be closed with
\* its host told, which starts it again with the next offer, and a buffer whose
\* write failed may wait for the next send.  Not claimed once a callback of an
\* earlier socket was taken for one of the present (OwnCallbacks).
Recovers ==
    /\ Quiescent
    /\ ~c.blocked
    /\ ~c.misled
    /\ budget.starts < MaxStarts
    => \/ c.open /\ c.link = "up" /\ c.read /\ c.host /\ Started(c)
          /\ ~c.sending /\ (Reliable => c.queue = 0)
       \/ ~Reliable /\ ~c.open /\ ~c.host /\ c.state = "CLOSED"

\* A stopped endpoint ends with its socket closed and an empty queue, although
\* attempts, restarts and sends that began before may end after it.
StopCloses == Quiescent /\ budget.stopped => ~c.open /\ c.queue = 0

\* The comment "endpoint was stopped" at the aborted send callback: sending is
\* blocked for good only because the endpoint was stopped.
BlockedOnlyByStop == c.blocked => budget.stopped

\* The comment in endpoint_manager_impl::on_connect, "endpoint is ready to send
\* / receive": when nothing is under way, an endpoint whose services were
\* reported as connected has a socket.
ConnectedIsReady == Quiescent /\ c.host => c.open

\* queue_size_, which admits messages, is what is in the queue.
SizeOfQueue == c.queue_size = c.queue

=============================================================================
