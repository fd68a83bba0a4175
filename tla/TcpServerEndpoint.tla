------------------------- MODULE TcpServerEndpoint -------------------------
(***************************************************************************)
(* The TCP server endpoint: the acceptor, the connections of the remote    *)
(* peers (connections_, keyed by their address and port), the output queue *)
(* of every peer (targets_) and the subscriptions that end with a          *)
(* connection.  A peer keeps its port, so that it comes back under the     *)
(* same key.                                                               *)
(*                                                                         *)
(* Two things happen outside of the endpoint's locks and are steps of      *)
(* their own: an operation of a socket ends, and the handler of that end   *)
(* runs.  Closing a socket ends its operations with an error.              *)
(***************************************************************************)
EXTENDS Naturals, Sequences, FiniteSets

CONSTANTS
    Peers,
    MaxConnections,  \* bound: connections made by peers
    MaxSends,        \* bound: messages handed to the endpoint
    MaxStops,        \* bound: calls of stop
    MaxFaults,       \* bound: accepts out of descriptors, rejected streams
    QueueLimit       \* queue_limit_, in messages

VARIABLES e, budget

vars == <<e, budget>>

Connections == 1..MaxConnections
None == 0

NoTarget == [known |-> FALSE, queue |-> <<>>, sending |-> FALSE]

Referenced(s, c) ==
    \/ \E p \in Peers : s.conns[p] = c
    \/ c \in s.receiving
    \/ \E w \in s.writes : w.conn = c
    \/ \E w \in s.waits : w.conn = c

\* connection::stop closes the socket, which ends its operations; the aborted
\* receive returns at once.
connection_stop(s, c) ==
    [s EXCEPT !.sock[c] = "closed",
              !.receiving = @ \ {c},
              !.writes = {IF w.conn = c /\ w.st = "going"
                          THEN [w EXCEPT !.st = "failed"] ELSE w : w \in @}]

\* ~connection, for every connection nothing refers to any more: its
\* subscriptions, known by the address of the peer, are removed.
Destroy(s) ==
    LET dead == {c \in Connections : s.sock[c] \in {"open", "closed"} /\ ~Referenced(s, c)}
    IN  [s EXCEPT !.sock = [c \in Connections |-> IF c \in dead THEN "gone" ELSE @[c]],
                  !.subs = @ \ {s.peer[c] : c \in dead}]

\* Bug: whatever connection the peer has now is removed.
remove_connection_Any(s, c) ==
    [s EXCEPT !.conns[s.peer[c]] = None]

remove_connection(s, c) ==
    IF s.conns[s.peer[c]] = c THEN [s EXCEPT !.conns[s.peer[c]] = None] ELSE s

stop_and_remove_connection(s, c) == remove_connection(connection_stop(s, c), c)

\* Cancelling sent_timer_, or setting it anew, ends a pending wait.
CancelWait(s, p) ==
    [s EXCEPT !.waits = {IF w.peer = p THEN [w EXCEPT !.st = "aborted"] ELSE w : w \in @}]

\* A connection to be closed lets a message that is being written finish.
wait_until_sent(s, c, error) ==
    LET p == s.peer[c] IN
        IF s.targets[p].known /\ s.targets[p].sending /\ error
        THEN [CancelWait(s, p) EXCEPT !.waits = @ \cup {[peer |-> p, conn |-> c, st |-> "armed"]}]
        ELSE stop_and_remove_connection(s, c)

\* The server's and the connection's send_queued.  Without a connection the
\* messages are dropped; the flag is_sending_ is left as it is.
send_queued(s, p) ==
    LET c == s.conns[p] IN
        IF c # None
        THEN [s EXCEPT !.targets[p].sending = TRUE,
                       !.writes = @ \cup {[peer |-> p, conn |-> c, msg |-> Head(s.targets[p].queue),
                                           st |-> IF s.sock[c] = "open" THEN "going" ELSE "failed"]}]
        ELSE [s EXCEPT !.targets[p].queue = <<>>]

check_queue_limit(s, p) == Len(s.targets[p].queue) + 1 <= QueueLimit

queue_train(s, p, m) ==
    LET q == [s EXCEPT !.targets[p].queue = Append(@, m)]
    IN  IF s.targets[p].sending THEN q ELSE send_queued(q, p)

send_cbk(s, w) ==
    LET p == w.peer
        t == s.targets[p]
        r == CancelWait(s, p)
    IN  CASE ~t.known -> s
          [] t.known /\ t.queue = <<>> -> [r EXCEPT !.targets[p].sending = FALSE]
          [] t.known /\ t.queue # <<>> /\ w.st = "failed" -> [r EXCEPT !.targets[p] = NoTarget]
          [] OTHER ->
               LET q == [r EXCEPT !.targets[p].queue = Tail(@)]
               IN  IF Len(t.queue) = 1 THEN [q EXCEPT !.targets[p].sending = FALSE]
                   ELSE send_queued(q, p)

\* start: one more accept, if the acceptor is open.
start(s) == IF s.open THEN [s EXCEPT !.accepts = @ + 1] ELSE s

-----------------------------------------------------------------------------

Init ==
    /\ e = [open |-> TRUE, accepts |-> 1, retries |-> 0,
            sock |-> [c \in Connections |-> "none"],
            peer |-> [c \in Connections |-> CHOOSE p \in Peers : TRUE],
            alive |-> {},
            conns |-> [p \in Peers |-> None],
            receiving |-> {}, writes |-> {}, waits |-> {},
            targets |-> [p \in Peers |-> NoTarget],
            subs |-> {}]
    /\ budget = [connects |-> MaxConnections, sends |-> MaxSends,
                 stops |-> MaxStops, faults |-> MaxFaults]

Spend(what) == budget[what] > 0 /\ budget' = [budget EXCEPT ![what] = @ - 1]

\* A peer connects; it has no other live connection.
Connect(p) ==
    /\ Spend("connects")
    /\ e.open
    /\ \A c \in e.alive : e.peer[c] # p
    /\ LET c == MaxConnections - budget.connects + 1 IN
           e' = [e EXCEPT !.sock[c] = "backlog", !.peer[c] = p, !.alive = @ \cup {c}]

First(c, st) == e.sock[c] = st /\ \A d \in 1..(c - 1) : e.sock[d] # st

\* async_accept ends, with the oldest connection of the backlog.
Accepted(c) ==
    /\ First(c, "backlog") /\ e.accepts > 0
    /\ e' = [e EXCEPT !.sock[c] = "accepted", !.accepts = @ - 1]
    /\ UNCHANGED budget

accept_cbk(c) ==
    /\ First(c, "accepted")
    /\ e' = start(Destroy([e EXCEPT !.sock[c] = "open", !.conns[e.peer[c]] = c,
                                    !.receiving = @ \cup {c}]))
    /\ UNCHANGED budget

\* no_descriptors: the accept is repeated by a timer.
AcceptFails ==
    /\ Spend("faults")
    /\ e.accepts > 0
    /\ e' = [e EXCEPT !.accepts = @ - 1, !.retries = @ + 1]

AcceptAgain ==
    /\ e.retries > 0
    /\ e' = start([e EXCEPT !.retries = @ - 1])
    /\ UNCHANGED budget

PeerCloses(c) ==
    /\ c \in e.alive
    /\ e' = [e EXCEPT !.alive = @ \ {c}]
    /\ UNCHANGED budget

\* connection::receive_cbk with the end of the stream, a reset or a timeout.
ReceiveEnds(c) ==
    /\ c \in e.receiving /\ c \notin e.alive
    /\ e' = Destroy(wait_until_sent([e EXCEPT !.receiving = @ \ {c}], c, TRUE))
    /\ UNCHANGED budget

\* connection::receive_cbk with data that is no message.
ReceiveRejected(c) ==
    /\ Spend("faults")
    /\ c \in e.receiving /\ c \in e.alive
    /\ e' = Destroy(wait_until_sent([e EXCEPT !.receiving = @ \ {c}], c, TRUE))

SentTimer(w) ==
    /\ w \in e.waits
    /\ e' = Destroy(wait_until_sent([e EXCEPT !.waits = @ \ {w}], w.conn, w.st = "aborted"))
    /\ UNCHANGED budget

\* async_write ends; a peer that is gone lets it fail sooner or later.
WriteEnds(w) ==
    /\ w \in e.writes /\ w.st = "going"
    /\ \E st \in {"done"} \cup (IF w.conn \in e.alive THEN {} ELSE {"failed"}) :
           e' = [e EXCEPT !.writes = (@ \ {w}) \cup {[w EXCEPT !.st = st]}]
    /\ UNCHANGED budget

\* write_completion_condition and the completion handler.
WriteHandler(w) ==
    /\ w \in e.writes /\ w.st # "going"
    /\ LET s == [e EXCEPT !.writes = @ \ {w}] IN
           e' = Destroy(IF w.st = "failed"
                        THEN send_cbk(stop_and_remove_connection(s, w.conn), w)
                        ELSE send_cbk(s, w))
    /\ UNCHANGED budget

Send(p) ==
    /\ Spend("sends")
    /\ check_queue_limit(e, p)
    /\ e' = queue_train([e EXCEPT !.targets[p].known = TRUE], p, budget.sends)

\* A subscription of the peer is accepted only over its connection
\* (is_established_to).
Subscribe(p) ==
    /\ e.conns[p] # None
    /\ e' = [e EXCEPT !.subs = @ \cup {p}]
    /\ UNCHANGED budget

\* Connections nobody accepted yet are reset.
stop ==
    /\ Spend("stops")
    /\ e.open
    /\ LET known  == {c \in Connections : \E p \in Peers : e.conns[p] = c}
           queued == {c \in Connections : e.sock[c] = "backlog"}
       IN  e' = Destroy([e EXCEPT
                   !.open = FALSE, !.accepts = 0,
                   !.alive = @ \ (known \cup queued),
                   !.sock = [c \in Connections |-> IF c \in known THEN "closed"
                                                   ELSE IF c \in queued THEN "gone" ELSE @[c]],
                   !.receiving = @ \ known,
                   !.writes = {IF w.conn \in known /\ w.st = "going"
                               THEN [w EXCEPT !.st = "failed"] ELSE w : w \in @},
                   !.conns = [p \in Peers |-> None]])

\* init and start, after stop.
restart ==
    /\ ~e.open
    /\ e' = start([e EXCEPT !.open = TRUE])
    /\ UNCHANGED budget

Next ==
    \/ \E p \in Peers : Connect(p) \/ Send(p) \/ Subscribe(p)
    \/ \E c \in Connections :
          \/ Accepted(c) \/ accept_cbk(c)
          \/ PeerCloses(c) \/ ReceiveEnds(c) \/ ReceiveRejected(c)
    \/ \E w \in e.waits : SentTimer(w)
    \/ \E w \in e.writes : WriteEnds(w) \/ WriteHandler(w)
    \/ AcceptFails \/ AcceptAgain
    \/ stop \/ restart

Spec == Init /\ [][Next]_vars

-----------------------------------------------------------------------------

\* An open acceptor always accepts, or a handler or a timer that will make
\* it accept is pending: no failed, late or repeated accept ends it.
AlwaysAccepts ==
    e.open => \/ e.accepts > 0
              \/ e.retries > 0
              \/ \E c \in Connections : e.sock[c] = "accepted"

\* Two writes to a peer are never under way together, over stops, reconnects
\* and failures: their bytes would mix in the stream.
OneWrite == \A v, w \in e.writes : v.peer = w.peer => v = w

Quiet ==
    /\ e.writes = {} /\ e.waits = {}
    /\ e.receiving \subseteq e.alive
    /\ \A c \in Connections : e.sock[c] # "accepted"

\* Once all handlers have run, a connection is known exactly if it is open
\* and its peer lives: no late handler of an earlier connection removed the
\* present one, no dead one stays, and only connected peers are subscribed.
KnownIsAlive ==
    Quiet =>
        /\ \A c \in Connections :
              (c \in e.alive /\ e.sock[c] = "open") <=> e.conns[e.peer[c]] = c /\ e.sock[c] # "none"
        /\ \A c \in Connections : e.sock[c] = "open" => c \in e.receiving
        /\ \A p \in e.subs : e.conns[p] # None

\* is_sending_ as send_error and queue_train read it: "no writing in
\* progress" if it is not set, and a write in progress if it is.
SendingIsWriting ==
    \A p \in Peers : e.targets[p].sending <=> \E w \in e.writes : w.peer = p

=============================================================================
