------------------------- MODULE UdpServerEndpoint -------------------------
(***************************************************************************)
(* The UDP server endpoint: its unicast and its multicast socket, the      *)
(* receive loops on them, the multicast groups it joined and the output    *)
(* queue of one target.  A receive loop is a chain of handlers; a handler  *)
(* compares the lifecycle it was started in with the present one before it *)
(* takes the data, and again, with the lock held, before it receives on.   *)
(***************************************************************************)
EXTENDS Naturals, Sequences

CONSTANTS
    Groups,       \* multicast addresses
    MaxStarts,    \* bound: calls of start
    MaxRestarts,  \* bound: calls of stop and restart
    MaxJoins,     \* bound: calls of join
    MaxFaults,    \* bound: failures of the system's calls
    MaxSends      \* bound: messages to the target

VARIABLES u, budget

vars == <<u, budget>>

NoSocket == 0
NoTarget == [known |-> FALSE, queue |-> <<>>, sending |-> FALSE]

Spend(what) == budget[what] > 0 /\ budget' = [budget EXCEPT ![what] = @ - 1]
Fault(happens) ==
    IF happens THEN Spend("faults") ELSE UNCHANGED budget

Handler(kind, idx) == [kind |-> kind, idx |-> idx, st |-> "waiting"]

\* Closing a socket aborts the pending receive, whose handler just returns;
\* a handler whose receive has already ended still runs.
Abort(s, kind) ==
    [s EXCEPT !.handlers = SelectSeq(@, LAMBDA h : ~(h.kind = kind /\ h.st = "waiting"))]

receive_unicast_unlocked(s) ==
    IF s.uni # NoSocket
    THEN [s EXCEPT !.handlers = Append(@, Handler("uni", s.idx))] ELSE s

receive_multicast_unlocked(s) ==
    IF s.multi # NoSocket
    THEN [s EXCEPT !.handlers = Append(@, Handler("multi", s.midx))] ELSE s

\* Creating the multicast socket starts its receive loop.
OpenMulticast(s) ==
    IF s.multi # NoSocket THEN s
    ELSE receive_multicast_unlocked(
             [s EXCEPT !.multi = s.sockets + 1, !.sockets = @ + 1,
                       !.status = {}, !.member = {}])

CloseMulticast(s) == Abort([s EXCEPT !.multi = NoSocket, !.member = {}], "multi")

\* set_multicast_option_unlocked to leave; the socket goes with the last group.
leave_option(s, a, ok) ==
    IF s.stopped THEN s
    ELSE LET r == [s EXCEPT !.status = @ \ {a}]
             q == IF ok THEN [r EXCEPT !.member = @ \ {a}] ELSE r
         IN  IF s.multi = NoSocket THEN r
             ELSE IF \E b \in Groups : s.joined[b] # "no" THEN q
             ELSE [CloseMulticast(q) EXCEPT !.midx = @ + 1]

\* join_multicast_with_retry, all of its attempts: in the end the group is
\* joined, was refused, or there is not even a socket.
join_multicast_with_retry(s, a, outcome) ==
    IF s.stopped \/ (s.multi # NoSocket /\ a \in s.status) THEN s
    ELSE CASE outcome = "joined" ->
               [OpenMulticast(s) EXCEPT !.status = @ \cup {a}, !.member = @ \cup {a},
                                        !.joined[a] = "yes"]
           [] outcome = "refused" \/ s.multi # NoSocket ->
               [OpenMulticast(s) EXCEPT !.status = @ \ {a}, !.member = @ \ {a},
                                        !.joined[a] = "no"]
           [] OTHER -> [s EXCEPT !.joined[a] = "no"]

RECURSIVE Rejoin(_, _, _)
Rejoin(s, as, outcome) ==
    IF as = {} THEN s
    ELSE LET a == CHOOSE b \in as : TRUE
         IN  Rejoin(join_multicast_with_retry(s, a, outcome[a]), as \ {a}, outcome)

start_unlocked(s, outcome) ==
    IF ~s.stopped THEN s
    ELSE LET r == [s EXCEPT !.idx = @ + 1, !.midx = @ + 1] IN
         IF s.uni = NoSocket THEN r
         ELSE Rejoin(receive_unicast_unlocked([r EXCEPT !.stopped = FALSE]),
                     {a \in Groups : s.joined[a] # "no"}, outcome)

\* Writes of the closed socket fail.
stop_unlocked(s) ==
    IF s.stopped THEN s
    ELSE CloseMulticast(Abort(
             [s EXCEPT !.idx = @ + 1, !.midx = @ + 1, !.stopped = TRUE, !.uni = NoSocket,
                       !.status = {},
                       !.writes = [i \in 1..Len(@) |->
                                     IF @[i].st = "going" THEN [@[i] EXCEPT !.st = "failed"]
                                     ELSE @[i]]], "uni"))

init_unlocked(s, ok) ==
    IF s.uni # NoSocket THEN s
    ELSE LET r == [s EXCEPT !.target.sending = FALSE]
         IN  IF ok THEN [r EXCEPT !.uni = s.sockets + 1, !.sockets = @ + 1] ELSE r

send_queued(s) ==
    IF s.uni # NoSocket
    THEN [s EXCEPT !.target.sending = TRUE,
                   !.writes = Append(@, [msg |-> Head(s.target.queue), st |-> "going"])]
    ELSE s

send_cbk(s, w) ==
    LET t == s.target IN
        CASE ~t.known -> s
          [] t.known /\ t.queue = <<>> -> [s EXCEPT !.target.sending = FALSE]
          [] t.known /\ t.queue # <<>> /\ w.st = "failed" -> [s EXCEPT !.target = NoTarget]
          [] OTHER -> LET r == [s EXCEPT !.target.queue = Tail(@), !.target.sending = FALSE]
                      IN  IF r.target.queue = <<>> THEN r ELSE send_queued(r)

-----------------------------------------------------------------------------

\* init has succeeded, start has not been called yet.
Init ==
    /\ u = [stopped |-> TRUE, uni |-> 1, multi |-> NoSocket, sockets |-> 1,
            idx |-> 0, midx |-> 0,
            joined |-> [a \in Groups |-> "no"], status |-> {}, member |-> {},
            handlers |-> <<>>, deaf |-> {}, target |-> NoTarget, writes |-> <<>>]
    /\ budget = [starts |-> MaxStarts, restarts |-> MaxRestarts, joins |-> MaxJoins,
                 faults |-> MaxFaults, sends |-> MaxSends]

Outcomes == {"joined", "refused", "no_socket"}

\* At most one group is refused at a time, within the bound of faults.
JoinOutcomes ==
    {f \in [Groups -> Outcomes] : \A a, b \in Groups :
        f[a] # "joined" /\ f[b] # "joined" => a = b}

start ==
    /\ u.stopped
    /\ Spend("starts")
    /\ \E f \in JoinOutcomes :
          u' = [start_unlocked(u, f) EXCEPT !.deaf = {}]

stop ==
    /\ ~u.stopped
    /\ Spend("restarts")
    /\ u' = stop_unlocked(u)

\* stop, init and start with the lock held all the time.
restart ==
    /\ budget.restarts > 0
    /\ \E f \in JoinOutcomes, ok \in BOOLEAN :
          LET faulty == ~ok \/ \E a \in Groups : f[a] # "joined"
              s == init_unlocked(stop_unlocked(u), ok)
          IN  /\ faulty => budget.faults > 0
              /\ budget' = [budget EXCEPT !.restarts = @ - 1,
                                          !.faults = IF faulty THEN @ - 1 ELSE @]
              /\ u' = [IF ok THEN start_unlocked(s, f) ELSE s EXCEPT !.deaf = {}]

join(a) ==
    /\ Spend("joins")
    /\ u.joined[a] = "no"
    /\ \E outcome \in Outcomes :
          u' = join_multicast_with_retry([u EXCEPT !.joined[a] = "waiting"], a, outcome)

leave(a) ==
    /\ u.joined[a] # "no"
    /\ \E ok \in BOOLEAN :
          /\ Fault(~ok)
          /\ u' = leave_option([u EXCEPT !.joined[a] = "no"], a, ok)

Set(i, st) == [u EXCEPT !.handlers[i].st = st]
Remove(i) == [u EXCEPT !.handlers = SubSeq(@, 1, i - 1) \o SubSeq(@, i + 1, Len(@))]

\* A datagram arrives.
Data(i) ==
    /\ u.handlers[i].st = "waiting"
    /\ u' = Set(i, "ready")
    /\ UNCHANGED budget

Current(h) == h.idx = IF h.kind = "uni" THEN u.idx ELSE u.midx

\* The receive ends with an error after which the loop is not continued.
Reset(i) ==
    /\ Fault(TRUE)
    /\ u.handlers[i].st = "waiting"
    /\ u' = [Remove(i) EXCEPT !.deaf = @ \cup {u.handlers[i].kind}]

\* The handler before it takes the lock: the data is handed over.
Handle(i) ==
    /\ u.handlers[i].st = "ready"
    /\ u' = IF Current(u.handlers[i]) THEN Set(i, "handling") ELSE Remove(i)
    /\ UNCHANGED budget

\* The handler with the lock.
Continue(i) ==
    /\ u.handlers[i].st = "handling"
    /\ u' = CASE ~Current(u.handlers[i]) -> Remove(i)
              [] u.handlers[i].kind = "uni" /\ Current(u.handlers[i]) ->
                   receive_unicast_unlocked(Remove(i))
              [] OTHER -> receive_multicast_unlocked(Remove(i))
    /\ UNCHANGED budget

Send ==
    /\ Spend("sends")
    /\ LET q == [u EXCEPT !.target.known = TRUE, !.target.queue = Append(@, budget.sends)]
       IN  u' = IF u.target.sending THEN q ELSE send_queued(q)

WriteEnds(i) ==
    /\ u.writes[i].st = "going"
    /\ u' = [u EXCEPT !.writes[i].st = "done"]
    /\ UNCHANGED budget

WriteHandler(i) ==
    /\ u.writes[i].st # "going"
    /\ u' = send_cbk([u EXCEPT !.writes = SubSeq(@, 1, i - 1) \o SubSeq(@, i + 1, Len(@))],
                     u.writes[i])
    /\ UNCHANGED budget

Next ==
    \/ start \/ stop \/ restart \/ Send
    \/ \E a \in Groups : join(a) \/ leave(a)
    \/ \E i \in 1..Len(u.handlers) : Data(i) \/ Reset(i) \/ Handle(i) \/ Continue(i)
    \/ \E i \in 1..Len(u.writes) : WriteEnds(i) \/ WriteHandler(i)

Spec == Init /\ [][Next]_vars

-----------------------------------------------------------------------------

Loops(kind) ==
    LET loops == SelectSeq(u.handlers, LAMBDA h : h.kind = kind /\ Current(h))
    IN  Len(loops)

\* Over every order of restarts, joins, leaves and late handlers an endpoint
\* that is started receives on each of its sockets with exactly one loop:
\* not with none, which is deaf, and not with two, which swap datagrams.
ListensOnce ==
    /\ ~u.stopped /\ "uni" \notin u.deaf => Loops("uni") = 1
    /\ u.multi # NoSocket /\ "multi" \notin u.deaf => Loops("multi") = 1

\* A started endpoint is a member of every group it holds for joined, also
\* after its socket was replaced or a group was left and joined again.
JoinedIsMember ==
    ~u.stopped => \A a \in Groups :
        u.joined[a] # "no" => u.joined[a] = "yes" /\ a \in u.member

\* is_sending_ is never left set with nothing being written: the target
\* would be silent for good.
NotStuck == u.target.sending => u.writes # <<>>

=============================================================================
