----------------------------- MODULE NpduTrains -----------------------------
(***************************************************************************)
(* The batching stage of an IP endpoint (nPDU, "Zugverfahren"): a message  *)
(* boards the current train, a train leaves when its departure time comes, *)
(* and a train that may not take a further passenger is scheduled for a    *)
(* departure of its own while a new train is opened.  The rules are those  *)
(* of client_endpoint_impl (send, send_segments, schedule_train, flush,    *)
(* start_dispatch_timer).                                                  *)
(*                                                                         *)
(* server_endpoint_impl keeps such trains for each of its targets.  It     *)
(* differs in that a message without configured times does not travel by   *)
(* train, and in that a failed write erases the target, with all that      *)
(* waited for it, until the next message creates it anew.  ServerSpec      *)
(* follows one target.                                                     *)
(*                                                                         *)
(* Time is discrete and the dispatch timer is exact: the clock does not    *)
(* pass a deadline.  Handing a buffer to the socket is its departure; the  *)
(* completion, which starts the next write, comes at any later time.       *)
(***************************************************************************)
EXTENDS Naturals, Sequences, FiniteSets

CONSTANTS
    Methods,      \* methods of the remote service
    Debounce,     \* per method, get_configured_times_from_endpoint
    Retention,
    TrainSize,    \* max_message_size_, in messages
    QueueLimit,   \* queue_limit_, in messages
    MaxMessages,  \* bound: messages handed to send
    Horizon,      \* bound: the clock stops here
    MaxErrors     \* bound: failed writes of a server

VARIABLES
    now,
    sender,   \* the endpoint's trains, timer and output queue (mutex_)
    count,    \* messages accepted so far; a message is its number
    departed, \* what reached the socket: [msg, at], in order
    errors    \* failed writes a server may still see; a client leaves it alone

vars == <<now, sender, count, departed>>
serverVars == <<now, sender, count, departed, errors>>

NoTimer == Horizon + 1000
NoDeparture == Horizon + 1000
Max == 1000                      \* DEFAULT_NANOSECONDS_MAX
SixHours == 500

Min2(a, b) == IF a < b THEN a ELSE b
Max2(a, b) == IF a > b THEN a ELSE b

\* A message: its number, its method and whether it is cut into segments.
Message(id, m, big) == [id |-> id, method |-> m, big |-> big]

train(t) == [load |-> <<>>, debounce |-> Max, retention |-> Max,
             departure |-> t + SixHours]

Passengers(tr) == {tr.load[i].method : i \in 1..Len(tr.load)}

Load(seq) == LET sum[i \in 0..Len(seq)] ==
                     IF i = 0 THEN 0 ELSE sum[i - 1] + Len(seq[i].load)
             IN  sum[Len(seq)]

get_pending_train_size(e) == Len(e.train.load) + Load(e.dispatched)

\* queue_size_ is the number of messages in the buffers of queue_.
queue_size(e) == LET sum[i \in 0..Len(e.queue)] ==
                         IF i = 0 THEN 0 ELSE sum[i - 1] + Len(e.queue[i])
                 IN  sum[Len(e.queue)]

check_queue_limit(e, n) ==
    queue_size(e) + get_pending_train_size(e) + n <= QueueLimit

\* dispatched_trains_ is a map from departure times to queues: kept here as
\* one sequence, sorted by departure, first come first out for equal times.
schedule_train(e) ==
    LET tr == IF /\ e.last # NoDeparture
                 /\ e.last + e.train.debounce > e.train.departure
              THEN [e.train EXCEPT !.departure = e.last + e.train.debounce]
              ELSE e.train
        k  == Cardinality({i \in 1..Len(e.dispatched) :
                             e.dispatched[i].departure <= tr.departure})
    IN  [e EXCEPT !.dispatched = SubSeq(@, 1, k) \o <<tr>>
                                 \o SubSeq(@, k + 1, Len(@))]

NewTrain(e, m) ==
    [e EXCEPT !.train = [train(now) EXCEPT !.departure = now + Retention[m]]]

\* Bug: the timer is set to the current train, scheduled ones are forgotten.
start_dispatch_timer_CurrentOnly(e) ==
    [e EXCEPT !.timer = Max2(now, e.train.departure)]

start_dispatch_timer(e) ==
    LET d == IF /\ e.dispatched # <<>>
                /\ Head(e.dispatched).departure < e.train.departure
             THEN Head(e.dispatched).departure
             ELSE e.train.departure
    IN  [e EXCEPT !.timer = Max2(now, d)]

\* STEP 4.1 to STEP 7 of send, for a passenger entering a train that is not
\* empty: it cannot travel with this train.
MustDepart(tr, m) ==
    \/ m \in Passengers(tr)
    \/ Len(tr.load) + 1 > TrainSize
    \/ Debounce[m] > tr.retention
    \/ now + Debounce[m] > tr.departure
    \/ Retention[m] < tr.debounce

\* STEP 9
Board(tr, msg) ==
    [tr EXCEPT !.load = Append(@, msg),
               !.debounce = Min2(@, Debounce[msg.method]),
               !.retention = Min2(@, Retention[msg.method])]

send(e, msg) ==
    LET m == msg.method
        e1 == CASE e.train.load = <<>> ->
                     [e EXCEPT !.train.departure = now + Retention[m]]
                [] e.train.load # <<>> /\ MustDepart(e.train, m) ->
                     NewTrain(schedule_train(e), m)
                [] OTHER ->
                     [e EXCEPT !.train.departure = Min2(@, now + Retention[m])]
    IN  start_dispatch_timer([e1 EXCEPT !.train = Board(@, msg)])

\* The result of handing something to the socket: the endpoint, and the
\* messages that left.
send_queued(e) ==
    IF ~e.sending /\ e.queue # <<>>
    THEN [sender |-> [e EXCEPT !.sending = TRUE], out |-> Head(e.queue)]
    ELSE [sender |-> e, out |-> <<>>]

queue_train(e, tr) == send_queued([e EXCEPT !.queue = Append(@, tr.load)])

\* A message too big for a train leaves at once, cut into segments; the
\* current train is only scheduled.  The dispatch timer is left alone.
send_segments(e, msg) ==
    LET m == msg.method
        e1 == [e EXCEPT !.train.debounce = Min2(@, Debounce[m]),
                        !.train.retention = Min2(@, Retention[m])]
        e2 == IF e.train.load # <<>> THEN NewTrain(schedule_train(e1), m) ELSE e1
    IN  send_queued([e2 EXCEPT !.queue = Append(@, <<msg>>)])

flush(e) ==
    LET scheduled == /\ e.dispatched # <<>>
                     /\ Head(e.dispatched).departure <= e.train.departure
        tr == IF scheduled THEN Head(e.dispatched) ELSE e.train
        e1 == IF scheduled THEN [e EXCEPT !.dispatched = Tail(@)] ELSE e
        r  == IF tr.load # <<>> THEN queue_train(e1, tr)
                                ELSE [sender |-> e1, out |-> <<>>]
        e2 == IF ~scheduled /\ tr.load # <<>>
              THEN [r.sender EXCEPT !.train = train(now)] ELSE r.sender
    IN  [sender  |-> IF scheduled \/ e2.dispatched # <<>>
                 THEN start_dispatch_timer(e2) ELSE e2,
         out |-> r.out]

\* send_cbk without an error: the buffer leaves the queue, the time counts as
\* the last departure and the next buffer follows.
send_cbk(e) ==
    send_queued([e EXCEPT !.queue = Tail(@), !.sending = FALSE, !.last = now])

-----------------------------------------------------------------------------

Leave(out) == departed' = departed \o [i \in 1..Len(out) |-> [msg |-> out[i], at |-> now]]

Init ==
    /\ now = 0
    /\ sender = [train |-> [load |-> <<>>, debounce |-> Max, retention |-> Max,
                        departure |-> SixHours],
             dispatched |-> <<>>, timer |-> NoTimer, last |-> NoDeparture,
             queue |-> <<>>, sending |-> FALSE]
    /\ count = 0
    /\ departed = <<>>

\* STEP 1 cancels the dispatch timer, STEP 10 starts it again.
Send(m) ==
    /\ count < MaxMessages
    /\ check_queue_limit(sender, 1)
    /\ count' = count + 1
    /\ sender' = send(sender, Message(count', m, FALSE))
    /\ UNCHANGED <<now, departed>>

SendBig(m) ==
    /\ count < MaxMessages
    /\ check_queue_limit(sender, 1)
    /\ count' = count + 1
    /\ LET r == send_segments(sender, Message(count', m, TRUE))
       IN  sender' = r.sender /\ Leave(r.out)
    /\ UNCHANGED now

Flush ==
    /\ sender.timer = now
    /\ LET r == flush([sender EXCEPT !.timer = NoTimer])
       IN  sender' = r.sender /\ Leave(r.out)
    /\ UNCHANGED <<now, count>>

Sent ==
    /\ sender.sending
    /\ LET r == send_cbk(sender) IN sender' = r.sender /\ Leave(r.out)
    /\ UNCHANGED <<now, count>>

Tick ==
    /\ now < Horizon
    /\ sender.timer > now
    /\ now' = now + 1
    /\ UNCHANGED <<sender, count, departed>>

Next ==
    \/ \E m \in Methods : Send(m) \/ SendBig(m)
    \/ Flush
    \/ Sent
    \/ Tick

Spec == Init /\ [][Next]_vars

-----------------------------------------------------------------------------
(* A target of a server endpoint. *)

\* endpoint_data_type as it is created.
EmptyTarget ==
    [train |-> train(now), dispatched |-> <<>>, timer |-> NoTimer,
     last |-> NoDeparture, queue |-> <<>>, sending |-> FALSE]

Immediate(m) == Debounce[m] = 0 /\ Retention[m] = 0

\* send_segments of a server: the rules of a client, for the target's trains.
target_send_segments(e, msg) == send_segments(e, msg)

\* STEP 1 is the guard of Send.
send_intern(e, msg) ==
    CASE msg.big -> target_send_segments(e, msg)
      [] ~msg.big /\ Immediate(msg.method) -> queue_train(e, [load |-> <<msg>>])
      [] OTHER -> [sender |-> send(e, msg), out |-> <<>>]

\* send_cbk with an error: outstanding messages are deleted.
target_send_cbk(e, error) ==
    IF error THEN [sender |-> EmptyTarget, out |-> <<>>] ELSE send_cbk(e)

ServerInit == Init /\ errors = MaxErrors

ServerSend(m, big) ==
    /\ count < MaxMessages
    /\ check_queue_limit(sender, 1)
    /\ count' = count + 1
    /\ LET r == send_intern(sender, Message(count', m, big))
       IN  sender' = r.sender /\ Leave(r.out)
    /\ UNCHANGED <<now, errors>>

\* flush of a server, for the target's trains.  The timer of a target that was
\* erased is gone with it.
ServerFlush == Flush /\ UNCHANGED errors

ServerSent(error) ==
    /\ sender.sending
    /\ error => errors > 0
    /\ errors' = IF error THEN errors - 1 ELSE errors
    /\ LET r == target_send_cbk(sender, error) IN sender' = r.sender /\ Leave(r.out)
    /\ UNCHANGED <<now, count>>

ServerNext ==
    \/ \E m \in Methods, big \in BOOLEAN : ServerSend(m, big)
    \/ ServerFlush
    \/ \E error \in BOOLEAN : ServerSent(error)
    \/ Tick /\ UNCHANGED errors

ServerSpec == ServerInit /\ [][ServerNext]_serverVars

-----------------------------------------------------------------------------

\* Nothing is left on a platform: while a train carries messages the dispatch
\* timer runs, and it expires no later than the first of these trains leaves,
\* whatever the order of sends, segmented sends, flushes and completions.
NoneLeftBehind ==
    LET loaded == {sender.dispatched[i].departure : i \in 1..Len(sender.dispatched)}
                  \cup (IF sender.train.load = <<>> THEN {} ELSE {sender.train.departure})
    IN  \A d \in loaded : sender.timer <= Max2(now, d)

\* Messages to the same method that travel by train arrive in the order send
\* accepted them, although trains are scheduled, delayed by their debounce
\* time and flushed independently of each other.
InOrder ==
    \A i, j \in 1..Len(departed) :
        LET a == departed[i].msg
            b == departed[j].msg
        IN  i < j /\ a.method = b.method /\ ~a.big /\ ~b.big => a.id < b.id

\* documentation/vsomeipConfiguration.md: the debounce time is the "minimal
\* time between sending a message to the same method of a remote service over
\* the same connection".
DebounceRespected ==
    \A i, j \in 1..Len(departed) :
        i < j /\ departed[i].msg.method = departed[j].msg.method
            => departed[j].at - departed[i].at >= Debounce[departed[i].msg.method]

\* Waiting messages are flushed in time, as NoneLeftBehind has it, and what
\* is queued is being written: also after messages that do not wait, segments
\* and failed writes.
NoneWaits ==
    /\ NoneLeftBehind
    /\ sender.queue # <<>> => sender.sending

=============================================================================
