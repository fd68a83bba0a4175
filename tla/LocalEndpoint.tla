--------------------------- MODULE LocalEndpoint ---------------------------
(***************************************************************************)
(* One local (same host) connection of an application: local_endpoint.cpp  *)
(* over a local_socket.  The endpoint lives under one mutex; the places    *)
(* where the code releases it are steps of their own: the wait of          *)
(* stop_internal(), the call of the cleanup handler, and each call of      *)
(* routing_host::on_message in process().                                  *)
(*                                                                         *)
(* The socket is external: connecting, reading and writing complete some   *)
(* time after they were issued, a completion waits in the io_context until *)
(* a thread runs the callback, and closing the socket aborts only what has *)
(* not completed yet.  Each timer is the guarantee Timer gives (OneTask,   *)
(* NotForgotten): off, on, task (task_ runs, waiting for the mutex) or     *)
(* task_on (started again meanwhile).                                      *)
(*                                                                         *)
(* A message of n bytes is its number n times, so a send queue, a buffer   *)
(* in flight and what the peer has received are sequences of numbers.      *)
(***************************************************************************)
EXTENDS Integers, Sequences

CONSTANTS Kinds,           \* "client" (create_client_ep), "router" (the same, with
                           \* peer_data_.id_ = VSOMEIP_ROUTING_CLIENT), "server"
          MaxReconnects,   \* max_connection_attempts_
          QueueLimit,      \* queue_limit_
          MaxMessageSize,  \* max_message_size_
          MaxRetries,      \* VSOMEIP_LOCAL_CLOSE_SEND_BUFFER_RETRIES
          Sizes,           \* bound: sizes of messages given to send()
          MaxMessages,     \* bound: calls of send() that are accepted
          MaxChunks,       \* bound: successful reads
          FifoIo           \* a queued completion runs before a timer task
                           \* whose interval began after it was queued

ASSUME LimitsAssumption ==
    /\ MaxReconnects \in Nat /\ QueueLimit \in Nat /\ MaxRetries \in Nat
    /\ Sizes \subseteq Nat

VARIABLES ep,        \* the endpoint: what its mutex protects, and what it has
                     \* issued to the socket, the timers and the io_context
          drain,     \* runs of process() between two commands
          stopping,  \* retry_count of each thread waiting in stop_internal()
          accepted,  \* bytes for which send() returned true
          wire,      \* bytes the peer has received
          chunks     \* number of successful reads

vars == <<ep, drain, stopping, accepted, wire, chunks>>

States == {"INIT", "CONNECTING", "CONNECTED", "STOPPED", "FAILED"}
Timers == {"debounce", "timebox", "assignment", "partial"}
Attempts == 1..(MaxReconnects + 1)
OpStates == {"none", "pending", "ok", "err", "abort"}

\* What one read adds to the buffer: complete commands, then the rest: a clean
\* end, the beginning of a command, or something process() must reject.
Chunks == [msgs : {<<>>, <<"data">>, <<"ack">>, <<"data", "ack">>}, rest : {"clean", "partial", "bad"}]

\* Threads that call stop(): the owner's, and the one in the cleanup handler.
Stoppers == {"owner", "handler"}
NotStopping == -1

Init ==
    /\ \E kind \in Kinds :
       ep = [kind       |-> kind,
             state      |-> IF kind = "server" THEN "CONNECTED" ELSE "INIT",
             started    |-> FALSE,
             sending    |-> FALSE,
             flushing   |-> FALSE,
             assigned   |-> kind # "router",
             reconnects |-> 0,
             queue      |-> <<>>,
             handler    |-> TRUE,   \* cleanup_handler_, registered before start()
             calls      |-> <<>>,   \* calls of the cleanup handler: with an error, or flushed
             handled    |-> 0,      \* how many of them have run
             timer      |-> [t \in Timers |-> "off"],
             posted     |-> {},     \* "start", "error"
             sock       |-> IF kind = "server" THEN "connected" ELSE "closed",
             connects   |-> [a \in Attempts |-> "none"],
             writes     |-> <<>>,   \* outstanding async_sends
             reads      |-> <<>>]   \* outstanding async_receives
    /\ drain = <<>>
    /\ stopping = [t \in Stoppers |-> NotStopping]
    /\ accepted = <<>> /\ wire = <<>>
    /\ chunks = 0

-----------------------------------------------------------------------------
(* timer, local_socket (both as their users see them) *)

TimerStart(e, t) ==
    [e EXCEPT !.timer[t] = IF @ \in {"task", "task_on"} THEN "task_on" ELSE "on"]
TimerStop(e, t) ==
    [e EXCEPT !.timer[t] = CASE @ = "on" -> "off" [] @ = "task_on" -> "task" [] OTHER -> @]
TimerDone(e, t) ==
    [e EXCEPT !.timer[t] = IF @ = "task_on" THEN "on" ELSE "off"]

\* local_socket::stop: what is outstanding completes with operation_aborted.
Aborted(op) == IF op = "pending" THEN "abort" ELSE op
CloseSocket(e) ==
    [e EXCEPT !.sock = "closed",
              !.connects = [a \in Attempts |-> Aborted(e.connects[a])],
              !.writes = [i \in 1..Len(e.writes) |-> [buf |-> e.writes[i].buf, op |-> Aborted(e.writes[i].op)]],
              !.reads = [i \in 1..Len(e.reads) |-> Aborted(e.reads[i])]]

\* An operation on a closed socket is answered with a posted error.
Issued(e) == IF e.sock = "closed" THEN "err" ELSE "pending"

-----------------------------------------------------------------------------
(* local_endpoint, the parts that run under the mutex *)

SetState(e, s) == [e EXCEPT !.state = s]

\* escalate_internal: the handler is moved out, then called.
Escalate(e) ==
    IF e.state \in {"FAILED", "STOPPED"} THEN e
    ELSE [e EXCEPT !.state = "FAILED",
                   !.handler = FALSE,
                   !.calls = IF e.handler THEN Append(@, "error") ELSE @]

\* send_buffer_unlock
SendBuffer(e) ==
    IF e.queue # <<>>
      THEN [e EXCEPT !.sending = TRUE,
                     !.writes = Append(@, [buf |-> e.queue, op |-> Issued(e)]),
                     !.queue = <<>>]
    ELSE IF e.flushing /\ e.handler
      THEN [e EXCEPT !.sending = FALSE, !.handler = FALSE, !.calls = Append(@, "flushed")]
    ELSE [e EXCEPT !.sending = FALSE]

\* Bug: a send is issued although one is in flight.
SendUnlock_NoFlag(e) ==
    IF e.started /\ e.state = "CONNECTED" THEN SendBuffer(e) ELSE e

\* send_unlock
SendUnlock(e) ==
    IF e.started /\ e.state = "CONNECTED" /\ ~e.sending THEN SendBuffer(e) ELSE e

\* receive_unlock
ReceiveUnlock(e) == [e EXCEPT !.reads = Append(@, Issued(e))]

\* connect_unlock; prepared: prepare_connect succeeded, otherwise its error is
\* posted as the result of the attempt.
ConnectUnlock(e, prepared) ==
    IF e.state # "INIT" THEN e
    ELSE IF prepared
      THEN TimerStart([e EXCEPT !.state = "CONNECTING", !.sock = "open",
                                !.connects[e.reconnects + 1] = "pending"], "timebox")
    ELSE [e EXCEPT !.state = "CONNECTING", !.connects[e.reconnects + 1] = "err"]

\* Bug: nothing waits for the router's ASSIGN_CLIENT_ACK.
Connected_NoTimer(e, allowed, closed) ==
    IF e.kind = "router" \/ allowed
      THEN ReceiveUnlock(SendUnlock(SetState(e, "CONNECTED")))
    ELSE Escalate(IF closed THEN CloseSocket(e) ELSE e)

\* The end of connect_cbk without error; allowed: is_allowed() holds and the
\* uid is the expected one; closed: is_allowed() has closed the socket.
Connected(e, allowed, closed) ==
    IF e.kind = "router"
      THEN ReceiveUnlock(SendUnlock(TimerStart(SetState(e, "CONNECTED"), "assignment")))
    ELSE IF allowed
      THEN ReceiveUnlock(SendUnlock(SetState(e, "CONNECTED")))
    ELSE Escalate(IF closed THEN CloseSocket(e) ELSE e)

\* The end of connect_cbk with an error other than operation_aborted.
Reconnect(e) ==
    IF e.flushing THEN Escalate(e)
    ELSE LET c == [CloseSocket(e) EXCEPT !.reconnects = @ + 1]
         IN  IF c.reconnects <= MaxReconnects
               THEN TimerStart(SetState(c, "INIT"), "debounce")
             ELSE Escalate(c)

\* Bug: the result of a connect is acted upon in every state.
ConnectCbk_AnyState(e, ec, allowed, closed) ==
    LET c == TimerStop(e, "timebox")
    IN  CASE ec = "ok" -> Connected(c, allowed, closed)
          [] ec = "abort" -> Escalate(c)
          [] ec = "err" -> Reconnect(c)

\* connect_cbk
ConnectCbk(e, ec, allowed, closed) ==
    LET c == TimerStop(e, "timebox")
    IN  CASE c.state # "CONNECTING" -> c
          [] c.state = "CONNECTING" /\ ec = "ok" -> Connected(c, allowed, closed)
          [] c.state = "CONNECTING" /\ ec = "abort" -> Escalate(c)
          [] c.state = "CONNECTING" /\ ec = "err" -> Reconnect(c)

\* process() after its loop; d: the run, with the commands consumed.
Processed(e, d) ==
    IF d.rest = "bad" THEN Escalate(e)
    ELSE LET t == IF d.rest = "partial" THEN TimerStart(e, "partial") ELSE TimerStop(e, "partial")
         IN  IF d.initial THEN SendUnlock(ReceiveUnlock(t)) ELSE ReceiveUnlock(t)

\* The last two lines of stop_internal().
Stopped(e) == SetState(CloseSocket(e), "STOPPED")

-----------------------------------------------------------------------------
(* Calls of the owner *)

\* start(): called once.
Start ==
    /\ ~ep.started
    /\ LET e == [ep EXCEPT !.started = TRUE]
       IN  \/ \E prepared \in BOOLEAN :
                 ep.state = "INIT" /\ ep' = ConnectUnlock(e, prepared)
           \/ ep.state = "CONNECTED" /\ ep' = [e EXCEPT !.posted = @ \cup {"start"}]
           \/ ep.state \in {"CONNECTING", "FAILED", "STOPPED"} /\ ep' = e
    /\ UNCHANGED <<drain, stopping, accepted, wire, chunks>>

\* send(): rejected while flushing, beyond the queue limit or the message limit.
Send(n) ==
    LET m == IF accepted = <<>> THEN 1 ELSE accepted[Len(accepted)] + 1
        bytes == [i \in 1..n |-> m]
    IN  /\ ~ep.flushing
        /\ QueueLimit - Len(ep.queue) >= n
        /\ MaxMessageSize >= n
        /\ m <= MaxMessages
        /\ ep' = SendUnlock([ep EXCEPT !.queue = @ \o bytes])
        /\ accepted' = accepted \o bytes
        /\ UNCHANGED <<drain, stopping, wire, chunks>>

\* Bug: an idle endpoint is only marked.
StartFlushing_OnlyMarked ==
    /\ ep.started /\ ep.state \notin {"FAILED", "STOPPED"}
    /\ ep' = [ep EXCEPT !.flushing = TRUE]
    /\ UNCHANGED <<drain, stopping, accepted, wire, chunks>>

\* start_flushing()
StartFlushing ==
    /\ ep.started /\ ep.state \notin {"FAILED", "STOPPED"}
    /\ LET e == [ep EXCEPT !.flushing = TRUE]
       IN  ep' = IF ep.state = "INIT" /\ ep.handler
                   THEN [e EXCEPT !.handler = FALSE, !.calls = Append(@, "error")]
                   ELSE SendUnlock(e)
    /\ UNCHANGED <<drain, stopping, accepted, wire, chunks>>

\* trigger_error(); its callers hold endpoints they have started.
TriggerError ==
    /\ ep.started
    /\ ep' = [ep EXCEPT !.posted = @ \cup {"error"}]
    /\ UNCHANGED <<drain, stopping, accepted, wire, chunks>>

\* stop_internal() up to its first wait, or to its end; e: the endpoint.
StopInternal(e, t, due_to_error) ==
    LET q == TimerStop(TimerStop(TimerStop(e, "debounce"), "timebox"), "partial")
    IN  \/ /\ e.state = "STOPPED"
           /\ ep' = e
           /\ UNCHANGED stopping
        \/ /\ e.state # "STOPPED"
           /\ e.sending /\ ~due_to_error /\ e.state # "FAILED"
           /\ ep' = q
           /\ stopping' = [stopping EXCEPT ![t] = 0]
        \/ /\ e.state # "STOPPED"
           /\ ~e.sending \/ due_to_error \/ e.state = "FAILED"
           /\ ep' = Stopped(q)
           /\ UNCHANGED stopping

\* stop()
Stop(due_to_error) ==
    /\ stopping["owner"] = NotStopping /\ ep.state # "STOPPED"
    /\ StopInternal(ep, "owner", due_to_error)
    /\ UNCHANGED <<drain, accepted, wire, chunks>>

\* The call of the cleanup handler: its owners answer it with stop().
CleanupHandler ==
    /\ ep.handled < Len(ep.calls) /\ stopping["handler"] = NotStopping
    /\ StopInternal([ep EXCEPT !.handled = @ + 1], "handler", ep.calls[ep.handled + 1] = "error")
    /\ UNCHANGED <<drain, accepted, wire, chunks>>

\* stop_internal() from the end of one sleep to the next, or to its end.
StopRetry(t) ==
    /\ stopping[t] # NotStopping
    /\ IF stopping[t] + 1 <= MaxRetries /\ ep.sending /\ ep.state # "FAILED"
         THEN stopping' = [stopping EXCEPT ![t] = @ + 1] /\ UNCHANGED ep
         ELSE stopping' = [stopping EXCEPT ![t] = NotStopping] /\ ep' = Stopped(ep)
    /\ UNCHANGED <<drain, accepted, wire, chunks>>

-----------------------------------------------------------------------------
(* Completions (external) and the callbacks they lead to *)

\* The operating system answers the connection attempt a.
ConnectCompletes(a) ==
    /\ ep.connects[a] = "pending"
    /\ \/ ep' = [ep EXCEPT !.connects[a] = "ok", !.sock = "connected"]
       \/ ep' = [ep EXCEPT !.connects[a] = "err"]
    /\ UNCHANGED <<drain, stopping, accepted, wire, chunks>>

\* connect_cbk, called by async_connect.
ConnectCallback(a) ==
    /\ ep.connects[a] \in {"ok", "err", "abort"}
    /\ \E allowed, closed \in BOOLEAN :
          ep' = ConnectCbk([ep EXCEPT !.connects[a] = "none"], ep.connects[a], allowed, closed)
    /\ UNCHANGED <<drain, stopping, accepted, wire, chunks>>

\* The oldest write completes: whole, or with an error after a part of it.
WriteCompletes ==
    /\ ep.writes # <<>> /\ ep.writes[1].op = "pending"
    /\ \/ /\ ep.sock = "connected"
          /\ ep' = [ep EXCEPT !.writes[1].op = "ok"]
          /\ wire' = wire \o ep.writes[1].buf
       \/ \E n \in 0..(Len(ep.writes[1].buf) - 1) :
             /\ ep.sock # "connected" => n = 0
             /\ ep' = [ep EXCEPT !.writes[1].op = "err"]
             /\ wire' = wire \o SubSeq(ep.writes[1].buf, 1, n)
    /\ UNCHANGED <<drain, stopping, accepted, chunks>>

\* send_cbk
SendCallback ==
    /\ ep.writes # <<>> /\ ep.writes[1].op # "pending"
    /\ LET e == [ep EXCEPT !.writes = Tail(@)]
       IN  ep' = CASE ep.writes[1].op = "ok" -> IF e.state = "CONNECTED" THEN SendBuffer(e) ELSE e
                   [] ep.writes[1].op = "err" -> Escalate(e)
                   [] ep.writes[1].op = "abort" -> e
    /\ UNCHANGED <<drain, stopping, accepted, wire, chunks>>

\* The oldest read completes: with data, or because the peer is gone.
ReadCompletes ==
    /\ ep.reads # <<>> /\ ep.reads[1] = "pending"
    /\ \/ ep.sock = "connected" /\ chunks < MaxChunks /\ ep' = [ep EXCEPT !.reads[1] = "ok"]
       \/ ep' = [ep EXCEPT !.reads[1] = "err"]
    /\ UNCHANGED <<drain, stopping, accepted, wire, chunks>>

\* A run of process() reaches its loop.
Enter(chunk, initial) ==
    drain' = Append(drain, [msgs |-> chunk.msgs, rest |-> chunk.rest, initial |-> initial])

\* receive_cbk
ReceiveCallback ==
    /\ ep.reads # <<>> /\ ep.reads[1] # "pending"
    /\ LET e == [ep EXCEPT !.reads = Tail(@)]
       IN  \/ /\ ep.reads[1] = "ok"
              /\ ep' = e
              /\ chunks' = chunks + 1
              /\ \E chunk \in Chunks : Enter(chunk, FALSE)
           \/ ep.reads[1] = "err" /\ ep' = Escalate(e) /\ UNCHANGED <<drain, chunks>>
           \/ ep.reads[1] = "abort" /\ ep' = e /\ UNCHANGED <<drain, chunks>>
    /\ UNCHANGED <<stopping, accepted, wire>>

\* The handler start() posted; the buffer may hold what arrived with the
\* command that made the server create the endpoint.
PostedStart ==
    /\ "start" \in ep.posted
    /\ ep' = [ep EXCEPT !.posted = @ \ {"start"}]
    /\ IF ep.state = "CONNECTED" THEN \E chunk \in Chunks : Enter(chunk, TRUE)
                                 ELSE UNCHANGED drain
    /\ UNCHANGED <<stopping, accepted, wire, chunks>>

\* The handler trigger_error() posted.
PostedError ==
    /\ "error" \in ep.posted
    /\ ep' = Escalate([ep EXCEPT !.posted = @ \ {"error"}])
    /\ UNCHANGED <<drain, stopping, accepted, wire, chunks>>

\* One turn of the loop of process(): a command is handed to the routing host
\* with the mutex released; an ASSIGN_CLIENT_ACK sets own_ before.
ProcessMessage ==
    /\ drain # <<>> /\ drain[1].msgs # <<>>
    /\ ep' = IF drain[1].msgs[1] = "ack" /\ ~ep.assigned
               THEN TimerStop([ep EXCEPT !.assigned = TRUE], "assignment") ELSE ep
    /\ drain' = [drain EXCEPT ![1].msgs = Tail(@)]
    /\ UNCHANGED <<stopping, accepted, wire, chunks>>

\* process() after its loop, and what its caller does with the result.
ProcessEnd ==
    /\ drain # <<>> /\ drain[1].msgs = <<>>
    /\ ep' = Processed(ep, drain[1])
    /\ drain' = Tail(drain)
    /\ UNCHANGED <<stopping, accepted, wire, chunks>>

-----------------------------------------------------------------------------
(* Timer tasks *)

\* The interval of a timer passes; its task now waits for the mutex.
TimerFires(t) ==
    /\ ep.timer[t] = "on"
    /\ (FifoIo /\ t = "debounce") => \A a \in Attempts : ep.connects[a] \in {"none", "pending"}
    /\ ep' = [ep EXCEPT !.timer[t] = "task"]
    /\ UNCHANGED <<drain, stopping, accepted, wire, chunks>>

\* The task of a timer: connect_unlock, connect_cbk(timed_out),
\* assignment_timeout and partial_message_timeout.
TimerTask(t) ==
    /\ ep.timer[t] \in {"task", "task_on"}
    /\ \/ t = "debounce" /\ \E prepared \in BOOLEAN : ep' = TimerDone(ConnectUnlock(ep, prepared), t)
       \/ t = "timebox" /\ ep' = TimerDone(ConnectCbk(ep, "err", TRUE, FALSE), t)
       \/ t = "assignment" /\ ep' = TimerDone(IF ep.assigned THEN ep ELSE Escalate(ep), t)
       \/ t = "partial" /\ ep' = TimerDone(Escalate(ep), t)
    /\ UNCHANGED <<drain, stopping, accepted, wire, chunks>>

-----------------------------------------------------------------------------

OwnerCalls ==
    \/ Start
    \/ \E n \in Sizes : Send(n)
    \/ StartFlushing
    \/ TriggerError
    \/ \E due_to_error \in BOOLEAN : Stop(due_to_error)

Callbacks ==
    \/ \E a \in Attempts : ConnectCallback(a)
    \/ SendCallback \/ ReceiveCallback
    \/ PostedStart \/ PostedError
    \/ ProcessMessage \/ ProcessEnd
    \/ CleanupHandler
    \/ \E t \in Stoppers : StopRetry(t)
    \/ \E t \in Timers : TimerTask(t)

Completions ==
    \/ \E a \in Attempts : ConnectCompletes(a)
    \/ WriteCompletes
    \/ ReadCompletes

Next ==
    \/ OwnerCalls
    \/ Callbacks
    \/ Completions
    \/ \E t \in Timers : TimerFires(t)

Spec == Init /\ [][Next]_vars

\* The io_context runs every queued handler, waiting threads wake up, timers
\* expire, and a write is taken by the peer or fails.  Nothing makes a peer
\* answer a connect or send data, nor an owner call anything.
Fairness ==
    /\ \A a \in Attempts : WF_vars(ConnectCallback(a))
    /\ WF_vars(WriteCompletes)
    /\ WF_vars(SendCallback) /\ WF_vars(ReceiveCallback)
    /\ WF_vars(PostedStart) /\ WF_vars(PostedError)
    /\ WF_vars(ProcessMessage) /\ WF_vars(ProcessEnd)
    /\ WF_vars(CleanupHandler)
    /\ \A t \in Stoppers : WF_vars(StopRetry(t))
    /\ \A t \in Timers : WF_vars(TimerFires(t)) /\ WF_vars(TimerTask(t))

FairSpec == Spec /\ Fairness

-----------------------------------------------------------------------------

\* The fields keep their domains; in particular reconnects stay within the limit
\* of connect_cbk plus the attempt that exceeds it.
TypeOK ==
    /\ ep.kind \in Kinds /\ ep.state \in States
    /\ {ep.started, ep.sending, ep.flushing, ep.assigned, ep.handler} \subseteq BOOLEAN
    /\ ep.reconnects \in 0..(MaxReconnects + 1)
    /\ ep.timer \in [Timers -> {"off", "on", "task", "task_on"}]
    /\ ep.posted \subseteq {"start", "error"}
    /\ ep.sock \in {"closed", "open", "connected"}
    /\ ep.connects \in [Attempts -> OpStates]
    /\ ep.handled \in 0..Len(ep.calls)
    /\ stopping \in [Stoppers -> {NotStopping} \cup 0..MaxRetries]

\* The owner's cleanup handler is called at most once, whichever of an I/O
\* error, a timeout, a rejected peer, a flush and a triggered error come
\* together, and a failed endpoint has told its owner ("guaranteeing that the
\* cleanup code of this endpoint is executed exactly once",
\* local_endpoint.cpp:384).
CleanupOnce ==
    /\ Len(ep.calls) <= 1
    /\ ep.handler => ep.calls = <<>>
    /\ ep.state = "FAILED" => ep.calls # <<>>

\* At most one async_send and at most one async_receive are outstanding:
\* two writes would interleave on the stream, two reads would share the buffer.
OneOperation ==
    /\ Len(ep.writes) <= 1
    /\ (ep.writes # <<>> => ep.sending)
    /\ Len(ep.reads) + Len(drain) <= 1

IsPrefixOf(p, q) == Len(p) <= Len(q) /\ p = SubSeq(q, 1, Len(p))
InFlight(e) == IF e.writes # <<>> /\ e.writes[1].op = "pending" THEN e.writes[1].buf ELSE <<>>
WriteFailed(e) == e.writes # <<>> /\ e.writes[1].op \in {"err", "abort"}

\* The peer receives what send() accepted, in that order, nothing twice and
\* nothing left out in between; while the connection is intact whatever has not
\* arrived yet is still in flight or queued; and a cleanup handler called
\* without error means a complete flush: everything has reached the peer before
\* the owner closes the connection.
SendOrder ==
    /\ IsPrefixOf(wire, accepted)
    /\ ep.state \in {"INIT", "CONNECTING", "CONNECTED"} /\ ~WriteFailed(ep)
         => wire \o InFlight(ep) \o ep.queue = accepted
    /\ ep.calls = <<"flushed">> => wire = accepted

\* The send queue never exceeds its limit (the induction the comment in
\* local_endpoint::send sketches to justify its unsigned subtraction).
QueueBound == Len(ep.queue) <= QueueLimit

\* What the owner of a local endpoint relies on, all together: the endpoint
\* ends once, has one operation of each kind outstanding, delivers what it
\* accepted in order, and keeps its queue within the limit.
EndpointSound == TypeOK /\ CleanupOnce /\ OneOperation /\ SendOrder /\ QueueBound

\* "Non-restartable": no late completion, timer or call revives an endpoint
\* that failed or stopped.
StaysEnded ==
    /\ ep.state = "STOPPED" => ep'.state = "STOPPED"
    /\ ep.state = "FAILED" => ep'.state \in {"FAILED", "STOPPED"}
NotRevived == [][StaysEnded]_vars

\* state_e::CONNECTED: "Connected and ready for I/O".  Needs FifoIo: without
\* it the late success of an attempt that timed out is taken for the success
\* of the next attempt.
ConnectedIsConnected == ep.state = "CONNECTED" => ep.sock = "connected"

\* start_flushing(), and every failure, ends in a closed connection: the cleanup
\* handler is called and stops the endpoint.
EndsStopped == (ep.flushing \/ ep.state = "FAILED") ~> ep.state = "STOPPED"

\* A started endpoint does not stay on the way: it gets its connection, and from
\* the router its client identifier, or it fails or is stopped.
ConnectEnds ==
    (ep.started /\ ep.state \in {"INIT", "CONNECTING", "CONNECTED"})
        ~> ((ep.state = "CONNECTED" /\ ep.assigned) \/ ep.state \in {"FAILED", "STOPPED"})
=============================================================================
