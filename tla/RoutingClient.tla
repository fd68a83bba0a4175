--------------------------- MODULE RoutingClient ---------------------------
(***************************************************************************)
(* The registration of an application at the routing host:                 *)
(* routing_manager_client with its state machine, the connection to the    *)
(* host (sender_) and its debounced restart, the receivers for peers,      *)
(* reconnect() and the staged stop().                                      *)
(*                                                                         *)
(* What mutex_ protects is the record m.  start() and each critical        *)
(* section of stop() and reconnect() is one action.  The cleanup handler   *)
(* of the sender and the handler of the host's acknowledge run in io       *)
(* threads and do not hold mutex_ all the time, so two reconnects, or one  *)
(* and stop(), interleave.  A sender that is no longer referenced has been *)
(* stopped: only handlers that were already running or posted are left of  *)
(* it.                                                                     *)
(***************************************************************************)
EXTENDS Naturals

CONSTANTS Threads,    \* io threads
          Ids,        \* client identifiers the host assigns
          Unset,      \* VSOMEIP_CLIENT_UNSET
          Modes,      \* routing modes: sets of protocols
          MaxFaults,  \* bound on failing connections, servers and sends
          MaxStarts,  \* bound on start()
          None

VARIABLES m,          \* what mutex_ protects, see Clients
          mode,       \* routing_mode_
          job,        \* what an io thread executes, see Jobs
          posted,     \* cleanup handler posted by a flush: None, "error", "flushed"
          user,       \* progress of start() and stop()
          trig,       \* on_*_flushed_ and on_sender_stopped_ that are set
          done,       \* the hooks of stop() that have completed
          host,       \* client identifier and state told to the application
          faults, starts

vars == <<m, mode, job, posted, user, trig, done, host, faults, starts>>

Protocols == {"uds", "tcp"}
Parts == {"provider", "consumer", "sender"}
States == {"DEREGISTERED", "REGISTERING", "REGISTERED"}
\* A receiver is created or halted, started with the current provider_token_, or with an older one.
Receivers == {"none", "created", "started", "stale"}
\* ack: the identifier the host acknowledged on this connection; retry: waiting to connect again;
\* armed: its cleanup handler has not been taken.
Senders == [ack : Ids \cup {Unset, None}, retry : BOOLEAN, armed : BOOLEAN, flushing : BOOLEAN]
Clients == [shall : BOOLEAN, st : States, client : Ids \cup {Unset}, sender : Senders \cup {None},
            missing : BOOLEAN,    \* create_routing_client() failed
            debouncing : BOOLEAN, \* sender_debounce_active_
            after : BOOLEAN,      \* start_sender_after_debounce_
            recv : [Protocols -> Receivers]]
Idle == [at |-> "idle", id |-> Unset]
Jobs == [at : {"idle", "error", "flushed", "ack", "ack_locked", "token", "receivers", "provider",
               "consumer", "tell", "restart"}, id : Ids \cup {Unset}]
\* Handlers a flushing endpoint posts.
Posts == {"error", "flushed"}
Phases == {"off", "running", "stop_main", "flush_provider", "flush_consumer", "waiting"}

ASSUME ClientAssumption ==
    /\ Unset \notin Ids
    /\ None \notin Senders \cup Posts \cup Ids \cup {Unset}
    /\ Modes \subseteq {{"uds"}, {"tcp"}, {"uds", "tcp"}}
    /\ MaxFaults \in Nat /\ MaxStarts \in Nat

Init ==
    /\ m = [shall |-> FALSE, st |-> "DEREGISTERED", client |-> Unset, sender |-> None,
            missing |-> FALSE, debouncing |-> FALSE, after |-> FALSE,
            recv |-> [p \in Protocols |-> "none"]]
    /\ mode \in Modes
    /\ job = [t \in Threads |-> Idle]
    /\ posted = None /\ user = "off" /\ trig = {} /\ done = {}
    /\ host = [client |-> Unset, st |-> "DEREGISTERED"]
    /\ faults = 0 /\ starts = 0

\* One of the things that may go wrong does, or not.
MayFail(ok) == /\ ok \/ faults < MaxFaults
               /\ faults' = IF ok THEN faults ELSE faults + 1

-----------------------------------------------------------------------------
(* routing_client_state_machine and restart_sender *)

Deregistered(s) == [s EXCEPT !.st = "DEREGISTERED", !.client = Unset]

\* Bug: a stopped client may register.
StartRegistration_Stopped(s) == s.st = "DEREGISTERED"

StartRegistration(s) == s.shall /\ s.st = "DEREGISTERED"

NewSender == [ack |-> None, retry |-> FALSE, armed |-> TRUE, flushing |-> FALSE]

\* Bug: the request to start after the debounce time is not remembered.
RestartSender_Forgets(s, ok) ==
    LET stopped == [s EXCEPT !.sender = None]
        free == [stopped EXCEPT !.after = FALSE]
        registering == [free EXCEPT !.st = "REGISTERING"]
    IN  IF s.debouncing THEN stopped
        ELSE IF ~StartRegistration(free) THEN free
        ELSE IF ok THEN [registering EXCEPT !.sender = NewSender, !.debouncing = TRUE, !.missing = FALSE]
        ELSE [registering EXCEPT !.missing = TRUE]

\* ok: create_routing_client() succeeds
RestartSender(s, ok) ==
    LET stopped == [s EXCEPT !.sender = None]
        free == [stopped EXCEPT !.after = FALSE]
        registering == [free EXCEPT !.st = "REGISTERING"]
    IN  IF s.debouncing THEN [stopped EXCEPT !.after = TRUE]
        ELSE IF ~StartRegistration(free) THEN free
        ELSE IF ok THEN [registering EXCEPT !.sender = NewSender, !.debouncing = TRUE, !.missing = FALSE]
        ELSE [registering EXCEPT !.missing = TRUE]

\* The task of sender_debounce_.
DebounceRestartSenderDone(ok) ==
    /\ m.debouncing
    /\ MayFail(ok)
    /\ LET elapsed == [m EXCEPT !.debouncing = FALSE]
       IN  m' = IF m.after THEN RestartSender(elapsed, ok) ELSE elapsed
    /\ UNCHANGED <<mode, job, posted, user, trig, done, host, starts>>

\* ++provider_token_
Bumped(recv) == [p \in Protocols |-> IF recv[p] = "started" THEN "stale" ELSE recv[p]]

Created(recv, p, ok) == IF recv[p] = "none" /\ ok THEN [recv EXCEPT ![p] = "created"] ELSE recv

-----------------------------------------------------------------------------
(* start() and stop() *)

\* application_impl::start joins the io threads of a former run before it can be called again.
Start(ok, server) ==
    /\ user = "off" /\ starts < MaxStarts
    /\ posted = None /\ \A t \in Threads : job[t] = Idle
    /\ MayFail(ok /\ server)
    /\ LET recv == IF "tcp" \in mode THEN Created(m.recv, "tcp", server) ELSE m.recv
       IN  m' = RestartSender([m EXCEPT !.shall = TRUE, !.recv = recv], ok)
    /\ trig' = trig \ {"sender"} /\ user' = "running" /\ starts' = starts + 1 /\ done' = {}
    /\ UNCHANGED <<mode, job, posted, host>>

Stop ==
    /\ user = "running"
    /\ m' = [m EXCEPT !.recv = Bumped(@)]
    /\ user' = "stop_main"
    /\ UNCHANGED <<mode, job, posted, trig, done, host, faults, starts>>

\* A trigger that is set fires and is cleared.
Fire(part) == /\ trig' = trig \ {part}
              /\ done' = IF part \in trig THEN done \cup {part} ELSE done

\* start_flushing: a connection that waits for its next attempt is given up at once.
Flushing(s) == IF s.retry /\ s.armed THEN [s EXCEPT !.flushing = TRUE, !.armed = FALSE]
               ELSE IF s.armed THEN [s EXCEPT !.flushing = TRUE] ELSE s

StopMain ==
    /\ user = "stop_main"
    /\ LET off == [Deregistered(m) EXCEPT !.shall = FALSE, !.recv = [p \in Protocols |-> "none"]]
       IN  IF m.sender # None
             THEN /\ m' = [off EXCEPT !.sender = Flushing(@)]
                  /\ posted' = IF m.sender.retry /\ m.sender.armed THEN "error" ELSE posted
                  /\ trig' = trig \cup {"sender"} /\ UNCHANGED done
             ELSE /\ m' = off /\ done' = done \cup {"sender"}
                  /\ UNCHANGED <<posted, trig>>
    /\ user' = "flush_provider"
    /\ UNCHANGED <<mode, job, host, faults, starts>>

\* flush_provider and flush_consumer; idle: there is no endpoint to wait for.
Flush(at, part, idle, next) ==
    /\ user = at
    /\ IF idle THEN done' = done \cup {part} /\ UNCHANGED trig
       ELSE trig' = trig \cup {part} /\ UNCHANGED done
    /\ user' = next
    /\ UNCHANGED <<m, mode, job, posted, host, faults, starts>>

\* The endpoints of peers are flushed, or cleared after 500 ms.
PeersFlushed(part) ==
    /\ part \in trig \cap {"provider", "consumer"}
    /\ Fire(part)
    /\ UNCHANGED <<m, mode, job, posted, user, host, faults, starts>>

\* Bug: the sender is stopped, but the hook does not complete.
EnforceSender_NoHook ==
    /\ user = "waiting" /\ "sender" \notin done
    /\ m' = [m EXCEPT !.sender = None]
    /\ trig' = trig \ {"sender"}
    /\ UNCHANGED <<mode, job, posted, user, done, host, faults, starts>>

\* The sender was not flushed within 500 ms.
EnforceSender ==
    /\ user = "waiting" /\ "sender" \notin done
    /\ m' = [m EXCEPT !.sender = None]
    /\ trig' = trig \ {"sender"} /\ done' = done \cup {"sender"}
    /\ UNCHANGED <<mode, job, posted, user, host, faults, starts>>

FinishShutdown ==
    /\ user = "waiting" /\ done = Parts
    /\ host' = [host EXCEPT !.st = "DEREGISTERED"]
    /\ user' = "off"
    /\ UNCHANGED <<m, mode, job, posted, trig, done, faults, starts>>

-----------------------------------------------------------------------------
(* Handlers of io threads *)

Enter(t, at, id) == job[t] = Idle /\ job' = [job EXCEPT ![t] = [at |-> at, id |-> id]]
Leave(t) == job' = [job EXCEPT ![t] = Idle]
Reconnecting(t) == job' = [job EXCEPT ![t] = [at |-> "token", id |-> Unset]]
GoTo(t, from, to) == job[t].at = from /\ job' = [job EXCEPT ![t].at = to]

\* The connection cannot be established yet and is tried again.
ConnectFails ==
    /\ m.sender # None /\ m.sender.armed /\ m.sender.ack = None /\ ~m.sender.flushing
    /\ m' = [m EXCEPT !.sender.retry = TRUE]
    /\ ~m.sender.retry /\ MayFail(FALSE)
    /\ UNCHANGED <<mode, job, posted, user, trig, done, host, starts>>

\* The sender fails, or a client the host does not answer reaches the assignment timeout.
SenderFails(t) ==
    /\ m.sender # None /\ m.sender.armed
    /\ MayFail(FALSE)
    /\ Enter(t, "error", Unset)
    /\ m' = [m EXCEPT !.sender.armed = FALSE]
    /\ UNCHANGED <<mode, posted, user, trig, done, host, starts>>

\* The last byte of a flushing sender is sent.
SenderFlushed ==
    /\ m.sender # None /\ m.sender.flushing /\ m.sender.armed
    /\ m' = [m EXCEPT !.sender.armed = FALSE]
    /\ posted' = "flushed"
    /\ UNCHANGED <<mode, job, user, trig, done, host, faults, starts>>

RunPosted(t) ==
    /\ posted # None
    /\ Enter(t, posted, Unset)
    /\ posted' = None
    /\ UNCHANGED <<m, mode, user, trig, done, host, faults, starts>>

\* cleanup_client for VSOMEIP_ROUTING_CLIENT
CleanupClient(t) ==
    /\ job[t].at \in Posts
    /\ m' = [m EXCEPT !.sender = None]
    /\ Fire("sender")
    /\ IF job[t].at = "flushed" THEN Leave(t) ELSE Reconnecting(t)
    /\ UNCHANGED <<mode, posted, user, host, faults, starts>>

\* The host acknowledges the connection; on_message calls on_client_assign_ack.
AckArrives(t, id) ==
    /\ m.sender # None /\ m.sender.ack = None
    /\ m' = [m EXCEPT !.sender = [@ EXCEPT !.ack = id, !.retry = FALSE]]
    /\ IF id = Unset THEN job[t] = Idle /\ MayFail(FALSE) /\ UNCHANGED job
       ELSE Enter(t, "ack", id) /\ MayFail(TRUE)
    /\ UNCHANGED <<mode, posted, user, trig, done, host, starts>>

SetClient(t) ==
    /\ GoTo(t, "ack", "ack_locked")
    /\ host' = [host EXCEPT !.client = job[t].id]
    /\ UNCHANGED <<m, mode, posted, user, trig, done, faults, starts>>

\* create_and_start_receiver: servers are the protocols whose server exists or can be created.
Received(recv, servers) ==
    [p \in Protocols |-> IF p \in mode /\ (recv[p] # "none" \/ p \in servers) THEN "started" ELSE recv[p]]

\* check_credentials fails
AckRefused(t, ok) ==
    /\ job[t].at = "ack_locked" /\ m.st = "REGISTERING"
    /\ faults < MaxFaults /\ faults' = faults + 1
    /\ m' = RestartSender(Deregistered(m), ok)
    /\ Leave(t)
    /\ UNCHANGED <<mode, posted, user, trig, done, host, starts>>

\* Bug: an acknowledge in any other state is ignored.
AckLocked_Ignored(t, servers, sent) ==
    /\ job[t].at = "ack_locked"
    /\ IF m.st # "REGISTERING"
         THEN /\ Leave(t) /\ UNCHANGED <<m, host, faults>>
         ELSE LET recv == Received(m.recv, servers)
                  started == \A p \in mode : recv[p] = "started"
                  registered == [m EXCEPT !.recv = recv, !.st = "REGISTERED", !.client = job[t].id]
              IN  /\ MayFail(servers = mode /\ sent)
                  /\ m' = IF started THEN registered ELSE [m EXCEPT !.recv = recv]
                  /\ host' = IF started THEN [host EXCEPT !.st = "REGISTERED"] ELSE host
                  /\ IF started /\ sent THEN Leave(t) ELSE Reconnecting(t)
    /\ UNCHANGED <<mode, posted, user, trig, done, starts>>

\* on_client_assign_ack under the three mutexes; sent: send_pending_commands succeeds,
\* which it also does without a sender when there is nothing to send.
AckLocked(t, servers, sent) ==
    /\ job[t].at = "ack_locked"
    /\ IF m.st # "REGISTERING"
         THEN Reconnecting(t) /\ UNCHANGED <<m, host, faults>>
         ELSE LET recv == Received(m.recv, servers)
                  started == \A p \in mode : recv[p] = "started"
                  registered == [m EXCEPT !.recv = recv, !.st = "REGISTERED", !.client = job[t].id]
              IN  /\ MayFail(servers = mode /\ sent)
                  /\ m' = IF started THEN registered ELSE [m EXCEPT !.recv = recv]
                  /\ host' = IF started THEN [host EXCEPT !.st = "REGISTERED"] ELSE host
                  /\ IF started /\ sent THEN Leave(t) ELSE Reconnecting(t)
    /\ UNCHANGED <<mode, posted, user, trig, done, starts>>

-----------------------------------------------------------------------------
(* reconnect() *)

ReconnectToken(t) ==
    /\ GoTo(t, "token", "receivers")
    /\ m' = [m EXCEPT !.recv = Bumped(@)]
    /\ UNCHANGED <<mode, posted, user, trig, done, host, faults, starts>>

\* The TCP receiver is halted, or created to claim a port; the UDS receiver is stopped.
ReconnectReceivers(t, server) ==
    /\ GoTo(t, "receivers", "provider")
    /\ MayFail(server)
    /\ LET tcp == IF "tcp" \notin mode THEN m.recv.tcp
                  ELSE IF m.recv.tcp # "none" \/ server THEN "created" ELSE "none"
       IN  m' = [m EXCEPT !.recv = [uds |-> "none", tcp |-> tcp]]
    /\ UNCHANGED <<mode, posted, user, trig, done, host, starts>>

\* clear_provider_endpoints and cleanup_consumer fire what stop() waits for.
ReconnectCleanup(t, part, next) ==
    /\ GoTo(t, part, next)
    /\ Fire(part)
    /\ UNCHANGED <<m, mode, posted, user, host, faults, starts>>

ReconnectTell(t) ==
    /\ GoTo(t, "tell", "restart")
    /\ host' = [host EXCEPT !.st = "DEREGISTERED"]
    /\ UNCHANGED <<m, mode, posted, user, trig, done, faults, starts>>

ReconnectRestart(t, ok) ==
    /\ job[t].at = "restart"
    /\ MayFail(ok)
    /\ m' = RestartSender(Deregistered(m), ok)
    /\ Leave(t)
    /\ UNCHANGED <<mode, posted, user, trig, done, host, starts>>

-----------------------------------------------------------------------------

StopSteps ==
    \/ StopMain
    \/ \E idle \in BOOLEAN : \/ Flush("flush_provider", "provider", idle, "flush_consumer")
                              \/ Flush("flush_consumer", "consumer", idle, "waiting")
    \/ FinishShutdown

Reconnect(t) ==
    \/ ReconnectToken(t)
    \/ \E ok \in BOOLEAN : ReconnectReceivers(t, ok) \/ ReconnectRestart(t, ok)
    \/ ReconnectCleanup(t, "provider", "consumer") \/ ReconnectCleanup(t, "consumer", "tell")
    \/ ReconnectTell(t)

Handlers(t) ==
    \/ RunPosted(t) \/ CleanupClient(t) \/ SetClient(t)
    \/ \E servers \in SUBSET mode, sent \in BOOLEAN : AckLocked(t, servers, sent)
    \/ Reconnect(t)

Next ==
    \/ \E ok, server \in BOOLEAN : Start(ok, server)
    \/ Stop \/ StopSteps \/ EnforceSender \/ ConnectFails \/ SenderFlushed
    \/ \E part \in Parts : PeersFlushed(part)
    \/ \E ok \in BOOLEAN : DebounceRestartSenderDone(ok)
    \/ \E t \in Threads : \/ Handlers(t) \/ SenderFails(t)
                          \/ \E id \in Ids \cup {Unset} : AckArrives(t, id)
                          \/ \E ok \in BOOLEAN : AckRefused(t, ok)

Spec == Init /\ [][Next]_vars

\* io threads run their handlers, timers expire, stop() runs on, and a host that is reached answers
\* or the assignment timeout fails the connection.
Fairness ==
    /\ WF_vars(StopSteps) /\ WF_vars(EnforceSender)
    /\ \A part \in Parts : WF_vars(PeersFlushed(part))
    /\ WF_vars(\E ok \in BOOLEAN : DebounceRestartSenderDone(ok))
    /\ \A t \in Threads : WF_vars(Handlers(t))
    /\ WF_vars(\E t \in Threads, id \in Ids : AckArrives(t, id))

FairSpec == Spec /\ Fairness

-----------------------------------------------------------------------------
(* Properties *)

\* The state stays within the declared domains.
TypeOK ==
    /\ m \in Clients /\ mode \in Modes /\ job \in [Threads -> Jobs]
    /\ posted \in Posts \cup {None} /\ user \in Phases
    /\ trig \subseteq Parts /\ done \subseteq Parts
    /\ host \in [client : Ids \cup {Unset}, st : States]
    /\ faults \in 0..MaxFaults /\ starts \in 0..MaxStarts

\* A client that shall run always has a connection to the host or something that will make one: the
\* debounce timer with start_sender_after_debounce_, or a thread that is on its way to restart_sender().
\* The exception is create_routing_client() returning no endpoint, which restart_sender() only logs.
WillReconnect(t) == job[t].at \notin {"idle", "flushed", "ack", "ack_locked"}
NeverStranded ==
    m.shall => \/ m.sender # None
               \/ m.debouncing /\ m.after
               \/ \E t \in Threads : WillReconnect(t)
               \/ m.missing

\* After finish_shutdown(), and before the next start(), there is no connection to the host, whatever
\* handlers were under way during stop(), the triggers whose absence start(), stop(), flush_provider()
\* and flush_consumer() assert are cleared, and the application was told that it is not registered.
StoppedIsQuiet ==
    user = "off" => /\ m.sender = None /\ m.st = "DEREGISTERED"
                    /\ trig = {}
                    /\ host.st = "DEREGISTERED"

\* stop() always comes to finish_shutdown(), also when a reconnect() in another thread takes the
\* sender away whose flush it waits for.
StopEnds == user = "stop_main" ~> user = "off"

\* Once no more faults happen a client that shall run is registered for good: the state machine, the
\* application and the host agree on the identifier, the application was told, and its receivers are
\* started with the current provider_token_, so that no late acknowledge of a former connection and no
\* second reconnect() leaves it half registered.  Excepted are a connection that could not be created
\* and a host that assigns no identifier: in both cases the code waits for ever.  Excluded is a livelock
\* of two threads: handlers of a former connection that, again and again, are still under way when the
\* next one is started, in spite of the debounce time of 100 ms, end the registration of each other.
Registered ==
    /\ m.st = "REGISTERED" /\ host.st = "REGISTERED"
    /\ m.sender # None /\ m.sender.ack = m.client /\ host.client = m.client
    /\ \A p \in mode : m.recv[p] = "started"
NoIdentifier == m.sender # None /\ m.sender.ack = Unset
SenderStarted == m'.sender = NewSender /\ (m.sender # NewSender \/ (m'.debouncing /\ ~m.debouncing))
HandlersAreQuick == <>[][SenderStarted => \A t \in Threads : job'[t] = Idle]_vars
Settles ==
    HandlersAreQuick => <>[](user = "running" => Registered \/ m.missing \/ NoIdentifier)

=============================================================================
