# TLA+ verification of vsomeip

vsomeip implements SOME/IP for the applications of one device and of a network. Applications of a device
talk to each other over local connections (unix domain sockets or TCP). One of them is the routing host:
it hands out client identifiers, keeps the table of offered services and runs service discovery for the
network. Everything runs on asio `io_context` threads: the state of every object is protected by a mutex
that is released around callbacks, and is disturbed by timers and late completions. This directory holds
TLA+ modules of those parts, TLC configurations for small instances, and TLAPS proofs. Paths below are
relative to `implementation/`.

## The system and what is modelled

| Part | Source | Module |
| --- | --- | --- |
| Timers of local connections | `endpoints/src/timer.cpp` | `Timer` |
| Receive buffer of local connections | `endpoints/src/local_receive_buffer.cpp` | `LocalReceiveBuffer` |
| Local endpoint: one local connection | `endpoints/src/local_endpoint.cpp` | `LocalEndpoint` |
| Local server: accepts local connections | `endpoints/src/local_server.cpp` | `LocalServer`, `RoutingConnections` |
| Client identifiers | `utility/src/utility.cpp` | `RoutingConnections` |
| Endpoint manager (routing endpoints) | `endpoints/src/endpoint_manager_impl.cpp` | `RoutingConnections` |
| Registration at the host, its end | `routing/src/routing_manager_stub.cpp`, `routing_manager_impl.cpp` | `RoutingConnections` |
| Local offers and requests at the host | `routing/src/routing_manager_impl.cpp`, `routing_manager_stub.cpp` | `ServiceOffers` |
| Registration in an application | `routing/src/routing_manager_client.cpp`, `routing_client_state_machine.cpp` | `RoutingClient` |
| Events, eventgroups, remote subscriptions | `routing/src/event.cpp`, `eventgroupinfo.cpp`, `remote_subscription.cpp` | planned |
| Service discovery | `service_discovery/src/service_discovery_impl.cpp` | planned |
| SOME/IP-TP | `endpoints/src/tp_message.cpp`, `tp_reassembler.cpp` | planned |
| External endpoints | `endpoints/src/client_endpoint_impl.cpp`, `server_endpoint_impl.cpp`, ... | planned |
| Application, dispatchers | `runtime/src/application_impl.cpp` | planned |
| Security policies, e2e protection, async tasks | `security/`, `e2e_protection/`, `utility/src/async.cpp` | planned |
| Configuration, wire formats, logging, tracing, plugins, netlink | | not modelled: data and pure I/O |

How the parts interact: an application's `routing_manager_client` opens a local endpoint to the host and
waits for its client identifier (`RoutingClient`). At the host the local server accepts the connection
(`LocalServer`), an identifier is assigned, the endpoint manager installs the endpoint or queues it
behind an older connection of the same application, and the stub registers it (`RoutingConnections`).
Over such connections offers, requests, pings and routing information travel (`ServiceOffers`). Every
connection is a local endpoint (`LocalEndpoint`) with a receive buffer (`LocalReceiveBuffer`) and four
timers (`Timer`).

The modules are layered by assumption and guarantee. `LocalEndpoint` and `LocalServer` use of a timer
what `Timer` guarantees: its task never overlaps with itself and a started timer is not forgotten
(`OneTask`, `NotForgotten`). `RoutingConnections`, `RoutingClient` and `ServiceOffers` use of an endpoint
what `LocalEndpoint` guarantees: the cleanup handler runs at most once, a failure is always reported, no
endpoint is revived, and messages of one connection keep their order. `ServiceOffers` uses that an
identifier belongs to one application (`OneApplicationPerId`).

## Conventions

What one mutex protects is one record or a few variables. A piece of code that runs under the mutex is
one action; where the code releases the mutex (a callback, a wait, a posted handler) the action ends and
another one continues. asio is external: an operation is issued by an action of the code and completes
in an action of its own; a completion that is already queued can no longer be cancelled. Slots for
operations are recycled, so behaviours are not cut short by their number.

Definitions named `<Definition>_<Bug>` are deliberately wrong variants of the definition that follows
them. They document which mistake each property detects; no specification uses them.

`M` is a component, `MCM` its instance for TLC, `MCM*.cfg` the configurations, `MProofs` its theorems.

## Modules

**Timer.** `state` is `state_`; `wait` is the state of each `async_wait` (waiting, expired, aborted), `cur`
the one of the last arming, and `tasks` the completions that execute `task_`. Actions: `Start`, `Stop`,
`Expire` (asio), `HandleAborted`, `Handle` (up to the unlock before `task_()`), `TaskDone` (from the lock
after it, with the task's result chosen freely). Arming may throw.

**LocalReceiveBuffer.** `start`, `end`, `size`, `cap`, `mem`, `shrink_ct` are the members of
`local_receive_buffer`. A byte is a pair of command number and offset, so that lost, repeated and shifted
bytes show. `Receive` takes a chunk of any size that fits; the `Next*` actions are the outcomes of
`next_message` (too long, complete, incomplete, no header), those that end the loop of
`local_endpoint::process` with what it does before the next `async_receive`.

**LocalEndpoint.** `ep` is what the mutex of a `local_endpoint` protects together with what it has issued
(socket operations, timers, posted handlers). The operators on that record are the functions of the class
(`SetState`, `Escalate`, `SendBuffer`, `ConnectUnlock`, `Connected`, `Reconnect`, `Processed`, ...); the
actions are the owner's calls (`Start`, `Send`, `StartFlushing`, `TriggerError`, `Stop`), the callbacks
and timer tasks, and the completions of the socket. `drain` is a run of `process` that hands a command
over without the mutex, `stopping` the threads that wait in `stop_internal`.

**LocalServer.** The accept loop with its life cycles (`lc_count_`), the retry timer `debounce_`, blocked
addresses and temporary connections. All of it is under `mtx_`, so each function is one action; an accept
result may be handled in a later life cycle.

**RoutingConnections.** The path of a connection through four objects with a mutex each:
`add_connection`, `request_client_id`, `add_routing_endpoint` and `on_register_application`; and of its
end, `cleanup_client`, with the promotion of a pending successor. `conn[c].phase` and `conn[c].reg` say
how far connection `c` has come, `cleanup.pc` how far the cleanup has. `stop()` and
`change_connection_control()` run beside them.

**RoutingClient.** `c` is what `mutex_` of `routing_manager_client` protects: the state of the state
machine, identifier, sender, debouncing, receivers. `job[t]` is the handler io thread `t` executes
(cleanup handler or acknowledge) and its position between critical sections; `user` the progress of
`start()` and of the staged `stop()`, `trig` and `done` the hooks that `stop()` waits for.

**ServiceOffers.** `h` holds the tables of the host (`local_services_table_`, `routing_info_`,
`requested_services_`, `pending_offers_`, `pending_requests_`, `pinged_clients_` and its timer). `hold` is
the thread that has `mutex_` and what it still has to do, `handler[c]` the message of client `c` that is
on its way or being handled, `inbox[c]` the `ROUTING_INFO` on its way back, `view` and `wants` what the
client knows and requests. `spoiled` and `late` are history variables that mark situations in which the
code does not keep its tables consistent (see Observations).

## Runs

| Run | Instance | Checks |
| --- | --- | --- |
| `timer` | 3 waits, arming may fail | `OneTask`, `NotForgotten`, `Fires` |
| `receive_buffer` | header 3, initial size 4, commands with bodies 0, 1, 5, 7 and 8 (too long), 4 of them | `RoomToReceive`, `Framing`, `MemoryBound`, `AllDelivered` |
| `endpoint` | connecting and accepted endpoint, 1 reconnect, 2 messages of 1 or 2 bytes, queue of 3 | `CleanupOnce`, `OneOperation`, `SendOrder`, `QueueBound`, `NotRevived` |
| `endpoint_live` | also a connection to the router; 1 message | `ConnectedIsConnected`, `EndsStopped`, `ConnectEnds` |
| `local_server` | 3 accepts, 1 connection, 1 address, one restart | `HandedToOwnLifecycle`, `AcceptsOrRetries`, `AcceptsAgain` |
| `local_server_retry` | 2 accepts, two restarts | finding: `KeepsAccepting` |
| `routing_connections` | 3 connections, a configured and a dynamic application, identifiers {1, 2}, `stop()` | `OneApplicationPerId`, `PendingHasPredecessor`, `RegisteredIsKnown`, `RemovesTheFailed` |
| `routing_connections_live` | 2 connections over TCP, guests are blocked | `PendingEnds`, `InstalledIsAcked` |
| `connections_ack` | 2 connections of one application | finding: `AckAfterPolicies` |
| `connections_block` | 2 connections over TCP, a guest is blocked | finding: `BlockedIsDropped` |
| `routing_client` | 2 io threads, 2 identifiers, 2 faults, 2 starts | `NeverStranded`, `StoppedIsQuiet`, `StopEnds`, `Settles` |
| `service_offers` | 2 providers, 1 requester, 1 service, 4 messages, 1 broken connection, full queues | `TablesAgree`, `RequestersInformed`, `PendingIsAwaited`, `PendingEnds` |

The first run of each module also checks its type invariant.

What they show, and why the bounds are enough:

- *Timer.* Three waits are a stale completion, an aborted one and a fresh one at the same time; the states
  of a fourth repeat one of them. A completion that expired before `stop()` and `start()` does run the
  task early, but never a second task beside the first, and never leaves a started timer without a wait.
- *Receive buffer.* The lengths make a command fit, need growth, be just allowed and exceed the limit; four
  commands are enough for growth, the two small commands that trigger shrinking, and one afterwards.
- *Endpoint.* `endpoint` lets a late completion run after a timer task that was started after it
  (`FifoIo = FALSE`), which is the most adverse order; one reconnect gives two attempts whose completions
  can be confused. `endpoint_live` needs the order that one `io_context` keeps (`FifoIo = TRUE`) for
  `ConnectedIsConnected`. One byte per message suffices for the liveness properties.
- *Server.* One connection and one address, since connections do not influence each other under one lock;
  three accepts are a waiting one and two whose results belong to older life cycles.
- *Connections.* Three connections are an installed one, its pending successor, and a third that replaces
  the pending one or takes the identifier that is released; two identifiers for them make the range run
  out. Connections are symmetric where no liveness is checked.
- *Client.* Two threads reconnect at the same time, two faults make the second hit the repair of the first,
  two starts let handlers of the first run survive into the second.
- *Offers.* Two providers compete; four messages allow an offer, a competing offer, a request and one of a
  stopped offer, a release or a second request; each may meet a dying client or a ping that cannot be sent.

### Fairness

Weak fairness is assumed only for what a thread of the implementation does by itself: io threads run
queued handlers, threads that wait for a mutex get it, timers expire, a write is taken by the peer or
fails. Nothing makes a peer connect, answer a ping or send, nor an application call anything; faults and
crashes are never fair. In `RoutingClient` the acknowledge of the host is fair, because
`InstalledIsAcked` shows that the host sends it, and `Settles` assumes `HandlersAreQuick`: eventually no
handler of a former connection is still running when the next one is started, 100 ms later. Without it two
threads can end each other's registration for ever. In `LocalServer` a handshake succeeds or breaks, as
its socket does. In `ServiceOffers` the threads that work for the host share one fairness condition: while
any of them can proceed, one does; no assumption is made on which, nor that a client answers its ping.

### Findings

- `local_server_retry`: the task of `debounce_` captures the life cycle of the moment it is created
  (`local_server.cpp:154`) and the timer is kept. After a halt and a restart a lack of descriptors starts a
  timer whose task does nothing, and nobody accepts any more, although the log announces another try.
- `connections_ack`: `on_register_application` looks the endpoint up by identifier for every send
  (`routing_manager_stub.cpp:608`). If the connection fails in between and a successor of the same
  identifier is promoted, the rest of the first registration acknowledges the successor before its policies
  were sent, against the comment there.
- `connections_block`: `add_connection` calls the handler after the unlock (`local_server.cpp:259`), so an
  endpoint of a blocked guest can be installed after `drop_from` returned, which the comment at
  `routing_manager_stub.cpp:139` excludes.

### Observations

Behaviour TLC showed while properties were being stated, for which no document says otherwise. The
properties are stated so that they hold, with the exception named in their comments.

- `timer.cpp:105`: a completion that expired before `stop()` and `start()` executes the task early.
- `local_receive_buffer.cpp:96`: the sanity timer for partial messages does not run while less than a header
  has arrived.
- `local_server.cpp:154`: a lack of descriptors that is handled after `halt()` or `stop()` creates the retry
  timer with the new life cycle, so the accept loop of a server that is not started begins again.
- `routing_manager_stub.cpp:932`: the identifier of a configured application can be missing in
  `used_clients_` while its promoted successor uses it; `:81`: an endpoint can be installed after `stop()`
  cleared the routing endpoints.
- `routing_manager_client.cpp:2254`: two threads that handle acknowledges can reconnect for ever; `:2194`
  and `:2311`: a host without identifiers, or a connection that cannot be created, leaves the client
  `REGISTERING`; `:1654`: `reconnect()` after `stop()` creates the TCP receiver again; `:181`: `stop()` bumps
  `provider_token_` before it has `mutex_`.
- `routing_manager_impl.cpp:2737`: a pong that arrives after the timeout, or after the old provider stopped its
  offer, rejects the new offer although nobody provides the service; `:2810`, `:280`: a pending or waiting
  offer of a client that is gone is offered on its behalf; `:1313`: the `STOP_OFFER` of a rejected provider
  clears the service information of the real one; `:2765`: the answer to a released request may be taken for
  the answer to the next.
- `routing_manager_stub.cpp:846`: an offer takes over without asking when the ping cannot be queued; `:834`:
  the next timeout is the elapsed time instead of the time left.
- `local_offering_table.hpp:97`: a request for any major version sees the first provider only.

## Proofs

TLC checks the instances above; the theorems hold for every value of the constants that satisfies the
`ASSUME` of the module (sentinels differ from the values they are used beside, bounds are natural numbers).
Nothing else is assumed, no set is assumed to be finite, and no fairness is used.

**TimerProofs**, for any number of outstanding waits. `IInv == TypeOK /\ OneTask /\ NotForgotten` is
inductive as it stands: `OneTask` says that `state_` is an `IN_TASK` state exactly while a task runs, so
`Handle`, which requires `STARTED`, cannot start a second one, and `start()` during a task cannot arm a wait.
Theorems `TimerTypeOK`, `TaskNeverOverlaps`, `StartedIsArmed`.

**RoutingClientProofs**, for any number of io threads, identifiers, faults and restarts. `NeverStranded` and
`StoppedIsQuiet` are not inductive: what protects a stopped client is spread over the position of `stop()`,
the hooks it waits for and the handlers that are still on their way. `IInv` adds
`AfterDebounce` (`start_sender_after_debounce_` is set only while the debounce timer runs), `RunsWhile`
(`shall_run_` against the progress of `start()` and `stop()`), `NoFlush` (a running client flushes nothing),
`StopProgress` (which hooks may be set or complete at which stage of `stop()`) and `SenderGone` (once the
sender's hook is done there is no sender and nobody can create one). Theorems `ClientTypeOK`,
`ClientNeverStranded`, `ClientStoppedIsQuiet`.

**ServiceOffersProofs**, for any number of clients, services, messages and failures. `TablesAgree` is stated
for the moments in which `mutex_` is free; `TablesInv` says what holds while it is taken: an offer enters
`local_services_table_` before `routing_info_`, a stopped offer leaves them in that order, and the offers of a
client that is being removed are in neither in the end. `PendingIsAwaited` needs `PendingConnected`: what
waits for a client waits for one whose connection is not cleaned up yet, so that the cleanup, which looks
through the pending offers and requests after it released `mutex_`, finds all of them. Requests and pongs
run without `mutex_`, so each action is proved to preserve the invariant whatever `hold` is. The operators
on the tables (`Removed`, `Ping`, `StoppedAtHost`, ...) have a lemma each that says which fields they change;
the steps use only those. Theorems `HostTablesAgree`, `HostPendingIsAwaited`.

Only model-checked are: all liveness properties, since fairness and `ENABLED` are out of reach of the prover;
`RequestersInformed`, which is about the order of messages in sequences; the properties of
`LocalReceiveBuffer`, whose stream is a recursive function; and for now those of `LocalEndpoint`, `LocalServer`
and `RoutingConnections`.

## Not modelled

- Sockets, acceptors, netlink, logging, tracing and plugins are I/O; they appear as completions, failures
  and addresses.
- Configuration is read once into tables; it appears as constants (`ConfiguredId`, `Modes`, limits).
- Wire formats (`protocol/`, `message/`, service discovery messages) are sequential conversions of data; the
  framing they rely on is in `LocalReceiveBuffer`.
- Credentials and policy updates of the stub, versions of services, and remote services are left out of
  `RoutingConnections` and `ServiceOffers`.

## Plan

Next modules, most important first:

1. `SdSession`, `SdOffers`: session numbers and reboot detection over datagrams that are lost, duplicated
   and reordered; the phases of an offer (initial wait, repetition, main) against `stop_offer_service` and
   suspend.
2. `RemoteSubscription`: eventgroup subscriptions of remote clients at the host, with children, answers,
   renewals, `StopSubscribe` and expiry; abstract specification: every subscribe entry is answered once.
3. `Dispatcher`: the handler queue of `application_impl`, parked availability, subscription and message
   handlers, blocked and elapsing dispatchers; abstract specification: one FIFO per service.
4. `ClientEndpoint`, `ServerEndpoint`: connecting timer against connect completion, queues, trains, reconnect.
5. `TpReassembler` with `tp_message`: segments in any order, duplicates, overlaps, cleanup, against a reference
   definition of the assembled message.
6. Peers' endpoints and pending commands of `routing_manager_client`; policy updates of the stub; counters
   of the e2e checkers; the task scheduler of `utility/src/async.cpp`.

Refinement: `LocalEndpoint` against an abstract connection (an ordered channel that ends once and reports
it), which `RoutingConnections` and `ServiceOffers` take for granted; `RoutingClient` composed with
`RoutingConnections`.

Theorems: `CleanupOnce`, `QueueBound` and `NotRevived` of `LocalEndpoint`; `AcceptsOrRetries` of `LocalServer`;
`PendingHasPredecessor` and `OneApplicationPerId` of `RoutingConnections`; then the safety properties of the
new modules.
