------------------------- MODULE PolicyDistribution ------------------------
(***************************************************************************)
(* Policy updates on their way from the router to the applications: the    *)
(* calls update_security_policy_configuration and                          *)
(* remove_security_policy_configuration of the routing manager stub, the   *)
(* policies kept for applications that register later, the answers, and    *)
(* the timer that ends the waiting for them.  The caller's thread, the     *)
(* answers and the timers run concurrently; each step holds one mutex.     *)
(***************************************************************************)
EXTENDS Naturals, Sequences, FiniteSets

CONSTANTS
    Clients,
    Uids,
    Payloads,     \* the contents an update may have
    None,         \* no payload
    Refusing,     \* clients whose whitelist refuses updates
    Requesters,   \* clients an update opens requests to (requester policies)
    MaxCalls, MaxDisconnects

VARIABLES
    router,       \* [Uids -> SUBSET Payloads]: the router's own policies
    cache,        \* updated_security_policies_: at most one payload per user
    update,       \* per update identifier: clients pending, timer, handler, ...
    call,         \* the call in progress
    task,         \* [Clients -> what the handler of an answer does next]
    client,       \* [Clients -> policies, queue, answers, connection]
    used          \* calls and disconnects so far

vars == <<router, cache, update, call, task, client, used>>

Idle == [op |-> "none", at |-> "idle", uid |-> None, payload |-> None, id |-> 0, left |-> {}]
NoTask == [at |-> "idle", id |-> 0]
Connected == {c \in Clients : client[c].conn # "down"}

\* An update the router waits for.  watch and applied are history: the
\* informed clients that stayed connected, and those that carried it out.
NewUpdate(clients, has_handler) ==
    [open |-> TRUE, left |-> clients, timer |-> has_handler, handler |-> has_handler,
     expiry |-> "none", missing |-> {}, result |-> << >>,
     watch |-> clients, applied |-> {}]

Init ==
    /\ router = [u \in Uids |-> {}]
    /\ cache = [u \in Uids |-> None]
    /\ update = << >>
    /\ call = Idle
    /\ task = [c \in Clients |-> NoTask]
    /\ client = [c \in Clients |-> [policies |-> [u \in Uids |-> {}], stale |-> {},
                                    queue |-> << >>, answers |-> << >>, conn |-> "down"]]
    /\ used = [calls |-> 0, disconnects |-> 0]

Message(type, id, uid, payload) ==
    [type |-> type, id |-> id, uid |-> uid, payload |-> payload, cached |-> [u \in Uids |-> None]]
Send(cl, c, m) == [cl EXCEPT ![c].queue = Append(@, m)]

pending_security_update_add(upd, clients, has_handler) ==
    Append(upd, NewUpdate(clients, has_handler))
pending_security_update_remove(upd, id, c) == [upd EXCEPT ![id].left = @ \ {c}]

\* The handler of an update is called and forgotten.
CallHandler(upd, id, state) ==
    IF upd[id].handler
    THEN [upd EXCEPT ![id].handler = FALSE, ![id].result = Append(@, state)] ELSE upd

-----------------------------------------------------------------------------
(* The caller.                                                             *)

\* policy_cache_add
UpdatePolicy(u, p) ==
    /\ call.at = "idle" /\ used.calls < MaxCalls
    /\ cache' = [cache EXCEPT ![u] = p]
    /\ call' = [Idle EXCEPT !.op = "update", !.at = "apply", !.uid = u, !.payload = p]
    /\ used' = [used EXCEPT !.calls = @ + 1]
    /\ UNCHANGED <<router, update, task, client>>

\* The router's own policies; then the requester policies go to connected
\* clients of the user, which answer although nobody waits.
Apply ==
    /\ call.at = "apply" /\ call.op = "update"
    /\ router' = [router EXCEPT ![call.uid] = @ \cup {call.payload}]
    /\ LET to == Requesters \cap Connected
           id == Len(update) + 1
       IN  IF to = {} THEN UNCHANGED <<update, client>>
           ELSE /\ update' = pending_security_update_add(update, to, FALSE)
                /\ client' = [c \in Clients |-> IF c \in to
                    THEN Send(client, c, Message("internal", id, None, None))[c] ELSE client[c]]
    /\ call' = [call EXCEPT !.at = "inform"]
    /\ UNCHANGED <<cache, task, used>>

\* Only a policy that was updated before is removed.  A handler called at
\* once is an update without clients.
Refused == Append(update, [NewUpdate({}, FALSE) EXCEPT !.open = FALSE,
                              !.result = <<"SU_UNKNOWN_USER_ID">>])
RemovePolicy(u) ==
    /\ call.at = "idle" /\ used.calls < MaxCalls
    /\ used' = [used EXCEPT !.calls = @ + 1]
    /\ IF cache[u] # None /\ router[u] # {}
       THEN /\ router' = [router EXCEPT ![u] = {}]
            /\ call' = [Idle EXCEPT !.op = "remove", !.at = "forget", !.uid = u]
            /\ UNCHANGED update
       ELSE update' = Refused /\ UNCHANGED <<router, call>>
    /\ UNCHANGED <<cache, task, client>>

\* policy_cache_remove
Forget ==
    /\ call.at = "forget"
    /\ cache' = [cache EXCEPT ![call.uid] = None]
    /\ call' = [call EXCEPT !.at = "inform"]
    /\ UNCHANGED <<router, update, task, client, used>>

\* Whom to inform; the handler and the timer are there before the first send.
Inform ==
    /\ call.at = "inform"
    /\ update' = IF Connected = {}
                 THEN Append(update, [NewUpdate({}, FALSE) EXCEPT !.open = FALSE,
                                         !.result = <<"SU_SUCCESS">>])
                 ELSE pending_security_update_add(update, Connected, TRUE)
    /\ call' = IF Connected = {} THEN Idle
               ELSE [call EXCEPT !.at = "send", !.id = Len(update) + 1, !.left = Connected]
    /\ UNCHANGED <<router, cache, task, client, used>>

\* One client after the other, with pauses between them.
SendOne(c) ==
    /\ call.at = "send" /\ c \in call.left
    /\ IF c \in Connected
       THEN /\ client' = Send(client, c, Message(call.op, call.id, call.uid, call.payload))
            /\ UNCHANGED update
       ELSE /\ update' = pending_security_update_remove(update, call.id, c)
            /\ UNCHANGED client
    /\ call' = IF call.left = {c} THEN Idle ELSE [call EXCEPT !.left = @ \ {c}]
    /\ UNCHANGED <<router, cache, task, used>>

-----------------------------------------------------------------------------
(* The clients.                                                            *)

Connect(c) ==
    /\ client[c].conn = "down"
    /\ client' = [client EXCEPT ![c].conn = "connected"]
    /\ UNCHANGED <<router, cache, update, call, task, used>>

\* Registering: all cached policies in one command.
send_cached_security_policies(c) ==
    /\ client[c].conn = "connected"
    /\ client' = [client EXCEPT ![c].conn = "registered",
                                ![c].queue = IF \A u \in Uids : cache[u] = None THEN @
                                    ELSE Append(@, [Message("cached", 0, None, None)
                                                        EXCEPT !.cached = cache])]
    /\ UNCHANGED <<router, cache, update, call, task, used>>

\* The connection is lost with what is under way in either direction; the
\* process keeps its policies.
Disconnect(c) ==
    /\ client[c].conn = "registered" /\ used.disconnects < MaxDisconnects
    /\ client' = [client EXCEPT ![c].conn = "down", ![c].queue = << >>, ![c].answers = << >>,
                                ![c].stale = {u \in Uids : client[c].policies[u] # {}}]
    /\ update' = [n \in DOMAIN update |-> [update[n] EXCEPT !.watch = @ \ {c}]]
    /\ used' = [used EXCEPT !.disconnects = @ + 1]
    /\ UNCHANGED <<router, cache, call, task>>

\* A command of the router: the whitelist may refuse it, which is no answer.
on_policy_command(c) ==
    /\ client[c].queue # << >>
    /\ LET m == Head(client[c].queue)
           refused == c \in Refusing /\ m.type # "internal"
           answers == m.type # "cached" /\ ~refused
           After == [u \in Uids |->
               CASE m.type = "update" /\ u = m.uid -> client[c].policies[u] \cup {m.payload}
                 [] m.type = "remove" /\ u = m.uid -> {}
                 [] m.type = "cached" -> client[c].policies[u] \cup ({m.cached[u]} \ {None})
                 [] OTHER -> client[c].policies[u]]
       IN  /\ client' = [client EXCEPT ![c].queue = Tail(@),
                             ![c].policies = IF refused THEN @ ELSE After,
                             ![c].stale = IF m.type = "remove" /\ ~refused THEN @ \ {m.uid} ELSE @,
                             ![c].answers = IF answers THEN Append(@, m.id) ELSE @]
           /\ update' = IF answers THEN [update EXCEPT ![m.id].applied = @ \cup {c}] ELSE update
    /\ UNCHANGED <<router, cache, call, task, used>>

-----------------------------------------------------------------------------
(* Answers.  The last one cancels the timer and calls the handler.         *)

on_security_update_response(c) ==
    /\ task[c].at = "idle" /\ client[c].answers # << >>
    /\ client' = [client EXCEPT ![c].answers = Tail(@)]
    /\ LET id == Head(client[c].answers) IN
       IF update[id].open /\ c \in update[id].left
       THEN /\ update' = pending_security_update_remove(update, id, c)
            /\ task' = [task EXCEPT ![c] = [at |-> "finished", id |-> id]]
       ELSE UNCHANGED <<update, task>>
    /\ UNCHANGED <<router, cache, call, used>>

\* Finding the entry empty erases it, so that one answer goes on.
is_pending_security_update_finished(c) ==
    /\ task[c].at = "finished"
    /\ LET id == task[c].id IN
       IF update[id].open /\ update[id].left = {}
       THEN /\ update' = [update EXCEPT ![id].open = FALSE]
            /\ task' = [task EXCEPT ![c].at = "cancel"]
       ELSE task' = [task EXCEPT ![c] = NoTask] /\ UNCHANGED update
    /\ UNCHANGED <<router, cache, call, client, used>>

CancelTimer(c) ==
    /\ task[c].at = "cancel"
    /\ update' = [update EXCEPT ![task[c].id].timer = FALSE]
    /\ task' = [task EXCEPT ![c].at = "handler"]
    /\ UNCHANGED <<router, cache, call, client, used>>

AnswerHandler(c) ==
    /\ task[c].at = "handler"
    /\ update' = CallHandler(update, task[c].id, "SU_SUCCESS")
    /\ task' = [task EXCEPT ![c] = NoTask]
    /\ UNCHANGED <<router, cache, call, client, used>>

-----------------------------------------------------------------------------
(* The timer of an update (on_security_update_timeout).                    *)

Timeout(id) ==
    /\ update[id].timer
    /\ update' = [update EXCEPT ![id].timer = FALSE, ![id].expiry = "missing",
                                ![id].missing = update[id].left]
    /\ UNCHANGED <<router, cache, call, task, client, used>>

\* Those that are not connected anymore need not answer.
DropMissing(id) ==
    /\ update[id].expiry = "missing"
    /\ update' = [update EXCEPT ![id].left = @ \ (update[id].missing \ Connected),
                                ![id].expiry = "decide"]
    /\ UNCHANGED <<router, cache, call, task, client, used>>

\* Bug: the timeout reports success whoever is missing.
Decide_Success(id) ==
    /\ update[id].expiry = "decide"
    /\ update' = [update EXCEPT ![id].expiry = "SU_SUCCESS"]
    /\ UNCHANGED <<router, cache, call, task, client, used>>

\* An entry that an answer has erased meanwhile reads as empty.
Decide(id) ==
    /\ update[id].expiry = "decide"
    /\ update' = [update EXCEPT ![id].expiry =
           IF ~update[id].open \/ update[id].left = {} THEN "SU_SUCCESS" ELSE "SU_UNKNOWN_USER_ID"]
    /\ UNCHANGED <<router, cache, call, task, client, used>>

Expire(id) ==
    /\ update[id].expiry \in {"SU_SUCCESS", "SU_UNKNOWN_USER_ID"}
    /\ update' = [CallHandler(update, id, update[id].expiry) EXCEPT
                      ![id].open = FALSE, ![id].expiry = "done"]
    /\ UNCHANGED <<router, cache, call, task, client, used>>

Next ==
    \/ \E u \in Uids : RemovePolicy(u) \/ \E p \in Payloads : UpdatePolicy(u, p)
    \/ Apply \/ Forget \/ Inform
    \/ \E c \in Clients :
        \/ SendOne(c) \/ Connect(c) \/ send_cached_security_policies(c) \/ Disconnect(c)
        \/ on_policy_command(c) \/ on_security_update_response(c)
        \/ is_pending_security_update_finished(c) \/ CancelTimer(c) \/ AnswerHandler(c)
    \/ \E id \in DOMAIN update : Timeout(id) \/ DropMissing(id) \/ Decide(id) \/ Expire(id)

Spec == Init /\ [][Next]_vars

-----------------------------------------------------------------------------
Quiet ==
    /\ call.at = "idle"
    /\ \A c \in Clients : /\ client[c].queue = << >> /\ client[c].answers = << >>
                          /\ task[c].at = "idle" /\ client[c].conn # "connected"
    /\ \A id \in DOMAIN update : ~update[id].timer /\ update[id].expiry \in {"none", "done"}

\* The caller of an update or a removal hears of it exactly once, however
\* answers, lost connections and the timer interleave
\* (on_security_update_response, on_security_update_timeout), and a success
\* means that every informed client that stayed connected has carried it out.
ReportedOnceAndTrue ==
    \A id \in DOMAIN update :
        /\ Len(update[id].result) <= 1
        /\ Quiet => ~update[id].handler
        /\ update[id].result = <<"SU_SUCCESS">> => update[id].watch \subseteq update[id].applied

\* When nothing is under way, every registered client that accepts updates
\* has the updates the router has, also one that came late
\* (send_cached_security_policies); and it has nothing that was removed
\* while it was connected.
LateClientComplete ==
    Quiet => \A c \in Clients \ Refusing : client[c].conn = "registered" =>
        \A u \in Uids : /\ router[u] \subseteq client[c].policies[u]
                        /\ u \notin client[c].stale => client[c].policies[u] \subseteq router[u]
=============================================================================
