------------------------------ MODULE Dispatcher ------------------------------
(***************************************************************************)
(* How an application runs the callbacks its user registered               *)
(* (application_impl.cpp): the queue handlers_, the main dispatcher thread *)
(* that serves it, the additional dispatchers that a timer starts when a   *)
(* callback blocks, and start(), stop() and start() again.                 *)
(*                                                                         *)
(* Everything below handlers_mutex_ is one record `app'; an action is what *)
(* a thread does between taking that mutex and releasing it: to wait on    *)
(* dispatcher_condition_, to run a callback, to join another dispatcher.   *)
(* A waiting thread looks at its condition only after a notify_all(), so   *)
(* that a missing notification is a lost one.                              *)
(***************************************************************************)
EXTENDS Naturals, Sequences, FiniteSets

CONSTANTS Services,        \* the service instances callbacks belong to
          Clients,         \* the clients whose subscriptions are reported
          Types,           \* the kinds of callbacks that arrive
          Threads,         \* names for the dispatcher threads alive at once
          max_dispatchers, \* the configured number, plus one
          MaxHandlers,     \* bound on the callbacks that arrive
          MaxStarts,       \* bound on the calls of start()
          MaxClears,       \* bound on the calls of clear_all_handler()
          EarlyRestart     \* start() again before the caller of stop() ended

VARIABLES app,      \* what handlers_mutex_ protects
          thread,   \* the dispatcher threads
          life,     \* where start() is: it returns in "stopped"
          stopping, \* stopping_
          caller,   \* stop_caller_id_: a dispatcher, or NoThread
          joining,  \* the dispatchers start() has still to join
          owed,     \* on_availability has still to notify
          count     \* callbacks, starts and clears so far

vars == <<app, thread, life, stopping, caller, joining, owed, count>>

NoThread == 0
NoHandler == [id |-> 0, type |-> "none", of |-> "none"]

\* The lists of get_next_handler: one per client for subscription callbacks,
\* one per service instance for availability callbacks and messages.
Keys == ({"client"} \X Clients) \cup ({"service"} \X Services)
KeyOf(h) == <<IF h.type = "SUBSCRIPTION" THEN "client" ELSE "service", h.of>>

Handler == [id : 1..MaxHandlers,
            type : {"SUBSCRIPTION", "AVAILABILITY", "MESSAGE", "STATE"},
            of : Services \cup Clients \cup {"none"}]

Gone == [pc |-> "gone", main |-> FALSE, woken |-> FALSE, handler |-> NoHandler,
         timer |-> "off", joins |-> {}]

NoApp == [handlers |-> <<>>, lists |-> [k \in Keys |-> <<>>],
          is_dispatching |-> FALSE, elapse |-> FALSE,
          dispatchers |-> {}, running |-> {}, elapsed |-> {}]

Init == /\ app = NoApp
        /\ thread = [t \in Threads |-> Gone]
        /\ life = "created" /\ stopping = FALSE /\ caller = NoThread
        /\ joining = {} /\ owed = FALSE
        /\ count = [handlers |-> 0, starts |-> 0, clears |-> 0, cleared |-> 0]

-----------------------------------------------------------------------------
\* Who may take the next callback.
is_active_dispatcher(a, t) ==
    /\ a.is_dispatching /\ t \in a.dispatchers
    /\ \A d \in a.dispatchers \ {t} : d \in a.running \cup a.elapsed

has_active_dispatcher(a) ==
    a.is_dispatching /\ ~ a.dispatchers \subseteq a.running \cup a.elapsed

\* Must this callback wait for the one running for the same client or service?
\* Bug: subscription callbacks do not wait for each other.
MustWait_Unordered(a, h) ==
    \/ h.type = "AVAILABILITY" /\ a.lists[KeyOf(h)] # <<>>
    \/ h.type = "MESSAGE" /\ Len(a.lists[KeyOf(h)]) > 1

MustWait(a, h) ==
    \/ h.type \in {"SUBSCRIPTION", "AVAILABILITY"} /\ a.lists[KeyOf(h)] # <<>>
    \/ h.type = "MESSAGE" /\ Len(a.lists[KeyOf(h)]) > 1

ListIt(a, h) == [a EXCEPT !.lists[KeyOf(h)] = Append(@, h)]

\* The next callback to run (NoHandler if there is none) and the queue after it.
RECURSIVE get_next_handler(_)
get_next_handler(a) ==
    IF a.handlers = <<>> THEN [app |-> a, next |-> NoHandler]
    ELSE LET h == Head(a.handlers)
             rest == [a EXCEPT !.handlers = Tail(@)]
         IN IF MustWait(rest, h) THEN get_next_handler(ListIt(rest, h))
            ELSE [app |-> IF h.type \in {"SUBSCRIPTION", "AVAILABILITY"}
                          THEN ListIt(rest, h) ELSE rest,
                  next |-> h]

\* A callback returned: those listed behind it go back to the front of the
\* queue. Bug: they go to its end, behind what arrived after them.
reschedule_ToTheEnd(a, h) ==
    IF /\ h.type \in {"SUBSCRIPTION", "AVAILABILITY"}
       /\ a.lists[KeyOf(h)] # <<>> /\ Head(a.lists[KeyOf(h)]) = h
    THEN [a EXCEPT !.handlers = @ \o Tail(a.lists[KeyOf(h)]),
                   !.lists[KeyOf(h)] = <<>>]
    ELSE a

reschedule(a, h) ==
    IF /\ h.type \in {"SUBSCRIPTION", "AVAILABILITY"}
       /\ a.lists[KeyOf(h)] # <<>> /\ Head(a.lists[KeyOf(h)]) = h
    THEN [a EXCEPT !.handlers = Tail(a.lists[KeyOf(h)]) \o @,
                   !.lists[KeyOf(h)] = <<>>]
    ELSE a

-----------------------------------------------------------------------------
(* What a dispatcher does while it holds the mutex; x is [app, thread].    *)

notify_all(x) ==
    [x EXCEPT !.thread = [t \in Threads |->
        IF @[t].pc = "wait" THEN [@[t] EXCEPT !.woken = TRUE] ELSE @[t]]]

Become(x, t, pc) == [x EXCEPT !.thread[t].pc = pc, !.thread[t].woken = FALSE]
End(x, t) == [x EXCEPT !.thread[t] = Gone]

\* invoke_handler up to the call of the callback.
invoke_handler(x, t, h) ==
    [x EXCEPT !.app.running = @ \cup {t},
              !.thread[t] = [@ EXCEPT !.pc = "run", !.woken = FALSE,
                                      !.handler = h, !.timer = "armed"]]

\* The loop of the main dispatcher, from any point at which it holds the mutex.
main_dispatch(x, t) ==
    LET a == x.app
        got == IF is_active_dispatcher(a, t) THEN get_next_handler(a)
               ELSE [app |-> a, next |-> NoHandler]
        y == [x EXCEPT !.app = got.app]
    IN CASE ~ a.is_dispatching -> End(x, t)
         [] a.is_dispatching /\ got.next # NoHandler -> invoke_handler(y, t, got.next)
         [] OTHER -> Become(notify_all([y EXCEPT !.app.elapse = TRUE]), t, "wait")

\* The loop of an additional dispatcher. An active one that finds no callback
\* waits; when its condition holds for elapse alone the wait returns at once
\* and the loop never releases the mutex again ("spin").
dispatch(x, t) ==
    LET a == x.app
        got == get_next_handler(a)
        y == [x EXCEPT !.app = got.app]
    IN CASE ~ is_active_dispatcher(a, t) ->
                End(notify_all(IF a.is_dispatching
                               THEN [x EXCEPT !.app.elapsed = @ \cup {t}] ELSE x), t)
         [] is_active_dispatcher(a, t) /\ got.next # NoHandler ->
                invoke_handler(y, t, got.next)
         [] OTHER -> Become(y, t, IF a.elapse THEN "spin" ELSE "wait")

Loop(x, t) == IF x.thread[t].main THEN main_dispatch(x, t) ELSE dispatch(x, t)

\* After dispatcher_condition_.wait(): the condition is tested again.
AfterWait(x, t) ==
    LET a == x.app
    IN IF x.thread[t].main
       THEN IF ~ a.is_dispatching \/ (a.handlers # <<>> /\ is_active_dispatcher(a, t))
            THEN main_dispatch([x EXCEPT !.app.elapse = FALSE], t)
            ELSE Become(x, t, "wait")
       ELSE CASE a.is_dispatching /\ a.handlers = <<>> /\ ~ a.elapse ->
                     Become(x, t, "wait")
              [] a.is_dispatching /\ a.handlers = <<>> /\ a.elapse
                 /\ ~ is_active_dispatcher(a, t) ->
                     End([x EXCEPT !.app.elapsed = @ \cup {t}], t)
              [] ~ a.is_dispatching /\ a.handlers = <<>> -> End(x, t)
              [] OTHER -> dispatch(x, t)

\* A callback returned: the tail of invoke_handler, the rescheduling and
\* remove_elapsed_dispatchers, which joins with the mutex released.
AfterHandler(x, t) ==
    LET h == x.thread[t].handler
        back == [x EXCEPT !.app.running = @ \ {t}, !.thread[t].timer = "off",
                          !.thread[t].handler = NoHandler]
        put == [back EXCEPT !.app = reschedule(@, h)]
        ended == put.app.elapsed \cap put.app.dispatchers
        swept == [put EXCEPT !.app.dispatchers = @ \ ended, !.app.elapsed = {}]
    IN CASE ~ x.app.is_dispatching -> End(back, t)
         [] x.app.is_dispatching /\ ended = {} -> Loop(swept, t)
         [] OTHER -> Become([swept EXCEPT !.thread[t].joins = ended], t, "join")

-----------------------------------------------------------------------------
State == [app |-> app, thread |-> thread]
Apply(x) == app' = x.app /\ thread' = x.thread

\* Nobody takes handlers_mutex_ from a dispatcher that never releases it.
MutexFree == \A t \in Threads : thread[t].pc # "spin"

FreeThreads == {t \in Threads : /\ thread[t] = Gone
                                /\ t \notin app.dispatchers \cup joining
                                /\ \A u \in Threads : t \notin thread[u].joins}

\* A callback is queued: on_subscription, on_subscription_status and on_state
\* notify at once.
Push(h) == [app EXCEPT !.handlers = Append(@, h)]

Arrive(type, of) ==
    LET h == [id |-> count.handlers + 1, type |-> type, of |-> of]
    IN /\ MutexFree /\ count.handlers < MaxHandlers /\ type \in Types
       /\ count' = [count EXCEPT !.handlers = @ + 1]
       /\ IF type = "AVAILABILITY"
          THEN app' = Push(h) /\ owed' = TRUE /\ UNCHANGED thread
          ELSE Apply(notify_all([State EXCEPT !.app = Push(h)])) /\ UNCHANGED owed
       /\ UNCHANGED <<life, stopping, caller, joining>>

OnSubscription(c) == Arrive("SUBSCRIPTION", c)
OnMessage(s) == Arrive("MESSAGE", s)
OnState == Arrive("STATE", "none")

\* on_availability queues the callbacks of the handlers it finds, here one,
\* releases the mutex and takes it again to notify.
OnAvailability(s) == Arrive("AVAILABILITY", s)
OnAvailabilityNotifies ==
    /\ MutexFree /\ owed /\ owed' = FALSE
    /\ Apply(notify_all(State))
    /\ UNCHANGED <<life, stopping, caller, joining, count>>

\* clear_all_handler empties the queue and the lists of the services, not those
\* of the clients.
ClearAllHandler ==
    /\ MutexFree /\ count.clears < MaxClears
    /\ app' = [app EXCEPT !.handlers = <<>>,
                          !.lists = [k \in Keys |-> IF k[1] = "service" THEN <<>> ELSE @[k]]]
    /\ count' = [count EXCEPT !.clears = @ + 1, !.cleared = count.handlers]
    /\ UNCHANGED <<thread, life, stopping, caller, joining, owed>>

ThreadStep(t, x) == /\ MutexFree /\ Apply(x)
                    /\ UNCHANGED <<life, stopping, caller, joining, owed, count>>

Begins(t) == thread[t].pc = "start" /\ ThreadStep(t, Loop(State, t))
Wakes(t) == /\ thread[t].pc = "wait" /\ thread[t].woken
            /\ ThreadStep(t, AfterWait(State, t))
Returns(t) == thread[t].pc = "run" /\ ThreadStep(t, AfterHandler(State, t))
Joined(t) == /\ thread[t].pc = "join"
             /\ \A u \in thread[t].joins : thread[u] = Gone
             /\ ThreadStep(t, Loop([State EXCEPT !.thread[t].joins = {}], t))

\* A callback takes longer than max_dispatch_time_.
DispatchTimeout(x, t) ==
    CASE has_active_dispatcher(x.app) -> notify_all(x)
      [] /\ ~ has_active_dispatcher(x.app)
         /\ Cardinality(x.app.dispatchers) < max_dispatchers /\ x.app.is_dispatching ->
            LET d == CHOOSE d \in FreeThreads : TRUE
            IN [x EXCEPT !.app.dispatchers = @ \cup {d}, !.thread[d].pc = "start"]
      [] OTHER -> x

TimesOut(t) ==
    /\ thread[t].pc = "run" /\ thread[t].timer = "armed"
    /\ life \in {"running", "stopping"}
    /\ ThreadStep(t, DispatchTimeout([State EXCEPT !.thread[t].timer = "fired"], t))

-----------------------------------------------------------------------------
\* start() up to io_.run(); EarlyRestart is a user who does not wait for the
\* callback that called stop().
Start ==
    /\ MutexFree /\ life \in {"created", "stopped"} /\ count.starts < MaxStarts
    /\ EarlyRestart \/ \A t \in Threads : thread[t] = Gone
    /\ LET d == CHOOSE d \in FreeThreads : TRUE
       IN Apply([app |-> [app EXCEPT !.is_dispatching = TRUE, !.elapse = FALSE,
                                     !.dispatchers = {d}],
                 thread |-> [thread EXCEPT ![d].pc = "start", ![d].main = TRUE]])
    /\ life' = "running" /\ count' = [count EXCEPT !.starts = @ + 1]
    /\ UNCHANGED <<stopping, caller, joining, owed>>

\* stop(), by a callback or by another thread, before or after start().
Stop(t) ==
    /\ ~ stopping
    /\ t # NoThread => thread[t].pc = "run"
    /\ stopping' = TRUE /\ caller' = t
    /\ UNCHANGED <<app, thread, life, joining, owed, count>>

\* What stop() posts, once io_.run() runs.
StopDispatching ==
    /\ MutexFree /\ stopping /\ life = "running" /\ life' = "stopping"
    /\ Apply(notify_all([State EXCEPT !.app.is_dispatching = FALSE]))
    /\ UNCHANGED <<stopping, caller, joining, owed, count>>

\* The routing stopped: finalize_stop, and io_.run() returns in start().
FinalizeStop ==
    /\ MutexFree /\ life = "stopping" /\ life' = "joining"
    /\ app' = [app EXCEPT !.lists = [k \in Keys |-> IF k[1] = "client" THEN <<>> ELSE @[k]],
                          !.dispatchers = {}, !.running = {}, !.elapsed = {}]
    /\ joining' = app.dispatchers \ {caller}
    /\ UNCHANGED <<thread, stopping, caller, owed, count>>

\* start() joined its dispatchers, except the one that called stop().
StartReturns ==
    /\ MutexFree /\ life = "joining" /\ life' = "stopped"
    /\ \A t \in joining : thread[t] = Gone
    /\ app' = [app EXCEPT !.lists = [k \in Keys |-> IF k[1] = "service" THEN <<>> ELSE @[k]]]
    /\ joining' = {} /\ stopping' = FALSE
    /\ UNCHANGED <<thread, caller, owed, count>>

ThreadNext(t) == Begins(t) \/ Wakes(t) \/ Returns(t) \/ Joined(t) \/ TimesOut(t)

Next == \/ \E c \in Clients : OnSubscription(c)
        \/ \E s \in Services : OnMessage(s) \/ OnAvailability(s)
        \/ OnState \/ OnAvailabilityNotifies \/ ClearAllHandler
        \/ \E t \in Threads : ThreadNext(t)
        \/ Start \/ \E t \in Threads \cup {NoThread} : Stop(t)
        \/ StopDispatching \/ FinalizeStop \/ StartReturns

\* Threads are scheduled, callbacks return, timers expire, and the routing
\* stops; nobody has to call the application.
Fairness == /\ \A t \in Threads : /\ WF_vars(Begins(t)) /\ WF_vars(Wakes(t))
                                  /\ WF_vars(Returns(t)) /\ WF_vars(Joined(t))
            /\ WF_vars(OnAvailabilityNotifies)
            /\ WF_vars(StopDispatching) /\ WF_vars(FinalizeStop) /\ WF_vars(StartReturns)

Spec == Init /\ [][Next]_vars
FairSpec == Spec /\ Fairness

-----------------------------------------------------------------------------
InQueue == {app.handlers[i] : i \in 1..Len(app.handlers)}
Listed == UNION {{app.lists[k][i] : i \in 2..Len(app.lists[k])} : k \in Keys}
Related(g, h) == /\ g.type # "STATE" /\ h.type # "STATE" /\ KeyOf(g) = KeyOf(h)
Exclusive(g, h) == Related(g, h) /\ g.type = h.type /\ g.type # "MESSAGE"

\* Callbacks for the same client, and availability changes and messages of the
\* same service instance, begin in the order in which they were queued,
\* whichever dispatchers run them (get_next_handler and the rescheduling).
BeginsInOrder ==
    \A t \in Threads :
        LET h == thread'[t].handler
        IN (h # thread[t].handler /\ h # NoHandler)
           => \A w \in (InQueue \cup Listed)' : Related(w, h) => w.id > h.id
BeginInOrder == [][BeginsInOrder]_vars

\* Two subscription callbacks of one client, and two availability callbacks of
\* one service instance, never run at the same time (CHANGES: "Availability
\* states of a service instance are now never dispatched parallel"). Callbacks
\* that still run when clear_all_handler forgets them are the exception.
NeverParallel ==
    \A t, u \in Threads :
        LET g == thread[t].handler
            h == thread[u].handler
        IN (t # u /\ g.id > count.cleared /\ h.id > count.cleared) => ~ Exclusive(g, h)

\* All dispatchers sleep, block in a callback for longer than the dispatch time
\* or have ended, and nothing is on its way that would wake one.
Asleep ==
    /\ app.is_dispatching /\ ~ owed /\ ~ stopping /\ life = "running"
    /\ \A t \in Threads : \/ thread[t] = Gone
                          \/ thread[t].pc = "wait" /\ ~ thread[t].woken
                          \/ thread[t].pc = "run" /\ thread[t].timer = "fired"

\* No wake-up is lost: queued callbacks stay unserved only when the table of
\* dispatchers is full and none of them can take a callback, and a callback
\* that waits in a list waits for one that runs.
NoLostWakeup ==
    /\ (Asleep /\ app.handlers # <<>>)
       => /\ Cardinality(app.dispatchers) >= max_dispatchers
          /\ app.dispatchers \subseteq app.running \cup app.elapsed
    /\ app.is_dispatching =>
         \A k \in Keys : app.lists[k] # <<>> =>
             \E t \in Threads : thread[t].handler = Head(app.lists[k])

\* A dispatcher that cannot get on always releases handlers_mutex_.
MutexIsReleased == MutexFree

\* stop() ends: start() returns once the callbacks have returned.
StopEnds == (stopping /\ life # "created") ~> (life = "stopped" \/ life = "created")

\* As long as a callback blocks and fewer callbacks block than the configured
\* number of dispatchers, another thread serves the queue
\* (vsomeipConfiguration.md: "an additional thread is used to execute pending
\* callbacks").
BlockedGetsHelp ==
    (Asleep /\ app.handlers # <<>>) => Cardinality(app.running) >= max_dispatchers
=============================================================================
