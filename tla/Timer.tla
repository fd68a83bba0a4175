------------------------------- MODULE Timer -------------------------------
(***************************************************************************)
(* The restartable one-shot timer every local connection is guarded with:  *)
(* implementation/endpoints/src/timer.cpp.  A timer owns one asio timer;   *)
(* every arming puts one async_wait on it.  asio completes a wait with     *)
(* success once the deadline passed, or with operation_aborted once the    *)
(* wait was cancelled; a wait whose completion is already queued can no    *)
(* longer be cancelled.                                                    *)
(*                                                                         *)
(* start(), stop() and handle() run on any thread of the io_context, each  *)
(* under the timer's mutex; handle() releases it around the task, so a     *)
(* task is two steps (Handle, TaskDone) with anything in between.          *)
(***************************************************************************)
EXTENDS Naturals, FiniteSets

CONSTANTS Waits,      \* identifiers of async_waits; one is reused only after
                      \* its completion was consumed
          NoWait,     \* arming the asio timer threw: there is no wait
          ArmMayFail  \* whether arming the asio timer may throw

ASSUME TimerAssumption == NoWait \notin Waits /\ ArmMayFail \in BOOLEAN

VARIABLES timerState,   \* state_
          cur,     \* the wait of the last arming
          wait,    \* state of every async_wait
          tasks    \* the waits whose completion is executing task_ now

timerVars == <<timerState, cur, wait, tasks>>

TimerStates == {"STOPPED", "STARTED", "IN_TASK", "IN_TASK_STARTED", "IN_TASK_STOPPED"}
InTask == {"IN_TASK", "IN_TASK_STARTED", "IN_TASK_STOPPED"}

\* free: not in use; waiting: on the asio timer; expired, aborted: completion
\* queued with success or with operation_aborted.
WaitStates == {"free", "waiting", "expired", "aborted"}

TimerInit ==
    /\ timerState = "STOPPED"
    /\ cur = NoWait
    /\ wait = [w \in Waits |-> "free"]
    /\ tasks = {}

\* abstract_timer::cancel, and what expires_after does to earlier waits.
WaitsCancelled(ws) == [w \in Waits |-> IF ws[w] = "waiting" THEN "aborted" ELSE ws[w]]

\* Bug: the deadline is set after the wait was issued, which cancels it.
StartUnlocked_Swapped ==
    /\ timerState' = "STARTED"
    /\ \E w \in Waits \ tasks :
          /\ wait[w] = "free"
          /\ wait' = [WaitsCancelled(wait) EXCEPT ![w] = "aborted"]
          /\ cur' = w

\* start_unlocked(): expires_after() cancels whatever still waits, then one
\* more async_wait is issued; an exception is logged and the state stays.
StartUnlocked ==
    /\ timerState' = "STARTED"
    /\ \/ \E w \in Waits \ tasks :
             /\ wait[w] = "free"
             /\ wait' = [WaitsCancelled(wait) EXCEPT ![w] = "waiting"]
             /\ cur' = w
       \/ /\ ArmMayFail
          /\ wait' = WaitsCancelled(wait)
          /\ cur' = NoWait

\* timer::start()
TimerStart ==
    /\ \/ /\ timerState \in InTask
          /\ timerState' = "IN_TASK_STARTED"
          /\ UNCHANGED <<cur, wait>>
       \/ timerState \in {"STOPPED", "STARTED"} /\ StartUnlocked
    /\ UNCHANGED tasks

\* timer::stop()
TimerStop ==
    /\ \/ /\ timerState \in {"IN_TASK", "IN_TASK_STARTED"}
          /\ timerState' = "IN_TASK_STOPPED"
          /\ UNCHANGED wait
       \/ /\ timerState = "STARTED"
          /\ timerState' = "STOPPED"
          /\ wait' = WaitsCancelled(wait)
    /\ UNCHANGED <<cur, tasks>>

\* The deadline of a wait passes: asio queues its completion.
Expire(w) ==
    /\ wait[w] = "waiting"
    /\ wait' = [wait EXCEPT ![w] = "expired"]
    /\ UNCHANGED <<timerState, cur, tasks>>

\* handle() called with operation_aborted.
HandleAborted(w) ==
    /\ wait[w] = "aborted"
    /\ wait' = [wait EXCEPT ![w] = "free"]
    /\ UNCHANGED <<timerState, cur, tasks>>

\* Bug: handle() executes the task whenever the timer was not stopped.
Handle_NotStopped(w) ==
    /\ wait[w] = "expired"
    /\ wait' = [wait EXCEPT ![w] = "free"]
    /\ IF timerState \notin {"STOPPED", "IN_TASK_STOPPED"}
         THEN timerState' = "IN_TASK" /\ tasks' = tasks \cup {w}
         ELSE UNCHANGED <<timerState, tasks>>
    /\ UNCHANGED cur

\* handle() up to the call of task_.
Handle(w) ==
    /\ wait[w] = "expired"
    /\ wait' = [wait EXCEPT ![w] = "free"]
    /\ IF timerState = "STARTED"
         THEN timerState' = "IN_TASK" /\ tasks' = tasks \cup {w}
         ELSE UNCHANGED <<timerState, tasks>>
    /\ UNCHANGED cur

\* handle() from the return of task_ on.
TaskDone(w, restart) ==
    /\ w \in tasks
    /\ tasks' = tasks \ {w}
    /\ IF timerState = "IN_TASK_STARTED" \/ (restart /\ timerState = "IN_TASK")
         THEN StartUnlocked
         ELSE timerState' = "STOPPED" /\ UNCHANGED <<cur, wait>>

TimerNext ==
    \/ TimerStart
    \/ TimerStop
    \/ \E w \in Waits :
          \/ Expire(w)
          \/ HandleAborted(w)
          \/ Handle(w)
          \/ \E restart \in BOOLEAN : TaskDone(w, restart)

\* Deadlines pass and the io_context runs every queued completion.
TimerFairness == \A w \in Waits : WF_timerVars(Expire(w)) /\ WF_timerVars(Handle(w))

TimerSpec == TimerInit /\ [][TimerNext]_timerVars
TimerFairSpec == TimerSpec /\ TimerFairness

-----------------------------------------------------------------------------

\* state_, the outstanding waits and the running tasks keep their domains.
TimerTypes ==
    /\ timerState \in TimerStates
    /\ cur \in Waits \cup {NoWait}
    /\ wait \in [Waits -> WaitStates]
    /\ tasks \in SUBSET Waits

\* A task never overlaps with itself, whatever mix of stale and fresh
\* completions the io threads run: state_ says a task runs exactly while
\* one thread is between the unlock and the lock of handle().
OneTask ==
    /\ \A v, w \in tasks : v = w
    /\ (timerState \in InTask) <=> (tasks # {})

\* A started timer is never forgotten: a completion that will execute the
\* task is still to come, however stop(), start() and expiries raced.
NotForgotten ==
    (timerState = "STARTED" /\ cur # NoWait) =>
        \E w \in Waits : wait[w] \in {"waiting", "expired"}

\* A started timer executes its task unless it is stopped or restarted.
Fires ==
    \A w \in Waits :
        (timerState = "STARTED" /\ cur = w) ~> (timerState # "STARTED" \/ cur # w)
=============================================================================
