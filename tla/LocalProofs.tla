---------------------------- MODULE LocalProofs ----------------------------
(***************************************************************************)
(* Proofs about what the local connections of an application are made of:  *)
(* the timer, the server that accepts them, and the state machine that     *)
(* registers the application at the routing host.  The three modules share *)
(* no state; each has its own inductive invariant.                         *)
(***************************************************************************)
EXTENDS Timer, LocalServer, RoutingClient, TLAPS

-----------------------------------------------------------------------------
(* timer, for any number of outstanding waits: a task never overlaps with  *)
(* itself, and a started timer always has a completion to come.            *)

TimerInv == TimerTypes /\ OneTask /\ NotForgotten

\* cancel() and expires_after() leave every wait in a known state.
LEMMA CancelledType ==
    ASSUME NEW ws \in [Waits -> WaitStates]
    PROVE  WaitsCancelled(ws) \in [Waits -> WaitStates]
BY DEF WaitsCancelled, WaitStates

\* start_unlocked() arms the timer: its new wait is waiting, unless arming threw.
LEMMA StartUnlockedArms ==
    ASSUME TimerTypes, StartUnlocked
    PROVE  /\ timerState' = "STARTED"
           /\ cur' \in Waits \cup {NoWait}
           /\ wait' \in [Waits -> WaitStates]
           /\ cur' # NoWait => \E w \in Waits : wait'[w] = "waiting"
<1>1. WaitsCancelled(wait) \in [Waits -> WaitStates]
  BY CancelledType DEF TimerTypes
<1>2. CASE \E w \in Waits \ tasks :
             /\ wait[w] = "free"
             /\ wait' = [WaitsCancelled(wait) EXCEPT ![w] = "waiting"]
             /\ cur' = w
  BY <1>1, <1>2 DEF StartUnlocked, WaitStates
<1>3. CASE wait' = WaitsCancelled(wait) /\ cur' = NoWait
  BY <1>1, <1>3 DEF StartUnlocked
<1> QED
  BY <1>2, <1>3 DEF StartUnlocked

\* A timer that was just created satisfies the inductive invariant.
LEMMA TimerInitInv == TimerInit => TimerInv
BY TimerAssumption DEF TimerInit, TimerInv, TimerTypes, OneTask, NotForgotten, TimerStates, InTask, WaitStates

\* Every call, expiry and completion preserves it.
LEMMA TimerNextInv == TimerInv /\ [TimerNext]_timerVars => TimerInv'
<1> SUFFICES ASSUME TimerInv, [TimerNext]_timerVars
             PROVE  TimerInv'
  OBVIOUS
<1> USE DEF TimerInv
<1>1. CASE TimerStart
  <2>1. CASE timerState \in InTask /\ timerState' = "IN_TASK_STARTED" /\ UNCHANGED <<cur, wait>>
    BY <1>1, <2>1 DEF TimerStart, TimerTypes, OneTask, NotForgotten, TimerStates, InTask
  <2>2. CASE timerState \in {"STOPPED", "STARTED"} /\ StartUnlocked
    BY <1>1, <2>2, StartUnlockedArms DEF TimerStart, TimerTypes, OneTask, NotForgotten, TimerStates, InTask
  <2> QED
    BY <1>1, <2>1, <2>2 DEF TimerStart
<1>2. CASE TimerStop
  <2>1. CASE timerState \in {"IN_TASK", "IN_TASK_STARTED"} /\ timerState' = "IN_TASK_STOPPED" /\ UNCHANGED wait
    BY <1>2, <2>1 DEF TimerStop, TimerTypes, OneTask, NotForgotten, TimerStates, InTask
  <2>2. CASE timerState = "STARTED" /\ timerState' = "STOPPED" /\ wait' = WaitsCancelled(wait)
    BY <1>2, <2>2, CancelledType DEF TimerStop, TimerTypes, OneTask, NotForgotten, TimerStates, InTask
  <2> QED
    BY <1>2, <2>1, <2>2 DEF TimerStop
<1>3. ASSUME NEW w \in Waits, Expire(w)
      PROVE  TimerInv'
  BY <1>3 DEF Expire, TimerTypes, OneTask, NotForgotten, WaitStates
<1>4. ASSUME NEW w \in Waits, HandleAborted(w)
      PROVE  TimerInv'
  BY <1>4 DEF HandleAborted, TimerTypes, OneTask, NotForgotten, WaitStates
<1>5. ASSUME NEW w \in Waits, Handle(w)
      PROVE  TimerInv'
  <2>1. CASE timerState = "STARTED"
    BY <1>5, <2>1 DEF Handle, TimerTypes, OneTask, NotForgotten, WaitStates, TimerStates, InTask
  <2>2. CASE timerState # "STARTED"
    BY <1>5, <2>2 DEF Handle, TimerTypes, OneTask, NotForgotten, WaitStates, TimerStates, InTask
  <2> QED
    BY <2>1, <2>2
<1>6. ASSUME NEW w \in Waits, NEW restart \in BOOLEAN, TaskDone(w, restart)
      PROVE  TimerInv'
  <2>1. tasks' = {}
    BY <1>6 DEF TaskDone, OneTask
  <2>2. CASE StartUnlocked
    BY <1>6, <2>1, <2>2, StartUnlockedArms DEF TimerTypes, OneTask, NotForgotten, TimerStates, InTask
  <2>3. CASE timerState' = "STOPPED" /\ UNCHANGED <<cur, wait>>
    BY <1>6, <2>1, <2>3 DEF TimerTypes, OneTask, NotForgotten, TimerStates, InTask
  <2> QED
    BY <1>6, <2>2, <2>3 DEF TaskDone
<1>7. CASE UNCHANGED timerVars
  BY <1>7 DEF timerVars, TimerTypes, OneTask, NotForgotten
<1> QED
  BY <1>1, <1>2, <1>3, <1>4, <1>5, <1>6, <1>7 DEF TimerNext

\* Every reachable state satisfies the inductive invariant.
LEMMA TimerInvariance == TimerSpec => []TimerInv
BY TimerInitInv, TimerNextInv, PTL DEF TimerSpec

\* timer's fields keep their types whatever start(), stop(), handle() and the
\* asio timer do.
THEOREM TimerTypeOK == TimerSpec => []TimerTypes
<1>1. TimerInv => TimerTypes
  BY DEF TimerInv
<1> QED
  BY <1>1, TimerInvariance, PTL

\* timer::handle never runs task_ while another completion is running it.
THEOREM TaskNeverOverlaps == TimerSpec => []OneTask
<1>1. TimerInv => OneTask
  BY DEF TimerInv
<1> QED
  BY <1>1, TimerInvariance, PTL

\* A timer in STARTED has a completion to come, however calls and expiries raced.
THEOREM StartedIsArmed == TimerSpec => []NotForgotten
<1>1. TimerInv => NotForgotten
  BY DEF TimerInv
<1> QED
  BY <1>1, TimerInvariance, PTL

-----------------------------------------------------------------------------
(* local_server, for any number of accept operations, connections, peers  *)
(* and life cycles.                                                        *)

\* The types of the acceptor's state.
Shape ==
    /\ lc \in Nat
    /\ accept \in [Accepts -> [op : {"none", "waiting"} \cup Results, lc : Nat]]
    /\ DOMAIN conn = Conns
    /\ \A c \in Conns : conn[c] = [phase |-> conn[c].phase, lc |-> conn[c].lc,
                                   ip |-> conn[c].ip, handler |-> conn[c].handler]
    /\ debounce \in [kind : {"none", "retry", "log"}, lc : Nat,
                     timer : {"off", "on", "task", "task_on"}]
    /\ lingering \in BOOLEAN

\* The connection handler is the one of the current life cycle.
CurrentHandler == handler \in {lc, NoHandler}

\* The timer that only logs is created where the loop ends.
LogLingers == debounce.kind = "log" => lingering

\* A timer that was never created does not run.
NoTimerNoTask == debounce.kind = "none" => debounce.timer = "off"

\* The inductive invariant.
ServerInv == Shape /\ CurrentHandler /\ LogLingers /\ NoTimerNoTask
        /\ HandedToOwnLifecycle /\ AcceptsOrRetries

-----------------------------------------------------------------------------
(* accept operations *)

\* async_accept of start_unlock leaves an accept of the life cycle n waiting, and the
\* others as they are.
LEMMA IssuedFacts ==
  ASSUME NEW n \in Nat,
         NEW as \in [Accepts -> [op : {"none", "waiting"} \cup Results, lc : Nat]],
         NEW bs \in Issued(as, n)
  PROVE  /\ bs \in [Accepts -> [op : {"none", "waiting"} \cup Results, lc : Nat]]
         /\ \E a \in Accepts : bs[a].op = "waiting" /\ bs[a].lc = n
<1>1. PICK a \in Accepts : bs = [as EXCEPT ![a] = [op |-> "waiting", lc |-> n]]
  BY Zenon DEF Issued
<1>2. [op |-> "waiting", lc |-> n] \in [op : {"none", "waiting"} \cup Results, lc : Nat]
  OBVIOUS
<1> QED  BY Zenon, <1>1, <1>2

\* The callback of an accept frees its slot.
LEMMA FreedFacts ==
  ASSUME Shape, NEW a \in Accepts
  PROVE  /\ Freed(a) \in [Accepts -> [op : {"none", "waiting"} \cup Results, lc : Nat]]
         /\ \A b \in Accepts : b # a => Freed(a)[b] = accept[b]
  BY DEF Freed, NoAccept, Shape

\* stop and halt cancel the accepts that wait.
LEMMA CancelledFacts ==
  ASSUME Shape
  PROVE  Cancelled \in [Accepts -> [op : {"none", "waiting"} \cup Results, lc : Nat]]
<1>1. ASSUME NEW a \in Accepts
      PROVE  Cancelled[a] \in [op : {"none", "waiting"} \cup Results, lc : Nat]
  BY <1>1 DEF Cancelled, Shape, Results
<1> QED  BY <1>1 DEF Cancelled

-----------------------------------------------------------------------------
(* The initial state *)

\* A server that was never started has no accept, connection or timer.
LEMMA ServerInitInv == ServerInit => ServerInv
<1> SUFFICES ASSUME ServerInit PROVE ServerInv  OBVIOUS
<1>1. /\ state = "STOPPED" /\ lc = 0 /\ handler = NoHandler /\ lingering = FALSE
      /\ accept = [a \in Accepts |-> NoAccept]
      /\ debounce = [kind |-> "none", lc |-> 0, timer |-> "off"]
      /\ conn = [c \in Conns |-> NoConn(AnyIp)]
  BY DEF ServerInit
<1>2. Shape
  <2>1. NoAccept \in [op : {"none", "waiting"} \cup Results, lc : Nat]
    BY DEF NoAccept
  <2>2. ASSUME NEW c \in Conns
        PROVE  conn[c] = [phase |-> conn[c].phase, lc |-> conn[c].lc,
                          ip |-> conn[c].ip, handler |-> conn[c].handler]
    BY <1>1 DEF NoConn
  <2>3. DOMAIN conn = Conns
    BY <1>1
  <2> QED  BY Zenon, <1>1, <2>1, <2>2, <2>3 DEF Shape
<1>3. HandedToOwnLifecycle
  BY <1>1 DEF HandedToOwnLifecycle, NoConn
<1> QED
  BY <1>1, <1>2, <1>3 DEF ServerInv, CurrentHandler, LogLingers, NoTimerNoTask, AcceptsOrRetries

-----------------------------------------------------------------------------
(* Steps *)

\* The life cycle, the handler and the timer facts do not depend on which accept a
\* step issues: whatever keeps the life cycle, lingering and the timer and leaves a
\* waiting accept of the life cycle keeps AcceptsOrRetries.
LEMMA AcceptingSuffices ==
  ASSUME \E a \in Accepts : accept'[a].op = "waiting" /\ accept'[a].lc = lc'
  PROVE  AcceptsOrRetries'
  BY DEF AcceptsOrRetries, Accepting

\* Where an accept that is not the only one in charge ends, the one in charge stays.
LEMMA OthersKeepAccepting ==
  ASSUME ServerInv, NEW a \in Accepts, accept' = Freed(a),
         accept[a].op = "aborted" \/ accept[a].lc # lc,
         UNCHANGED <<state, lc, debounce, lingering>>
  PROVE  AcceptsOrRetries'
<1>1. \A b \in Accepts : b # a => accept'[b] = accept[b]
  BY FreedFacts DEF ServerInv
<1>2. Accepting => Accepting'
  BY <1>1 DEF Accepting
<1> QED  BY <1>2 DEF ServerInv, AcceptsOrRetries, Retrying

\* start: installs the handler of the life cycle, and issues an accept unless the
\* server is started already.
LEMMA StartIInv == ServerInv /\ ServerStart => ServerInv'
<1> SUFFICES ASSUME ServerInv, ServerStart PROVE ServerInv'  OBVIOUS
<1>1. UNCHANGED <<conn, debounce, lingering>>
  BY DEF ServerStart
<1>2. HandedToOwnLifecycle' /\ LogLingers' /\ NoTimerNoTask'
  BY <1>1 DEF ServerInv, HandedToOwnLifecycle, LogLingers, NoTimerNoTask
<1>3. CASE state = "STARTED"
  <2>1. UNCHANGED <<state, lc, accept>> /\ handler' = lc
    BY <1>3 DEF ServerStart
  <2>2. Shape' /\ CurrentHandler'
    BY <1>1, <2>1 DEF ServerInv, Shape, CurrentHandler
  <2>3. AcceptsOrRetries'
    BY <1>1, <2>1 DEF ServerInv, AcceptsOrRetries, Accepting, Retrying
  <2> QED  BY <1>2, <2>2, <2>3 DEF ServerInv
<1>4. CASE state # "STARTED"
  <2>1. lc' = lc + 1 /\ handler' = lc' /\ accept' \in Issued(accept, lc + 1)
    BY <1>4 DEF ServerStart
  <2>2. lc + 1 \in Nat
    BY DEF ServerInv, Shape
  <2>3. /\ accept' \in [Accepts -> [op : {"none", "waiting"} \cup Results, lc : Nat]]
        /\ \E a \in Accepts : accept'[a].op = "waiting" /\ accept'[a].lc = lc'
    BY <2>1, <2>2, IssuedFacts DEF ServerInv, Shape
  <2>4. Shape'
    BY <1>1, <2>1, <2>2, <2>3 DEF ServerInv, Shape
  <2> QED  BY <1>2, <2>1, <2>3, <2>4, AcceptingSuffices DEF ServerInv, CurrentHandler
<1> QED  BY <1>3, <1>4

\* stop and halt: the handler goes, and nothing of the old life cycle is accepted.
LEMMA EndIInv == ServerInv /\ (ServerStop \/ Halt) => ServerInv'
<1> SUFFICES ASSUME ServerInv, ServerStop \/ Halt PROVE ServerInv'  OBVIOUS
<1>1. /\ state' # "STARTED" /\ lc' = lc + 1 /\ handler' = NoHandler /\ accept' = Cancelled
      /\ UNCHANGED <<conn, lingering>>
  BY DEF ServerStop, Halt
<1>2. /\ debounce' \in [kind : {"none", "retry", "log"}, lc : Nat,
                        timer : {"off", "on", "task", "task_on"}]
      /\ debounce'.kind = debounce.kind
      /\ debounce.timer = "off" => debounce'.timer = "off"
  BY DEF ServerStop, Halt, ServerInv, Shape, TimerStopped
<1>3. Shape'
  BY <1>1, <1>2, CancelledFacts DEF ServerInv, Shape
<1>4. HandedToOwnLifecycle' /\ LogLingers' /\ NoTimerNoTask'
  BY <1>1, <1>2 DEF ServerInv, HandedToOwnLifecycle, LogLingers, NoTimerNoTask
<1> QED  BY <1>1, <1>3, <1>4 DEF ServerInv, CurrentHandler, AcceptsOrRetries

\* Completed by the operating system, an accept is still one whose callback will run.
LEMMA CompleteIInv ==
  ASSUME ServerInv, NEW a \in Accepts, NEW r \in {"ok"} \cup Errors, Complete(a, r)
  PROVE  ServerInv'
<1>1. /\ accept' = [accept EXCEPT ![a].op = r] /\ accept[a].op = "waiting"
      /\ UNCHANGED <<state, lc, handler, conn, debounce, lingering>>
  BY DEF Complete
<1>2. Shape'
  BY <1>1 DEF ServerInv, Shape, Results
<1>3. \A b \in Accepts : accept'[b].lc = accept[b].lc /\ (b # a => accept'[b] = accept[b])
  BY <1>1 DEF ServerInv, Shape
<1>4. accept'[a].op \notin {"none", "aborted"}
  BY <1>1 DEF ServerInv, Shape, Errors
<1>5. Accepting => Accepting'
  BY <1>1, <1>3, <1>4 DEF Accepting
<1> QED
  BY <1>1, <1>2, <1>5 DEF ServerInv, CurrentHandler, LogLingers, NoTimerNoTask,
                          HandedToOwnLifecycle, AcceptsOrRetries, Retrying

\* accept_cbk without an error: the next accept is issued whether or not the peer is
\* blocked, except for an accept of an earlier life cycle.
LEMMA AcceptOkIInv ==
  ASSUME ServerInv, NEW a \in Accepts, NEW c \in Conns, NEW ip \in Ips, AcceptOk(a, c, ip)
  PROVE  ServerInv'
<1>1. UNCHANGED <<state, lc, handler, debounce, lingering>>
  BY DEF AcceptOk
<1>2. CurrentHandler' /\ LogLingers' /\ NoTimerNoTask'
  BY <1>1 DEF ServerInv, CurrentHandler, LogLingers, NoTimerNoTask
<1>3. /\ DOMAIN conn' = Conns
      /\ \A d \in Conns : conn'[d] = [phase |-> conn'[d].phase, lc |-> conn'[d].lc,
                                      ip |-> conn'[d].ip, handler |-> conn'[d].handler]
      /\ \A d \in Conns : conn'[d] = conn[d] \/ conn'[d].phase = "handshake"
  BY DEF AcceptOk, ServerInv, Shape
<1>4. HandedToOwnLifecycle'
  BY <1>3 DEF ServerInv, HandedToOwnLifecycle
<1>5. CASE accept[a].lc # lc
  <2>1. accept' = Freed(a)
    BY <1>5 DEF AcceptOk
  <2>2. AcceptsOrRetries'
    BY <1>1, <1>5, <2>1, OthersKeepAccepting
  <2>3. Shape'
    BY <1>1, <1>3, <2>1, FreedFacts DEF ServerInv, Shape
  <2> QED  BY <1>2, <1>4, <2>2, <2>3 DEF ServerInv
<1>6. CASE accept[a].lc = lc
  <2>1. accept' \in Issued(Freed(a), lc)
    BY <1>6 DEF AcceptOk
  <2>2. Freed(a) \in [Accepts -> [op : {"none", "waiting"} \cup Results, lc : Nat]] /\ lc \in Nat
    BY FreedFacts DEF ServerInv, Shape
  <2>3. /\ accept' \in [Accepts -> [op : {"none", "waiting"} \cup Results, lc : Nat]]
        /\ \E b \in Accepts : accept'[b].op = "waiting" /\ accept'[b].lc = lc'
    BY <1>1, <2>1, <2>2, IssuedFacts
  <2>4. Shape'
    BY <1>1, <1>3, <2>3 DEF ServerInv, Shape
  <2> QED  BY <1>2, <1>4, <2>3, <2>4, AcceptingSuffices DEF ServerInv
<1> QED  BY <1>5, <1>6

\* accept_cbk with an error: a bad descriptor ends the loop for good, a lack of
\* descriptors starts the timer, and any other error issues the next accept.
LEMMA AcceptFailedIInv ==
  ASSUME ServerInv, NEW a \in Accepts, AcceptFailed(a)
  PROVE  ServerInv'
<1> DEFINE Acc == [Accepts -> [op : {"none", "waiting"} \cup Results, lc : Nat]]
<1>1. UNCHANGED <<state, lc, handler, conn>>
  BY DEF AcceptFailed
<1>2. HandedToOwnLifecycle' /\ CurrentHandler'
  BY <1>1 DEF ServerInv, HandedToOwnLifecycle, CurrentHandler
<1>3. Freed(a) \in Acc /\ lc \in Nat
  BY FreedFacts DEF ServerInv, Shape
<1>4. CASE accept[a].op = "bad_descriptor"
  <2>1. /\ debounce' = [kind |-> "log", lc |-> 0, timer |-> "on"]
        /\ lingering' = TRUE /\ accept' = Freed(a)
    BY <1>4 DEF AcceptFailed
  <2>2. Shape'
    BY <1>1, <1>3, <2>1 DEF ServerInv, Shape
  <2> QED  BY <1>2, <2>1, <2>2 DEF ServerInv, LogLingers, NoTimerNoTask, AcceptsOrRetries
<1>5. CASE accept[a].op = "no_descriptors"
  <2>1. /\ debounce' = IF debounce.kind = "none" THEN [kind |-> "retry", lc |-> lc, timer |-> "on"]
                       ELSE [debounce EXCEPT !.timer = TimerStarted(@)]
        /\ accept' = Freed(a) /\ lingering' = lingering
    BY <1>5 DEF AcceptFailed
  <2>2. /\ debounce' \in [kind : {"none", "retry", "log"}, lc : Nat,
                          timer : {"off", "on", "task", "task_on"}]
        /\ debounce'.timer # "off"
        /\ debounce.kind = "none" => debounce'.kind = "retry" /\ debounce'.lc = lc
        /\ debounce.kind # "none" => debounce'.kind = debounce.kind /\ debounce'.lc = debounce.lc
    BY <1>3, <2>1 DEF ServerInv, Shape, TimerStarted
  <2>3. Shape'
    BY <1>1, <1>3, <2>1, <2>2 DEF ServerInv, Shape
  <2>4. LogLingers' /\ NoTimerNoTask'
    BY <2>1, <2>2 DEF ServerInv, LogLingers, NoTimerNoTask
  <2>5. debounce'.kind \in {"retry", "log"}
    BY <2>2 DEF ServerInv, Shape
  <2>6. AcceptsOrRetries'
    BY <1>1, <2>2, <2>4, <2>5 DEF AcceptsOrRetries, Retrying, LogLingers
  <2> QED  BY <1>2, <2>3, <2>4, <2>6 DEF ServerInv
<1>6. CASE accept[a].op = "error" /\ accept[a].lc = lc
  <2>1. accept' \in Issued(Freed(a), lc) /\ UNCHANGED <<debounce, lingering>>
    BY <1>6 DEF AcceptFailed
  <2>2. accept' \in Acc /\ \E b \in Accepts : accept'[b].op = "waiting" /\ accept'[b].lc = lc'
    BY <1>1, <1>3, <2>1, IssuedFacts
  <2>3. Shape' /\ LogLingers' /\ NoTimerNoTask'
    BY <1>1, <2>1, <2>2 DEF ServerInv, Shape, LogLingers, NoTimerNoTask
  <2> QED  BY <1>2, <2>2, <2>3, AcceptingSuffices DEF ServerInv
<1>7. CASE (accept[a].op = "error" /\ accept[a].lc # lc) \/ accept[a].op = "aborted"
  <2>1. accept' = Freed(a) /\ UNCHANGED <<debounce, lingering>>
    BY Zenon, <1>7 DEF AcceptFailed
  <2>2. AcceptsOrRetries'
    BY <1>1, <1>7, <2>1, OthersKeepAccepting
  <2>3. Shape' /\ LogLingers' /\ NoTimerNoTask'
    BY <1>1, <1>3, <2>1 DEF ServerInv, Shape, LogLingers, NoTimerNoTask
  <2> QED  BY <1>2, <2>2, <2>3 DEF ServerInv
<1> QED  BY <1>4, <1>5, <1>6, <1>7 DEF AcceptFailed, Errors

\* The timer expires: the retry of its life cycle is still to come.
LEMMA DebounceExpiresIInv == ServerInv /\ DebounceExpires => ServerInv'
<1> SUFFICES ASSUME ServerInv, DebounceExpires PROVE ServerInv'  OBVIOUS
<1>1. /\ debounce.timer = "on" /\ debounce' = [debounce EXCEPT !.timer = "task"]
      /\ UNCHANGED <<state, lc, handler, accept, conn, lingering>>
  BY DEF DebounceExpires
<1>2. /\ debounce' \in [kind : {"none", "retry", "log"}, lc : Nat,
                        timer : {"off", "on", "task", "task_on"}]
      /\ debounce'.kind = debounce.kind /\ debounce'.lc = debounce.lc /\ debounce'.timer = "task"
  BY <1>1 DEF ServerInv, Shape
<1>3. Shape' /\ CurrentHandler' /\ LogLingers' /\ NoTimerNoTask' /\ HandedToOwnLifecycle'
  BY <1>1, <1>2 DEF ServerInv, Shape, CurrentHandler, LogLingers, NoTimerNoTask, HandedToOwnLifecycle
<1>4. AcceptsOrRetries'
  BY <1>1, <1>2 DEF ServerInv, AcceptsOrRetries, Accepting, Retrying
<1> QED  BY <1>3, <1>4 DEF ServerInv

\* The task of the timer issues the accept of its life cycle; that of an earlier one
\* does nothing.
LEMMA DebounceTaskIInv == ServerInv /\ DebounceTask => ServerInv'
<1> SUFFICES ASSUME ServerInv, DebounceTask PROVE ServerInv'  OBVIOUS
<1>1. /\ debounce.timer \in {"task", "task_on"} /\ debounce' = AfterTask
      /\ UNCHANGED <<state, lc, handler, conn, lingering>>
  BY DEF DebounceTask
<1>2. /\ debounce' \in [kind : {"none", "retry", "log"}, lc : Nat,
                        timer : {"off", "on", "task", "task_on"}]
      /\ debounce'.kind = debounce.kind /\ debounce'.lc = debounce.lc
      /\ debounce.kind # "none"
  BY <1>1 DEF ServerInv, Shape, AfterTask, NoTimerNoTask
<1>3. CurrentHandler' /\ LogLingers' /\ NoTimerNoTask' /\ HandedToOwnLifecycle'
  BY <1>1, <1>2 DEF ServerInv, CurrentHandler, LogLingers, NoTimerNoTask, HandedToOwnLifecycle
<1>4. CASE debounce.kind = "retry" /\ debounce.lc = lc
  <2>1. accept' \in Issued(accept, lc)
    BY <1>4 DEF DebounceTask
  <2>2. /\ accept' \in [Accepts -> [op : {"none", "waiting"} \cup Results, lc : Nat]]
        /\ \E b \in Accepts : accept'[b].op = "waiting" /\ accept'[b].lc = lc'
    BY <1>1, <2>1, IssuedFacts DEF ServerInv, Shape
  <2>3. Shape'
    BY <1>1, <1>2, <2>2 DEF ServerInv, Shape
  <2> QED  BY <1>3, <2>2, <2>3, AcceptingSuffices DEF ServerInv
<1>5. CASE ~(debounce.kind = "retry" /\ debounce.lc = lc)
  <2>1. UNCHANGED accept
    BY <1>5 DEF DebounceTask
  <2>2. Shape'
    BY <1>1, <1>2, <2>1 DEF ServerInv, Shape
  <2>3. AcceptsOrRetries'
    BY <1>1, <1>2, <1>5, <2>1 DEF ServerInv, Shape, AcceptsOrRetries, LogLingers
  <2> QED  BY <1>3, <2>2, <2>3 DEF ServerInv
<1> QED  BY <1>4, <1>5

\* hand_over and add_connection: only a connection of this life cycle is handed over,
\* to the handler of this life cycle.
LEMMA ConnectionIInv ==
  ASSUME ServerInv, NEW c \in Conns,
         \/ BreakConnection(c) \/ CallHandler(c)
         \/ \E accepted \in BOOLEAN : AddConnection(c, accepted)
  PROVE  ServerInv'
<1>1. UNCHANGED <<state, lc, handler, accept, debounce, lingering>>
  BY DEF BreakConnection, CallHandler, AddConnection
<1>2. \/ conn' = [conn EXCEPT ![c] = NoConn(conn[c].ip)]
      \/ /\ conn' = [conn EXCEPT ![c] = [conn[c] EXCEPT !.phase = "handed", !.handler = handler]]
         /\ conn[c].lc = lc
  BY DEF BreakConnection, CallHandler, AddConnection
<1>3. /\ DOMAIN conn' = Conns
      /\ \A d \in Conns : conn'[d] = [phase |-> conn'[d].phase, lc |-> conn'[d].lc,
                                      ip |-> conn'[d].ip, handler |-> conn'[d].handler]
  BY Zenon, <1>2 DEF ServerInv, Shape, NoConn
<1>4. \A d \in Conns : \/ conn'[d] = conn[d]
                       \/ conn'[d].phase = "none"
                       \/ conn'[d].lc = lc /\ conn'[d].handler = handler
  <2>1. CASE conn' = [conn EXCEPT ![c] = NoConn(conn[c].ip)]
    BY <2>1 DEF ServerInv, Shape, NoConn
  <2>2. CASE /\ conn' = [conn EXCEPT ![c] = [conn[c] EXCEPT !.phase = "handed", !.handler = handler]]
             /\ conn[c].lc = lc
    <3>1. PICK ph, l, i, h : conn[c] = [phase |-> ph, lc |-> l, ip |-> i, handler |-> h]
      BY DEF ServerInv, Shape
    <3>2. /\ [conn[c] EXCEPT !.phase = "handed", !.handler = handler].lc = l
          /\ [conn[c] EXCEPT !.phase = "handed", !.handler = handler].handler = handler
      BY <3>1
    <3>3. conn'[c].lc = lc /\ conn'[c].handler = handler
      BY <2>2, <3>1, <3>2 DEF ServerInv, Shape
    <3> QED  BY <2>2, <3>3 DEF ServerInv, Shape
  <2> QED  BY <1>2, <2>1, <2>2
<1>5. HandedToOwnLifecycle'
  BY <1>4 DEF ServerInv, HandedToOwnLifecycle, CurrentHandler
<1> QED
  BY <1>1, <1>3, <1>5 DEF ServerInv, Shape, CurrentHandler, LogLingers, NoTimerNoTask,
                          AcceptsOrRetries, Accepting, Retrying

\* Every step of the server keeps the invariant.
LEMMA ServerNextInv == ServerInv /\ [ServerNext]_serverVars => ServerInv'
<1> SUFFICES ASSUME ServerInv, [ServerNext]_serverVars PROVE ServerInv'  OBVIOUS
<1>1. CASE UNCHANGED serverVars \/ \E ip \in Ips : BlockFrom(ip) \/ AllowFrom(ip)
  <2>1. UNCHANGED <<state, lc, handler, accept, conn, debounce, lingering>>
    BY <1>1 DEF serverVars, BlockFrom, AllowFrom
  <2> QED  BY <2>1 DEF ServerInv, Shape, CurrentHandler, LogLingers, NoTimerNoTask,
                       HandedToOwnLifecycle, AcceptsOrRetries, Accepting, Retrying
<1>2. CASE ServerStart
  BY <1>2, StartIInv
<1>3. CASE ServerStop \/ Halt
  BY <1>3, EndIInv
<1>4. CASE \E a \in Accepts, r \in {"ok"} \cup Errors : Complete(a, r)
  BY <1>4, CompleteIInv
<1>5. CASE \E a \in Accepts, c \in Conns, ip \in Ips : AcceptOk(a, c, ip)
  BY <1>5, AcceptOkIInv
<1>6. CASE \E a \in Accepts : AcceptFailed(a)
  BY <1>6, AcceptFailedIInv
<1>7. CASE DebounceExpires \/ DebounceTask
  BY <1>7, DebounceExpiresIInv, DebounceTaskIInv
<1>8. CASE \E c \in Conns : \/ BreakConnection(c) \/ CallHandler(c)
                            \/ \E accepted \in BOOLEAN : AddConnection(c, accepted)
  BY <1>8, ConnectionIInv
<1> QED  BY <1>1, <1>2, <1>3, <1>4, <1>5, <1>6, <1>7, <1>8 DEF ServerNext

-----------------------------------------------------------------------------
(* Theorems *)

\* The facts hold in every state of the server.
THEOREM ServerInvariant == ServerSpec => []ServerInv
  BY ServerInitInv, ServerNextInv, PTL DEF ServerSpec

\* Connections of an earlier life cycle never reach the handler of a later one,
\* however many life cycles a handshake lasts (local_server::add_connection).
THEOREM NoForeignHandler == ServerSpec => []HandedToOwnLifecycle
<1>1. ServerInv => HandedToOwnLifecycle
  BY DEF ServerInv
<1> QED  BY <1>1, ServerInvariant, PTL

\* The accept loop never ends silently: a started server has an accept of its life
\* cycle or the timer that will issue one, up to the two exceptions AcceptsOrRetries
\* names (local_server::accept_cbk).
THEOREM LoopGoesOn == ServerSpec => []AcceptsOrRetries
<1>1. ServerInv => AcceptsOrRetries
  BY DEF ServerInv
<1> QED  BY <1>1, ServerInvariant, PTL

-----------------------------------------------------------------------------
(* Proofs about RoutingClient for any number of io threads, identifiers,   *)
(* faults and restarts.                                                    *)

\* A restart is requested only while the debounce timer runs and nothing is registered.
AfterDebounce == m.after => m.debouncing /\ m.st = "DEREGISTERED"

\* The state machine shall run from start() until the critical section of stop(), and leaves
\* DEREGISTERED only meanwhile.
RunsWhile ==
    /\ m.shall => user \in {"running", "stop_main"}
    /\ user \in {"running", "stop_main"} => m.shall
    /\ m.st # "DEREGISTERED" => m.shall

\* No flush is under way while the client shall run.
NoFlush ==
    m.shall => /\ posted = None
               /\ \A t \in Threads : job[t].at # "flushed"
               /\ m.sender # None => ~m.sender.flushing

\* Triggers are set one after the other, and each only until its hook completes.
StopProgress ==
    /\ trig \cap done = {}
    /\ user \in {"running", "stop_main"} => trig = {} /\ done = {}
    /\ user = "flush_provider" => trig \cup done \subseteq {"sender"}
    /\ user = "flush_consumer" => "consumer" \notin trig \cup done
    /\ user = "off" => trig = {}

\* When stop() need not wait for the sender any more there is none.
SenderGone ==
    /\ ~m.shall /\ "sender" \in done => m.sender = None
    /\ user = "off" => m.sender = None /\ host.st = "DEREGISTERED"

IInv ==
    /\ TypeOK /\ AfterDebounce /\ RunsWhile /\ NoFlush
    /\ StopProgress /\ SenderGone /\ NeverStranded

\* restart_sender() called in DEREGISTERED: a client that shall run gets a sender, or a request to
\* start after the debounce time, unless none can be created; one that shall not run gets none.
LEMMA RestartSenderResult ==
    ASSUME NEW s \in Clients, NEW ok \in BOOLEAN, s.st = "DEREGISTERED"
    PROVE  LET r == RestartSender(s, ok)
           IN  /\ r \in Clients /\ r.shall = s.shall /\ r.recv = s.recv
               /\ r.after => r.debouncing /\ r.st = "DEREGISTERED"
               /\ s.shall => r.sender # None \/ (r.debouncing /\ r.after) \/ r.missing
               /\ ~s.shall => r.sender = None /\ r.st = "DEREGISTERED"
               /\ r.sender # None => ~r.sender.flushing
<1> DEFINE r == RestartSender(s, ok)
<1>0. NewSender \in Senders /\ ~NewSender.flushing
  BY DEF NewSender, Senders
<1>1. NewSender \in Senders /\ NewSender # None /\ ~NewSender.flushing
  BY <1>0, ClientAssumption
<1>2. CASE s.debouncing
  BY Zenon, <1>2 DEF RestartSender, Clients
<1>3. CASE ~s.debouncing /\ ~s.shall
  BY Zenon, <1>3 DEF RestartSender, StartRegistration, Clients
<1>4. CASE ~s.debouncing /\ s.shall /\ ok
  <2>1. r = [s EXCEPT !.sender = NewSender, !.after = FALSE, !.st = "REGISTERING",
                      !.debouncing = TRUE, !.missing = FALSE]
    BY Zenon, <1>4 DEF RestartSender, StartRegistration, Clients
  <2> QED BY ZenonT(60), <1>1, <1>4, <2>1 DEF Clients, States
<1>5. CASE ~s.debouncing /\ s.shall /\ ~ok
  <2>1. r = [s EXCEPT !.sender = None, !.after = FALSE, !.st = "REGISTERING", !.missing = TRUE]
    BY <1>5 DEF RestartSender, StartRegistration, Clients
  <2> QED BY ZenonT(60), <1>5, <2>1 DEF Clients, States
<1> QED BY <1>2, <1>3, <1>4, <1>5

\* deregistered() keeps everything but the state and the identifier.
LEMMA DeregisteredResult ==
    ASSUME NEW s \in Clients
    PROVE  /\ Deregistered(s) \in Clients /\ Deregistered(s).st = "DEREGISTERED"
           /\ Deregistered(s).shall = s.shall /\ Deregistered(s).recv = s.recv
           /\ Deregistered(s).sender = s.sender /\ Deregistered(s).missing = s.missing
           /\ Deregistered(s).debouncing = s.debouncing /\ Deregistered(s).after = s.after
BY Zenon DEF Deregistered, Clients, States

\* Initially the client is stopped and nothing is under way.
LEMMA InitIInv == Init => IInv
BY ClientAssumption DEF Init, IInv, TypeOK, AfterDebounce, RunsWhile, NoFlush, StopProgress,
     SenderGone, NeverStranded, Clients, States, Receivers, Protocols, Jobs, Idle, Phases, Parts, Posts

\* start() of a stopped client: its server is created and its sender restarted.
LEMMA ClientStartStep ==
    ASSUME IInv, NEW ok \in BOOLEAN, NEW server \in BOOLEAN, Start(ok, server)
    PROVE  IInv'
<1> DEFINE recv == IF "tcp" \in mode THEN Created(m.recv, "tcp", server) ELSE m.recv
           s == [m EXCEPT !.shall = TRUE, !.recv = recv]
<1>1. m' = RestartSender(s, ok)
  BY DEF Start
<1>2. m \in Clients /\ m.st = "DEREGISTERED"
  BY DEF IInv, TypeOK, RunsWhile, Start
<1>3. recv \in [Protocols -> Receivers]
  BY <1>2 DEF Created, Clients, Protocols, Receivers
<1>4. s \in Clients /\ s.st = "DEREGISTERED" /\ s.shall
  BY Zenon, <1>2, <1>3 DEF Clients
<1> HIDE DEF s, recv
<1>5. /\ m' \in Clients /\ m'.shall
      /\ m'.after => m'.debouncing /\ m'.st = "DEREGISTERED"
      /\ m'.sender # None \/ (m'.debouncing /\ m'.after) \/ m'.missing
      /\ m'.sender # None => ~m'.sender.flushing
  BY <1>1, <1>4, RestartSenderResult
<1> USE ClientAssumption
<1> USE DEF IInv, TypeOK, AfterDebounce, RunsWhile, NoFlush, StopProgress, SenderGone, NeverStranded,
            WillReconnect, MayFail, Fire, Enter, Leave, Reconnecting, GoTo, Idle
<1> QED BY <1>5 DEF Start, Phases, Parts, Posts

\* stop() begins: the receivers get a new token.
LEMMA ClientStopStep ==
    ASSUME IInv, Stop
    PROVE  IInv'
<1> USE ClientAssumption
<1> USE DEF IInv, TypeOK, AfterDebounce, RunsWhile, NoFlush, StopProgress, SenderGone, NeverStranded,
            WillReconnect, MayFail, Fire, Enter, Leave, Reconnecting, GoTo, Idle
<1>1. Bumped(m.recv) \in [Protocols -> Receivers]
  BY DEF Bumped, Clients, Receivers
<1> QED BY <1>1 DEF Stop, Clients, Phases

\* The critical section of stop() deregisters and flushes the sender, if there is one.
LEMMA ClientStopMainStep ==
    ASSUME IInv, StopMain
    PROVE  IInv'
<1> USE ClientAssumption
<1> USE DEF IInv, TypeOK, AfterDebounce, RunsWhile, NoFlush, StopProgress, SenderGone, NeverStranded,
            WillReconnect, MayFail, Fire, Enter, Leave, Reconnecting, GoTo, Idle
<1>1. /\ m' \in Clients /\ ~m'.shall /\ m'.st = "DEREGISTERED"
      /\ m'.after = m.after /\ m'.debouncing = m.debouncing
      /\ m.sender = None => m'.sender = None
  <2> DEFINE off == [Deregistered(m) EXCEPT !.shall = FALSE, !.recv = [p \in Protocols |-> "none"]]
  <2>1. /\ off \in Clients /\ ~off.shall /\ off.st = "DEREGISTERED" /\ off.sender = m.sender
        /\ off.after = m.after /\ off.debouncing = m.debouncing
    BY Zenon DEF Deregistered, Clients, States, Receivers
  <2>2. CASE m.sender = None
    <3>1. m' = off
      BY <2>2 DEF StopMain
    <3> QED BY <2>1, <2>2, <3>1
  <2>3. CASE m.sender # None
    <3>1. Flushing(m.sender) \in Senders
      BY Zenon, <2>3 DEF Clients, Senders, Flushing
    <3>2. m' = [off EXCEPT !.sender = Flushing(m.sender)]
      BY Zenon, <2>1, <2>3 DEF StopMain
    <3> HIDE DEF off
    <3> QED BY <2>1, <2>3, <3>1, <3>2 DEF Clients
  <2> QED BY <2>2, <2>3
<1> QED BY <1>1 DEF StopMain, Phases, Parts, Posts

\* stop() flushes the connections of the provider.
LEMMA ClientFlushProviderStep ==
    ASSUME IInv, NEW idle \in BOOLEAN, Flush("flush_provider", "provider", idle, "flush_consumer")
    PROVE  IInv'
<1> USE ClientAssumption
<1> USE DEF IInv, TypeOK, AfterDebounce, RunsWhile, NoFlush, StopProgress, SenderGone, NeverStranded,
            WillReconnect, MayFail, Fire, Enter, Leave, Reconnecting, GoTo, Idle
<1> QED BY DEF Flush, Clients, Senders, States, Jobs, Phases, Parts, Posts

\* stop() flushes the connections of the consumer.
LEMMA ClientFlushConsumerStep ==
    ASSUME IInv, NEW idle \in BOOLEAN, Flush("flush_consumer", "consumer", idle, "waiting")
    PROVE  IInv'
<1> USE ClientAssumption
<1> USE DEF IInv, TypeOK, AfterDebounce, RunsWhile, NoFlush, StopProgress, SenderGone, NeverStranded,
            WillReconnect, MayFail, Fire, Enter, Leave, Reconnecting, GoTo, Idle
<1> QED BY DEF Flush, Clients, Senders, States, Jobs, Phases, Parts, Posts

\* The last step of stop(), when everything is flushed.
LEMMA ClientFinishShutdownStep ==
    ASSUME IInv, FinishShutdown
    PROVE  IInv'
<1> USE ClientAssumption
<1> USE DEF IInv, TypeOK, AfterDebounce, RunsWhile, NoFlush, StopProgress, SenderGone, NeverStranded,
            WillReconnect, MayFail, Fire, Enter, Leave, Reconnecting, GoTo, Idle
<1> QED BY DEF FinishShutdown, Clients, Senders, States, Jobs, Phases, Parts, Posts

\* The shutdown timeout ends the wait for the sender.
LEMMA ClientEnforceSenderStep ==
    ASSUME IInv, EnforceSender
    PROVE  IInv'
<1> USE ClientAssumption
<1> USE DEF IInv, TypeOK, AfterDebounce, RunsWhile, NoFlush, StopProgress, SenderGone, NeverStranded,
            WillReconnect, MayFail, Fire, Enter, Leave, Reconnecting, GoTo, Idle
<1> QED BY DEF EnforceSender, Clients, Senders, States, Jobs, Phases, Parts, Posts

\* A connect fails, and is tried again.
LEMMA ClientConnectFailsStep ==
    ASSUME IInv, ConnectFails
    PROVE  IInv'
<1> USE ClientAssumption
<1> USE DEF IInv, TypeOK, AfterDebounce, RunsWhile, NoFlush, StopProgress, SenderGone, NeverStranded,
            WillReconnect, MayFail, Fire, Enter, Leave, Reconnecting, GoTo, Idle
<1> DEFINE s == [m.sender EXCEPT !.retry = TRUE]
<1>0. m.sender \in Senders
  BY DEF ConnectFails, Clients
<1>1. s \in Senders /\ (s.flushing <=> m.sender.flushing)
  BY Zenon, <1>0 DEF Senders
<1>2. m' = [m EXCEPT !.sender = s]
  BY Zenon DEF ConnectFails
<1> HIDE DEF s
<1>3. s # None
  BY <1>1
<1>4. /\ m' \in Clients /\ m'.sender = s /\ m'.st = m.st
      /\ (m'.shall <=> m.shall) /\ (m'.after <=> m.after) /\ (m'.debouncing <=> m.debouncing)
  BY <1>1, <1>2 DEF Clients
<1>5. /\ UNCHANGED <<mode, posted, user, trig, done, host, starts>>
      /\ faults' \in 0 .. MaxFaults /\ job' = job
  BY DEF ConnectFails, Jobs
<1>6. m.sender # None
  BY DEF ConnectFails
<1> QED BY Zenon, <1>1, <1>3, <1>4, <1>5, <1>6

\* The sender is flushed and posts its cleanup handler.
LEMMA ClientSenderFlushedStep ==
    ASSUME IInv, SenderFlushed
    PROVE  IInv'
<1> USE ClientAssumption
<1> USE DEF IInv, TypeOK, AfterDebounce, RunsWhile, NoFlush, StopProgress, SenderGone, NeverStranded,
            WillReconnect, MayFail, Fire, Enter, Leave, Reconnecting, GoTo, Idle
<1> QED BY Zenon DEF SenderFlushed, Clients, Senders, States, Jobs, Phases, Parts, Posts

\* The connections of the provider or the consumer are flushed.
LEMMA ClientPeersFlushedStep ==
    ASSUME IInv, NEW part \in Parts, PeersFlushed(part)
    PROVE  IInv'
<1> USE ClientAssumption
<1> USE DEF IInv, TypeOK, AfterDebounce, RunsWhile, NoFlush, StopProgress, SenderGone, NeverStranded,
            WillReconnect, MayFail, Fire, Enter, Leave, Reconnecting, GoTo, Idle
<1> QED BY DEF PeersFlushed, Clients, Senders, States, Jobs, Phases, Parts, Posts

\* The debounce time ends: a restart that was asked for meanwhile is made up for.
LEMMA ClientDebounceStep ==
    ASSUME IInv, NEW ok \in BOOLEAN, DebounceRestartSenderDone(ok)
    PROVE  IInv'
<1> DEFINE s == [m EXCEPT !.debouncing = FALSE]
<1>0. m \in Clients /\ (m.after => m.st = "DEREGISTERED")
  BY DEF IInv, TypeOK, AfterDebounce
<1>1. /\ s \in Clients /\ s.st = m.st /\ s.shall = m.shall /\ s.after = m.after
      /\ s.sender = m.sender /\ s.missing = m.missing
  BY Zenon, <1>0 DEF Clients
<1> HIDE DEF s
<1>2. CASE m.after
  <2>1. m' = RestartSender(s, ok)
    BY Zenon, <1>2 DEF DebounceRestartSenderDone, s
  <2>2. /\ m' \in Clients /\ m'.shall = m.shall
        /\ m'.after => m'.debouncing /\ m'.st = "DEREGISTERED"
        /\ m.shall => m'.sender # None \/ (m'.debouncing /\ m'.after) \/ m'.missing
        /\ ~m.shall => m'.sender = None /\ m'.st = "DEREGISTERED"
        /\ m'.sender # None => ~m'.sender.flushing
    BY <1>0, <1>1, <1>2, <2>1, RestartSenderResult
  <2> USE DEF IInv, TypeOK, AfterDebounce, RunsWhile, NoFlush, StopProgress, SenderGone, NeverStranded,
              WillReconnect, MayFail, Idle
  <2> QED BY <2>2, ClientAssumption DEF DebounceRestartSenderDone
<1>3. CASE ~m.after
  <2>1. m' = [m EXCEPT !.debouncing = FALSE]
    BY <1>3 DEF DebounceRestartSenderDone
  <2>2. /\ m' \in Clients /\ ~m'.after /\ m'.sender = m.sender /\ m'.st = m.st
        /\ (m'.shall <=> m.shall) /\ (m'.missing <=> m.missing)
    BY Zenon, <1>0, <1>3, <2>1 DEF Clients
  <2> USE DEF IInv, TypeOK, AfterDebounce, RunsWhile, NoFlush, StopProgress, SenderGone, NeverStranded,
              WillReconnect, MayFail, Idle
  <2> QED BY <1>3, <2>2, ClientAssumption DEF DebounceRestartSenderDone
<1> QED BY <1>2, <1>3

\* An io thread takes the posted cleanup handler.
LEMMA ClientRunPostedStep ==
    ASSUME IInv, NEW t \in Threads, RunPosted(t)
    PROVE  IInv'
<1> USE ClientAssumption
<1> USE DEF IInv, TypeOK, AfterDebounce, RunsWhile, NoFlush, StopProgress, SenderGone, NeverStranded,
            WillReconnect, MayFail, Fire, Enter, Leave, Reconnecting, GoTo, Idle
<1> QED BY DEF RunPosted, Clients, Senders, States, Jobs, Phases, Parts, Posts

\* The cleanup handler of the sender.
LEMMA ClientCleanupClientStep ==
    ASSUME IInv, NEW t \in Threads, CleanupClient(t)
    PROVE  IInv'
<1> USE ClientAssumption
<1> USE DEF IInv, TypeOK, AfterDebounce, RunsWhile, NoFlush, StopProgress, SenderGone, NeverStranded,
            WillReconnect, MayFail, Fire, Enter, Leave, Reconnecting, GoTo, Idle
<1> QED BY SMTT(30) DEF CleanupClient, Clients, Senders, States, Jobs, Phases, Parts, Posts

\* The acknowledge of the host sets the client identifier.
LEMMA ClientSetClientStep ==
    ASSUME IInv, NEW t \in Threads, SetClient(t)
    PROVE  IInv'
<1> USE ClientAssumption
<1> USE DEF IInv, TypeOK, AfterDebounce, RunsWhile, NoFlush, StopProgress, SenderGone, NeverStranded,
            WillReconnect, MayFail, Fire, Enter, Leave, Reconnecting, GoTo, Idle
<1> QED BY DEF SetClient, Clients, Senders, States, Jobs, Phases, Parts, Posts

\* The acknowledge of the host, under mutex_: receivers are created and the client registers.
LEMMA ClientAckLockedStep ==
    ASSUME IInv, NEW t \in Threads, NEW servers \in SUBSET mode, NEW sent \in BOOLEAN, AckLocked(t, servers, sent)
    PROVE  IInv'
<1> USE ClientAssumption
<1> USE DEF IInv, TypeOK, AfterDebounce, RunsWhile, NoFlush, StopProgress, SenderGone, NeverStranded,
            WillReconnect, MayFail, Fire, Enter, Leave, Reconnecting, GoTo, Idle
<1>1. CASE m.st # "REGISTERING"
  BY <1>1 DEF AckLocked, Clients, Jobs
<1>2. CASE m.st = "REGISTERING"
  <2> DEFINE recv == Received(m.recv, servers)
  <2>1. recv \in [Protocols -> Receivers]
    BY DEF Received, Clients, Receivers
  <2>2. job[t].id \in Ids \cup {Unset} /\ job[t].at = "ack_locked"
    BY DEF AckLocked, Jobs
  <2>10. \/ m' = [m EXCEPT !.recv = recv, !.st = "REGISTERED", !.client = job[t].id]
        \/ m' = [m EXCEPT !.recv = recv]
    BY <1>2 DEF AckLocked
  <2> HIDE DEF recv
  <2>3. /\ m' \in Clients /\ m'.sender = m.sender /\ m'.st \in {m.st, "REGISTERED"}
        /\ (m'.shall <=> m.shall) /\ (m'.missing <=> m.missing)
        /\ (m'.debouncing <=> m.debouncing) /\ (m'.after <=> m.after)
    <3>1. CASE m' = [m EXCEPT !.recv = recv]
      BY <2>1, <3>1 DEF Clients
    <3>2. CASE m' = [m EXCEPT !.recv = recv, !.st = "REGISTERED", !.client = job[t].id]
      BY Zenon, <2>1, <2>2, <3>2 DEF Clients, States
    <3> QED BY <2>10, <3>1, <3>2
  <2>4. /\ job' \in [Threads -> Jobs] /\ job'[t].at \in {"idle", "token"}
        /\ \A u \in Threads \ {t} : job'[u] = job[u]
    BY <1>2 DEF AckLocked, Jobs
  <2>5. host' \in [client : Ids \cup {Unset}, st : States]
    BY <1>2 DEF AckLocked, States
  <2>6. faults' \in 0 .. MaxFaults
    BY <1>2 DEF AckLocked
  <2>7. UNCHANGED <<mode, posted, user, trig, done, starts>>
    BY Zenon DEF AckLocked
  <2>8. TypeOK' /\ AfterDebounce' /\ RunsWhile' /\ NoFlush' /\ StopProgress' /\ SenderGone'
    BY Zenon, <1>2, <2>3, <2>4, <2>5, <2>6, <2>7
  <2>9. NeverStranded'
    BY Zenon, <2>2, <2>3, <2>4
  <2> QED BY Zenon, <2>8, <2>9
<1> QED BY Zenon, <1>1, <1>2

\* reconnect() gives the receivers a new token.
LEMMA ClientReconnectTokenStep ==
    ASSUME IInv, NEW t \in Threads, ReconnectToken(t)
    PROVE  IInv'
<1> USE ClientAssumption
<1> USE DEF IInv, TypeOK, AfterDebounce, RunsWhile, NoFlush, StopProgress, SenderGone, NeverStranded,
            WillReconnect, MayFail, Fire, Enter, Leave, Reconnecting, GoTo, Idle
<1>1. /\ m'.recv \in [Protocols -> Receivers] /\ m' = [m EXCEPT !.recv = m'.recv]
  BY DEF ReconnectToken, Bumped, Clients, Receivers, Protocols
<1>2. /\ m' \in Clients /\ m'.shall = m.shall /\ m'.sender = m.sender /\ m'.st = m.st
      /\ m'.debouncing = m.debouncing /\ m'.after = m.after /\ m'.missing = m.missing
  BY <1>1 DEF Clients
<1>3. job' \in [Threads -> Jobs] /\ job'[t].at = "receivers" /\ \A u \in Threads \ {t} : job'[u] = job[u]
  BY DEF ReconnectToken, Jobs
<1> QED BY <1>2, <1>3 DEF ReconnectToken

\* reconnect() restarts the receivers.
LEMMA ClientReconnectReceiversStep ==
    ASSUME IInv, NEW t \in Threads, NEW ok \in BOOLEAN, ReconnectReceivers(t, ok)
    PROVE  IInv'
<1> USE ClientAssumption
<1> USE DEF IInv, TypeOK, AfterDebounce, RunsWhile, NoFlush, StopProgress, SenderGone, NeverStranded,
            WillReconnect, MayFail, Fire, Enter, Leave, Reconnecting, GoTo, Idle
<1>1. /\ m'.recv \in [Protocols -> Receivers] /\ m' = [m EXCEPT !.recv = m'.recv]
  BY DEF ReconnectReceivers, Clients, Receivers, Protocols
<1>2. /\ m' \in Clients /\ m'.shall = m.shall /\ m'.sender = m.sender /\ m'.st = m.st
      /\ m'.debouncing = m.debouncing /\ m'.after = m.after /\ m'.missing = m.missing
  BY <1>1 DEF Clients
<1>3. job' \in [Threads -> Jobs] /\ job'[t].at = "provider" /\ \A u \in Threads \ {t} : job'[u] = job[u]
  BY DEF ReconnectReceivers, Jobs
<1> QED BY <1>2, <1>3 DEF ReconnectReceivers

\* reconnect() deregisters and restarts the sender.
LEMMA ClientReconnectRestartStep ==
    ASSUME IInv, NEW t \in Threads, NEW ok \in BOOLEAN, ReconnectRestart(t, ok)
    PROVE  IInv'
<1> DEFINE s == Deregistered(m)
<1>1. m \in Clients
  BY DEF IInv, TypeOK
<1>2. s \in Clients /\ s.st = "DEREGISTERED" /\ s.shall = m.shall
  BY Zenon, <1>1, DeregisteredResult
<1>3. m' = RestartSender(s, ok)
  BY Zenon DEF ReconnectRestart
<1> HIDE DEF s
<1>4. /\ m' \in Clients /\ m'.shall = m.shall
      /\ m'.after => m'.debouncing /\ m'.st = "DEREGISTERED"
      /\ m.shall => m'.sender # None \/ (m'.debouncing /\ m'.after) \/ m'.missing
      /\ ~m.shall => m'.sender = None /\ m'.st = "DEREGISTERED"
      /\ m'.sender # None => ~m'.sender.flushing
  BY <1>2, <1>3, RestartSenderResult
<1>5. /\ UNCHANGED <<mode, posted, user, trig, done, host, starts>>
      /\ faults' \in 0 .. MaxFaults /\ job' \in [Threads -> Jobs]
      /\ \A u \in Threads : job'[u] = job[u] \/ job'[u].at = "idle"
  BY ClientAssumption DEF ReconnectRestart, IInv, TypeOK, MayFail, Leave, Idle, Jobs
<1> QED BY <1>1, <1>4, <1>5 DEF IInv, TypeOK, AfterDebounce, RunsWhile, NoFlush, StopProgress, SenderGone,
                                NeverStranded, WillReconnect

\* reconnect() cleans up the provider.
LEMMA ClientReconnectProviderStep ==
    ASSUME IInv, NEW t \in Threads, ReconnectCleanup(t, "provider", "consumer")
    PROVE  IInv'
<1> USE ClientAssumption
<1> USE DEF IInv, TypeOK, AfterDebounce, RunsWhile, NoFlush, StopProgress, SenderGone, NeverStranded,
            WillReconnect, MayFail, Fire, Enter, Leave, Reconnecting, GoTo, Idle
<1> QED BY DEF ReconnectCleanup, Clients, Senders, States, Jobs, Phases, Parts, Posts

\* reconnect() cleans up the consumer.
LEMMA ClientReconnectConsumerStep ==
    ASSUME IInv, NEW t \in Threads, ReconnectCleanup(t, "consumer", "tell")
    PROVE  IInv'
<1> USE ClientAssumption
<1> USE DEF IInv, TypeOK, AfterDebounce, RunsWhile, NoFlush, StopProgress, SenderGone, NeverStranded,
            WillReconnect, MayFail, Fire, Enter, Leave, Reconnecting, GoTo, Idle
<1> QED BY DEF ReconnectCleanup, Clients, Senders, States, Jobs, Phases, Parts, Posts

\* reconnect() tells the application.
LEMMA ClientReconnectTellStep ==
    ASSUME IInv, NEW t \in Threads, ReconnectTell(t)
    PROVE  IInv'
<1> USE ClientAssumption
<1> USE DEF IInv, TypeOK, AfterDebounce, RunsWhile, NoFlush, StopProgress, SenderGone, NeverStranded,
            WillReconnect, MayFail, Fire, Enter, Leave, Reconnecting, GoTo, Idle
<1> QED BY DEF ReconnectTell, Clients, Senders, States, Jobs, Phases, Parts, Posts

\* The connection to the host fails.
LEMMA ClientSenderFailsStep ==
    ASSUME IInv, NEW t \in Threads, SenderFails(t)
    PROVE  IInv'
<1> DEFINE s == [m.sender EXCEPT !.armed = FALSE]
<1>1. m' = [m EXCEPT !.sender = s]
  BY Zenon DEF SenderFails
<1>2. m.sender # None
  BY Zenon DEF SenderFails
<1> USE ClientAssumption
<1> USE DEF IInv, TypeOK, AfterDebounce, RunsWhile, NoFlush, StopProgress, SenderGone, NeverStranded,
            WillReconnect, MayFail, Fire, Enter, Leave, Reconnecting, GoTo, Idle
<1>3. m.sender \in Senders
  BY DEF SenderFails, Clients
<1>4. s \in Senders /\ (s.flushing <=> m.sender.flushing)
  BY Zenon, <1>3 DEF Senders
<1> HIDE DEF s
<1>5. s # None
  BY Zenon, <1>4
<1>6. /\ m' \in Clients /\ m'.sender = s /\ m'.st = m.st
      /\ (m'.shall <=> m.shall) /\ (m'.after <=> m.after) /\ (m'.debouncing <=> m.debouncing)
  BY <1>4, <1>1 DEF Clients
<1>7. /\ UNCHANGED <<mode, posted, user, trig, done, host, starts>>
      /\ faults' \in 0 .. MaxFaults /\ job' \in [Threads -> Jobs]
      /\ \A u \in Threads : job'[u] = job[u] \/ (job[u].at = "idle" /\ job'[u].at # "flushed")
  BY DEF SenderFails, Jobs
<1> QED BY Zenon, <1>4, <1>5, <1>6, <1>7, <1>2

\* The acknowledge of the host arrives.
LEMMA ClientAckArrivesStep ==
    ASSUME IInv, NEW t \in Threads, NEW id \in Ids \cup {Unset}, AckArrives(t, id)
    PROVE  IInv'
<1> DEFINE s == [m.sender EXCEPT !.ack = id, !.retry = FALSE]
<1>1. m' = [m EXCEPT !.sender = s]
  BY Zenon DEF AckArrives
<1>2. m.sender # None
  BY Zenon DEF AckArrives
<1> USE ClientAssumption
<1> USE DEF IInv, TypeOK, AfterDebounce, RunsWhile, NoFlush, StopProgress, SenderGone, NeverStranded,
            WillReconnect, MayFail, Fire, Enter, Leave, Reconnecting, GoTo, Idle
<1>3. m.sender \in Senders
  BY DEF AckArrives, Clients
<1>4. s \in Senders /\ (s.flushing <=> m.sender.flushing)
  BY Zenon, <1>3 DEF Senders
<1> HIDE DEF s
<1>5. s # None
  BY Zenon, <1>4
<1>6. /\ m' \in Clients /\ m'.sender = s /\ m'.st = m.st
      /\ (m'.shall <=> m.shall) /\ (m'.after <=> m.after) /\ (m'.debouncing <=> m.debouncing)
  BY <1>4, <1>1 DEF Clients
<1>7. /\ UNCHANGED <<mode, posted, user, trig, done, host, starts>>
      /\ faults' \in 0 .. MaxFaults /\ job' \in [Threads -> Jobs]
      /\ \A u \in Threads : job'[u] = job[u] \/ (job[u].at = "idle" /\ job'[u].at # "flushed")
  BY DEF AckArrives, Jobs
<1> QED BY Zenon, <1>4, <1>5, <1>6, <1>7, <1>2

\* The host refuses the client.
LEMMA ClientAckRefusedStep ==
    ASSUME IInv, NEW t \in Threads, NEW ok \in BOOLEAN, AckRefused(t, ok)
    PROVE  IInv'
<1> DEFINE s == Deregistered(m)
<1>1. m \in Clients
  BY DEF IInv, TypeOK
<1>2. s \in Clients /\ s.st = "DEREGISTERED" /\ s.shall = m.shall
  BY Zenon, <1>1, DeregisteredResult
<1>3. m' = RestartSender(s, ok)
  BY Zenon DEF AckRefused
<1> HIDE DEF s
<1>4. /\ m' \in Clients /\ m'.shall = m.shall
      /\ m'.after => m'.debouncing /\ m'.st = "DEREGISTERED"
      /\ m.shall => m'.sender # None \/ (m'.debouncing /\ m'.after) \/ m'.missing
      /\ ~m.shall => m'.sender = None /\ m'.st = "DEREGISTERED"
      /\ m'.sender # None => ~m'.sender.flushing
  BY <1>2, <1>3, RestartSenderResult
<1>5. /\ UNCHANGED <<mode, posted, user, trig, done, host, starts>>
      /\ faults' \in 0 .. MaxFaults /\ job' \in [Threads -> Jobs]
      /\ \A u \in Threads : job'[u] = job[u] \/ job'[u].at = "idle"
  BY ClientAssumption DEF AckRefused, IInv, TypeOK, MayFail, Leave, Idle, Jobs
<1> QED BY <1>1, <1>4, <1>5 DEF IInv, TypeOK, AfterDebounce, RunsWhile, NoFlush, StopProgress, SenderGone,
                                NeverStranded, WillReconnect

\* Every step preserves the inductive invariant.
LEMMA NextIInv == IInv /\ [Next]_vars => IInv'
<1> SUFFICES ASSUME IInv, [Next]_vars PROVE IInv'
  OBVIOUS
<1>1. CASE StopSteps
  BY <1>1, ClientStopMainStep, ClientFlushProviderStep, ClientFlushConsumerStep, ClientFinishShutdownStep
     DEF StopSteps
<1>2. ASSUME NEW t \in Threads, Handlers(t) PROVE IInv'
  <2>1. CASE Reconnect(t)
    BY <2>1, ClientReconnectTokenStep, ClientReconnectReceiversStep, ClientReconnectRestartStep,
       ClientReconnectProviderStep, ClientReconnectConsumerStep, ClientReconnectTellStep DEF Reconnect
  <2> QED BY <1>2, <2>1, ClientRunPostedStep, ClientCleanupClientStep, ClientSetClientStep,
             ClientAckLockedStep DEF Handlers
<1>3. ASSUME NEW t \in Threads,
             \/ SenderFails(t)
             \/ \E id \in Ids \cup {Unset} : AckArrives(t, id)
             \/ \E ok \in BOOLEAN : AckRefused(t, ok)
      PROVE  IInv'
  BY <1>3, ClientSenderFailsStep, ClientAckArrivesStep, ClientAckRefusedStep
<1>4. CASE UNCHANGED vars
  BY <1>4 DEF vars, IInv, TypeOK, AfterDebounce, RunsWhile, NoFlush, StopProgress, SenderGone,
              NeverStranded, WillReconnect, Reconnecting
<1> QED
  BY <1>1, <1>2, <1>3, <1>4, ClientStartStep, ClientStopStep, ClientEnforceSenderStep,
     ClientConnectFailsStep, ClientSenderFlushedStep, ClientPeersFlushedStep, ClientDebounceStep DEF Next

\* The registration stays well typed: identifiers, states and receivers never leave their domains.
THEOREM ClientTypeOK == Spec => []TypeOK
<1>1. IInv => TypeOK
  BY DEF IInv
<1> QED BY InitIInv, NextIInv, <1>1, PTL DEF Spec

\* However many io threads run cleanup handlers, acknowledges and reconnect() at the same time, a client
\* that shall run keeps a connection to the host or something that will make one.
THEOREM ClientNeverStranded == Spec => []NeverStranded
<1>1. IInv => NeverStranded
  BY DEF IInv
<1> QED BY InitIInv, NextIInv, <1>1, PTL DEF Spec

\* Between finish_shutdown() and the next start() there is no connection to the host, no trigger of
\* stop() is left, and the application knows that it is not registered.
THEOREM ClientStoppedIsQuiet == Spec => []StoppedIsQuiet
<1>1. IInv => StoppedIsQuiet
  BY DEF IInv, RunsWhile, StopProgress, SenderGone, StoppedIsQuiet
<1> QED BY InitIInv, NextIInv, <1>1, PTL DEF Spec
=============================================================================
