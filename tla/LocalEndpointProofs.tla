------------------------- MODULE LocalEndpointProofs -------------------------
(***************************************************************************)
(* Proofs about LocalEndpoint, for every limit of the queue, the retries,  *)
(* the reconnects and the sizes of messages.  `Good' is the inductive      *)
(* invariant: it speaks of the record of the endpoint, of the number of    *)
(* process() runs under way, of what the peer has received and of what     *)
(* send() has accepted.  Each part of local_endpoint.cpp that runs under   *)
(* the mutex preserves it, and each action is one of these parts.          *)
(***************************************************************************)
EXTENDS LocalEndpoint, SequenceTheorems, TLAPS

Bytes == Seq(Nat)
Calls == {"error", "flushed"}
Ops == {"pending", "ok", "err", "abort"}
WriteType == [buf : Bytes, op : Ops]
TimerStates == {"off", "on", "task", "task_on"}
Early == {"INIT", "CONNECTING"}
Ended == {"FAILED", "STOPPED"}

EpType ==
    [kind : Kinds, state : States, started : BOOLEAN, sending : BOOLEAN, flushing : BOOLEAN,
     assigned : BOOLEAN, reconnects : 0..(MaxReconnects + 1), queue : Bytes,
     handler : BOOLEAN, calls : Seq(Calls), handled : Nat,
     timer : [Timers -> TimerStates], posted : SUBSET {"start", "error"},
     sock : {"closed", "open", "connected"}, connects : [Attempts -> OpStates],
     writes : Seq(WriteType), reads : Seq(Ops)]

\* The handler is there until its one call, and a failed endpoint has called it.
Cleanup(e) ==
    /\ e.handler <=> e.calls = <<>>
    /\ Len(e.calls) <= 1
    /\ e.state = "FAILED" => ~e.handler
    /\ e.handled <= Len(e.calls)

\* A write is outstanding only while is_sending_ is set, which it is not before
\* the connection exists; only an ended endpoint has aborted a write.
Writing(e) ==
    /\ Len(e.writes) <= 1
    /\ e.writes # <<>> => e.sending
    /\ e.state \in Early => ~e.sending
    /\ e.writes # <<>> /\ e.writes[1].op = "abort" => e.state \in Ended
    /\ Len(e.queue) <= QueueLimit

\* With d runs of process() under way: one reader, be it the socket, process() or
\* the handler start() posted; none before there is a connection and a start.
Reading(e, d) ==
    /\ Len(e.reads) + d <= 1
    /\ "start" \in e.posted => Len(e.reads) + d = 0
    /\ e.state \in Early \/ ~e.started => Len(e.reads) + d = 0 /\ "start" \notin e.posted

\* Nothing happens to an endpoint that is not started, except that it is given
\* messages and is stopped.
Unstarted(e) ==
    ~e.started =>
        /\ \A t \in Timers : e.timer[t] = "off"
        /\ \A a \in Attempts : e.connects[a] = "none"
        /\ e.posted = {} /\ ~e.sending /\ ~e.flushing /\ e.state # "CONNECTING"

\* An endpoint on the way to its connection has an attempt left.
Attempting(e) == e.state \in Early => e.reconnects <= MaxReconnects

\* Where the bytes send() has accepted are.
Delivery(e, w, acc) ==
    /\ IsPrefixOf(w \o InFlight(e), acc)
    /\ e.state \notin Ended /\ ~WriteFailed(e) => w \o InFlight(e) \o e.queue = acc
    /\ e.calls = <<"flushed">> => w = acc /\ e.flushing /\ e.writes = <<>> /\ e.queue = <<>>

Good(e, d, w, acc) ==
    /\ e \in EpType /\ d \in Nat /\ w \in Bytes /\ acc \in Bytes
    /\ Cleanup(e) /\ Writing(e) /\ Reading(e, d)
    /\ Unstarted(e) /\ Attempting(e) /\ Delivery(e, w, acc)

DrainType == [msgs : Seq({"data", "ack"}), rest : {"clean", "partial", "bad"}, initial : BOOLEAN]

\* The inductive invariant.
IInv ==
    /\ Good(ep, Len(drain), wire, accepted)
    /\ drain \in Seq(DrainType)
    /\ stopping \in [Stoppers -> {NotStopping} \cup 0..MaxRetries]

-----------------------------------------------------------------------------
(* What the parts of the endpoint change *)

\* r is e except for its timers.
ButTimers(r, e) ==
    /\ r.kind = e.kind /\ r.state = e.state /\ r.started = e.started
    /\ r.sending = e.sending /\ r.flushing = e.flushing /\ r.assigned = e.assigned
    /\ r.reconnects = e.reconnects /\ r.queue = e.queue /\ r.handler = e.handler
    /\ r.calls = e.calls /\ r.handled = e.handled /\ r.posted = e.posted
    /\ r.sock = e.sock /\ r.connects = e.connects /\ r.writes = e.writes
    /\ r.reads = e.reads

\* What the writes, the queue and the end of an endpoint say is decided by these
\* fields: whatever leaves them alone, and revives nothing, keeps Delivery.
LEMMA DeliveryKept ==
    ASSUME NEW e, NEW r, NEW w, NEW acc, Delivery(e, w, acc),
           r.writes = e.writes, r.queue = e.queue, e.flushing => r.flushing,
           r.state \notin Ended => e.state \notin Ended,
           r.calls = <<"flushed">> => e.calls = <<"flushed">>
    PROVE  Delivery(r, w, acc)
BY Zenon DEF Delivery, InFlight, WriteFailed

\* timer::start changes the timer, nothing else, and keeps the invariant of a
\* started endpoint.
LEMMA TimerStartGood ==
    ASSUME NEW e, NEW d, NEW w, NEW acc, NEW t \in Timers,
           Good(e, d, w, acc), e.started
    PROVE  /\ Good(TimerStart(e, t), d, w, acc)
           /\ ButTimers(TimerStart(e, t), e)
<1> DEFINE r == TimerStart(e, t)
<1>1. e \in EpType
  BY DEF Good
<1>2. ButTimers(r, e)
  BY Zenon, <1>1 DEF TimerStart, ButTimers, EpType
<1>3. r \in EpType
  BY Zenon, <1>1 DEF TimerStart, EpType, TimerStates
<1>4. Cleanup(r) /\ Writing(r) /\ Reading(r, d) /\ Attempting(r) /\ Unstarted(r)
  BY <1>2 DEF ButTimers, Good, Cleanup, Writing, Reading, Attempting, Unstarted
<1>5. Delivery(r, w, acc)
  BY <1>2, DeliveryKept DEF ButTimers, Good
<1> QED
  BY <1>2, <1>3, <1>4, <1>5 DEF Good

\* timer::stop changes the timer and nothing else.
LEMMA TimerStopGood ==
    ASSUME NEW e, NEW d, NEW w, NEW acc, NEW t \in Timers, Good(e, d, w, acc)
    PROVE  /\ Good(TimerStop(e, t), d, w, acc)
           /\ ButTimers(TimerStop(e, t), e)
<1> DEFINE r == TimerStop(e, t)
<1>1. e \in EpType
  BY DEF Good
<1>2. ButTimers(r, e)
  BY <1>1 DEF TimerStop, ButTimers, EpType
<1>3. r \in EpType
  BY Zenon, <1>1 DEF TimerStop, EpType, TimerStates
<1>4. Cleanup(r) /\ Writing(r) /\ Reading(r, d) /\ Attempting(r)
  BY <1>2 DEF ButTimers, Good, Cleanup, Writing, Reading, Attempting
<1>5. Unstarted(r)
  <2>1. \A u \in Timers : e.timer[u] = "off" => r.timer[u] = "off"
    BY <1>1 DEF TimerStop, EpType
  <2> QED
    BY <1>2, <2>1 DEF ButTimers, Good, Unstarted
<1>6. Delivery(r, w, acc)
  BY <1>2, DeliveryKept DEF ButTimers, Good
<1> QED
  BY <1>2, <1>3, <1>4, <1>5, <1>6 DEF Good

\* The end of a timer's task changes the timer and nothing else.
LEMMA TimerDoneGood ==
    ASSUME NEW e, NEW d, NEW w, NEW acc, NEW t \in Timers, Good(e, d, w, acc)
    PROVE  /\ Good(TimerDone(e, t), d, w, acc)
           /\ ButTimers(TimerDone(e, t), e)
<1> DEFINE r == TimerDone(e, t)
<1>1. e \in EpType
  BY DEF Good
<1>2. ButTimers(r, e)
  BY <1>1 DEF TimerDone, ButTimers, EpType
<1>3. r \in EpType
  BY Zenon, <1>1 DEF TimerDone, EpType, TimerStates
<1>4. Cleanup(r) /\ Writing(r) /\ Reading(r, d) /\ Attempting(r)
  BY <1>2 DEF ButTimers, Good, Cleanup, Writing, Reading, Attempting
<1>5. Unstarted(r)
  <2>1. \A u \in Timers : e.timer[u] = "off" => r.timer[u] = "off"
    BY <1>1 DEF TimerDone, EpType
  <2> QED
    BY <1>2, <2>1 DEF ButTimers, Good, Unstarted
<1>6. Delivery(r, w, acc)
  BY <1>2, DeliveryKept DEF ButTimers, Good
<1> QED
  BY <1>2, <1>3, <1>4, <1>5, <1>6 DEF Good

\* What an end may become: no part of the endpoint leaves STOPPED, and FAILED
\* only becomes STOPPED.
Ends(e, r) ==
    /\ e.state = "STOPPED" => r.state = "STOPPED"
    /\ e.state = "FAILED" => r.state \in Ended

\* escalate_internal() ends the endpoint, with the one call of the handler.
LEMMA EscalateGood ==
    ASSUME NEW e, NEW d, NEW w, NEW acc, Good(e, d, w, acc)
    PROVE  /\ Good(Escalate(e), d, w, acc)
           /\ Ends(e, Escalate(e))
<1> DEFINE r == Escalate(e)
<1>1. CASE e.state \in Ended
  BY <1>1 DEF Escalate, Ends, Ended
<1>2. CASE e.state \notin Ended
  <2>1. e \in EpType
    BY DEF Good
  <2>2. /\ r.state = "FAILED" /\ ~r.handler
        /\ r.calls = IF e.handler THEN Append(e.calls, "error") ELSE e.calls
        /\ r.started = e.started /\ r.sending = e.sending /\ r.flushing = e.flushing
        /\ r.reconnects = e.reconnects /\ r.queue = e.queue /\ r.handled = e.handled
        /\ r.timer = e.timer /\ r.posted = e.posted /\ r.connects = e.connects
        /\ r.writes = e.writes /\ r.reads = e.reads
    BY <1>2, <2>1 DEF Escalate, Ended, EpType
  <2>3. /\ r.calls \in Seq(Calls) /\ r.calls # <<>>
        /\ Len(r.calls) <= 1 /\ e.handled <= Len(r.calls)
        /\ r.calls = <<"flushed">> => e.calls = <<"flushed">>
    <3>1. CASE e.handler
      <4>1. e.calls = <<>> /\ e.handled = 0
        BY <2>1, <3>1 DEF Good, Cleanup, EpType
      <4>2. r.calls = <<"error">>
        <5> HIDE DEF r
        <5> QED
          BY <2>2, <3>1, <4>1
      <4> QED
        <5> HIDE DEF r
        <5> QED
          BY <4>1, <4>2 DEF Calls
    <3>2. CASE ~e.handler
      BY <2>1, <2>2, <3>2 DEF Good, Cleanup, EpType
    <3> QED
      BY <3>1, <3>2
  <2>4. r \in EpType
    <3>1. r = [e EXCEPT !.state = "FAILED", !.handler = FALSE, !.calls = r.calls]
      BY <1>2, <2>1 DEF Escalate, Ended, EpType
    <3> HIDE DEF r
    <3> QED
      BY <2>1, <2>3, <3>1, Zenon DEF EpType, States
  <2> HIDE DEF r
  <2>5. Cleanup(r) /\ Writing(r) /\ Reading(r, d) /\ Attempting(r) /\ Unstarted(r)
    BY <1>2, <2>2, <2>3 DEF Good, Cleanup, Writing, Reading, Attempting, Unstarted, Ended, Early
  <2>6. Delivery(r, w, acc)
    BY <2>2, <2>3, DeliveryKept DEF Good, Ended
  <2>7. Ends(e, r)
    BY <1>2, <2>2 DEF Ends, Ended
  <2> QED
    BY <2>4, <2>5, <2>6, <2>7 DEF Good, r
<1> QED
  BY <1>1, <1>2

\* local_socket::stop: the fields it leaves alone, and what it aborts.
LEMMA CloseFacts ==
    ASSUME NEW e \in EpType
    PROVE  /\ CloseSocket(e) \in EpType
           /\ CloseSocket(e).state = e.state /\ CloseSocket(e).started = e.started
           /\ CloseSocket(e).sending = e.sending /\ CloseSocket(e).flushing = e.flushing
           /\ CloseSocket(e).reconnects = e.reconnects /\ CloseSocket(e).queue = e.queue
           /\ CloseSocket(e).handler = e.handler /\ CloseSocket(e).calls = e.calls
           /\ CloseSocket(e).handled = e.handled /\ CloseSocket(e).timer = e.timer
           /\ CloseSocket(e).posted = e.posted
           /\ \A a \in Attempts : CloseSocket(e).connects[a] = Aborted(e.connects[a])
           /\ Len(CloseSocket(e).reads) = Len(e.reads)
           /\ Len(CloseSocket(e).writes) = Len(e.writes)
           /\ (CloseSocket(e).writes = <<>>) <=> (e.writes = <<>>)
           /\ e.writes # <<>> => CloseSocket(e).writes[1].op = Aborted(e.writes[1].op)
<1> DEFINE c == [a \in Attempts |-> Aborted(e.connects[a])]
           ws == [i \in 1..Len(e.writes) |-> [buf |-> e.writes[i].buf, op |-> Aborted(e.writes[i].op)]]
           rs == [i \in 1..Len(e.reads) |-> Aborted(e.reads[i])]
           r == CloseSocket(e)
<1>1. /\ e.connects \in [Attempts -> OpStates] /\ e.writes \in Seq(WriteType)
      /\ e.reads \in Seq(Ops)
  BY DEF EpType
<1>2. c \in [Attempts -> OpStates]
  BY <1>1 DEF Aborted, OpStates
<1>3. rs \in Seq(Ops) /\ Len(rs) = Len(e.reads)
  <2>1. \A i \in 1..Len(e.reads) : Aborted(e.reads[i]) \in Ops
    BY <1>1, ElementOfSeq DEF Aborted, Ops
  <2> QED
    BY <1>1, <2>1
<1>4. ws \in Seq(WriteType) /\ Len(ws) = Len(e.writes)
  <2>1. \A i \in 1..Len(e.writes) : [buf |-> e.writes[i].buf, op |-> Aborted(e.writes[i].op)] \in WriteType
    BY Zenon, <1>1, ElementOfSeq DEF Aborted, WriteType, Ops
  <2> QED
    BY <1>1, <2>1
<1>5. (ws = <<>> <=> e.writes = <<>>) /\ (e.writes # <<>> => ws[1].op = Aborted(e.writes[1].op))
  BY <1>1, <1>4
<1>6. r = [e EXCEPT !.sock = "closed", !.connects = c, !.writes = ws, !.reads = rs]
  BY Zenon DEF CloseSocket
<1> HIDE DEF c, ws, rs, r
<1>7. r \in EpType
  BY <1>2, <1>3, <1>4, <1>6, Zenon DEF EpType
<1>8. /\ r.state = e.state /\ r.started = e.started
      /\ r.sending = e.sending /\ r.flushing = e.flushing
      /\ r.reconnects = e.reconnects /\ r.queue = e.queue
      /\ r.handler = e.handler /\ r.calls = e.calls
      /\ r.handled = e.handled /\ r.timer = e.timer /\ r.posted = e.posted
      /\ r.connects = c /\ r.writes = ws /\ r.reads = rs
  BY <1>6 DEF EpType
<1>9. \A a \in Attempts : r.connects[a] = Aborted(e.connects[a])
  BY <1>8 DEF c
<1> QED
  BY <1>3, <1>4, <1>5, <1>7, <1>8, <1>9 DEF r

\* A part of what is a prefix is a prefix.
LEMMA PrefixOfPart ==
    ASSUME NEW p \in Bytes, NEW q \in Bytes, NEW s \in Bytes, IsPrefixOf(p \o q, s)
    PROVE  IsPrefixOf(p, s)
<1>1. /\ Len(p \o q) = Len(p) + Len(q) /\ Len(p) \in Nat /\ Len(q) \in Nat /\ Len(s) \in Nat
      /\ \A i \in 1..Len(p) : (p \o q)[i] = p[i]
  BY ConcatProperties, LenProperties DEF Bytes
<1>2. Len(p) <= Len(s) /\ Len(p \o q) <= Len(s)
  BY <1>1 DEF IsPrefixOf
<1>3. \A i \in 1..Len(p) : s[i] = p[i]
  <2> SUFFICES ASSUME NEW i \in 1..Len(p) PROVE s[i] = p[i]
    OBVIOUS
  <2>1. \A j \in 1..Len(s) : s[j] \in Nat
    BY ElementOfSeq DEF Bytes
  <2>2. SubSeq(s, 1, Len(p \o q))[i] = s[i]
    BY <1>1, <1>2, <2>1
  <2> QED
    BY <1>1, <2>2 DEF IsPrefixOf
<1>4. SubSeq(s, 1, Len(p)) = p
  BY <1>1, <1>2, <1>3 DEF Bytes
<1> QED
  BY <1>2, <1>4 DEF IsPrefixOf

\* The bytes in flight are bytes.
LEMMA InFlightIsBytes ==
    ASSUME NEW e \in EpType
    PROVE  InFlight(e) \in Bytes
<1>1. e.writes \in Seq(WriteType)
  BY DEF EpType
<1>2. CASE e.writes # <<>>
  <2>1. e.writes[1] \in WriteType
    BY <1>1, <1>2
  <2> QED
    BY <2>1 DEF InFlight, WriteType, Bytes
<1>3. CASE e.writes = <<>>
  BY <1>3 DEF InFlight, Bytes
<1> QED
  BY <1>2, <1>3

\* Closing the socket of an endpoint that has no write outstanding keeps the
\* invariant.
LEMMA CloseGood ==
    ASSUME NEW e, NEW d, NEW w, NEW acc, Good(e, d, w, acc), e.writes = <<>>
    PROVE  Good(CloseSocket(e), d, w, acc)
<1> DEFINE r == CloseSocket(e)
<1>1. e \in EpType
  BY DEF Good
<1>2. /\ r \in EpType
      /\ r.state = e.state /\ r.started = e.started
      /\ r.sending = e.sending /\ r.flushing = e.flushing
      /\ r.reconnects = e.reconnects /\ r.queue = e.queue
      /\ r.handler = e.handler /\ r.calls = e.calls
      /\ r.handled = e.handled /\ r.timer = e.timer /\ r.posted = e.posted
      /\ \A a \in Attempts : r.connects[a] = Aborted(e.connects[a])
      /\ Len(r.reads) = Len(e.reads) /\ r.writes = <<>>
  BY <1>1, CloseFacts
<1> HIDE DEF r
<1>3. Cleanup(r) /\ Writing(r) /\ Reading(r, d) /\ Attempting(r)
  BY <1>2 DEF Good, Cleanup, Writing, Reading, Attempting
<1>4. Unstarted(r)
  BY <1>2 DEF Good, Unstarted, Aborted
<1>5. Delivery(r, w, acc)
  BY <1>2, DeliveryKept DEF Good
<1> QED
  BY <1>2, <1>3, <1>4, <1>5 DEF Good, r

\* The end of stop_internal(): the socket is closed, whatever was in flight.
LEMMA StoppedGood ==
    ASSUME NEW e, NEW d, NEW w, NEW acc, Good(e, d, w, acc)
    PROVE  /\ Good(Stopped(e), d, w, acc)
           /\ Stopped(e).state = "STOPPED"
<1> DEFINE c == CloseSocket(e)
           r == Stopped(e)
<1>1. e \in EpType
  BY DEF Good
<1>2. /\ c \in EpType
      /\ c.started = e.started /\ c.sending = e.sending /\ c.flushing = e.flushing
      /\ c.reconnects = e.reconnects /\ c.queue = e.queue
      /\ c.handler = e.handler /\ c.calls = e.calls
      /\ c.handled = e.handled /\ c.timer = e.timer /\ c.posted = e.posted
      /\ \A a \in Attempts : c.connects[a] = Aborted(e.connects[a])
      /\ Len(c.reads) = Len(e.reads) /\ Len(c.writes) = Len(e.writes)
      /\ c.writes = <<>> <=> e.writes = <<>>
      /\ e.writes # <<>> => c.writes[1].op = Aborted(e.writes[1].op)
  BY <1>1, CloseFacts
<1>3. r = [c EXCEPT !.state = "STOPPED"]
  BY DEF Stopped, SetState
<1> HIDE DEF c, r
<1>4. r \in EpType
  BY Zenon, <1>2, <1>3 DEF EpType, States
<1>5. /\ r.state = "STOPPED"
      /\ r.started = e.started /\ r.sending = e.sending /\ r.flushing = e.flushing
      /\ r.reconnects = e.reconnects /\ r.queue = e.queue
      /\ r.handler = e.handler /\ r.calls = e.calls
      /\ r.handled = e.handled /\ r.timer = e.timer /\ r.posted = e.posted
      /\ r.connects = c.connects /\ r.reads = c.reads /\ r.writes = c.writes
  BY <1>2, <1>3 DEF EpType
<1>6. Cleanup(r) /\ Writing(r) /\ Reading(r, d) /\ Attempting(r)
  BY <1>2, <1>5 DEF Good, Cleanup, Writing, Reading, Attempting, Early, Ended
<1>7. Unstarted(r)
  BY <1>2, <1>5 DEF Good, Unstarted, Aborted
<1>8. Delivery(r, w, acc)
  <2>1. InFlight(r) = <<>>
    BY <1>2, <1>5 DEF InFlight, Aborted
  <2>2. InFlight(e) \in Bytes /\ w \in Bytes /\ acc \in Bytes
    BY <1>1, InFlightIsBytes DEF Good
  <2>3. IsPrefixOf(w, acc)
    BY <2>2, PrefixOfPart DEF Good, Delivery
  <2>4. w \o <<>> = w
    BY <2>2, ConcatEmptySeq DEF Bytes
  <2> QED
    BY <1>2, <1>5, <2>1, <2>3, <2>4 DEF Good, Delivery, Ended
<1> QED
  BY <1>4, <1>5, <1>6, <1>7, <1>8 DEF Good, r

\* send_buffer_unlock() on a connection without an outstanding write: the whole
\* queue goes out, or there is nothing left and a flush is complete.
LEMMA SendBufferGood ==
    ASSUME NEW e, NEW d, NEW w, NEW acc, Good(e, d, w, acc),
           e.started, e.state = "CONNECTED", e.writes = <<>>
    PROVE  /\ Good(SendBuffer(e), d, w, acc)
           /\ SendBuffer(e).state = e.state /\ SendBuffer(e).started = e.started
           /\ SendBuffer(e).reads = e.reads /\ SendBuffer(e).posted = e.posted
<1> DEFINE r == SendBuffer(e)
<1>1. e \in EpType /\ w \in Bytes /\ acc \in Bytes /\ e.queue \in Bytes
  BY DEF Good, EpType
<1>2. InFlight(e) = <<>> /\ ~WriteFailed(e)
  BY DEF InFlight, WriteFailed
<1>3. w \o e.queue = acc
  <2>1. w \o <<>> = w
    BY <1>1, ConcatEmptySeq DEF Bytes
  <2> QED
    BY <1>2, <2>1 DEF Good, Delivery, Ended
<1>4. CASE e.queue # <<>>
  <2> DEFINE x == [buf |-> e.queue, op |-> Issued(e)]
  <2>1. x \in WriteType /\ x.buf = e.queue /\ x.op \in {"err", "pending"}
    BY <1>1 DEF WriteType, Issued, Ops
  <2>2. r = [e EXCEPT !.sending = TRUE, !.writes = Append(@, x), !.queue = <<>>]
    BY <1>4 DEF SendBuffer
  <2> HIDE DEF x, r
  <2>3. e.writes \in Seq(WriteType) /\ Append(e.writes, x) \in Seq(WriteType)
    BY <1>1, <2>1 DEF EpType
  <2>4. <<>> \in Bytes
    BY DEF Bytes
  <2>5. r \in EpType
    BY <1>1, <2>2, <2>3, <2>4, Zenon DEF EpType
  <2>6. /\ r.sending /\ r.writes = Append(e.writes, x) /\ r.queue = <<>>
        /\ r.state = e.state /\ r.started = e.started /\ r.flushing = e.flushing
        /\ r.reconnects = e.reconnects /\ r.handler = e.handler /\ r.calls = e.calls
        /\ r.handled = e.handled /\ r.timer = e.timer /\ r.posted = e.posted
        /\ r.connects = e.connects /\ r.reads = e.reads
    BY Zenon, <1>1, <2>2 DEF EpType
  <2>7. Len(r.writes) = 1 /\ r.writes # <<>> /\ r.writes[1] = x
    BY <2>3, <2>6
  <2>8. /\ Cleanup(r) /\ Reading(r, d) /\ Attempting(r) /\ Unstarted(r)
        /\ Writing(r)
    <3>1. Cleanup(r) /\ Reading(r, d) /\ Attempting(r) /\ Unstarted(r)
      BY <2>6 DEF Good, Cleanup, Reading, Attempting, Unstarted
    <3>2. r.writes[1].op # "abort" /\ Len(r.queue) <= QueueLimit
      BY <2>1, <2>6, <2>7, LimitsAssumption
    <3>3. Writing(r)
      BY <2>6, <2>7, <3>2 DEF Writing, Early
    <3> QED
      BY <3>1, <3>3
  <2>9. Delivery(r, w, acc)
    <3>1. e.calls # <<"flushed">>
      BY <1>4 DEF Good, Delivery
    <3>2. (w \o e.queue) \o <<>> = w \o e.queue
      BY <1>1, ConcatProperties, ConcatEmptySeq DEF Bytes
    <3>3. IsPrefixOf(acc, acc)
      BY <1>1, SubSeqFull, LenProperties DEF IsPrefixOf, Bytes
    <3>4. CASE x.op = "pending"
      <4>1. InFlight(r) = e.queue
        BY <2>1, <2>7, <3>4 DEF InFlight
      <4> QED
        BY Zenon, <1>3, <2>6, <3>1, <3>2, <3>3, <4>1 DEF Delivery
    <3>5. CASE x.op = "err"
      <4>1. InFlight(r) = <<>> /\ WriteFailed(r)
        BY <2>7, <3>5 DEF InFlight, WriteFailed
      <4>2. IsPrefixOf(w \o <<>>, acc)
        BY <1>2 DEF Good, Delivery
      <4> QED
        BY <2>6, <3>1, <4>1, <4>2 DEF Delivery
    <3> QED
      BY <2>1, <3>4, <3>5
  <2> QED
    BY <1>1, <2>5, <2>6, <2>8, <2>9 DEF Good, r
<1>5. CASE e.queue = <<>> /\ e.flushing /\ e.handler
  <2>1. r = [e EXCEPT !.sending = FALSE, !.handler = FALSE, !.calls = Append(@, "flushed")]
    BY <1>5 DEF SendBuffer
  <2> HIDE DEF r
  <2>2. e.calls = <<>> /\ e.handled \in Nat /\ e.handled <= 0
    BY <1>1, <1>5 DEF Good, Cleanup, EpType
  <2>3. Append(e.calls, "flushed") = <<"flushed">> /\ <<"flushed">> \in Seq(Calls)
    BY <2>2 DEF Calls
  <2>4. r \in EpType
    BY <1>1, <2>1, <2>3, Zenon DEF EpType
  <2>5. /\ ~r.sending /\ ~r.handler /\ r.calls = <<"flushed">>
        /\ r.state = e.state /\ r.started = e.started /\ r.flushing = e.flushing
        /\ r.reconnects = e.reconnects /\ r.queue = e.queue
        /\ r.handled = e.handled /\ r.timer = e.timer /\ r.posted = e.posted
        /\ r.connects = e.connects /\ r.reads = e.reads /\ r.writes = e.writes
    BY Zenon, <1>1, <2>1, <2>3 DEF EpType
  <2>6. Cleanup(r)
    BY <2>2, <2>5 DEF Cleanup
  <2>7. Writing(r) /\ Reading(r, d) /\ Attempting(r) /\ Unstarted(r)
    BY <2>5 DEF Good, Writing, Reading, Attempting, Unstarted
  <2>8. w = acc
    BY <1>1, <1>3, <1>5, ConcatEmptySeq DEF Bytes
  <2>9. Delivery(r, w, acc)
    BY <1>5, <2>5, <2>8 DEF Good, Delivery, InFlight, WriteFailed
  <2> QED
    BY <1>1, <2>4, <2>5, <2>6, <2>7, <2>9 DEF Good, r
<1>6. CASE e.queue = <<>> /\ ~(e.flushing /\ e.handler)
  <2>1. r = [e EXCEPT !.sending = FALSE]
    BY <1>6 DEF SendBuffer
  <2> HIDE DEF r
  <2>2. r \in EpType
    BY Zenon, <1>1, <2>1 DEF EpType
  <2>3. /\ ~r.sending /\ r.calls = e.calls /\ r.handler = e.handler
        /\ r.state = e.state /\ r.started = e.started /\ r.flushing = e.flushing
        /\ r.reconnects = e.reconnects /\ r.queue = e.queue
        /\ r.handled = e.handled /\ r.timer = e.timer /\ r.posted = e.posted
        /\ r.connects = e.connects /\ r.reads = e.reads /\ r.writes = e.writes
    BY Zenon, <1>1, <2>1 DEF EpType
  <2>4. Cleanup(r) /\ Writing(r) /\ Reading(r, d) /\ Attempting(r) /\ Unstarted(r)
    BY <2>3 DEF Good, Cleanup, Writing, Reading, Attempting, Unstarted
  <2>5. Delivery(r, w, acc)
    BY <2>3, DeliveryKept DEF Good
  <2> QED
    BY <1>1, <2>2, <2>3, <2>4, <2>5 DEF Good, r
<1> QED
  BY Zenon, <1>4, <1>5, <1>6

\* send_unlock(): a write is issued only when none is outstanding.
LEMMA SendUnlockGood ==
    ASSUME NEW e, NEW d, NEW w, NEW acc, Good(e, d, w, acc)
    PROVE  /\ Good(SendUnlock(e), d, w, acc)
           /\ SendUnlock(e).state = e.state /\ SendUnlock(e).started = e.started
           /\ SendUnlock(e).reads = e.reads /\ SendUnlock(e).posted = e.posted
<1>1. CASE e.started /\ e.state = "CONNECTED" /\ ~e.sending
  <2>1. e.writes = <<>>
    BY <1>1 DEF Good, Writing
  <2> QED
    BY Zenon, <1>1, <2>1, SendBufferGood DEF SendUnlock
<1>2. CASE ~(e.started /\ e.state = "CONNECTED" /\ ~e.sending)
  BY <1>2 DEF SendUnlock
<1> QED
  BY <1>1, <1>2

\* receive_unlock() after a run of process(): the reader is now the socket.
LEMMA ReceiveGood ==
    ASSUME NEW e, NEW w, NEW acc, Good(e, 1, w, acc)
    PROVE  /\ Good(ReceiveUnlock(e), 0, w, acc)
           /\ ReceiveUnlock(e).state = e.state /\ ReceiveUnlock(e).started = e.started
<1> DEFINE r == ReceiveUnlock(e)
<1>1. e \in EpType /\ Issued(e) \in Ops
  BY DEF Good, Issued, Ops
<1>2. e.reads \in Seq(Ops) /\ Append(e.reads, Issued(e)) \in Seq(Ops)
      /\ Len(Append(e.reads, Issued(e))) = Len(e.reads) + 1 /\ Len(e.reads) \in Nat
  BY <1>1 DEF EpType
<1>3. r = [e EXCEPT !.reads = Append(@, Issued(e))]
  BY DEF ReceiveUnlock
<1> HIDE DEF r
<1>4. r \in EpType
  BY Zenon, <1>1, <1>2, <1>3 DEF EpType
<1>5. /\ r.calls = e.calls /\ r.handler = e.handler /\ r.sending = e.sending
      /\ r.state = e.state /\ r.started = e.started /\ r.flushing = e.flushing
      /\ r.reconnects = e.reconnects /\ r.queue = e.queue
      /\ r.handled = e.handled /\ r.timer = e.timer /\ r.posted = e.posted
      /\ r.connects = e.connects /\ r.writes = e.writes
      /\ r.reads = Append(e.reads, Issued(e))
  BY <1>1, <1>3 DEF EpType
<1>6. Cleanup(r) /\ Writing(r) /\ Attempting(r) /\ Unstarted(r)
  BY <1>5 DEF Good, Cleanup, Writing, Attempting, Unstarted
<1>7. Reading(r, 0)
  <2>1. Len(e.reads) = 0 /\ "start" \notin e.posted /\ ~(e.state \in Early \/ ~e.started)
    BY <1>2 DEF Good, Reading
  <2> QED
    BY <1>2, <1>5, <2>1 DEF Reading
<1>8. Delivery(r, w, acc)
  BY <1>5, DeliveryKept DEF Good
<1> QED
  BY <1>4, <1>5, <1>6, <1>7, <1>8 DEF Good, r

\* A started endpoint on its way to a connection, or one whose state does not
\* change, may move in its socket and its attempts, while it has one left.
LEMMA SocketMoves ==
    ASSUME NEW e, NEW r \in EpType, NEW d, NEW w, NEW acc, Good(e, d, w, acc),
           e.started, r.started,
           r.state = e.state \/ (r.state \in Early /\ e.state \in Early),
           r.state \in Early => r.reconnects <= MaxReconnects,
           r.sending = e.sending, r.flushing = e.flushing,
           r.queue = e.queue, r.handler = e.handler, r.calls = e.calls,
           r.handled = e.handled, r.posted = e.posted, r.writes = e.writes,
           r.reads = e.reads
    PROVE  Good(r, d, w, acc)
<1>1. Cleanup(r) /\ Writing(r) /\ Reading(r, d) /\ Attempting(r) /\ Unstarted(r)
  BY DEF Good, Cleanup, Writing, Reading, Attempting, Unstarted, Early, Ended
<1>2. Delivery(r, w, acc)
  BY DeliveryKept DEF Good, Early, Ended
<1> QED
  BY <1>1, <1>2 DEF Good

\* connect_unlock()
LEMMA ConnectUnlockGood ==
    ASSUME NEW e, NEW d, NEW w, NEW acc, NEW prepared, Good(e, d, w, acc), e.started
    PROVE  /\ Good(ConnectUnlock(e, prepared), d, w, acc)
           /\ Ends(e, ConnectUnlock(e, prepared))
<1> DEFINE r == ConnectUnlock(e, prepared)
           p == [e EXCEPT !.state = "CONNECTING", !.sock = "open",
                          !.connects[e.reconnects + 1] = "pending"]
           f == [e EXCEPT !.state = "CONNECTING", !.connects[e.reconnects + 1] = "err"]
<1>1. e \in EpType
  BY DEF Good
<1>2. CASE e.state # "INIT"
  BY <1>2 DEF ConnectUnlock, Ends, Ended
<1>3. CASE e.state = "INIT" /\ prepared
  <2>1. r = TimerStart(p, "timebox")
    BY <1>3 DEF ConnectUnlock
  <2>2. p \in EpType
    BY Zenon, <1>1 DEF EpType, States, OpStates
  <2>3. /\ p.state = "CONNECTING" /\ p.started = e.started
        /\ p.sending = e.sending /\ p.flushing = e.flushing /\ p.reconnects = e.reconnects
        /\ p.queue = e.queue /\ p.handler = e.handler /\ p.calls = e.calls
        /\ p.handled = e.handled /\ p.posted = e.posted /\ p.writes = e.writes
        /\ p.reads = e.reads
    BY Zenon, <1>1 DEF EpType
  <2> HIDE DEF p, r
  <2>4. Good(p, d, w, acc)
    <3>1. p.reconnects <= MaxReconnects
      BY <1>3, <2>3 DEF Good, Attempting, Early
    <3> QED
      BY Zenon, <1>3, <2>2, <2>3, <3>1, SocketMoves DEF Early
  <2>5. Good(r, d, w, acc) /\ ButTimers(r, p)
    BY Zenon, <2>1, <2>3, <2>4, TimerStartGood DEF Timers
  <2> QED
    BY Zenon, <1>3, <2>5 DEF Ends, r
<1>4. CASE e.state = "INIT" /\ ~prepared
  <2>1. r = f
    BY <1>4 DEF ConnectUnlock
  <2>2. f \in EpType
    BY Zenon, <1>1 DEF EpType, States, OpStates
  <2>3. /\ f.state = "CONNECTING" /\ f.started = e.started
        /\ f.sending = e.sending /\ f.flushing = e.flushing /\ f.reconnects = e.reconnects
        /\ f.queue = e.queue /\ f.handler = e.handler /\ f.calls = e.calls
        /\ f.handled = e.handled /\ f.posted = e.posted /\ f.writes = e.writes
        /\ f.reads = e.reads
    BY Zenon, <1>1 DEF EpType
  <2> HIDE DEF f, r
  <2>4. Good(f, d, w, acc)
    <3>1. f.reconnects <= MaxReconnects
      BY <1>4, <2>3 DEF Good, Attempting, Early
    <3> QED
      BY Zenon, <1>4, <2>2, <2>3, <3>1, SocketMoves DEF Early
  <2> QED
    BY <1>4, <2>1, <2>4 DEF Ends, r
<1> QED
  BY <1>2, <1>3, <1>4

\* Setting CONNECTED in connect_cbk: there is no reader yet.
LEMMA SetConnectedGood ==
    ASSUME NEW e, NEW d, NEW w, NEW acc, Good(e, d, w, acc), e.state = "CONNECTING"
    PROVE  /\ Good(SetState(e, "CONNECTED"), 1, w, acc)
           /\ SetState(e, "CONNECTED").state = "CONNECTED"
           /\ SetState(e, "CONNECTED").started /\ d = 0
<1> DEFINE r == SetState(e, "CONNECTED")
<1>1. e \in EpType /\ e.started /\ d \in Nat
  BY DEF Good, Unstarted, EpType
<1>2. Len(e.reads) \in Nat /\ Len(e.reads) = 0 /\ d = 0 /\ "start" \notin e.posted
  <2>1. Len(e.reads) \in Nat
    BY <1>1 DEF EpType
  <2> QED
    BY <1>1, <2>1 DEF Good, Reading, Early
<1>3. r = [e EXCEPT !.state = "CONNECTED"]
  BY DEF SetState
<1> HIDE DEF r
<1>4. r \in EpType
  BY Zenon, <1>1, <1>3 DEF EpType, States
<1>5. /\ r.state = "CONNECTED" /\ r.started = e.started
      /\ r.sending = e.sending /\ r.flushing = e.flushing /\ r.reconnects = e.reconnects
      /\ r.queue = e.queue /\ r.handler = e.handler /\ r.calls = e.calls
      /\ r.handled = e.handled /\ r.posted = e.posted /\ r.writes = e.writes
      /\ r.reads = e.reads
  BY Zenon, <1>1, <1>3 DEF EpType
<1>6. Cleanup(r) /\ Attempting(r) /\ Unstarted(r)
  BY <1>1, <1>5 DEF Good, Cleanup, Attempting, Unstarted, Early
<1>7. Writing(r)
  BY <1>5 DEF Good, Writing, Early, Ended
<1>8. Reading(r, 1)
  BY <1>1, <1>2, <1>5 DEF Reading, Early
<1>9. Delivery(r, w, acc)
  BY <1>5, DeliveryKept DEF Good, Ended
<1> QED
  BY Zenon, <1>1, <1>2, <1>4, <1>5, <1>6, <1>7, <1>8, <1>9 DEF Good, r

\* The end of connect_cbk without error.
LEMMA ConnectedGood ==
    ASSUME NEW e, NEW d, NEW w, NEW acc, NEW allowed, NEW closed,
           Good(e, d, w, acc), e.state = "CONNECTING"
    PROVE  Good(Connected(e, allowed, closed), d, w, acc)
<1> DEFINE c == SetState(e, "CONNECTED")
<1>1. Good(c, 1, w, acc) /\ c.state = "CONNECTED" /\ c.started /\ d = 0
  BY SetConnectedGood
<1>2. CASE e.kind = "router"
  <2> DEFINE a == TimerStart(c, "assignment")
  <2>1. Good(a, 1, w, acc)
    BY <1>1, TimerStartGood DEF Timers
  <2>2. Good(SendUnlock(a), 1, w, acc)
    BY <2>1, SendUnlockGood
  <2>3. Good(ReceiveUnlock(SendUnlock(a)), 0, w, acc)
    BY <2>2, ReceiveGood
  <2> QED
    BY <1>1, <1>2, <2>3 DEF Connected
<1>3. CASE e.kind # "router" /\ allowed
  <2>1. Good(SendUnlock(c), 1, w, acc)
    BY <1>1, SendUnlockGood
  <2>2. Good(ReceiveUnlock(SendUnlock(c)), 0, w, acc)
    BY <2>1, ReceiveGood
  <2> QED
    BY <1>1, <1>3, <2>2 DEF Connected
<1>4. CASE e.kind # "router" /\ ~allowed
  <2>1. e.writes = <<>>
    BY DEF Good, Writing, Early
  <2>2. Good(CloseSocket(e), d, w, acc)
    BY <2>1, CloseGood
  <2>3. Good(IF closed THEN CloseSocket(e) ELSE e, d, w, acc)
    BY <2>2
  <2>4. Good(Escalate(IF closed THEN CloseSocket(e) ELSE e), d, w, acc)
    BY <2>3, EscalateGood
  <2> QED
    BY <1>4, <2>4 DEF Connected
<1> QED
  BY <1>2, <1>3, <1>4

\* The end of connect_cbk with an error: another attempt is due, or the endpoint
\* has failed.
LEMMA ReconnectGood ==
    ASSUME NEW e, NEW d, NEW w, NEW acc, Good(e, d, w, acc), e.state = "CONNECTING"
    PROVE  Good(Reconnect(e), d, w, acc)
<1> DEFINE k == CloseSocket(e)
           c == [k EXCEPT !.reconnects = @ + 1]
<1>1. e \in EpType /\ e.started /\ e.writes = <<>> /\ e.reconnects <= MaxReconnects
  BY DEF Good, EpType, Unstarted, Writing, Attempting, Early
<1>2. CASE e.flushing
  BY <1>2, EscalateGood DEF Reconnect
<1>3. CASE ~e.flushing
  <2>1. Good(k, d, w, acc)
    BY <1>1, CloseGood
  <2>2. /\ k \in EpType /\ k.state = "CONNECTING" /\ k.started
        /\ k.reconnects = e.reconnects
    BY <1>1, CloseFacts
  <2> HIDE DEF k
  <2>3. c \in EpType
    <3>1. k.reconnects + 1 \in 0..(MaxReconnects + 1)
      BY <1>1, <2>2, LimitsAssumption DEF EpType
    <3> QED
      BY Zenon, <2>2, <3>1 DEF EpType
  <2>4. /\ c.reconnects = k.reconnects + 1 /\ c.state = k.state /\ c.started = k.started
        /\ c.sending = k.sending /\ c.flushing = k.flushing
        /\ c.queue = k.queue /\ c.handler = k.handler /\ c.calls = k.calls
        /\ c.handled = k.handled /\ c.posted = k.posted /\ c.writes = k.writes
        /\ c.reads = k.reads
    BY Zenon, <2>2 DEF EpType
  <2> HIDE DEF c
  <2>5. Reconnect(e) = IF c.reconnects <= MaxReconnects
                         THEN TimerStart(SetState(c, "INIT"), "debounce") ELSE Escalate(c)
    BY <1>3 DEF Reconnect, c, k
  <2>6. CASE c.reconnects <= MaxReconnects
    <3> DEFINE i == SetState(c, "INIT")
    <3>1. i \in EpType
      BY Zenon, <2>3 DEF SetState, EpType, States
    <3>2. /\ i.state = "INIT" /\ i.started = k.started /\ i.reconnects = c.reconnects
          /\ i.sending = k.sending /\ i.flushing = k.flushing
          /\ i.queue = k.queue /\ i.handler = k.handler /\ i.calls = k.calls
          /\ i.handled = k.handled /\ i.posted = k.posted /\ i.writes = k.writes
          /\ i.reads = k.reads
      BY <2>3, <2>4 DEF SetState, EpType
    <3> HIDE DEF i
    <3>3. Good(i, d, w, acc)
      BY Zenon, <2>1, <2>2, <2>6, <3>1, <3>2, SocketMoves DEF Early
    <3>4. Good(TimerStart(i, "debounce"), d, w, acc)
      BY Zenon, <2>2, <3>2, <3>3, TimerStartGood DEF Timers
    <3> QED
      BY <2>5, <2>6, <3>4 DEF i
  <2>7. CASE ~(c.reconnects <= MaxReconnects)
    <3> DEFINE y == Escalate(k)
               r == Escalate(c)
    <3>1. Good(y, d, w, acc)
      BY <2>1, EscalateGood
    <3>2. y = [k EXCEPT !.state = "FAILED", !.handler = FALSE,
                        !.calls = IF k.handler THEN Append(@, "error") ELSE @]
      BY <2>2 DEF Escalate
    <3>3. r = [c EXCEPT !.state = "FAILED", !.handler = FALSE,
                        !.calls = IF c.handler THEN Append(@, "error") ELSE @]
      BY <2>2, <2>4 DEF Escalate
    <3> HIDE DEF y, r
    <3>4. /\ y.state = "FAILED" /\ y.started = k.started /\ ~y.handler
          /\ y.calls = IF k.handler THEN Append(k.calls, "error") ELSE k.calls
          /\ y.sending = k.sending /\ y.flushing = k.flushing /\ y.queue = k.queue
          /\ y.handled = k.handled /\ y.posted = k.posted /\ y.writes = k.writes
          /\ y.reads = k.reads /\ y \in EpType
      BY Zenon, <2>2, <3>1, <3>2 DEF EpType, Good
    <3>5. /\ r.state = "FAILED" /\ r.started = k.started /\ ~r.handler
          /\ r.calls = IF k.handler THEN Append(k.calls, "error") ELSE k.calls
          /\ r.sending = k.sending /\ r.flushing = k.flushing /\ r.queue = k.queue
          /\ r.handled = k.handled /\ r.posted = k.posted /\ r.writes = k.writes
          /\ r.reads = k.reads
      BY <2>3, <2>4, <3>3 DEF EpType
    <3>6. r.calls \in Seq(Calls)
      BY Zenon, <3>4, <3>5 DEF EpType
    <3>7. r = [c EXCEPT !.state = "FAILED", !.handler = FALSE, !.calls = r.calls]
      BY <2>4, <3>3, <3>5
    <3>8. r \in EpType
      BY <2>3, <3>6, <3>7, Zenon DEF EpType, States
    <3>9. y.handler = r.handler
      BY <3>4, <3>5, <3>8 DEF EpType
    <3>10. Good(r, d, w, acc)
      BY Zenon, <2>2, <3>1, <3>4, <3>5, <3>8, <3>9, SocketMoves DEF Early
    <3> QED
      BY <2>5, <2>7, <3>10 DEF r
  <2> QED
    BY <2>6, <2>7
<1> QED
  BY <1>2, <1>3

\* connect_cbk
LEMMA ConnectCbkGood ==
    ASSUME NEW e, NEW d, NEW w, NEW acc, NEW ec \in {"ok", "err", "abort"},
           NEW allowed, NEW closed, Good(e, d, w, acc)
    PROVE  /\ Good(ConnectCbk(e, ec, allowed, closed), d, w, acc)
           /\ Ends(e, ConnectCbk(e, ec, allowed, closed))
<1> DEFINE c == TimerStop(e, "timebox")
           r == ConnectCbk(e, ec, allowed, closed)
<1>1. Good(c, d, w, acc) /\ c.state = e.state
  BY TimerStopGood DEF Timers, ButTimers
<1>2. CASE c.state # "CONNECTING"
  <2>1. r = c
    BY <1>2 DEF ConnectCbk
  <2> QED
    BY <1>1, <2>1 DEF Ends, Ended
<1>3. CASE c.state = "CONNECTING"
  <2>1. Ends(e, r)
    BY <1>1, <1>3 DEF Ends
  <2>2. CASE ec = "ok"
    <3>1. r = Connected(c, allowed, closed)
      BY <1>3, <2>2 DEF ConnectCbk
    <3> QED
      BY <1>1, <1>3, <2>1, <3>1, ConnectedGood
  <2>3. CASE ec = "abort"
    <3>1. r = Escalate(c)
      BY <1>3, <2>3 DEF ConnectCbk
    <3> QED
      BY <1>1, <2>1, <3>1, EscalateGood
  <2>4. CASE ec = "err"
    <3>1. r = Reconnect(c)
      BY <1>3, <2>4 DEF ConnectCbk
    <3> QED
      BY <1>1, <1>3, <2>1, <3>1, ReconnectGood
  <2> QED
    BY <2>2, <2>3, <2>4
<1> QED
  BY <1>2, <1>3

\* The end of process() and what its caller does with the result.
LEMMA ProcessedGood ==
    ASSUME NEW e, NEW w, NEW acc, NEW x, Good(e, 1, w, acc)
    PROVE  /\ Good(Processed(e, x), 0, w, acc)
           /\ Ends(e, Processed(e, x))
<1> DEFINE t == IF x.rest = "partial" THEN TimerStart(e, "partial") ELSE TimerStop(e, "partial")
<1>1. e.started
  BY DEF Good, Reading, EpType
<1>2. CASE x.rest = "bad"
  <2>1. Good(e, 0, w, acc)
    BY DEF Good, Reading, EpType
  <2> QED
    BY <1>2, <2>1, EscalateGood DEF Processed
<1>3. CASE x.rest # "bad"
  <2>1. Good(t, 1, w, acc) /\ t.state = e.state
    BY <1>1, TimerStartGood, TimerStopGood DEF Timers, ButTimers
  <2> HIDE DEF t
  <2>2. /\ Good(ReceiveUnlock(t), 0, w, acc)
        /\ ReceiveUnlock(t).state = e.state
    BY <2>1, ReceiveGood
  <2>3. /\ Good(SendUnlock(ReceiveUnlock(t)), 0, w, acc)
        /\ SendUnlock(ReceiveUnlock(t)).state = e.state
    BY <2>2, SendUnlockGood
  <2>4. Processed(e, x) = IF x.initial THEN SendUnlock(ReceiveUnlock(t)) ELSE ReceiveUnlock(t)
    BY <1>3 DEF Processed, t
  <2> QED
    BY <2>2, <2>3, <2>4 DEF Ends, Ended
<1> QED
  BY <1>2, <1>3

-----------------------------------------------------------------------------
(* The actions *)

\* One action keeps the endpoint good and does not revive it.
Kept == Good(ep', Len(drain'), wire', accepted') /\ Ends(ep, ep')

\* start()
LEMMA StartKept == ASSUME IInv, Start PROVE Kept
<1> DEFINE e == [ep EXCEPT !.started = TRUE]
           n == Len(drain)
<1>1. ep \in EpType /\ Good(ep, n, wire, accepted) /\ ~ep.started
  BY DEF IInv, Good, Start
<1>2. e \in EpType
  BY Zenon, <1>1 DEF EpType
<1>3. /\ e.started /\ e.state = ep.state
      /\ e.sending = ep.sending /\ e.flushing = ep.flushing /\ e.reconnects = ep.reconnects
      /\ e.queue = ep.queue /\ e.handler = ep.handler /\ e.calls = ep.calls
      /\ e.handled = ep.handled /\ e.posted = ep.posted /\ e.writes = ep.writes
      /\ e.reads = ep.reads
  BY <1>1 DEF EpType
<1>4. UNCHANGED <<drain, wire, accepted>>
  BY DEF Start
<1> HIDE DEF e
<1>5. Good(e, n, wire, accepted)
  <2>1. Cleanup(e) /\ Writing(e) /\ Reading(e, n) /\ Attempting(e) /\ Unstarted(e)
    BY <1>1, <1>3 DEF Good, Cleanup, Writing, Reading, Attempting, Unstarted
  <2>2. Delivery(e, wire, accepted)
    BY <1>1, <1>3, DeliveryKept DEF Good
  <2> QED
    BY <1>1, <1>2, <2>1, <2>2 DEF Good
<1>6. CASE \E prepared \in BOOLEAN : ep.state = "INIT" /\ ep' = ConnectUnlock(e, prepared)
  BY <1>3, <1>4, <1>5, <1>6, ConnectUnlockGood DEF Kept, Ends
<1>7. CASE ep.state = "CONNECTED" /\ ep' = [e EXCEPT !.posted = @ \cup {"start"}]
  <2>1. ep' \in EpType
    BY Zenon, <1>2, <1>7 DEF EpType
  <2>2. /\ ep'.started /\ ep'.state = ep.state /\ ep'.posted = ep.posted \cup {"start"}
        /\ ep'.sending = ep.sending /\ ep'.flushing = ep.flushing
        /\ ep'.reconnects = ep.reconnects
        /\ ep'.queue = ep.queue /\ ep'.handler = ep.handler /\ ep'.calls = ep.calls
        /\ ep'.handled = ep.handled /\ ep'.writes = ep.writes /\ ep'.reads = ep.reads
    BY <1>2, <1>3, <1>7 DEF EpType
  <2>3. Cleanup(ep') /\ Writing(ep') /\ Attempting(ep') /\ Unstarted(ep')
    BY <1>1, <2>2 DEF Good, Cleanup, Writing, Attempting, Unstarted
  <2>4. Reading(ep', n)
    BY <1>1, <1>7, <2>2 DEF Good, Reading, Early
  <2>5. Delivery(ep', wire, accepted)
    BY <1>1, <2>2, DeliveryKept DEF Good
  <2> QED
    BY <1>1, <1>4, <1>7, <2>1, <2>2, <2>3, <2>4, <2>5 DEF Kept, Good, Ends
<1>8. CASE ep.state \in {"CONNECTING", "FAILED", "STOPPED"} /\ ep' = e
  BY <1>3, <1>4, <1>5, <1>8 DEF Kept, Ends, Ended
<1> QED
  BY Zenon, <1>6, <1>7, <1>8 DEF Start, e

\* What is a prefix stays one when the whole grows.
LEMMA PrefixOfLonger ==
    ASSUME NEW p \in Bytes, NEW q \in Bytes, NEW s \in Bytes, IsPrefixOf(p, q)
    PROVE  IsPrefixOf(p, q \o s)
<1>1. /\ q \o s \in Bytes /\ Len(q \o s) = Len(q) + Len(s)
      /\ \A i \in 1..Len(q) : (q \o s)[i] = q[i]
      /\ Len(p) \in Nat /\ Len(q) \in Nat /\ Len(s) \in Nat /\ Len(p) <= Len(q)
  BY ConcatProperties, LenProperties DEF Bytes, IsPrefixOf
<1>2. \A i \in 1..Len(p) : (q \o s)[i] = p[i]
  <2> SUFFICES ASSUME NEW i \in 1..Len(p) PROVE (q \o s)[i] = p[i]
    BY Zenon
  <2>1. \A j \in 1..Len(q) : q[j] \in Nat
    BY ElementOfSeq DEF Bytes
  <2>2. SubSeq(q, 1, Len(p))[i] = q[i]
    BY <1>1, <2>1
  <2> QED
    BY <1>1, <2>2 DEF IsPrefixOf
<1>3. SubSeq(q \o s, 1, Len(p)) = p
  BY <1>1, <1>2 DEF Bytes
<1> QED
  BY <1>1, <1>3 DEF IsPrefixOf

\* Concatenation is associative.
LEMMA ConcatBytes ==
    ASSUME NEW p \in Bytes, NEW q \in Bytes, NEW s \in Bytes
    PROVE  (p \o q) \o s = p \o (q \o s)
BY DEF Bytes

\* r is e with the bytes b at the end of its queue, which has room for them.
Queued(r, e, b) ==
    /\ r = [e EXCEPT !.queue = @ \o b]
    /\ ~e.flushing
    /\ Len(e.queue) + Len(b) <= QueueLimit

\* send() up to send_unlock(): the message joins the queue.
LEMMA QueuedGood ==
    ASSUME NEW e, NEW r, NEW d, NEW w, NEW acc, NEW b \in Bytes,
           Good(e, d, w, acc), Queued(r, e, b)
    PROVE  /\ Good(r, d, w, acc \o b)
           /\ r.state = e.state
<1> DEFINE f == InFlight(e)
<1>1. e \in EpType /\ w \in Bytes /\ acc \in Bytes /\ e.queue \in Bytes /\ f \in Bytes
  BY InFlightIsBytes DEF Good, EpType
<1>2. e.queue \o b \in Bytes /\ Len(e.queue \o b) <= QueueLimit /\ acc \o b \in Bytes
  BY <1>1, ConcatProperties DEF Bytes, Queued
<1>3. r \in EpType
  BY Zenon, <1>1, <1>2 DEF EpType, Queued
<1>4. /\ r.started = e.started /\ r.state = e.state /\ r.queue = e.queue \o b
      /\ r.sending = e.sending /\ r.flushing = e.flushing /\ r.reconnects = e.reconnects
      /\ r.handler = e.handler /\ r.calls = e.calls /\ r.timer = e.timer
      /\ r.handled = e.handled /\ r.posted = e.posted /\ r.writes = e.writes
      /\ r.reads = e.reads /\ r.connects = e.connects
  BY <1>1 DEF EpType, Queued
<1> HIDE DEF f
<1>5. Cleanup(r) /\ Reading(r, d) /\ Attempting(r) /\ Unstarted(r)
  BY <1>4 DEF Good, Cleanup, Reading, Attempting, Unstarted
<1>6. Writing(r)
  BY <1>2, <1>4 DEF Good, Writing
<1>7. Delivery(r, w, acc \o b)
  <2>1. InFlight(r) = f /\ (WriteFailed(r) <=> WriteFailed(e))
    BY <1>4 DEF InFlight, WriteFailed, f
  <2>2. w \o f \in Bytes
    BY <1>1, ConcatProperties DEF Bytes
  <2>3. IsPrefixOf(w \o f, acc \o b)
    BY <1>1, <2>2, PrefixOfLonger DEF Good, Delivery, f
  <2>4. (w \o f) \o (e.queue \o b) = ((w \o f) \o e.queue) \o b
    BY <1>1, <2>2, ConcatBytes, Zenon
  <2>5. e.state \notin Ended /\ ~WriteFailed(e) => (w \o f) \o e.queue = acc
    BY Zenon DEF Good, Delivery, f
  <2>6. e.calls # <<"flushed">>
    BY DEF Good, Delivery, Queued
  <2> QED
    BY Zenon, <1>4, <2>1, <2>3, <2>4, <2>5, <2>6 DEF Delivery
<1>8. d \in Nat
  BY DEF Good
<1> QED
  BY <1>1, <1>2, <1>3, <1>4, <1>5, <1>6, <1>7, <1>8 DEF Good

\* send()
LEMMA SendKept == ASSUME IInv, NEW n \in Sizes, Send(n) PROVE Kept
<1> DEFINE m == IF accepted = <<>> THEN 1 ELSE accepted[Len(accepted)] + 1
           b == [i \in 1..n |-> m]
           e == [ep EXCEPT !.queue = @ \o b]
<1>1. Good(ep, Len(drain), wire, accepted) /\ accepted \in Bytes /\ ep \in EpType
  BY DEF IInv, Good
<1>2. m \in Nat
  BY <1>1 DEF Bytes
<1>3. n \in Nat
  BY LimitsAssumption
<1>4. b \in Bytes /\ Len(b) = n
  <2> HIDE DEF m
  <2> QED
    BY <1>2, <1>3 DEF Bytes
<1>5. /\ ~ep.flushing /\ QueueLimit - Len(ep.queue) >= n
      /\ ep' = SendUnlock(e) /\ accepted' = accepted \o b
      /\ UNCHANGED <<drain, wire>>
  BY DEF Send
<1>6. Len(ep.queue) + Len(b) <= QueueLimit
  <2>1. Len(ep.queue) \in Nat
    BY <1>1 DEF EpType, Bytes
  <2> HIDE DEF b
  <2> QED
    BY <1>3, <1>4, <1>5, <2>1, LimitsAssumption
<1> HIDE DEF b
<1>7. Good(e, Len(drain), wire, accepted \o b) /\ e.state = ep.state
  <2>1. Queued(e, ep, b)
    BY <1>5, <1>6 DEF Queued
  <2> HIDE DEF e
  <2> QED
    BY <1>1, <1>4, <2>1, QueuedGood
<1> HIDE DEF e
<1>8. Good(ep', Len(drain), wire, accepted \o b) /\ ep'.state = ep.state
  BY <1>5, <1>7, SendUnlockGood
<1>9. drain' = drain /\ wire' = wire
  BY <1>5
<1> QED
  BY <1>5, <1>8, <1>9 DEF Kept, Ends, Ended

\* start_flushing()
LEMMA StartFlushingKept == ASSUME IInv, StartFlushing PROVE Kept
<1> DEFINE e == [ep EXCEPT !.flushing = TRUE]
           n == Len(drain)
           r == [e EXCEPT !.handler = FALSE, !.calls = Append(@, "error")]
<1>1. ep \in EpType /\ Good(ep, n, wire, accepted) /\ ep.started /\ ep.state \notin Ended
  BY DEF IInv, Good, StartFlushing, Ended
<1>2. e \in EpType
  BY Zenon, <1>1 DEF EpType
<1>3. /\ e.flushing /\ e.started = ep.started /\ e.state = ep.state
      /\ e.sending = ep.sending /\ e.reconnects = ep.reconnects
      /\ e.queue = ep.queue /\ e.handler = ep.handler /\ e.calls = ep.calls
      /\ e.handled = ep.handled /\ e.posted = ep.posted /\ e.writes = ep.writes
      /\ e.reads = ep.reads
  BY Zenon, <1>1 DEF EpType
<1>4. /\ UNCHANGED <<drain, wire, accepted>>
      /\ ep' = IF ep.state = "INIT" /\ ep.handler THEN r ELSE SendUnlock(e)
  BY DEF StartFlushing
<1> HIDE DEF e
<1>5. Good(e, n, wire, accepted)
  <2>1. Cleanup(e) /\ Writing(e) /\ Reading(e, n) /\ Attempting(e) /\ Unstarted(e)
    BY <1>1, <1>3 DEF Good, Cleanup, Writing, Reading, Attempting, Unstarted
  <2>2. Delivery(e, wire, accepted)
    BY <1>1, <1>3, DeliveryKept DEF Good
  <2> QED
    BY <1>1, <1>2, <2>1, <2>2 DEF Good
<1>6. Ends(ep, ep')
  BY <1>1 DEF Ends, Ended
<1>7. CASE ep.state = "INIT" /\ ep.handler
  <2>1. ep' = r
    BY <1>4, <1>7
  <2>2. e.calls = <<>> /\ e.handled \in Nat /\ e.handled <= 0
    BY <1>1, <1>3, <1>7 DEF Good, Cleanup, EpType
  <2>3. Append(e.calls, "error") = <<"error">> /\ <<"error">> \in Seq(Calls)
    BY <2>2 DEF Calls
  <2>4. r \in EpType
    BY <1>2, <2>3, Zenon DEF EpType
  <2>5. /\ ~r.handler /\ r.calls = <<"error">> /\ r.flushing /\ r.started
        /\ r.state = e.state /\ r.sending = e.sending /\ r.reconnects = e.reconnects
        /\ r.queue = e.queue /\ r.handled = e.handled /\ r.posted = e.posted
        /\ r.writes = e.writes /\ r.reads = e.reads
    BY Zenon, <1>1, <1>2, <1>3, <2>3 DEF EpType
  <2> HIDE DEF r
  <2>6. Cleanup(r)
    BY <2>2, <2>5 DEF Cleanup
  <2>7. Writing(r) /\ Reading(r, n) /\ Attempting(r) /\ Unstarted(r)
    BY <1>5, <2>5 DEF Good, Writing, Reading, Attempting, Unstarted
  <2>8. Delivery(r, wire, accepted)
    BY <1>5, <2>5, DeliveryKept DEF Good
  <2> QED
    BY <1>4, <1>5, <1>6, <2>1, <2>4, <2>6, <2>7, <2>8 DEF Kept, Good
<1>8. CASE ~(ep.state = "INIT" /\ ep.handler)
  BY <1>4, <1>5, <1>6, <1>8, SendUnlockGood DEF Kept
<1> QED
  BY <1>7, <1>8

\* The fields the invariant does not depend on, or only through what is asked of
\* them here, may change: attempts, socket, timers, the results of reads, the
\* error posted and the handler calls that have run.
LEMMA Moves ==
    ASSUME NEW e, NEW r \in EpType, NEW d, NEW w, NEW acc, Good(e, d, w, acc),
           r.started = e.started, Unstarted(r), r.state = e.state,
           r.handled <= Len(r.calls), r.reconnects = e.reconnects,
           "start" \in r.posted => "start" \in e.posted,
           Len(r.reads) = Len(e.reads),
           r.sending = e.sending, r.flushing = e.flushing,
           r.queue = e.queue, r.handler = e.handler, r.calls = e.calls,
           r.writes = e.writes
    PROVE  Good(r, d, w, acc) /\ Ends(e, r)
<1>1. Cleanup(r) /\ Writing(r) /\ Reading(r, d) /\ Attempting(r)
  BY DEF Good, Cleanup, Writing, Reading, Attempting, Early, Ended
<1>2. Delivery(r, w, acc)
  BY DeliveryKept DEF Good
<1>3. Ends(e, r)
  BY DEF Ends, Ended
<1> QED
  BY <1>1, <1>2, <1>3 DEF Good

\* trigger_error()
LEMMA TriggerErrorKept == ASSUME IInv, TriggerError PROVE Kept
<1>1. /\ ep \in EpType /\ Good(ep, Len(drain), wire, accepted) /\ ep.started
      /\ ep.handled <= Len(ep.calls)
      /\ ep' = [ep EXCEPT !.posted = @ \cup {"error"}]
      /\ drain' = drain /\ wire' = wire /\ accepted' = accepted
  BY DEF IInv, Good, TriggerError, Cleanup
<1>2. ep' \in EpType
  BY Zenon, <1>1 DEF EpType
<1>3. /\ ep'.started = ep.started /\ ep'.state = ep.state
      /\ ep'.handled = ep.handled /\ ep'.reconnects = ep.reconnects
      /\ ep'.posted = ep.posted \cup {"error"} /\ ep'.reads = ep.reads
      /\ ep'.sending = ep.sending /\ ep'.flushing = ep.flushing
      /\ ep'.queue = ep.queue /\ ep'.handler = ep.handler /\ ep'.calls = ep.calls
      /\ ep'.writes = ep.writes
  BY Zenon, <1>1 DEF EpType
<1>4. Unstarted(ep')
  BY <1>1, <1>3 DEF Unstarted
<1> QED
  BY Zenon, <1>1, <1>2, <1>3, <1>4, Moves DEF Kept

\* stop_internal() up to its first wait.
LEMMA StopInternalGood ==
    ASSUME IInv, NEW e, NEW t \in Stoppers, NEW due, StopInternal(e, t, due),
           Good(e, Len(drain), wire, accepted)
    PROVE  /\ Good(ep', Len(drain), wire, accepted) /\ Ends(e, ep')
           /\ stopping' \in [Stoppers -> {NotStopping} \cup 0..MaxRetries]
<1> DEFINE n == Len(drain)
           a == TimerStop(e, "debounce")
           b == TimerStop(a, "timebox")
           q == TimerStop(b, "partial")
<1>1. Good(a, n, wire, accepted) /\ a.state = e.state
  BY TimerStopGood DEF Timers, ButTimers
<1>2. Good(b, n, wire, accepted) /\ b.state = e.state
  BY <1>1, TimerStopGood DEF Timers, ButTimers
<1>3. Good(q, n, wire, accepted) /\ q.state = e.state
  BY <1>2, TimerStopGood DEF Timers, ButTimers
<1>4. /\ stopping \in [Stoppers -> {NotStopping} \cup 0..MaxRetries]
      /\ [stopping EXCEPT ![t] = 0] \in [Stoppers -> {NotStopping} \cup 0..MaxRetries]
  BY LimitsAssumption DEF IInv
<1> HIDE DEF q
<1>5. CASE e.state = "STOPPED" /\ ep' = e /\ UNCHANGED stopping
  BY <1>4, <1>5 DEF Ends
<1>6. CASE ep' = q /\ stopping' = [stopping EXCEPT ![t] = 0]
  BY <1>3, <1>4, <1>6 DEF Ends, Ended
<1>7. CASE ep' = Stopped(q) /\ UNCHANGED stopping
  BY <1>3, <1>4, <1>7, StoppedGood DEF Ends, Ended
<1> QED
  BY <1>5, <1>6, <1>7 DEF StopInternal, q

\* stop()
LEMMA StopKept == ASSUME IInv, NEW due \in BOOLEAN, Stop(due) PROVE Kept
<1>1. Good(ep, Len(drain), wire, accepted)
  BY DEF IInv
<1>2. StopInternal(ep, "owner", due) /\ UNCHANGED <<drain, accepted, wire>>
  BY DEF Stop
<1>3. Good(ep', Len(drain), wire, accepted) /\ Ends(ep, ep')
  BY <1>1, <1>2, StopInternalGood DEF Stoppers
<1> QED
  BY <1>2, <1>3 DEF Kept

\* The call of the cleanup handler, which stops the endpoint.
LEMMA CleanupHandlerKept == ASSUME IInv, CleanupHandler PROVE Kept
<1> DEFINE e == [ep EXCEPT !.handled = @ + 1]
           due == ep.calls[ep.handled + 1] = "error"
<1>1. ep \in EpType /\ Good(ep, Len(drain), wire, accepted)
  BY DEF IInv, Good
<1>2. /\ ep.handled < Len(ep.calls) /\ StopInternal(e, "handler", due)
      /\ UNCHANGED <<drain, accepted, wire>>
  BY DEF CleanupHandler
<1>3. e \in EpType
  <2>1. ep.handled + 1 \in Nat
    BY <1>1 DEF EpType
  <2> QED
    BY <1>1, <2>1 DEF EpType
<1>4. /\ e.started = ep.started /\ e.state = ep.state
      /\ e.handled = ep.handled + 1 /\ e.reconnects = ep.reconnects
      /\ e.posted = ep.posted /\ e.reads = ep.reads /\ e.timer = ep.timer
      /\ e.sending = ep.sending /\ e.flushing = ep.flushing /\ e.connects = ep.connects
      /\ e.queue = ep.queue /\ e.handler = ep.handler /\ e.calls = ep.calls
      /\ e.writes = ep.writes
  BY <1>1 DEF EpType
<1>5. ep.handled \in Nat /\ Len(ep.calls) \in Nat
  BY <1>1 DEF EpType
<1> HIDE DEF e, due
<1>6. Unstarted(e)
  BY <1>1, <1>4 DEF Good, Unstarted
<1>7. e.handled <= Len(e.calls)
  BY <1>2, <1>4, <1>5
<1>8. Good(e, Len(drain), wire, accepted)
  BY Zenon, <1>1, <1>3, <1>4, <1>6, <1>7, Moves
<1>9. Good(ep', Len(drain), wire, accepted) /\ Ends(e, ep')
  BY <1>2, <1>8, StopInternalGood DEF Stoppers
<1> QED
  BY <1>2, <1>4, <1>9 DEF Kept, Ends

\* stop_internal() after a wait.
LEMMA StopRetryKept == ASSUME IInv, NEW t \in Stoppers, StopRetry(t) PROVE Kept
<1>1. Good(ep, Len(drain), wire, accepted) /\ UNCHANGED <<drain, accepted, wire>>
  BY DEF IInv, StopRetry
<1>2. CASE ep' = ep
  BY <1>1, <1>2 DEF Kept, Ends, Ended
<1>3. CASE ep' = Stopped(ep)
  BY <1>1, <1>3, StoppedGood DEF Kept, Ends, Ended
<1> QED
  BY <1>2, <1>3 DEF StopRetry

\* The operating system answers a connection attempt.
LEMMA ConnectCompletesKept == ASSUME IInv, NEW a \in Attempts, ConnectCompletes(a) PROVE Kept
<1>1. /\ ep \in EpType /\ Good(ep, Len(drain), wire, accepted) /\ ep.started
      /\ ep.handled <= Len(ep.calls) /\ UNCHANGED <<drain, accepted, wire>>
  BY DEF IInv, Good, ConnectCompletes, Cleanup, Unstarted, EpType
<1>2. \/ ep' = [ep EXCEPT !.connects[a] = "ok", !.sock = "connected"]
      \/ ep' = [ep EXCEPT !.connects[a] = "err"]
  BY DEF ConnectCompletes
<1>3. ep' \in EpType
  <2>1. \A o \in OpStates : [ep.connects EXCEPT ![a] = o] \in [Attempts -> OpStates]
    BY <1>1 DEF EpType
  <2>2. CASE ep' = [ep EXCEPT !.connects[a] = "ok", !.sock = "connected"]
    BY Zenon, <1>1, <2>1, <2>2 DEF EpType, OpStates
  <2>3. CASE ep' = [ep EXCEPT !.connects[a] = "err"]
    BY Zenon, <1>1, <2>1, <2>3 DEF EpType, OpStates
  <2> QED
    BY <1>2, <2>2, <2>3
<1>4. /\ ep'.started = ep.started /\ ep'.state = ep.state
      /\ ep'.handled = ep.handled /\ ep'.reconnects = ep.reconnects
      /\ ep'.posted = ep.posted /\ ep'.reads = ep.reads
      /\ ep'.sending = ep.sending /\ ep'.flushing = ep.flushing
      /\ ep'.queue = ep.queue /\ ep'.handler = ep.handler /\ ep'.calls = ep.calls
      /\ ep'.writes = ep.writes
  BY Zenon, <1>1, <1>2 DEF EpType
<1>5. Unstarted(ep')
  BY <1>1, <1>4 DEF Unstarted
<1> QED
  BY Zenon, <1>1, <1>3, <1>4, <1>5, Moves DEF Kept

\* connect_cbk, called by async_connect.
LEMMA ConnectCallbackKept == ASSUME IInv, NEW a \in Attempts, ConnectCallback(a) PROVE Kept
<1> DEFINE e == [ep EXCEPT !.connects[a] = "none"]
<1>1. /\ ep \in EpType /\ Good(ep, Len(drain), wire, accepted) /\ ep.started
      /\ ep.handled <= Len(ep.calls) /\ UNCHANGED <<drain, accepted, wire>>
      /\ ep.connects[a] \in {"ok", "err", "abort"}
  BY DEF IInv, Good, ConnectCallback, Cleanup, Unstarted, EpType
<1>2. PICK allowed, closed \in BOOLEAN : ep' = ConnectCbk(e, ep.connects[a], allowed, closed)
  BY DEF ConnectCallback
<1>3. e \in EpType
  BY Zenon, <1>1 DEF EpType, OpStates
<1>4. /\ e.started = ep.started /\ e.state = ep.state
      /\ e.handled = ep.handled /\ e.reconnects = ep.reconnects
      /\ e.posted = ep.posted /\ e.reads = ep.reads
      /\ e.sending = ep.sending /\ e.flushing = ep.flushing
      /\ e.queue = ep.queue /\ e.handler = ep.handler /\ e.calls = ep.calls
      /\ e.writes = ep.writes
  BY Zenon, <1>1 DEF EpType
<1> HIDE DEF e
<1>5. Unstarted(e)
  BY <1>1, <1>4 DEF Unstarted
<1>6. Good(e, Len(drain), wire, accepted)
  BY Zenon, <1>1, <1>3, <1>4, <1>5, Moves
<1>7. Good(ep', Len(drain), wire, accepted) /\ Ends(e, ep')
  BY <1>1, <1>2, <1>6, ConnectCbkGood
<1> QED
  BY <1>1, <1>4, <1>7 DEF Kept, Ends

\* A sequence of at most one element that is not empty.
LEMMA OneElement ==
    ASSUME NEW S, NEW s \in Seq(S), s # <<>>, Len(s) <= 1
    PROVE  /\ Len(s) = 1 /\ s[1] \in S
           /\ Tail(s) \in Seq(S) /\ Len(Tail(s)) = 0 /\ Tail(s) = <<>>
<1>1. Len(s) \in Nat \ {0}
  BY EmptySeq
<1>2. Len(s) = 1
  BY <1>1
<1>3. s[1] \in S
  BY <1>2
<1>4. Tail(s) \in Seq(S) /\ Len(Tail(s)) = 0
  BY <1>2
<1>5. Tail(s) = <<>>
  BY <1>4
<1> QED
  BY <1>2, <1>3, <1>4, <1>5

\* Bytes fall into those before a place and those after it.
LEMMA SplitBytes ==
    ASSUME NEW s \in Bytes, NEW n \in 0..(Len(s) - 1)
    PROVE  /\ SubSeq(s, 1, n) \in Bytes /\ SubSeq(s, n + 1, Len(s)) \in Bytes
           /\ SubSeq(s, 1, n) \o SubSeq(s, n + 1, Len(s)) = s
BY DEF Bytes

\* A write completes: what the peer receives is the next part of what send()
\* accepted.
LEMMA WriteCompletesKept == ASSUME IInv, WriteCompletes PROVE Kept
<1> DEFINE x == ep.writes[1]
<1>1. /\ ep \in EpType /\ Good(ep, Len(drain), wire, accepted) /\ ep.writes # <<>>
      /\ x.op = "pending" /\ UNCHANGED <<drain, accepted>>
      /\ wire \in Bytes /\ accepted \in Bytes
  BY DEF IInv, Good, WriteCompletes
<1>2. /\ ep.writes \in Seq(WriteType) /\ Len(ep.writes) = 1 /\ x \in WriteType
      /\ InFlight(ep) = x.buf /\ ~WriteFailed(ep)
  <2>1. ep.writes \in Seq(WriteType) /\ Len(ep.writes) <= 1
    BY <1>1 DEF EpType, Good, Writing
  <2>2. Len(ep.writes) = 1 /\ x \in WriteType
    BY <1>1, <2>1, OneElement
  <2>3. InFlight(ep) = x.buf /\ ~WriteFailed(ep)
    BY <1>1 DEF InFlight, WriteFailed
  <2> QED
    BY <2>1, <2>2, <2>3
<1>3. x.buf \in Bytes
  BY <1>2 DEF WriteType
<1>4. ep.calls # <<"flushed">>
  BY <1>1 DEF Good, Delivery
<1>5. ASSUME NEW o \in {"ok", "err"}, ep' = [ep EXCEPT !.writes[1].op = o]
      PROVE  /\ ep' \in EpType /\ Ends(ep, ep')
             /\ Cleanup(ep') /\ Writing(ep') /\ Reading(ep', Len(drain'))
             /\ Unstarted(ep') /\ Attempting(ep')
             /\ ep'.writes # <<>> /\ ep'.writes[1].op = o /\ ep'.state = ep.state
             /\ ep'.queue = ep.queue /\ ep'.calls = ep.calls
  <2> DEFINE ws == [ep.writes EXCEPT ![1].op = o]
  <2>1. [x EXCEPT !.op = o] \in WriteType
    BY <1>2 DEF WriteType, Ops
  <2>2. ws \in Seq(WriteType) /\ Len(ws) = 1 /\ ws # <<>> /\ ws[1].op = o
    BY <1>2, <2>1 DEF WriteType
  <2>3. ep' = [ep EXCEPT !.writes = ws]
    BY <1>5
  <2> HIDE DEF ws
  <2>4. ep' \in EpType
    BY Zenon, <1>1, <2>2, <2>3 DEF EpType
  <2>5. /\ ep'.started = ep.started /\ ep'.state = ep.state /\ ep'.writes = ws
        /\ ep'.handled = ep.handled /\ ep'.reconnects = ep.reconnects
        /\ ep'.posted = ep.posted /\ ep'.reads = ep.reads /\ ep'.timer = ep.timer
        /\ ep'.sending = ep.sending /\ ep'.flushing = ep.flushing
        /\ ep'.connects = ep.connects
        /\ ep'.queue = ep.queue /\ ep'.handler = ep.handler /\ ep'.calls = ep.calls
    BY <1>1, <2>3 DEF EpType
  <2>6. Cleanup(ep') /\ Attempting(ep') /\ Unstarted(ep') /\ Ends(ep, ep')
    BY <1>1, <2>5 DEF Good, Cleanup, Attempting, Unstarted, Ends, Ended
  <2>7. Reading(ep', Len(drain'))
    BY <1>1, <2>5 DEF Good, Reading
  <2>8. Writing(ep')
    <3>1. ep.sending /\ ep.state \notin Early /\ Len(ep.queue) <= QueueLimit
      BY <1>1 DEF Good, Writing
    <3>2. ep'.writes[1].op # "abort"
      BY <2>2, <2>5
    <3>3. Len(ep'.writes) = 1
      BY <2>2, <2>5
    <3> QED
      BY <2>5, <3>1, <3>2, <3>3 DEF Writing
  <2> QED
    BY <2>2, <2>4, <2>5, <2>6, <2>7, <2>8
<1>6. CASE ep' = [ep EXCEPT !.writes[1].op = "ok"] /\ wire' = wire \o x.buf
  <2>1. /\ ep' \in EpType /\ Ends(ep, ep')
        /\ Cleanup(ep') /\ Writing(ep') /\ Reading(ep', Len(drain'))
        /\ Unstarted(ep') /\ Attempting(ep')
        /\ ep'.writes # <<>> /\ ep'.writes[1].op = "ok" /\ ep'.state = ep.state
        /\ ep'.queue = ep.queue /\ ep'.calls = ep.calls
    BY <1>5, <1>6
  <2>2. wire' \in Bytes /\ wire' \o <<>> = wire'
    BY <1>1, <1>3, <1>6, ConcatProperties, ConcatEmptySeq DEF Bytes
  <2>3. InFlight(ep') = <<>>
    BY <2>1 DEF InFlight
  <2>4. /\ IsPrefixOf(wire', accepted)
        /\ ep.state \notin Ended => wire' \o ep.queue = accepted
    BY Zenon, <1>1, <1>2, <1>6 DEF Good, Delivery
  <2>5. Delivery(ep', wire', accepted')
    BY <1>1, <1>4, <2>1, <2>2, <2>3, <2>4 DEF Delivery
  <2>6. Len(drain') \in Nat /\ accepted' \in Bytes
    BY <1>1 DEF Good
  <2> QED
    BY <2>1, <2>2, <2>5, <2>6 DEF Kept, Good
<1>7. ASSUME NEW n \in 0..(Len(x.buf) - 1), ep' = [ep EXCEPT !.writes[1].op = "err"],
             wire' = wire \o SubSeq(x.buf, 1, n)
      PROVE  Kept
  <2> DEFINE s1 == SubSeq(x.buf, 1, n)
             s2 == SubSeq(x.buf, n + 1, Len(x.buf))
  <2>1. /\ ep' \in EpType /\ Ends(ep, ep')
        /\ Cleanup(ep') /\ Writing(ep') /\ Reading(ep', Len(drain'))
        /\ Unstarted(ep') /\ Attempting(ep')
        /\ ep'.writes # <<>> /\ ep'.writes[1].op = "err" /\ ep'.state = ep.state
        /\ ep'.queue = ep.queue /\ ep'.calls = ep.calls
    BY <1>5, <1>7
  <2>2. s1 \in Bytes /\ s2 \in Bytes /\ s1 \o s2 = x.buf
    <3> HIDE DEF x
    <3> QED
      BY Zenon, <1>3, SplitBytes
  <2> HIDE DEF s1, s2
  <2>3. wire' = wire \o s1
    BY <1>7 DEF s1
  <2>4. wire' \in Bytes /\ wire' \o <<>> = wire'
    BY <1>1, <2>2, <2>3, ConcatProperties, ConcatEmptySeq DEF Bytes
  <2>5. wire' \o s2 = wire \o x.buf
    <3>1. (wire \o s1) \o s2 = wire \o (s1 \o s2)
      BY <1>1, <2>2, ConcatBytes, Zenon
    <3> QED
      BY <2>2, <2>3, <3>1
  <2>6. IsPrefixOf(wire', accepted)
    <3>1. IsPrefixOf(wire' \o s2, accepted)
      BY <1>1, <1>2, <2>5 DEF Good, Delivery
    <3> QED
      BY <1>1, <2>2, <2>4, <3>1, PrefixOfPart
  <2>7. InFlight(ep') = <<>> /\ WriteFailed(ep')
    BY <2>1 DEF InFlight, WriteFailed
  <2>8. Delivery(ep', wire', accepted')
    BY <1>1, <1>4, <2>1, <2>4, <2>6, <2>7 DEF Delivery
  <2>9. Len(drain') \in Nat /\ accepted' \in Bytes
    BY <1>1 DEF Good
  <2> QED
    BY <2>1, <2>4, <2>8, <2>9 DEF Kept, Good
<1> QED
  BY Zenon, <1>6, <1>7 DEF WriteCompletes

\* r is e except for its writes.
ButWrites(r, e) ==
    /\ r.state = e.state /\ r.started = e.started /\ r.sending = e.sending
    /\ r.flushing = e.flushing /\ r.reconnects = e.reconnects /\ r.queue = e.queue
    /\ r.handler = e.handler /\ r.calls = e.calls /\ r.handled = e.handled
    /\ r.timer = e.timer /\ r.posted = e.posted /\ r.connects = e.connects
    /\ r.reads = e.reads

\* A completed write may be forgotten, unless it failed on an endpoint that has
\* not ended.
LEMMA WriteForgotten ==
    ASSUME NEW e, NEW r \in EpType, NEW d, NEW w, NEW acc, Good(e, d, w, acc),
           ButWrites(r, e), r.writes = <<>>, e.writes # <<>>, e.writes[1].op # "pending",
           e.writes[1].op = "ok" \/ e.state \in Ended
    PROVE  Good(r, d, w, acc)
<1>1. Cleanup(r) /\ Reading(r, d) /\ Attempting(r) /\ Unstarted(r)
  BY DEF Good, ButWrites, Cleanup, Reading, Attempting, Unstarted
<1>2. Writing(r)
  BY DEF Good, ButWrites, Writing
<1>3. InFlight(r) = InFlight(e) /\ ~WriteFailed(r)
  BY DEF InFlight, WriteFailed
<1>4. e.state \notin Ended => ~WriteFailed(e)
  BY DEF WriteFailed
<1>5. Delivery(r, w, acc)
  BY Zenon, <1>3, <1>4 DEF Good, ButWrites, Delivery
<1> QED
  BY <1>1, <1>2, <1>5 DEF Good

\* What escalate_internal() does, field by field.
LEMMA EscalateFields ==
    ASSUME NEW e \in EpType
    PROVE  /\ Escalate(e).state = IF e.state \in Ended THEN e.state ELSE "FAILED"
           /\ Escalate(e).handler = IF e.state \in Ended THEN e.handler ELSE FALSE
           /\ Escalate(e).calls = IF e.state \in Ended \/ ~e.handler THEN e.calls
                                                                    ELSE Append(e.calls, "error")
           /\ Escalate(e).started = e.started /\ Escalate(e).sending = e.sending
           /\ Escalate(e).flushing = e.flushing /\ Escalate(e).reconnects = e.reconnects
           /\ Escalate(e).queue = e.queue /\ Escalate(e).handled = e.handled
           /\ Escalate(e).timer = e.timer /\ Escalate(e).posted = e.posted
           /\ Escalate(e).connects = e.connects /\ Escalate(e).reads = e.reads
           /\ Escalate(e).writes = e.writes
           /\ Escalate(e) \in EpType
<1>1. CASE e.state \in Ended
  BY <1>1 DEF Escalate, Ended
<1>2. CASE e.state \notin Ended
  <2> DEFINE cs == IF e.handler THEN Append(e.calls, "error") ELSE e.calls
             r == Escalate(e)
  <2>1. cs \in Seq(Calls)
    BY DEF EpType, Calls
  <2>2. r = [e EXCEPT !.state = "FAILED", !.handler = FALSE, !.calls = cs]
    BY <1>2 DEF Escalate, Ended
  <2> HIDE DEF r
  <2>3. /\ r.state = "FAILED" /\ r.handler = FALSE /\ r.calls = cs
        /\ r.started = e.started /\ r.sending = e.sending /\ r.flushing = e.flushing
        /\ r.reconnects = e.reconnects /\ r.queue = e.queue /\ r.handled = e.handled
        /\ r.timer = e.timer /\ r.posted = e.posted /\ r.connects = e.connects
        /\ r.reads = e.reads /\ r.writes = e.writes
    BY <2>2 DEF EpType
  <2>4. r \in EpType
    <3> HIDE DEF cs
    <3> QED
      BY <2>1, <2>2, Zenon DEF EpType, States
  <2> QED
    BY Zenon, <1>2, <2>3, <2>4 DEF r
<1> QED
  BY Zenon, <1>1, <1>2

\* send_cbk
LEMMA SendCallbackKept == ASSUME IInv, SendCallback PROVE Kept
<1> DEFINE e == [ep EXCEPT !.writes = Tail(@)]
           n == Len(drain)
<1>1. /\ ep \in EpType /\ Good(ep, n, wire, accepted) /\ ep.writes # <<>>
      /\ ep.writes[1].op # "pending" /\ UNCHANGED <<drain, accepted, wire>>
  BY DEF IInv, Good, SendCallback
<1>2. /\ ep.writes[1].op \in Ops /\ Tail(ep.writes) = <<>>
      /\ Tail(ep.writes) \in Seq(WriteType)
  <2>1. ep.writes \in Seq(WriteType) /\ Len(ep.writes) <= 1
    BY <1>1 DEF EpType, Good, Writing
  <2>2. ep.writes[1] \in WriteType /\ Tail(ep.writes) = <<>> /\ Tail(ep.writes) \in Seq(WriteType)
    BY <1>1, <2>1, OneElement
  <2> QED
    BY <2>2 DEF WriteType
<1>3. e \in EpType /\ ButWrites(e, ep) /\ e.writes = <<>>
  BY Zenon, <1>1, <1>2 DEF EpType, ButWrites
<1>4. ep' = CASE ep.writes[1].op = "ok" -> IF e.state = "CONNECTED" THEN SendBuffer(e) ELSE e
              [] ep.writes[1].op = "err" -> Escalate(e)
              [] ep.writes[1].op = "abort" -> e
  BY DEF SendCallback
<1> HIDE DEF e
<1>5. e.state = ep.state /\ e.started = ep.started
  BY <1>3 DEF ButWrites
<1>6. CASE ep.writes[1].op = "ok"
  <2>1. ep' = IF e.state = "CONNECTED" THEN SendBuffer(e) ELSE e
    BY <1>4, <1>6
  <2>2. Good(e, n, wire, accepted)
    BY <1>1, <1>3, <1>6, WriteForgotten
  <2>3. ep.started
    BY <1>1 DEF Good, Writing, Unstarted, EpType
  <2>4. Good(ep', n, wire, accepted) /\ ep'.state = ep.state
    BY Zenon, <1>3, <1>5, <2>1, <2>2, <2>3, SendBufferGood
  <2> QED
    BY <1>1, <2>4 DEF Kept, Ends, Ended
<1>7. CASE ep.writes[1].op = "err"
  <2> DEFINE y == Escalate(ep)
  <2>1. ep' = Escalate(e)
    BY <1>4, <1>7
  <2>2. Good(y, n, wire, accepted) /\ Ends(ep, y)
    BY <1>1, EscalateGood
  <2>3. y.state \in Ended /\ y.writes = ep.writes
    BY Zenon, <1>1, EscalateFields DEF Ended
  <2>4. ep' \in EpType /\ ep'.writes = <<>>
    BY Zenon, <1>3, <2>1, EscalateFields
  <2>5. ButWrites(ep', y)
    <3>1. e.state = ep.state /\ e.handler = ep.handler /\ e.calls = ep.calls
      BY <1>3 DEF ButWrites
    <3>2. ep'.state = y.state /\ ep'.handler = y.handler /\ ep'.calls = y.calls
      <4>1. CASE ep.state \in Ended
        BY <2>1, <3>1, <4>1 DEF Escalate, Ended
      <4>2. CASE ep.state \notin Ended
        <5>1. /\ ep'.state = "FAILED" /\ ep'.handler = FALSE
              /\ ep'.calls = IF e.handler THEN Append(e.calls, "error") ELSE e.calls
          BY <1>3, <2>1, <3>1, <4>2 DEF Escalate, Ended, EpType
        <5>2. /\ y.state = "FAILED" /\ y.handler = FALSE
              /\ y.calls = IF ep.handler THEN Append(ep.calls, "error") ELSE ep.calls
          BY <1>1, <4>2 DEF Escalate, Ended, EpType
        <5> HIDE DEF y
        <5> QED
          BY Zenon, <3>1, <5>1, <5>2
      <4> QED
        BY <4>1, <4>2
    <3>3. /\ ep'.started = e.started /\ ep'.sending = e.sending
          /\ ep'.flushing = e.flushing /\ ep'.reconnects = e.reconnects
          /\ ep'.queue = e.queue /\ ep'.handled = e.handled /\ ep'.timer = e.timer
          /\ ep'.posted = e.posted /\ ep'.connects = e.connects /\ ep'.reads = e.reads
      BY Zenon, <1>3, <2>1, EscalateFields
    <3>4. /\ y.started = ep.started /\ y.sending = ep.sending
          /\ y.flushing = ep.flushing /\ y.reconnects = ep.reconnects
          /\ y.queue = ep.queue /\ y.handled = ep.handled /\ y.timer = ep.timer
          /\ y.posted = ep.posted /\ y.connects = ep.connects /\ y.reads = ep.reads
      BY Zenon, <1>1, EscalateFields
    <3> HIDE DEF y
    <3> QED
      BY <1>3, <3>1, <3>2, <3>3, <3>4 DEF ButWrites
  <2> HIDE DEF y
  <2>6. Good(ep', n, wire, accepted)
    BY <1>1, <2>2, <2>3, <2>4, <2>5, WriteForgotten
  <2>7. Ends(ep, ep')
    BY <2>2, <2>5 DEF Ends, ButWrites
  <2> QED
    BY <1>1, <2>6, <2>7 DEF Kept
<1>8. CASE ep.writes[1].op = "abort"
  <2>1. ep' = e
    BY <1>4, <1>8
  <2>2. ep.state \in Ended
    BY <1>1, <1>8 DEF Good, Writing
  <2>3. Good(e, n, wire, accepted)
    BY <1>1, <1>3, <2>2, WriteForgotten
  <2> QED
    BY <1>1, <1>5, <2>1, <2>3 DEF Kept, Ends, Ended
<1> QED
  BY <1>1, <1>2, <1>6, <1>7, <1>8 DEF Ops

\* A read completes.
LEMMA ReadCompletesKept == ASSUME IInv, ReadCompletes PROVE Kept
<1>1. /\ ep \in EpType /\ Good(ep, Len(drain), wire, accepted) /\ ep.reads # <<>>
      /\ ep.handled <= Len(ep.calls) /\ UNCHANGED <<drain, accepted, wire>>
  BY DEF IInv, Good, ReadCompletes, Cleanup
<1>2. PICK o \in {"ok", "err"} : ep' = [ep EXCEPT !.reads[1] = o]
  BY DEF ReadCompletes
<1> DEFINE rs == [ep.reads EXCEPT ![1] = o]
<1>3. rs \in Seq(Ops) /\ Len(rs) = Len(ep.reads)
  <2>1. ep.reads \in Seq(Ops) /\ Len(ep.reads) \in Nat \ {0}
    BY <1>1, EmptySeq DEF EpType
  <2> QED
    BY <2>1, ExceptSeq DEF Ops
<1>4. ep' = [ep EXCEPT !.reads = rs]
  BY <1>2
<1> HIDE DEF rs
<1>5. ep' \in EpType
  BY Zenon, <1>1, <1>3, <1>4 DEF EpType
<1>6. /\ ep'.started = ep.started /\ ep'.state = ep.state /\ ep'.timer = ep.timer
      /\ ep'.handled = ep.handled /\ ep'.reconnects = ep.reconnects
      /\ ep'.posted = ep.posted /\ ep'.reads = rs /\ ep'.connects = ep.connects
      /\ ep'.sending = ep.sending /\ ep'.flushing = ep.flushing
      /\ ep'.queue = ep.queue /\ ep'.handler = ep.handler /\ ep'.calls = ep.calls
      /\ ep'.writes = ep.writes
  BY <1>1, <1>4 DEF EpType
<1>7. Unstarted(ep')
  BY <1>1, <1>6 DEF Good, Unstarted
<1> QED
  BY <1>1, <1>3, <1>5, <1>6, <1>7, Moves DEF Kept

\* r is e except for its reads and what is posted.
ButReads(r, e) ==
    /\ r.state = e.state /\ r.started = e.started /\ r.sending = e.sending
    /\ r.flushing = e.flushing /\ r.reconnects = e.reconnects /\ r.queue = e.queue
    /\ r.handler = e.handler /\ r.calls = e.calls /\ r.handled = e.handled
    /\ r.timer = e.timer /\ r.connects = e.connects /\ r.writes = e.writes

\* Where the reader is may change, as long as there is one only.
LEMMA ReaderMoves ==
    ASSUME NEW e, NEW r \in EpType, NEW d, NEW c \in Nat, NEW w, NEW acc,
           Good(e, d, w, acc), ButReads(r, e), Reading(r, c), e.started
    PROVE  Good(r, c, w, acc) /\ Ends(e, r)
<1>1. Cleanup(r) /\ Writing(r) /\ Attempting(r) /\ Unstarted(r) /\ Ends(e, r)
  BY DEF Good, ButReads, Cleanup, Writing, Attempting, Unstarted, Ends, Ended
<1>2. Delivery(r, w, acc)
  BY DeliveryKept DEF Good, ButReads
<1> QED
  BY <1>1, <1>2 DEF Good

\* A run of process() is one more element of drain.
LEMMA Entered ==
    ASSUME drain \in Seq(DrainType), NEW chunk \in Chunks,
           Enter(chunk, TRUE) \/ Enter(chunk, FALSE)
    PROVE  drain' \in Seq(DrainType) /\ Len(drain') = Len(drain) + 1
<1>1. chunk.msgs \in {<<>>, <<"data">>, <<"ack">>, <<"data", "ack">>}
      /\ chunk.rest \in {"clean", "partial", "bad"}
  BY DEF Chunks
<1>2. chunk.msgs \in Seq({"data", "ack"})
  <2>1. /\ <<>> \in Seq({"data", "ack"}) /\ <<"data">> \in Seq({"data", "ack"})
        /\ <<"ack">> \in Seq({"data", "ack"}) /\ <<"data", "ack">> \in Seq({"data", "ack"})
    OBVIOUS
  <2> QED
    BY Zenon, <1>1, <2>1
<1>3. PICK initial \in BOOLEAN :
          drain' = Append(drain, [msgs |-> chunk.msgs, rest |-> chunk.rest, initial |-> initial])
  BY Zenon DEF Enter
<1> DEFINE x == [msgs |-> chunk.msgs, rest |-> chunk.rest, initial |-> initial]
<1>4. x \in DrainType
  BY <1>1, <1>2 DEF DrainType
<1>5. drain' = Append(drain, x)
  BY <1>3
<1> HIDE DEF x
<1> QED
  BY <1>4, <1>5

\* Two numbers that make one, the first of which is not zero.
LEMMA OneAndNone ==
    ASSUME NEW i \in Nat \ {0}, NEW j \in Nat, i + j <= 1
    PROVE  i = 1 /\ j = 0
OBVIOUS

\* receive_cbk: the reader is now a run of process(), or there is none.
LEMMA ReceiveCallbackKept == ASSUME IInv, ReceiveCallback PROVE Kept /\ drain' \in Seq(DrainType)
<1> DEFINE e == [ep EXCEPT !.reads = Tail(@)]
           n == Len(drain)
<1>1. /\ ep \in EpType /\ Good(ep, n, wire, accepted) /\ ep.reads # <<>>
      /\ UNCHANGED <<accepted, wire>> /\ drain \in Seq(DrainType)
  BY DEF IInv, Good, ReceiveCallback
<1>2. /\ ep.reads \in Seq(Ops) /\ Len(ep.reads) = 1 /\ n = 0 /\ Tail(ep.reads) \in Seq(Ops)
      /\ Len(Tail(ep.reads)) = 0
  <2>1. /\ ep.reads \in Seq(Ops) /\ Len(ep.reads) \in Nat \ {0} /\ n \in Nat
        /\ Len(ep.reads) + n <= 1
    BY <1>1, EmptySeq DEF EpType, Good, Reading
  <2>2. Len(ep.reads) = 1 /\ n = 0
    BY Zenon, <2>1, OneAndNone
  <2> QED
    BY <1>1, <2>1, <2>2, OneElement
<1>3. ep.started /\ "start" \notin ep.posted /\ ep.state \notin Early
  BY <1>1, <1>2 DEF Good, Reading, EpType
<1>4. e \in EpType
  BY Zenon, <1>1, <1>2 DEF EpType
<1>5. ButReads(e, ep) /\ e.posted = ep.posted /\ Len(e.reads) = 0
  BY <1>1, <1>2 DEF EpType, ButReads
<1> HIDE DEF e
<1>6. Reading(e, 0) /\ Reading(e, 1)
  BY <1>3, <1>5 DEF Reading, ButReads
<1>7. Good(e, 0, wire, accepted) /\ Good(e, 1, wire, accepted) /\ Ends(ep, e)
  BY <1>1, <1>3, <1>4, <1>5, <1>6, ReaderMoves
<1>8. CASE ep' = e /\ \E chunk \in Chunks : Enter(chunk, FALSE)
  <2>1. drain' \in Seq(DrainType) /\ Len(drain') = 1
    <3>1. PICK chunk \in Chunks : Enter(chunk, FALSE)
      BY Zenon, <1>8
    <3>2. drain' \in Seq(DrainType) /\ Len(drain') = Len(drain) + 1
      BY <1>1, <3>1, Entered, Zenon
    <3> QED
      BY <1>2, <3>2
  <2> QED
    BY <1>1, <1>7, <1>8, <2>1 DEF Kept
<1>9. CASE ep' = Escalate(e) /\ UNCHANGED drain
  <2>1. Good(ep', 0, wire, accepted) /\ Ends(e, ep')
    BY <1>7, <1>9, EscalateGood
  <2> QED
    BY <1>1, <1>2, <1>5, <1>9, <2>1 DEF Kept, Ends, ButReads
<1>10. CASE ep' = e /\ UNCHANGED drain
  BY <1>1, <1>2, <1>7, <1>10 DEF Kept
<1> QED
  BY Zenon, <1>8, <1>9, <1>10 DEF ReceiveCallback, e

\* The handler start() posted: the reader is now a run of process().
LEMMA PostedStartKept == ASSUME IInv, PostedStart PROVE Kept /\ drain' \in Seq(DrainType)
<1> DEFINE n == Len(drain)
<1>1. /\ ep \in EpType /\ Good(ep, n, wire, accepted) /\ "start" \in ep.posted
      /\ UNCHANGED <<accepted, wire>> /\ drain \in Seq(DrainType)
      /\ ep' = [ep EXCEPT !.posted = @ \ {"start"}]
  BY DEF IInv, Good, PostedStart
<1>2. Len(ep.reads) = 0 /\ n = 0
  <2>1. Len(ep.reads) \in Nat /\ n \in Nat
    BY <1>1 DEF EpType
  <2> QED
    BY <1>1, <2>1 DEF Good, Reading
<1>3. ep.started /\ ep.state \notin Early
  BY <1>1 DEF Good, Reading, EpType
<1>4. ep' \in EpType
  BY Zenon, <1>1 DEF EpType
<1>5. ButReads(ep', ep) /\ ep'.posted = ep.posted \ {"start"} /\ ep'.reads = ep.reads
  BY <1>1 DEF EpType, ButReads
<1>6. Reading(ep', 0) /\ Reading(ep', 1)
  BY <1>2, <1>3, <1>5 DEF Reading, ButReads
<1>7. Good(ep', 0, wire, accepted) /\ Good(ep', 1, wire, accepted) /\ Ends(ep, ep')
  BY <1>1, <1>3, <1>4, <1>5, <1>6, ReaderMoves
<1>8. CASE \E chunk \in Chunks : Enter(chunk, TRUE)
  <2>1. drain' \in Seq(DrainType) /\ Len(drain') = 1
    <3>1. PICK chunk \in Chunks : Enter(chunk, TRUE)
      BY Zenon, <1>8
    <3>2. drain' \in Seq(DrainType) /\ Len(drain') = Len(drain) + 1
      BY <1>1, <3>1, Entered, Zenon
    <3> QED
      BY <1>2, <3>2
  <2> QED
    BY <1>1, <1>7, <2>1 DEF Kept
<1>9. CASE UNCHANGED drain
  BY <1>1, <1>2, <1>7, <1>9 DEF Kept
<1> QED
  BY Zenon, <1>8, <1>9 DEF PostedStart

\* The handler trigger_error() posted.
LEMMA PostedErrorKept == ASSUME IInv, PostedError PROVE Kept
<1> DEFINE e == [ep EXCEPT !.posted = @ \ {"error"}]
<1>1. /\ ep \in EpType /\ Good(ep, Len(drain), wire, accepted) /\ ep.started
      /\ ep.handled <= Len(ep.calls) /\ UNCHANGED <<drain, accepted, wire>>
      /\ ep' = Escalate(e)
  BY DEF IInv, Good, PostedError, Cleanup, Unstarted, EpType
<1>2. e \in EpType
  BY Zenon, <1>1 DEF EpType
<1>3. /\ e.started = ep.started /\ e.state = ep.state
      /\ e.handled = ep.handled /\ e.reconnects = ep.reconnects
      /\ e.posted = ep.posted \ {"error"} /\ e.reads = ep.reads
      /\ e.sending = ep.sending /\ e.flushing = ep.flushing
      /\ e.queue = ep.queue /\ e.handler = ep.handler /\ e.calls = ep.calls
      /\ e.writes = ep.writes
  BY Zenon, <1>1 DEF EpType
<1> HIDE DEF e
<1>4. Unstarted(e)
  BY <1>1, <1>3 DEF Unstarted
<1>5. Good(e, Len(drain), wire, accepted)
  BY Zenon, <1>1, <1>2, <1>3, <1>4, Moves
<1>6. Good(ep', Len(drain), wire, accepted) /\ Ends(e, ep')
  BY <1>1, <1>5, EscalateGood
<1> QED
  BY <1>1, <1>3, <1>6 DEF Kept, Ends

\* One turn of the loop of process().
LEMMA ProcessMessageKept == ASSUME IInv, ProcessMessage PROVE Kept /\ drain' \in Seq(DrainType)
<1> DEFINE e == [ep EXCEPT !.assigned = TRUE]
           n == Len(drain)
           ms == Tail(drain[1].msgs)
<1>1. /\ ep \in EpType /\ Good(ep, n, wire, accepted) /\ drain \in Seq(DrainType)
      /\ drain # <<>> /\ drain[1].msgs # <<>> /\ UNCHANGED <<accepted, wire>>
      /\ ep.handled <= Len(ep.calls)
  BY DEF IInv, Good, ProcessMessage, Cleanup
<1>2. drain' \in Seq(DrainType) /\ Len(drain') = n
  <2>1. Len(drain) \in Nat \ {0} /\ drain[1] \in DrainType
    BY <1>1, EmptySeq
  <2>2. ms \in Seq({"data", "ack"})
    BY <1>1, <2>1 DEF DrainType
  <2>3. [drain[1] EXCEPT !.msgs = ms] \in DrainType
    <3> HIDE DEF ms
    <3> QED
      BY <2>1, <2>2 DEF DrainType
  <2>4. drain' = [drain EXCEPT ![1] = [drain[1] EXCEPT !.msgs = ms]]
    BY DEF ProcessMessage
  <2> HIDE DEF ms
  <2> QED
    BY <1>1, <2>1, <2>3, <2>4, ExceptSeq
<1>3. e \in EpType
  BY Zenon, <1>1 DEF EpType
<1>4. /\ e.started = ep.started /\ e.state = ep.state /\ e.timer = ep.timer
      /\ e.handled = ep.handled /\ e.reconnects = ep.reconnects /\ e.connects = ep.connects
      /\ e.posted = ep.posted /\ e.reads = ep.reads
      /\ e.sending = ep.sending /\ e.flushing = ep.flushing
      /\ e.queue = ep.queue /\ e.handler = ep.handler /\ e.calls = ep.calls
      /\ e.writes = ep.writes
  BY <1>1 DEF EpType
<1>5. ep' = ep \/ ep' = TimerStop(e, "assignment")
  BY DEF ProcessMessage
<1> HIDE DEF e
<1>6. Unstarted(e)
  BY <1>1, <1>4 DEF Good, Unstarted
<1>7. Good(e, n, wire, accepted)
  BY <1>1, <1>3, <1>4, <1>6, Moves
<1>8. CASE ep' = ep
  BY <1>1, <1>2, <1>8 DEF Kept, Ends, Ended
<1>9. CASE ep' = TimerStop(e, "assignment")
  <2>1. Good(ep', n, wire, accepted) /\ ep'.state = e.state
    BY <1>7, <1>9, TimerStopGood DEF Timers, ButTimers
  <2> QED
    BY <1>1, <1>2, <1>4, <2>1 DEF Kept, Ends, Ended
<1> QED
  BY <1>5, <1>8, <1>9

\* process() after its loop.
LEMMA ProcessEndKept == ASSUME IInv, ProcessEnd PROVE Kept /\ drain' \in Seq(DrainType)
<1> DEFINE n == Len(drain)
<1>1. /\ ep \in EpType /\ Good(ep, n, wire, accepted) /\ drain \in Seq(DrainType)
      /\ drain # <<>> /\ UNCHANGED <<accepted, wire>>
      /\ ep' = Processed(ep, drain[1]) /\ drain' = Tail(drain)
  BY DEF IInv, Good, ProcessEnd
<1>2. n = 1 /\ Len(drain') = 0 /\ drain' \in Seq(DrainType)
  <2>1. n \in Nat \ {0} /\ Len(ep.reads) \in Nat /\ Len(ep.reads) + n <= 1
    BY <1>1, EmptySeq DEF EpType, Good, Reading
  <2>2. n + Len(ep.reads) <= 1
    BY <2>1
  <2>3. n = 1
    BY Zenon, <2>1, <2>2, OneAndNone
  <2> QED
    BY <1>1, <2>3, OneElement
<1>3. Good(ep', 0, wire, accepted) /\ Ends(ep, ep')
  BY <1>1, <1>2, ProcessedGood
<1> QED
  BY <1>1, <1>2, <1>3 DEF Kept

\* The interval of a timer passes.
LEMMA TimerFiresKept == ASSUME IInv, NEW t \in Timers, TimerFires(t) PROVE Kept
<1>1. /\ ep \in EpType /\ Good(ep, Len(drain), wire, accepted) /\ ep.started
      /\ ep.handled <= Len(ep.calls) /\ UNCHANGED <<drain, accepted, wire>>
      /\ ep' = [ep EXCEPT !.timer[t] = "task"]
  BY DEF IInv, Good, TimerFires, Cleanup, Unstarted, EpType
<1>2. ep' \in EpType
  BY Zenon, <1>1 DEF EpType, TimerStates
<1>3. /\ ep'.started = ep.started /\ ep'.state = ep.state
      /\ ep'.handled = ep.handled /\ ep'.reconnects = ep.reconnects
      /\ ep'.posted = ep.posted /\ ep'.reads = ep.reads
      /\ ep'.sending = ep.sending /\ ep'.flushing = ep.flushing
      /\ ep'.queue = ep.queue /\ ep'.handler = ep.handler /\ ep'.calls = ep.calls
      /\ ep'.writes = ep.writes
  BY Zenon, <1>1 DEF EpType
<1>4. Unstarted(ep')
  BY <1>1, <1>3 DEF Unstarted
<1> QED
  BY Zenon, <1>1, <1>2, <1>3, <1>4, Moves DEF Kept

\* A task of a timer: the part of the endpoint it runs, then the end of the task.
LEMMA TimerTaskKept == ASSUME IInv, NEW t \in Timers, TimerTask(t) PROVE Kept
<1> DEFINE n == Len(drain)
<1>1. /\ ep \in EpType /\ Good(ep, n, wire, accepted) /\ ep.started
      /\ UNCHANGED <<drain, accepted, wire>>
  BY Zenon DEF IInv, Good, TimerTask, Unstarted, EpType
<1>2. PICK r : ep' = TimerDone(r, t) /\ Good(r, n, wire, accepted) /\ Ends(ep, r)
  <2>1. CASE \E prepared \in BOOLEAN : ep' = TimerDone(ConnectUnlock(ep, prepared), t)
    BY <1>1, <2>1, ConnectUnlockGood
  <2>2. CASE ep' = TimerDone(ConnectCbk(ep, "err", TRUE, FALSE), t)
    BY <1>1, <2>2, ConnectCbkGood, Zenon
  <2>3. CASE ep' = TimerDone(IF ep.assigned THEN ep ELSE Escalate(ep), t)
    <3>1. Ends(ep, ep)
      BY DEF Ends, Ended
    <3> QED
      BY <1>1, <2>3, <3>1, EscalateGood
  <2>4. CASE ep' = TimerDone(Escalate(ep), t)
    BY <1>1, <2>4, EscalateGood
  <2> QED
    BY Zenon, <2>1, <2>2, <2>3, <2>4 DEF TimerTask
<1>3. Good(ep', n, wire, accepted) /\ ep'.state = r.state
  BY <1>2, TimerDoneGood DEF ButTimers
<1> QED
  BY <1>1, <1>2, <1>3 DEF Kept, Ends

-----------------------------------------------------------------------------

StoppingType == [Stoppers -> {NotStopping} \cup 0..MaxRetries]

\* Only stop_internal() moves the waiting threads, within its retries.
LEMMA StoppingKept ==
    ASSUME IInv, Next
    PROVE  stopping' \in StoppingType
<1>1. stopping \in StoppingType /\ Good(ep, Len(drain), wire, accepted)
  BY DEF IInv, StoppingType
<1>2. ASSUME NEW due \in BOOLEAN, Stop(due) PROVE stopping' \in StoppingType
  <2>1. StopInternal(ep, "owner", due)
    BY <1>2 DEF Stop
  <2> QED
    BY <1>1, <2>1, StopInternalGood DEF Stoppers, StoppingType
<1>3. CASE CleanupHandler
  <2> DEFINE e == [ep EXCEPT !.handled = @ + 1]
             due == ep.calls[ep.handled + 1] = "error"
  <2>1. StopInternal(e, "handler", due)
    BY <1>3 DEF CleanupHandler
  <2>2. stopping' = stopping \/ stopping' = [stopping EXCEPT !["handler"] = 0]
    <3> HIDE DEF e, due
    <3> QED
      BY <2>1 DEF StopInternal
  <2> QED
    BY <1>1, <2>2, LimitsAssumption DEF StoppingType, Stoppers
<1>4. ASSUME NEW t \in Stoppers, StopRetry(t) PROVE stopping' \in StoppingType
  <2>1. stopping[t] \in 0..MaxRetries
    BY <1>1, <1>4 DEF StopRetry, StoppingType
  <2>2. CASE stopping' = [stopping EXCEPT ![t] = @ + 1] /\ stopping[t] + 1 <= MaxRetries
    <3>1. stopping[t] + 1 \in 0..MaxRetries
      BY <2>1, <2>2, LimitsAssumption
    <3> QED
      BY <1>1, <2>2, <3>1 DEF StoppingType
  <2>3. CASE stopping' = [stopping EXCEPT ![t] = NotStopping]
    BY <1>1, <2>3 DEF StoppingType
  <2> QED
    BY <1>4, <2>2, <2>3 DEF StopRetry
<1>5. CASE UNCHANGED stopping
  BY <1>1, <1>5
<1>6. CASE OwnerCalls
  BY Zenon, <1>2, <1>5, <1>6 DEF OwnerCalls, Start, Send, StartFlushing, TriggerError
<1>7. CASE Callbacks
  <2>1. \/ UNCHANGED stopping \/ CleanupHandler \/ \E t \in Stoppers : StopRetry(t)
    BY Zenon, <1>7 DEF Callbacks, ConnectCallback, SendCallback, ReceiveCallback, PostedStart,
                PostedError, ProcessMessage, ProcessEnd, TimerTask
  <2> QED
    BY <1>3, <1>4, <1>5, <2>1
<1>8. CASE Completions
  BY Zenon, <1>5, <1>8 DEF Completions, ConnectCompletes, WriteCompletes, ReadCompletes
<1>9. CASE \E t \in Timers : TimerFires(t)
  BY <1>5, <1>9 DEF TimerFires
<1> QED
  BY <1>6, <1>7, <1>8, <1>9 DEF Next

\* Every action keeps the endpoint good.
LEMMA NextKept ==
    ASSUME IInv, Next
    PROVE  Kept /\ drain' \in Seq(DrainType)
<1>1. drain \in Seq(DrainType)
  BY DEF IInv
<1>2. CASE OwnerCalls
  <2>1. UNCHANGED drain
    BY Zenon, <1>2 DEF OwnerCalls, Start, Send, StartFlushing, TriggerError, Stop
  <2>2. Kept
    BY <1>2, StartKept, SendKept, StartFlushingKept, TriggerErrorKept, StopKept DEF OwnerCalls
  <2> QED
    BY <1>1, <2>1, <2>2
<1>3. ASSUME NEW a \in Attempts, ConnectCallback(a) PROVE Kept /\ drain' = drain
  BY <1>3, ConnectCallbackKept DEF ConnectCallback
<1>4. CASE SendCallback \/ PostedError \/ CleanupHandler
  BY Zenon, <1>1, <1>4, SendCallbackKept, PostedErrorKept, CleanupHandlerKept
     DEF SendCallback, PostedError, CleanupHandler
<1>5. CASE ReceiveCallback \/ PostedStart \/ ProcessMessage \/ ProcessEnd
  BY <1>5, ReceiveCallbackKept, PostedStartKept, ProcessMessageKept, ProcessEndKept
<1>6. ASSUME NEW t \in Stoppers, StopRetry(t) PROVE Kept /\ drain' = drain
  BY <1>6, StopRetryKept DEF StopRetry
<1>7. ASSUME NEW t \in Timers, TimerTask(t) PROVE Kept /\ drain' = drain
  BY Zenon, <1>7, TimerTaskKept DEF TimerTask
<1>8. CASE Callbacks
  BY <1>1, <1>3, <1>4, <1>5, <1>6, <1>7, <1>8 DEF Callbacks
<1>9. ASSUME NEW a \in Attempts, ConnectCompletes(a) PROVE Kept /\ drain' = drain
  BY Zenon, <1>9, ConnectCompletesKept DEF ConnectCompletes
<1>10. CASE WriteCompletes \/ ReadCompletes
  BY Zenon, <1>1, <1>10, WriteCompletesKept, ReadCompletesKept DEF WriteCompletes, ReadCompletes
<1>11. CASE Completions
  BY <1>1, <1>9, <1>10, <1>11 DEF Completions
<1>12. ASSUME NEW t \in Timers, TimerFires(t) PROVE Kept /\ drain' = drain
  BY <1>12, TimerFiresKept DEF TimerFires
<1> QED
  BY <1>1, <1>2, <1>8, <1>11, <1>12 DEF Next

\* A new endpoint satisfies the invariant.
LEMMA InitGood == Init => IInv
<1> SUFFICES ASSUME Init PROVE IInv
  OBVIOUS
<1>1. PICK kind \in Kinds :
       ep = [kind       |-> kind,
             state      |-> IF kind = "server" THEN "CONNECTED" ELSE "INIT",
             started    |-> FALSE,
             sending    |-> FALSE,
             flushing   |-> FALSE,
             assigned   |-> kind # "router",
             reconnects |-> 0,
             queue      |-> <<>>,
             handler    |-> TRUE,
             calls      |-> <<>>,
             handled    |-> 0,
             timer      |-> [t \in Timers |-> "off"],
             posted     |-> {},
             sock       |-> IF kind = "server" THEN "connected" ELSE "closed",
             connects   |-> [a \in Attempts |-> "none"],
             writes     |-> <<>>,
             reads      |-> <<>>]
  BY Zenon DEF Init
<1>2. ep \in EpType
  <2>1. /\ (kind # "router") \in BOOLEAN /\ 0 \in 0..(MaxReconnects + 1)
        /\ (IF kind = "server" THEN "CONNECTED" ELSE "INIT") \in States
        /\ (IF kind = "server" THEN "connected" ELSE "closed") \in {"closed", "open", "connected"}
    BY LimitsAssumption DEF States
  <2>2. /\ [t \in Timers |-> "off"] \in [Timers -> TimerStates]
        /\ [a \in Attempts |-> "none"] \in [Attempts -> OpStates]
    BY DEF TimerStates, OpStates
  <2>3. <<>> \in Bytes /\ <<>> \in Seq(Calls) /\ <<>> \in Seq(WriteType) /\ <<>> \in Seq(Ops)
    BY DEF Bytes
  <2> QED
    BY <1>1, <2>1, <2>2, <2>3 DEF EpType
<1>3. /\ ep.state \in {"CONNECTED", "INIT"} /\ ~ep.started /\ ~ep.sending /\ ~ep.flushing
      /\ ep.reconnects = 0 /\ ep.queue = <<>> /\ ep.handler /\ ep.calls = <<>>
      /\ ep.handled = 0 /\ ep.timer = [t \in Timers |-> "off"] /\ ep.posted = {}
      /\ ep.connects = [a \in Attempts |-> "none"] /\ ep.writes = <<>> /\ ep.reads = <<>>
  BY <1>1
<1>4. /\ drain = <<>> /\ stopping = [t \in Stoppers |-> NotStopping]
      /\ accepted = <<>> /\ wire = <<>>
  BY DEF Init
<1>5. Cleanup(ep) /\ Writing(ep) /\ Reading(ep, 0) /\ Unstarted(ep) /\ Attempting(ep)
  BY <1>3, LimitsAssumption DEF Cleanup, Writing, Reading, Unstarted, Attempting, Early
<1>6. Delivery(ep, wire, accepted)
  <2>1. InFlight(ep) = <<>> /\ <<>> \o <<>> = <<>> /\ IsPrefixOf(<<>>, <<>>)
    BY <1>3, ConcatEmptySeq, EmptySeq DEF InFlight, IsPrefixOf
  <2> QED
    BY <1>3, <1>4, <2>1 DEF Delivery
<1>7. /\ Len(drain) = 0 /\ drain \in Seq(DrainType) /\ wire \in Bytes /\ accepted \in Bytes
      /\ stopping \in [Stoppers -> {NotStopping} \cup 0..MaxRetries]
  BY <1>4 DEF Bytes
<1> QED
  BY <1>2, <1>5, <1>6, <1>7 DEF IInv, Good

\* The invariant of a local endpoint, through every order of calls, completions,
\* callbacks and timers.
THEOREM EndpointInvariant == Spec => []IInv
<1>1. IInv /\ [Next]_vars => IInv'
  <2> SUFFICES ASSUME IInv, [Next]_vars PROVE IInv'
    OBVIOUS
  <2>1. CASE Next
    <3>1. Kept /\ drain' \in Seq(DrainType) /\ stopping' \in StoppingType
      BY <2>1, NextKept, StoppingKept
    <3> QED
      BY <3>1 DEF IInv, Kept, StoppingType
  <2>2. CASE UNCHANGED vars
    BY <2>2 DEF IInv, vars
  <2> QED
    BY <2>1, <2>2
<1> QED
  BY <1>1, InitGood, PTL DEF Spec

\* A local endpoint calls its cleanup handler once, has one operation of a kind
\* outstanding, delivers what send() accepted in order and without a gap, flushes
\* completely before it reports a flush, and keeps its queue within the limit.
THEOREM EndpointIsSound == Spec => []EndpointSound
<1>1. IInv => EndpointSound
  <2> SUFFICES ASSUME IInv PROVE EndpointSound
    OBVIOUS
  <2>1. Good(ep, Len(drain), wire, accepted) /\ ep \in EpType
    BY DEF IInv, Good
  <2>2. TypeOK
    <3>1. ep.handled \in 0..Len(ep.calls)
      BY <2>1 DEF Good, Cleanup, EpType
    <3>2. /\ ep.kind \in Kinds /\ ep.state \in States
          /\ {ep.started, ep.sending, ep.flushing, ep.assigned, ep.handler} \subseteq BOOLEAN
          /\ ep.reconnects \in 0..(MaxReconnects + 1)
          /\ ep.timer \in [Timers -> {"off", "on", "task", "task_on"}]
          /\ ep.posted \subseteq {"start", "error"}
          /\ ep.sock \in {"closed", "open", "connected"}
          /\ ep.connects \in [Attempts -> OpStates]
      BY <2>1 DEF EpType, TimerStates
    <3> QED
      BY <3>1, <3>2 DEF TypeOK, IInv
  <2>3. CleanupOnce
    BY <2>1 DEF Good, Cleanup, CleanupOnce
  <2>4. OneOperation
    BY <2>1 DEF Good, Writing, Reading, OneOperation
  <2>5. SendOrder
    <3>1. InFlight(ep) \in Bytes /\ wire \in Bytes /\ accepted \in Bytes
      BY <2>1, InFlightIsBytes DEF Good
    <3>2. IsPrefixOf(wire, accepted)
      BY <2>1, <3>1, PrefixOfPart DEF Good, Delivery
    <3> QED
      BY Zenon, <2>1, <3>2 DEF Good, Delivery, SendOrder, Ended
  <2>6. QueueBound
    BY <2>1 DEF Good, Writing, QueueBound
  <2> QED
    BY <2>2, <2>3, <2>4, <2>5, <2>6 DEF EndpointSound
<1> QED
  BY <1>1, EndpointInvariant, PTL

\* "Non-restartable": no late completion, timer or call revives a local endpoint
\* that failed or stopped.
THEOREM EndpointStaysEnded == Spec => NotRevived
<1>1. IInv /\ [Next]_vars => [StaysEnded]_vars
  <2> SUFFICES ASSUME IInv, Next PROVE StaysEnded
    OBVIOUS
  <2>1. Kept
    BY NextKept
  <2> QED
    BY <2>1 DEF Kept, Ends, Ended, StaysEnded
<1> QED
  BY <1>1, EndpointInvariant, PTL DEF Spec, NotRevived
=============================================================================
