---------------------------- MODULE TpReassembly ----------------------------
(***************************************************************************)
(* SOME/IP-TP: a message too long for a datagram is cut into segments      *)
(* (tp_split_message) and put together again by the receiver's             *)
(* tp_reassembler, one tp_message per sender and message identifier.  The  *)
(* network may lose, repeat and reorder datagrams.  A timer removes what   *)
(* is never completed.                                                     *)
(*                                                                         *)
(* Lengths are in units of 16 bytes, the granularity of segment offsets    *)
(* and the length of the SOME/IP header.  A message of session s consists  *)
(* of the units <<s, 0>>, <<s, 1>>, ...  All messages have one identifier: *)
(* entries of different senders or identifiers do not touch each other.    *)
(***************************************************************************)
EXTENDS Integers, Sequences, FiniteSets

CONSTANTS
    Sessions,       \* messages, one session each; sent in any order
    Length,         \* per session, the payload in units
    SegmentLength,  \* _max_segment_length
    MaxMessageSize, \* max_message_size_
    MaxDeliveries,  \* bound: datagrams that reach the receiver
    Period,         \* the cleanup period and the age limit
    Horizon         \* bound: the clock stops here

VARIABLES
    now,
    entry,      \* tp_messages_: NoEntry, or the message being put together
    timer,      \* deadline of cleanup_timer_, NoTimer
    running,    \* cleanup_timer_running_
    arriving,   \* the datagram between cleanup_timer_start and the table
    delivered,  \* datagrams that have arrived
    result      \* messages handed to the routing host

vars == <<now, entry, timer, running, arriving, delivered, result>>

NoEntry == [session |-> 0]
NoSegment == [session |-> 0]
NoTimer == Horizon + Period + 1
Header == 1

Original(s) == [i \in 1..Length[s] |-> <<s, i - 1>>]
Fill == <<0, 0>>

-----------------------------------------------------------------------------
(* Cutting *)

tp_split_message(s) ==
    LET last(k) == k + SegmentLength >= Length[s]
    IN  {[session |-> s, start |-> k, more |-> ~last(k),
          end |-> IF last(k) THEN Length[s] - 1 ELSE k + SegmentLength - 1] :
           k \in {i * SegmentLength : i \in 0..Length[s]} \cap 0..(Length[s] - 1)}

Segments == UNION {tp_split_message(s) : s \in Sessions}

-----------------------------------------------------------------------------
(* Putting together *)

Size(seg) == seg.end - seg.start + 1

\* The conditions on the sizes a datagram declares of itself hold for what
\* tp_split_message builds; those on the message remain.
check_lengths(current, seg) ==
    /\ current + Size(seg) <= MaxMessageSize
    /\ seg.end + 1 <= MaxMessageSize

Units(seg, lo, hi) == [i \in 1..(hi - lo + 1) |-> <<seg.session, lo + i - 1>>]

Enlarged(buffer, size) ==
    buffer \o [i \in 1..(IF size > Len(buffer) THEN size - Len(buffer) ELSE 0) |-> Fill]

Written(buffer, seg, lo, hi) ==
    LET b == Enlarged(buffer, hi + 1)
    IN  [i \in 1..Len(b) |-> IF i - 1 \in lo..hi THEN <<seg.session, i - 1>> ELSE b[i]]

\* The constructor: the first segment that arrives need not be the first of
\* the message.
tp_message(seg) ==
    LET empty == [session |-> seg.session, segments |-> {}, last |-> FALSE,
                  message |-> <<>>, size |-> 0, created |-> now]
    IN  IF ~check_lengths(0, seg) THEN empty
        ELSE [empty EXCEPT
                !.segments = {[start |-> seg.start, end |-> seg.end]},
                !.message = Written(<<>>, seg, seg.start, seg.end),
                !.last = seg.start # 0 /\ ~seg.more,
                !.size = Header + Size(seg)]

\* std::set orders segments by start, then by end.
Before(a, b) == a.start < b.start \/ (a.start = b.start /\ a.end < b.end)

\* What a new segment adds: the part between its neighbours.
Trimmed(segments, seg) ==
    LET prev == {p \in segments : Before(p, seg)}
        next == {n \in segments : Before(seg, n)}
        lo == IF \E p \in prev : p.end >= seg.start
              THEN (CHOOSE p \in prev : \A q \in prev \ {p} : Before(q, p)).end + 1
              ELSE seg.start
        hi == IF \E n \in next : seg.end >= n.start
              THEN (CHOOSE n \in next : \A q \in next \ {n} : Before(n, q)).start - 1
              ELSE seg.end
    IN  [start |-> lo, end |-> hi]

Complete(e) ==
    /\ e.last
    /\ \A a \in e.segments :
          a.start = 0 \/ \E b \in e.segments : b.end + 1 = a.start

\* The result: the message, and whether this segment completed it.
add_segment(e, seg) ==
    LET s == [start |-> seg.start, end |-> seg.end]
        t == Trimmed(e.segments, s)
        ignored == seg.end < t.start
        e1 == IF ignored THEN e
              ELSE [e EXCEPT !.segments = @ \cup {t},
                             !.message = Written(@, seg, t.start, t.end),
                             !.size = @ + (t.end - t.start + 1)]
        e2 == [e1 EXCEPT !.last = @ \/ ~seg.more]
    IN  IF ~check_lengths(e.size, seg) \/ s \in e.segments
        THEN [entry |-> e, complete |-> FALSE]
        ELSE [entry |-> e2, complete |-> Complete(e2)]

-----------------------------------------------------------------------------
(* The reassembler *)

process_tp_message(e, seg) ==
    IF e = NoEntry \/ e.session # seg.session
    THEN [entry |-> tp_message(seg), complete |-> FALSE]
    ELSE add_segment(e, seg)

Init ==
    /\ now = 0
    /\ entry = NoEntry
    /\ timer = NoTimer
    /\ running = FALSE
    /\ arriving = NoSegment
    /\ delivered = 0
    /\ result = {}

cleanup_timer_start ==
    IF running THEN UNCHANGED <<timer, running>>
    ELSE timer' = now + Period /\ running' = TRUE

\* process_tp_message up to the lock of the table ...
Arrive(seg) ==
    /\ arriving = NoSegment
    /\ delivered < MaxDeliveries
    /\ delivered' = delivered + 1
    /\ arriving' = seg
    /\ cleanup_timer_start
    /\ UNCHANGED <<now, entry, result>>

\* ... and the rest; a complete message leaves the table for its receiver.
Process ==
    /\ arriving # NoSegment
    /\ arriving' = NoSegment
    /\ LET r == process_tp_message(entry, arriving)
       IN  /\ entry' = IF r.complete THEN NoEntry ELSE r.entry
           /\ result' = IF r.complete
                        THEN result \cup {[session |-> r.entry.session,
                                           message |-> r.entry.message]}
                        ELSE result
    /\ UNCHANGED <<now, timer, running, delivered>>

cleanup_unfinished_messages ==
    entry' = IF entry # NoEntry /\ now - entry.created > Period THEN NoEntry ELSE entry

cleanup_timer_cbk ==
    /\ timer = now
    /\ cleanup_unfinished_messages
    /\ running' = (entry' # NoEntry)
    /\ timer' = IF entry' # NoEntry THEN now + Period ELSE NoTimer
    /\ UNCHANGED <<now, arriving, delivered, result>>

\* The endpoint is stopped or restarted.
stop ==
    /\ timer' = NoTimer
    /\ UNCHANGED <<now, entry, running, arriving, delivered, result>>

\* A datagram is processed in less than a tick, and the timer is exact.
Tick ==
    /\ now < Horizon
    /\ timer > now
    /\ arriving = NoSegment
    /\ now' = now + 1
    /\ UNCHANGED <<entry, timer, running, arriving, delivered, result>>

Next ==
    \/ \E seg \in Segments : Arrive(seg)
    \/ Process
    \/ cleanup_timer_cbk
    \/ stop
    \/ Tick

Spec == Init /\ [][Next]_vars

-----------------------------------------------------------------------------

\* What the receiver is handed is a message as it was sent: complete, in order
\* and of one session, whatever segments were lost, repeated, reordered or
\* mixed with those of another message, and however the cleanup interfered.
Reassembled == \A r \in result : r.message = Original(r.session)

\* The buffer is as long as the furthest segment reaches and holds, at every
\* place a segment covers, the unit that was sent for it.
BufferHoldsSegments ==
    entry # NoEntry =>
        \A s \in entry.segments :
            /\ s.end < Len(entry.message)
            /\ \A k \in s.start..s.end : entry.message[k + 1] = <<entry.session, k>>

\* The comment in cleanup_unfinished_messages, "message is older than 5 seconds
\* delete it": nothing unfinished outlives two periods of the timer.
CleanedUp == entry # NoEntry => now - entry.created <= 2 * Period

=============================================================================
