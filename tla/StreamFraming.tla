--------------------------- MODULE StreamFraming ---------------------------
(***************************************************************************)
(* Cutting a TCP byte stream into SOME/IP messages: the receive loop of a  *)
(* server's connection and of a client endpoint, which follow the same     *)
(* rules.  The stream arrives in pieces of any size; a buffer grows for a  *)
(* long message and shrinks again; magic cookies mark message boundaries.  *)
(*                                                                         *)
(* Lengths are in units of 4 bytes: the length field is known after two    *)
(* units, the header has four.  A unit of the stream is <<i, k>>, the k-th *)
(* of message i.                                                           *)
(***************************************************************************)
EXTENDS Naturals, Sequences

CONSTANTS
    Streams,         \* streams, each a sequence of [len, kind]
    MaxMessageSize,  \* max_message_size_
    Initial,         \* recv_buffer_size_initial_
    ShrinkThreshold  \* buffer_shrink_threshold_

VARIABLES
    stream,   \* the stream that is sent
    taken,    \* units that have arrived
    rx        \* the connection's receive state

vars == <<stream, taken, rx>>

LengthKnown == 2
FullHeader == 4      \* also the length of a magic cookie
NotFound == 1000000

RECURSIVE Flat(_, _)
Flat(s, i) ==
    IF i > Len(s) THEN <<>>
    ELSE [k \in 1..s[i].len |-> <<i, k - 1>>] \o Flat(s, i + 1)

Bytes == Flat(stream, 1)

Starts(b, o, kind) ==
    /\ o < Len(b)
    /\ b[o + 1][2] = 0
    /\ stream[b[o + 1][1]].kind = kind

\* Data that does not start with a message has no sensible length.
get_message_size(b) ==
    CASE Len(b) < LengthKnown -> 0
      [] Len(b) >= LengthKnown /\ b[1][2] = 0 -> stream[b[1][1]].len
      [] OTHER -> NotFound

is_magic_cookie(b) == Starts(b, 0, "cookie")

\* The first cookie that is followed by further data.
find_magic_cookie(b) ==
    LET found == {o \in 0..Len(b) : Len(b) > o + FullHeader /\ Starts(b, o, "cookie")}
    IN  IF found = {} THEN NotFound
        ELSE CHOOSE o \in found : \A p \in found : o <= p

Drop(b, n) == SubSeq(b, n + 1, Len(b))

calculate_shrink_count(r) ==
    IF ShrinkThreshold > 0 /\ r.cap # Initial
    THEN [r EXCEPT !.shrink = IF Len(r.buf) < r.cap \div 2 THEN @ + 1 ELSE 0]
    ELSE r

-----------------------------------------------------------------------------

\* A complete message is forwarded, unless it is a cookie or, as a cookie
\* within it shows, not really a message.
FullMessage(r) ==
    LET cookie == is_magic_cookie(r.buf)
        off    == find_magic_cookie(r.buf)
        cut    == ~cookie /\ r.cookies /\ off < get_message_size(r.buf)
    IN  [calculate_shrink_count(r) EXCEPT
            !.cookies = @ \/ cookie,
            !.out = IF cut \/ cookie THEN @ ELSE Append(@, r.buf[1][1]),
            !.buf = Drop(@, IF cut THEN off ELSE get_message_size(r.buf)),
            !.missing = 0]

\* The rest is not a complete message: give up if its header is wrong or no
\* length can be told, otherwise tell how much is missing.
Incomplete(r) ==
    LET size == get_message_size(r.buf) IN
        CASE Len(r.buf) >= FullHeader /\ Starts(r.buf, 0, "bad") ->
               [r EXCEPT !.closed = TRUE]
          [] size > Len(r.buf) -> [r EXCEPT !.missing = size - Len(r.buf)]
          [] LengthKnown > Len(r.buf) ->
               [r EXCEPT !.missing = LengthKnown - Len(r.buf)]
          [] r.cookies /\ Len(r.buf) >= LengthKnown ->
               [r EXCEPT !.buf = <<>>, !.cap = Initial, !.missing = 0]
          [] OTHER -> [r EXCEPT !.closed = TRUE]

\* The loop of receive_cbk.
RECURSIVE Scan(_)
Scan(r) ==
    LET size == get_message_size(r.buf)
        full == size >= FullHeader /\ size <= Len(r.buf)
        off  == find_magic_cookie(r.buf)
    IN  CASE size > MaxMessageSize -> [r EXCEPT !.closed = TRUE]
          [] full ->
               LET f == FullMessage(r) IN IF f.buf = <<>> THEN f ELSE Scan(f)
          [] ~full /\ r.cookies /\ off < Len(r.buf) ->
               Scan([r EXCEPT !.buf = Drop(@, off)])
          [] OTHER -> Incomplete(r)

\* After the loop: an incomplete message was moved to the front, which may
\* have made the room it needs.
receive_cbk(r) ==
    LET s == Scan(r)
        moved == s.buf # r.buf
    IN  IF moved /\ s.missing <= s.cap - Len(s.buf) THEN [s EXCEPT !.missing = 0] ELSE s

\* receive: left is the room handed to the socket.
receive(r) ==
    LET required == Len(r.buf) + r.missing IN
        CASE r.closed \/ Len(r.buf) > r.cap -> [r EXCEPT !.left = 0]
          [] r.missing > MaxMessageSize -> [r EXCEPT !.closed = TRUE, !.left = 0]
          [] r.missing \in 1..MaxMessageSize ->
               [r EXCEPT !.cap = IF @ < required THEN required ELSE @,
                         !.left = r.missing, !.missing = 0]
          [] r.missing = 0 /\ r.shrink > ShrinkThreshold /\ r.buf = <<>>
                /\ ShrinkThreshold > 0 ->
               [r EXCEPT !.cap = Initial, !.left = Initial, !.shrink = 0]
          [] OTHER -> [r EXCEPT !.left = r.cap - Len(r.buf)]

-----------------------------------------------------------------------------

Init ==
    /\ stream \in Streams
    /\ taken = 0
    /\ rx = [buf |-> <<>>, cap |-> Initial, missing |-> 0, shrink |-> 0,
             cookies |-> FALSE, out |-> <<>>, closed |-> FALSE, left |-> Initial]

\* The socket delivers n units.
Receive(n) ==
    /\ ~rx.closed
    /\ n <= rx.left
    /\ taken + n <= Len(Bytes)
    /\ taken' = taken + n
    /\ rx' = receive(receive_cbk(
                 [rx EXCEPT !.buf = @ \o SubSeq(Bytes, taken + 1, taken + n)]))
    /\ UNCHANGED stream

Next == \E n \in 1..(Initial + MaxMessageSize) : Receive(n)

Spec == Init /\ [][Next]_vars

-----------------------------------------------------------------------------

Position(i) == LET p[j \in 0..Len(stream)] ==
                       IF j = 0 THEN 0 ELSE p[j - 1] + stream[j].len
               IN  p[i]

Sound(m) == m.kind = "message" /\ m.len <= MaxMessageSize

\* However the stream is cut into pieces, the messages handed over are those
\* that have arrived completely, each once and in order, and no cookie; the
\* connection is given up only at a message that is too long or malformed,
\* and until then there is always room for the next piece.
Framed ==
    LET n == Len(rx.out)
        sent == {i \in 1..Len(stream) : stream[i].kind # "cookie"}
    IN  /\ \A a \in 1..n : \A b \in 1..n : a < b => rx.out[a] < rx.out[b]
        /\ \A i \in sent : Position(i) <= taken =>
              \/ \E a \in 1..n : rx.out[a] = i
              \/ \E j \in 1..i : stream[j].kind # "cookie" /\ ~Sound(stream[j])
        /\ \A a \in 1..n : rx.out[a] \in sent /\ Position(rx.out[a]) <= taken
        /\ rx.closed => \E i \in sent :
              ~Sound(stream[i]) /\ Position(i - 1) < taken
        /\ ~rx.closed => rx.left > 0

\* The buffer never holds more than one message and what arrived with its
\* end, although it grows with every long message.
BufferBound == rx.cap <= IF Initial > MaxMessageSize THEN Initial ELSE MaxMessageSize

=============================================================================
