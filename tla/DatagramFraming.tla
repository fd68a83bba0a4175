-------------------------- MODULE DatagramFraming --------------------------
(***************************************************************************)
(* Cutting a UDP datagram into SOME/IP messages, at the server endpoint    *)
(* and at the client endpoint.  A datagram is the sequence of the messages *)
(* its sender put into it and the number of units (4 bytes) of it that     *)
(* arrived.  A message has a length and a kind:                            *)
(*   "notify", "request"   an ordinary message;                            *)
(*   "sd"                  a service discovery message;                    *)
(*   "tp", "tp_foreign"    a segment of a long message, of a method        *)
(*                         configured for segmentation or of another;      *)
(*   "version"             a message of another protocol version;          *)
(*   "type"                a message with an unknown type or return code.  *)
(***************************************************************************)
EXTENDS Naturals, Sequences

CONSTANTS
    Lengths, Kinds, MaxMessages,
    MaxMessageSize,     \* max_message_size_
    MaxUdpMessageSize,  \* VSOMEIP_MAX_UDP_MESSAGE_SIZE
    SdPort              \* the server endpoint is the service discovery's own

VARIABLES datagram, arrived, server, client

vars == <<datagram, arrived, server, client>>

HeaderSize == 2
FullHeader == 4

Result == [out |-> <<>>, refused |-> <<>>, targets |-> {}]

\* Indices of messages: out were handed to the routing host or, segments, to
\* the reassembler, refused are reported with their header only (a wrong
\* version is answered), targets are the requests whose sender was recorded.
Deliver(res, i) == [res EXCEPT !.out = Append(@, i)]
Refuse(res, i) == [res EXCEPT !.refused = Append(@, i)]

Malformed(k) == k \in {"version", "type"}

get_message_size(i, remaining) ==
    IF remaining < HeaderSize THEN 0 ELSE datagram[i].len

RECURSIVE server_scan(_, _, _)

server_scan(i, rest, res) ==
    LET size == get_message_size(i, rest)
        kind == datagram[i].kind
        left == rest - size
        seen == IF kind = "request" THEN [res EXCEPT !.targets = @ \cup {i}] ELSE res
        more(r) == IF left > 0 THEN server_scan(i + 1, left, r) ELSE r
    IN  CASE size > MaxMessageSize -> res
          [] size <= MaxMessageSize /\ (size < FullHeader \/ size > rest) -> res
          [] kind = "version" -> Refuse(res, i)
          [] kind = "type" \/ (kind \in {"tp", "tp_foreign"} /\ SdPort) -> res
          [] kind = "tp_foreign" -> res
          [] kind = "sd" /\ size < left -> more(res)
          [] OTHER -> more(Deliver(seen, i))

on_message_received_unlocked(bytes) ==
    IF bytes > MaxUdpMessageSize \/ bytes < FullHeader THEN Result
    ELSE server_scan(1, bytes, Result)

RECURSIVE client_scan(_, _, _)
client_scan(i, rest, res) ==
    LET size == get_message_size(i, rest)
        kind == datagram[i].kind
        more(r) == IF rest - size > 0 THEN client_scan(i + 1, rest - size, r) ELSE r
    IN  CASE size > MaxMessageSize -> res
          [] size <= MaxMessageSize /\ (size <= HeaderSize \/ size > rest) -> res
          [] size >= FullHeader /\ kind = "version" -> Refuse(res, i)
          [] size >= FullHeader /\ kind = "type" -> res
          [] OTHER -> more(Deliver(res, i))

receive_cbk(bytes) ==
    IF bytes > MaxUdpMessageSize \/ bytes < FullHeader THEN Result
    ELSE client_scan(1, bytes, Result)

-----------------------------------------------------------------------------

Size(d) == LET p[j \in 0..Len(d)] == IF j = 0 THEN 0 ELSE p[j - 1] + d[j].len
           IN  p

Datagrams == UNION {[1..n -> [len : Lengths, kind : Kinds]] : n \in 1..MaxMessages}

\* The last message may promise more than the datagram holds.
Init ==
    /\ datagram \in Datagrams
    /\ arrived \in {Size(datagram)[Len(datagram)], Size(datagram)[Len(datagram)] - 1}
    /\ server = Result
    /\ client = Result

Next ==
    /\ server' = on_message_received_unlocked(arrived)
    /\ client' = receive_cbk(arrived)
    /\ UNCHANGED <<datagram, arrived>>

Spec == Init /\ [][Next]_vars

-----------------------------------------------------------------------------

InOrderAndWhole(res) ==
    \A a \in 1..Len(res.out) :
        /\ Size(datagram)[res.out[a]] <= arrived
        /\ \A b \in 1..(a - 1) : res.out[b] < res.out[a]
        /\ \A j \in 1..res.out[a] : datagram[j].len >= FullHeader => ~Malformed(datagram[j].kind)

\* What either side hands over are whole messages of the datagram, in order,
\* none of them behind a malformed one; a datagram of sound messages is
\* handed over completely, except for a discovery message that a longer rest
\* follows; the sender of a request is known before the request is.
Unpacked ==
    LET n == Len(datagram)
        sound == /\ arrived = Size(datagram)[n]
                 /\ arrived <= MaxUdpMessageSize
                 /\ \A i \in 1..n : /\ datagram[i].len \in FullHeader..MaxMessageSize
                                    /\ datagram[i].kind \in {"notify", "request", "sd"}
        short(i) == datagram[i].kind = "sd" /\ datagram[i].len < arrived - Size(datagram)[i]
    IN  /\ InOrderAndWhole(server) /\ InOrderAndWhole(client)
        /\ server.targets = {i \in 1..n : \E a \in 1..Len(server.out) :
                                server.out[a] = i /\ datagram[i].kind = "request"}
        /\ server # Result /\ sound =>
              /\ client.out = [i \in 1..n |-> i]
              /\ server.out = SelectSeq(client.out, LAMBDA i : ~short(i))

=============================================================================
