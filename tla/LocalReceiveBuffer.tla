------------------------ MODULE LocalReceiveBuffer ------------------------
(***************************************************************************)
(* The buffer in which a local connection reassembles the byte stream of   *)
(* its peer into commands: local_receive_buffer.cpp, driven the way        *)
(* local_endpoint::process drives it.                                      *)
(*                                                                         *)
(* The peer's stream is a sequence of commands; a byte is a pair           *)
(* <<command number, offset in that command>>.  A command is a header of   *)
(* HeaderSize bytes, the length field last, and a body of that length.     *)
(* The socket hands over the stream in chunks of any size the buffer has   *)
(* room for.                                                               *)
(***************************************************************************)
EXTENDS Integers, Sequences

CONSTANTS HeaderSize,        \* COMMAND_HEADER_SIZE = COMMAND_POSITION_SIZE + 4
          LengthPos,         \* COMMAND_POSITION_SIZE
          InitialSize,       \* initial_buffer_size_
          MaxMessageLength,  \* max_message_length_
          ShrinkThreshold,   \* buffer_shrink_threshold_
          MaxUint32,         \* std::numeric_limits<uint32_t>::max()
          Lengths,           \* bound: the lengths peers send
          NumMessages        \* bound: how many commands the peer sends

VARIABLES lens,       \* the lengths of the commands the peer sends
          got,        \* bytes taken from the stream
          consumed,   \* bytes handed to the routing host
          delivered,  \* the commands handed to the routing host
          start, end, \* start_, end_
          size, cap,  \* mem_.size(), mem_.capacity()
          mem,        \* the bytes of mem_
          shrink_ct,  \* shrink_ct_
          sanity,     \* partial_message_timebox_ runs
          pc          \* receive: async_receive outstanding; drain: in the
                      \* loop of process(); failed: escalated

vars == <<lens, got, consumed, delivered, start, end, size, cap, mem, shrink_ct, sanity, pc>>

NoByte == <<0, 0>>
Bytes == end - start

\* The peer's stream.
Command(k) == [j \in 1..(HeaderSize + lens[k]) |-> <<k, j - 1>>]
StreamLen[k \in Nat] == IF k = 0 THEN 0 ELSE StreamLen[k - 1] + HeaderSize + lens[k]
StreamByte(i) ==
    LET k == CHOOSE m \in 1..NumMessages : StreamLen[m - 1] < i /\ i <= StreamLen[m]
    IN  Command(k)[i - StreamLen[k - 1]]

Init ==
    /\ lens \in [1..NumMessages -> Lengths]
    /\ got = 0 /\ consumed = 0 /\ delivered = <<>>
    /\ start = 0 /\ end = 0
    /\ size = InitialSize /\ cap = InitialSize
    /\ mem = [i \in 0..(InitialSize - 1) |-> NoByte]
    /\ shrink_ct = 0
    /\ sanity = FALSE
    /\ pc = "receive"

\* mem_.resize(n) for growing: the vector at least doubles when it reallocates.
Grown(n) == [i \in 0..(n - 1) |-> IF i < size THEN mem[i] ELSE NoByte]
GrownCap(n) == IF n <= cap THEN cap ELSE IF 2 * size > n THEN 2 * size ELSE n

\* receive_cbk without error: async_receive filled n bytes of buffer(), and
\* process() starts with bump_end(n).
Receive(n) ==
    /\ pc = "receive"
    /\ n \in 1..(size - end)
    /\ got + n <= StreamLen[NumMessages]
    /\ mem' = [i \in 0..(size - 1) |->
                  IF i \in end..(end + n - 1) THEN StreamByte(got + 1 + i - end) ELSE mem[i]]
    /\ end' = end + n
    /\ got' = got + n
    /\ pc' = "drain"
    /\ UNCHANGED <<lens, consumed, delivered, start, size, cap, shrink_ct, sanity>>

HasHeader == Bytes >= HeaderSize
\* The length field of the command at the front of the buffer.
Length == lens[mem[start + LengthPos][1]]
MessageSize == Length + HeaderSize

\* Bug: shift_front() moves the offsets but not the bytes.
Rearm_NoCopy(newSize, newCap, newMem, incomplete) ==
    /\ size' = newSize
    /\ cap' = newCap
    /\ mem' = newMem
    /\ start' = 0
    /\ end' = Bytes
    /\ sanity' = incomplete
    /\ pc' = "receive"
    /\ UNCHANGED <<lens, got, consumed, delivered>>

\* What process() does once next_message() found no further command: the
\* sanity timer, shift_front() and the next async_receive.
Rearm(newSize, newCap, newMem, incomplete) ==
    /\ size' = newSize
    /\ cap' = newCap
    /\ mem' = [i \in 0..(newSize - 1) |-> IF i < Bytes THEN newMem[i + start] ELSE newMem[i]]
    /\ start' = 0
    /\ end' = Bytes
    /\ sanity' = incomplete
    /\ pc' = "receive"
    /\ UNCHANGED <<lens, got, consumed, delivered>>

\* next_message() reports an error: too long, or not representable.
NextError ==
    /\ pc = "drain" /\ HasHeader
    /\ \/ Length > MaxMessageLength
       \/ MessageSize <= Bytes /\ MessageSize > MaxUint32
    /\ pc' = "failed"
    /\ UNCHANGED <<lens, got, consumed, delivered, start, end, size, cap, mem, shrink_ct, sanity>>

\* next_message() returns a command; process() hands it to the routing host.
NextMessage ==
    /\ pc = "drain" /\ HasHeader
    /\ Length <= MaxMessageLength /\ MessageSize <= Bytes /\ MessageSize <= MaxUint32
    /\ delivered' = Append(delivered, [j \in 1..MessageSize |-> mem[start + j - 1]])
    /\ start' = start + MessageSize
    /\ consumed' = consumed + MessageSize
    /\ shrink_ct' = IF cap = InitialSize \/ MessageSize > cap \div 2 THEN 0 ELSE shrink_ct + 1
    /\ UNCHANGED <<lens, got, end, size, cap, mem, sanity, pc>>

\* next_message() found only the beginning of a command: it makes room for
\* the whole command.
NextIncomplete ==
    /\ pc = "drain" /\ HasHeader
    /\ Length <= MaxMessageLength /\ MessageSize > Bytes
    /\ IF MessageSize > size
         THEN Rearm(MessageSize, GrownCap(MessageSize), Grown(MessageSize), TRUE)
         ELSE Rearm(size, cap, mem, TRUE)
    /\ UNCHANGED shrink_ct

ShrinkNow == /\ Bytes = 0
             /\ ShrinkThreshold > 0 /\ shrink_ct >= ShrinkThreshold
             /\ size > InitialSize

\* next_message() found less than a header: it makes room for a header, or
\* shrinks the empty buffer.
NextNoHeader ==
    /\ pc = "drain" /\ ~HasHeader
    /\ IF size - Bytes < HeaderSize
         THEN /\ Rearm(Bytes + HeaderSize, GrownCap(Bytes + HeaderSize),
                       Grown(Bytes + HeaderSize), FALSE)
              /\ UNCHANGED shrink_ct
         ELSE IF ShrinkNow
                THEN Rearm(InitialSize, InitialSize, mem, FALSE) /\ shrink_ct' = 0
                ELSE Rearm(size, cap, mem, FALSE) /\ UNCHANGED shrink_ct

Drain == NextError \/ NextMessage \/ NextIncomplete \/ NextNoHeader

Next == (\E n \in 1..(size - end) : Receive(n)) \/ Drain

Spec == Init /\ [][Next]_vars

\* The socket delivers what the peer sent, and process() runs to its end.
FairSpec == Spec /\ WF_vars(Next)

-----------------------------------------------------------------------------

\* Includes local_receive_buffer.hpp's "Invariant: start_ <= end_ <= mem_.size()".
TypeOK ==
    /\ got \in Nat /\ consumed \in Nat
    /\ start \in 0..end /\ end \in 0..size
    /\ size \in 0..cap /\ cap \in Nat
    /\ shrink_ct \in Nat
    /\ sanity \in BOOLEAN
    /\ pc \in {"receive", "drain", "failed"}

\* Whenever process() puts the next async_receive on the socket, the buffer
\* offers it at least one byte, and the whole rest of a command whose header
\* has arrived: a read of zero bytes would complete at once and spin.
RoomToReceive ==
    pc = "receive" =>
        /\ start = 0
        /\ end < size
        /\ (HasHeader => MessageSize <= size)

\* Every command reaches the routing host whole, once and in order, because
\* growing, shrinking and shifting never lose, repeat or reorder a byte: the used
\* part of mem_ is the part of the stream after the delivered commands, and it
\* starts at the first byte of a command.
Framing ==
    /\ Bytes = got - consumed
    /\ \A i \in start..(end - 1) : mem[i] = StreamByte(consumed + 1 + i - start)
    /\ consumed = StreamLen[Len(delivered)]
    /\ \A k \in 1..Len(delivered) : delivered[k] = Command(k)

\* One large command costs memory once: the buffer never grows beyond the
\* largest allowed command (or two headers, should the initial size be tiny).
MemoryBound ==
    size <= InitialSize \/ size < 2 * HeaderSize \/ size <= MaxMessageLength + HeaderSize

\* All commands of a peer that sends none that is too long are delivered,
\* and a connection that fails has received one that is.
Delivered ==
    \/ Len(delivered) = NumMessages
    \/ /\ pc = "failed"
       /\ LET n == lens[Len(delivered) + 1]
          IN  n > MaxMessageLength \/ n + HeaderSize > MaxUint32
AllDelivered == <>[]Delivered
=============================================================================
