--------------------------- MODULE E2eProtection ---------------------------
(***************************************************************************)
(* End-to-end protection: the sender writes length, counter, data id and   *)
(* CRC into an event's message (protector::protect), the receiver judges   *)
(* what arrives (checker::check).  Between them messages are lost,         *)
(* repeated, overtaken, altered and taken for another event's.             *)
(*                                                                         *)
(* A message is a record of the parts the profiles tell apart: the bytes   *)
(* before the E2E header, the header's fields, the rest, and the size.  A  *)
(* CRC is the tuple of what it is computed over: two different tuples are  *)
(* taken to have different CRCs, so what is checked is which bytes are     *)
(* covered, and not the polynomials of crc.cpp.                            *)
(***************************************************************************)
EXTENDS Integers, Sequences, FiniteSets

CONSTANTS
    Configurations,  \* the configurations to choose from, see cfg below
    DataId,          \* the configured data id of an event: <<high byte, low byte>>
    MaxInFlight      \* bound: messages under way

VARIABLES
    cfg,          \* the configuration of both sides
    counter,      \* protector::counter_, per event and instance
    seen,         \* checker::counter_, per event and instance; -1 when there is none
    channel,      \* the messages under way
    sends,        \* how many messages were sent
    nr,           \* how many messages of an event and instance were protected
    last,         \* the number of the message that set `seen`
    verdict       \* what the checker said last, of which message

vars == <<cfg, counter, seen, channel, sends, nr, last, verdict>>

Profile == cfg.profile        \* "P01", "CSTM", "P04", "P05" or "P07"
Mode == cfg.mode              \* P01's data_id_mode: "BOTH", "LOW", "ALT" or "NIBBLE"
Keys == cfg.keys              \* the protected events with their instances; an event has its own protector and checker
Top == cfg.top                \* the largest counter value: 255 for P05, 65535 for P04
MaxDelta == cfg.max_delta_counter
MinSize == cfg.min_data_length  \* data_length_ / 8 + 1 for P01 and P05
MaxSize == cfg.max_data_length
Sizes == cfg.sizes            \* the sizes of the protected area
MaxSends == cfg.sends         \* bound: messages protected in a behaviour

NoVerdict == [status |-> "none"]

(* The profiles that keep a sequence: the others do not look at a counter. *)
Sequenced == Profile \in {"P04", "P05", "P07"}

(* What the protectors of an event share: P01 has one counter for all its  *)
(* instances, CSTM has none.                                               *)
CounterKey(k) == IF Profile = "P01" THEN CHOOSE l \in Keys : l[1] = k[1] ELSE k

MaxInstance == 255
InstanceAllowed(i) == Profile \in {"P04", "P05"} => i <= MaxInstance

(* verify_input(s) and is_buffer_length_valid; P01 and P05 have no upper limit. *)
verify_input(size) ==
    /\ size >= MinSize
    /\ Profile \in {"P04", "P07"} => size <= MaxSize

(* The profiles' compute_crc.  P04 and P07 cover all but the CRC itself;   *)
(* P05 and P01 add a data id that is not sent (all of it); the custom      *)
(* profile covers what follows the CRC.                                    *)
compute_crc_04(e, m) == <<m.before, m.len, m.ctr, m.id, m.rest>>
compute_crc_05(e, m) == <<m.before, m.ctr, m.rest, DataId[e]>>
compute_crc_07(e, m) == <<m.before, m.len, m.ctr, m.id, m.rest>>
compute_crc_custom(e, m) == <<m.rest>>
compute_crc_01(e, m) ==
    LET id == CASE Mode = "BOTH" -> DataId[e]
                [] Mode \in {"LOW", "NIBBLE"} -> <<DataId[e][2]>>
                [] OTHER -> <<>>
    IN <<id, m.before, m.ctr, m.id, m.rest>>

(* The data id as P04 sends it has the instance in its highest byte. *)
InstanceId(k) == <<k[2], DataId[k[1]]>>

(* What the application hands over: its header area holds nothing useful.  *)
Raw(k, size) == [before |-> 0, len |-> 0, ctr |-> 0, id |-> <<>>, crc |-> <<>>, rest |-> 0,
                 size |-> size, of |-> k, nr |-> 0, altered |-> FALSE]

(* The protectors fill in length, counter and data id, each its own way,   *)
(* and compute the CRC over the result.  P04 and P07 write the low 16 bits *)
(* of the size, although P07's field has 32.                               *)
protect_01(k, m, c) ==
    LET filled == [m EXCEPT !.ctr = c % 16,
                            !.id = IF Mode = "NIBBLE" THEN <<DataId[k[1]][1] % 16>> ELSE @]
    IN [filled EXCEPT !.crc = compute_crc_01(k[1], filled)]

protect_04(k, m, c) ==
    LET filled == [m EXCEPT !.len = m.size % 65536, !.ctr = c, !.id = InstanceId(k)]
    IN [filled EXCEPT !.crc = compute_crc_04(k[1], filled)]

protect_05(k, m, c) ==
    LET filled == [m EXCEPT !.ctr = c]
    IN [filled EXCEPT !.crc = compute_crc_05(k[1], filled)]

protect_07(k, m, c) ==
    LET filled == [m EXCEPT !.len = m.size % 65536, !.ctr = c, !.id = DataId[k[1]]]
    IN [filled EXCEPT !.crc = compute_crc_07(k[1], filled)]

protect_custom(k, m, c) == [m EXCEPT !.crc = compute_crc_custom(k[1], m)]

increment_counter(c) == IF Profile = "P01" THEN (c + 1) % 15 ELSE (c + 1) % (Top + 1)

Protects(i, size) == InstanceAllowed(i) /\ verify_input(size)

Protected(k, size) ==
    LET m == [Raw(k, size) EXCEPT !.nr = nr[k] + 1]
        c == counter[CounterKey(k)]
    IN CASE Profile = "P01" -> protect_01(k, m, c)
         [] Profile = "P04" -> protect_04(k, m, c)
         [] Profile = "P05" -> protect_05(k, m, c)
         [] Profile = "P07" -> protect_07(k, m, c)
         [] OTHER -> protect_custom(k, m, c)

(* routing_manager_impl::send: the event's protector, when it accepts      *)
(* instance and size, fills the header and increments its counter; the     *)
(* message is sent in any case.                                            *)
protect(k, size) ==
    /\ Len(channel) < MaxInFlight
    /\ sends < MaxSends
    /\ sends' = sends + 1
    /\ IF Protects(k[2], size)
       THEN /\ channel' = Append(channel, Protected(k, size))
            /\ nr' = [nr EXCEPT ![k] = @ + 1]
            /\ counter' = [counter EXCEPT ![CounterKey(k)] = increment_counter(@)]
       ELSE /\ channel' = Append(channel, Raw(k, size))
            /\ UNCHANGED <<nr, counter>>
    /\ UNCHANGED <<cfg, seen, last, verdict>>

\* Bug: the distance of the counters, whichever is the greater.
delta_Distance(c, received) ==
    CASE c = -1 -> 0
      [] c # -1 /\ c < received -> received - c
      [] OTHER -> c - received

(* verify_counter: the difference to the counter checked before. *)
delta(c, received) ==
    CASE c = -1 -> 0
      [] c # -1 /\ c < received -> received - c
      [] OTHER -> (Top - c + received) % (Top + 1)

verify_counter(k, m) == delta(seen[k], m.ctr) <= MaxDelta

(* The profiles' check.  P04 and P07 compare data id and length before     *)
(* they look at the counter; P01 and the custom profile have no sequence.  *)
check_01(k, m) == IF m.crc = compute_crc_01(k[1], m) THEN "E2E_OK" ELSE "E2E_WRONG_CRC"
check_custom(k, m) == IF m.crc = compute_crc_custom(k[1], m) THEN "E2E_OK" ELSE "E2E_WRONG_CRC"

check_04(k, m) ==
    CASE m.crc # compute_crc_04(k[1], m) -> "E2E_WRONG_CRC"
      [] m.crc = compute_crc_04(k[1], m) /\ m.id = InstanceId(k) /\ m.len = m.size -> "COUNTER"
      [] OTHER -> "E2E_ERROR"

check_05(k, m) == IF m.crc = compute_crc_05(k[1], m) THEN "COUNTER" ELSE "E2E_WRONG_CRC"

check_07(k, m) ==
    CASE m.crc # compute_crc_07(k[1], m) -> "E2E_WRONG_CRC"
      [] m.crc = compute_crc_07(k[1], m) /\ m.id = DataId[k[1]] /\ m.len = m.size -> "COUNTER"
      [] OTHER -> "E2E_ERROR"

(* What is found before the counter is looked at: "COUNTER" when it decides. *)
Found(k, m) ==
    CASE ~ InstanceAllowed(k[2]) \/ ~ verify_input(m.size) -> "E2E_ERROR"
      [] Protects(k[2], m.size) /\ Profile = "P01" -> check_01(k, m)
      [] Protects(k[2], m.size) /\ Profile = "P04" -> check_04(k, m)
      [] Protects(k[2], m.size) /\ Profile = "P05" -> check_05(k, m)
      [] Protects(k[2], m.size) /\ Profile = "P07" -> check_07(k, m)
      [] OTHER -> check_custom(k, m)

Status(k, m) ==
    CASE Found(k, m) = "COUNTER" /\ verify_counter(k, m) -> "E2E_OK"
      [] Found(k, m) = "COUNTER" /\ ~ verify_counter(k, m) -> "E2E_ERROR"
      [] OTHER -> Found(k, m)

(* routing_manager_impl::on_message and checker::check. *)
check(k, m) ==
    /\ verdict' = [status |-> Status(k, m), msg |-> m, key |-> k, prev |-> last[k], had |-> seen[k]]
    /\ IF Found(k, m) = "COUNTER"
       THEN seen' = [seen EXCEPT ![k] = m.ctr] /\ last' = [last EXCEPT ![k] = m.nr]
       ELSE UNCHANGED <<seen, last>>

(* What the network may do to a message. *)
Alterations(m) ==
    {[m EXCEPT !.altered = TRUE, ![f] = 1 - @] : f \in {"before", "rest"}}
      \cup {[m EXCEPT !.altered = TRUE, !.ctr = (@ + 1) % (Top + 1)]}

RemoveAt(s, n) == SubSeq(s, 1, n - 1) \o SubSeq(s, n + 1, Len(s))

(* A message arrives: as it was sent, altered, or taken for one of another *)
(* event or instance; it may arrive again.                                 *)
Arrives ==
    \E n \in DOMAIN channel, again \in BOOLEAN :
        /\ channel' = IF again THEN channel ELSE RemoveAt(channel, n)
        /\ \/ check(channel[n].of, channel[n])
           \/ \E m \in Alterations(channel[n]) : check(channel[n].of, m)
           \/ \E k \in Keys \ {channel[n].of} : check(k, channel[n])
        /\ UNCHANGED <<cfg, counter, sends, nr>>

Lost ==
    \E n \in DOMAIN channel :
        /\ channel' = RemoveAt(channel, n)
        /\ UNCHANGED <<cfg, counter, seen, sends, nr, last, verdict>>

(* The receiver starts to listen when the sender has been at work already. *)
Init ==
    /\ cfg \in Configurations
    /\ \E start \in cfg.starts : counter = [k \in Keys |-> start]
    /\ seen = [k \in Keys |-> -1]
    /\ channel = <<>>
    /\ sends = 0
    /\ nr = [k \in Keys |-> 0]
    /\ last = [k \in Keys |-> 0]
    /\ verdict = NoVerdict

Next ==
    \/ \E k \in Keys, size \in Sizes : protect(k, size)
    \/ Arrives
    \/ Lost

Accepted == verdict.status = "E2E_OK"

(* The instance is part of what P04 protects, not of the other profiles.   *)
SameOrigin(k, l) == k[1] = l[1] /\ (Profile = "P04" => k[2] = l[2])

(* An accepted message was protected, for this event (and, in P04, for     *)
(* this instance), and nothing the CRC covers was altered on the way: an   *)
(* altered message, one that was sent without protection, and one of       *)
(* another event are never judged E2E_OK.  The custom profile knows no     *)
(* data id and does not cover what precedes its CRC; P01 in mode ALT       *)
(* includes no data id.                                                    *)
AcceptedIsGenuine ==
    Accepted =>
        LET m == verdict.msg IN
        /\ m.crc # <<>>
        /\ Profile = "CSTM" => m.rest = 0
        /\ Profile # "CSTM" => ~ m.altered
        /\ (Profile # "CSTM" /\ ~ (Profile = "P01" /\ Mode = "ALT")) => SameOrigin(verdict.key, m.of)

(* How many messages after the one checked before. *)
Ahead == verdict.msg.nr - verdict.prev

(* Over a wrap of the counter the code's difference is one too small.      *)
Wrapped == verdict.had # -1 /\ verdict.msg.ctr < verdict.had

OfOneSequence == Sequenced /\ Accepted /\ verdict.had # -1 /\ verdict.msg.of = verdict.key

(* A message that P04, P05 or P07 accepts is newer than the one checked    *)
(* before, never a repetition or a latecomer, and at most                  *)
(* max_delta_counter ahead of it; where the counter wraps, one more.       *)
AcceptedIsInSequence ==
    OfOneSequence => Ahead \in 1 .. (IF Wrapped THEN MaxDelta + 1 ELSE MaxDelta)

(* A message that was protected, arrives unaltered where it belongs and is *)
(* the successor of the one checked before (or follows by at most          *)
(* max_delta_counter), is accepted: a gap, an alteration or a repetition   *)
(* before it does not condemn it.  Of sizes the length field can hold.     *)
GenuineIsAccepted ==
    (/\ verdict # NoVerdict
     /\ verdict.msg.crc # <<>> /\ ~ verdict.msg.altered /\ verdict.msg.of = verdict.key
     /\ verdict.msg.size < 65536
     /\ Sequenced /\ verdict.had # -1 => Ahead \in 1 .. MaxDelta)
        => Accepted

(* documentation/vsomeipConfiguration.md of max_delta_counter: "the        *)
(* maximum allowed difference between the counter value of the current     *)
(* message and the previous valid message".                                *)
DifferenceRespected == OfOneSequence => Ahead <= MaxDelta

(* e2e_tests.md of P07: "Length | 32-bit, supports large dynamic-size      *)
(* data": what is protected and arrives as sent is accepted, of any size.  *)
LargeIsAccepted ==
    (/\ Profile = "P07" /\ verdict # NoVerdict
     /\ verdict.msg.crc # <<>> /\ ~ verdict.msg.altered /\ verdict.msg.of = verdict.key
     /\ verdict.had = -1)
        => Accepted
=============================================================================
