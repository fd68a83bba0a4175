------------------------------ MODULE SdMessages ------------------------------
(***************************************************************************)
(* Service discovery messages: how eventgroup entries and their options    *)
(* are packed into messages of bounded size (message_impl, entry_impl),    *)
(* what the receiver reads back, and what service_discovery_impl does with *)
(* every eventgroup entry of a message: hand a subscription on, withdraw   *)
(* one, answer with a Nack, or nothing at all.                             *)
(*                                                                         *)
(* Two uses: "pack" adds entry data the way create_eventgroup_entry makes  *)
(* it and delivers the messages, "read" delivers one message of another    *)
(* stack in every way it can be wrong.                                     *)
(***************************************************************************)
EXTENDS Naturals, Sequences, FiniteSets, SequencesExt

CONSTANTS
  Groups,         \* eventgroups of the service
  OptionSets,     \* sets of options an entry is sent with
  MaxData,        \* bound: entry data added to one batch of messages
  MaxSize,        \* VSOMEIP_MAX_UDP_SD_PAYLOAD, less the empty message
  Inputs,         \* messages of other stacks
  Hosts           \* what the receiving host is like

VARIABLES
  data,           \* entry data added so far
  messages,       \* the messages they are packed into
  host,           \* the receiving host
  results         \* what was done with each entry of each message; <<>> before

vars == <<data, messages, host, results>>

EntrySize == 16
OptionSize == 12

EmptyMessage == [entries |-> <<>>, options |-> <<>>, size |-> 0, short |-> FALSE]

(***************************************************************************)
(* Packing.                                                                *)
(***************************************************************************)
\* find_option: an option equal to this one is shared by the entries
find_option(m, o) == \E i \in DOMAIN m.options : m.options[i] = o

\* the option index joins a run if it continues the run at either end
Continues(run, i) == run = <<>> \/ Head(run) = i + 1 \/ Last(run) + 1 = i
Joined(run, i) == IF run # <<>> /\ Head(run) = i + 1 THEN <<i>> \o run ELSE Append(run, i)

\* Bug: an option between two runs is taken for a part of the first one
assign_option_Adjacent(e, i) == [e EXCEPT !.runs[1] = Joined(@, i)]

\* an option that fits into neither of the two runs is left out
assign_option(e, i) ==
  IF Continues(e.runs[1], i) THEN [e EXCEPT !.runs[1] = Joined(@, i)]
  ELSE IF Continues(e.runs[2], i) THEN [e EXCEPT !.runs[2] = Joined(@, i)]
  ELSE e

\* message_impl::add_entry_data; order is the order of the option pointers
\* in its_options, the same for the entry and its companion
add_entry_data(m, entries, order) ==
  LET new == SelectSeq(order, LAMBDA o : ~find_option(m, o))
      options == m.options \o new
      index(o) == CHOOSE i \in DOMAIN options : options[i] = o
      assign(e) == FoldLeft(LAMBDA x, o : assign_option(x, index(o)), e, order)
  IN [m EXCEPT !.entries = @ \o [k \in DOMAIN entries |-> assign(entries[k])],
               !.options = options,
               !.size = @ + EntrySize * Len(entries) + OptionSize * Len(new)]

Fits(m) == m.size <= MaxSize

\* create_eventgroup_entry: a resubscription is a stop entry followed by the
\* subscription, both with the same options
EntriesOf(d) ==
  LET entry(ttl) == [kind |-> "subscribe", group |-> d.group, ttl |-> ttl, runs |-> <<<<>>, <<>>>>]
  IN IF d.again THEN <<entry(0), entry(1)>> ELSE <<entry(1)>>

\* service_discovery_impl::add_entry_data: what does not fit starts a new message
AddEntryData(d, order) ==
  LET more == add_entry_data(Last(messages), EntriesOf(d), order)
  IN /\ results = <<>>
     /\ messages' = IF Fits(more) THEN [messages EXCEPT ![Len(messages)] = more]
                    ELSE Append(messages, add_entry_data(EmptyMessage, EntriesOf(d), order))
     /\ data' = Append(data, d)
     /\ UNCHANGED <<host, results>>

(***************************************************************************)
(* The wire: a run is sent as its first index and a four bit count;        *)
(* options behind the first malformed one are lost.                        *)
(***************************************************************************)
OnWire(run) == [first |-> IF run = <<>> THEN 1 ELSE Head(run), num |-> Len(run) % 16]
FromWire(w) == [k \in 1..w.num |-> w.first + k - 1]

Serialized(e) == [kind |-> e.kind, group |-> e.group, ttl |-> e.ttl,
                  runs |-> [r \in 1..2 |-> OnWire(e.runs[r])]]
Deserialized(e) == [kind |-> e.kind, group |-> e.group, ttl |-> e.ttl,
                    runs |-> [r \in 1..2 |-> FromWire(e.runs[r])]]

DeserializedOptions(options) ==
  LET bad == {i \in DOMAIN options : options[i].type = "malformed"}
  IN SubSeq(options, 1, IF bad = {} THEN Len(options)
                        ELSE (CHOOSE i \in bad : \A j \in bad : i <= j) - 1)

Transmitted(m) ==
  [m EXCEPT !.entries = [k \in DOMAIN @ |-> Deserialized(Serialized(@[k]))],
            !.options = DeserializedOptions(@),
            !.size = OptionSize * Len(m.options)]

\* check_static_header_fields; codes of E_UNKNOWN and above pass
HeaderAccepted(h) == h.header /\ h.code # "low"

(***************************************************************************)
(* Reading an eventgroup entry.                                            *)
(***************************************************************************)
Illegal == 65535   \* ILLEGAL_PORT
Refs(e) == e.runs[1] \o e.runs[2]
Unset == [port |-> Illegal, reliable |-> FALSE, address |-> "none", l4 |-> "none"]
EndpointTypes == {"ip4", "ip6"}

check_ipv4_address(a) == a # "own" /\ a # "far"

\* what process_eventgroupentry knows while it goes through the options
Start == [first |-> Unset, second |-> Unset, clients |-> {0}, done |-> "no"]

\* the subscription is refused; nobody waits for an answer to a withdrawal
Refused(s, e) == [s EXCEPT !.done = IF e.ttl > 0 THEN "nack" ELSE "none"]

Slot(o) == [port |-> o.port, reliable |-> o.l4 = "tcp", address |-> o.address, l4 |-> o.l4]

\* an endpoint option takes the first free of two places; a third is passed over
EndpointRead(s, e, o) ==
  IF o.l4 = "unknown" THEN Refused(s, e)
  ELSE LET place == IF s.first.port = Illegal THEN "first"
                    ELSE IF s.second.port = Illegal THEN "second" ELSE "none"
           next == [s EXCEPT ![place] = Slot(o)]
           other == IF place = "first" THEN s.second ELSE s.first
       IN IF place = "none" THEN s
          ELSE IF \/ other.port # Illegal /\ other.reliable = Slot(o).reliable
                  \/ o.type = "ip4" /\ (~check_ipv4_address(o.address) \/ o.port = 0)
          THEN Refused(next, e)
          ELSE next

\* a second multicast option ends the reading of an acknowledgement
MulticastRead(s, o) ==
  IF s.first.port = Illegal THEN [s EXCEPT !.first = Slot(o)]
  ELSE [s EXCEPT !.second = Slot(o), !.done = "none"]

OptionRead(s, e, options, i) ==
  IF s.done # "no" THEN s
  ELSE IF i > Len(options)
  THEN [s EXCEPT !.done = IF e.kind = "subscribe" /\ e.ttl > 0 THEN "nack" ELSE "none"]
  ELSE LET o == options[i] IN
       CASE o.type \in EndpointTypes -> IF e.kind = "subscribe" THEN EndpointRead(s, e, o) ELSE s
         [] o.type = "multicast" -> IF e.kind = "ack" THEN MulticastRead(s, o) ELSE s
         [] o.type = "selective" -> [s EXCEPT !.clients = o.clients]
         [] o.type = "configuration" -> s
         [] OTHER -> IF e.ttl > 0 THEN Refused(s, e) ELSE s

\* reliability_nack of handle_eventgroup_subscription
ReliabilityMissing(h, s) ==
  LET has(reliable) == \E x \in {s.first, s.second} : x.port # Illegal /\ x.reliable = reliable
  IN CASE h.reliability = "unreliable" -> ~has(FALSE)
       [] h.reliability = "reliable" -> ~has(TRUE)
       [] h.reliability = "both" -> \/ Illegal \in {s.first.port, s.second.port}
                                    \/ s.first.reliable = s.second.reliable
       [] h.reliability = "unknown" -> FALSE

handle_eventgroup_subscription(h, e, s, stop, force) ==
  LET used == {x \in {s.first, s.second} : x.port # Illegal}
      nack == IF e.ttl > 0 THEN "nack" ELSE "none"
      out(x) == [what |-> x, force |-> x = "subscribe" /\ force, ends |-> used, clients |-> s.clients]
  IN IF \/ e.ttl > 0 /\ (ReliabilityMissing(h, s) \/ h.offered # "yes")
        \/ ~h.major
        \/ e.ttl > 0 /\ ~h.connected /\ \E x \in used : x.reliable
        \/ e.ttl > 0 /\ h.acceptance = "refused" /\ used # {}
     THEN out(nack)
     ELSE IF used = {} \/ (e.ttl = 0 /\ stop) THEN out("none")
     ELSE out(IF e.ttl = 0 THEN "unsubscribe" ELSE "subscribe")

\* an acknowledgement entry without a time to live is a Nack
Handled(h, e, s, stop, force) ==
  IF e.kind = "subscribe" THEN handle_eventgroup_subscription(h, e, s, stop, force)
  ELSE [what |-> IF e.ttl > 0 THEN "acknowledged" ELSE "refused",
        force |-> FALSE, ends |-> {}, clients |-> s.clients]

process_eventgroupentry(h, m, e, stop, force) ==
  LET refs == Refs(e)
      read == FoldLeft(LAMBDA s, i : OptionRead(s, e, m.options, i), Start, refs)
      out(x) == [what |-> x, force |-> FALSE, ends |-> {}, clients |-> {0}]
      nack == out(IF e.ttl > 0 THEN "nack" ELSE "none")
  IN IF e.group \notin h.known
     THEN IF e.kind = "subscribe" THEN nack ELSE out("remove")
     ELSE IF h.code # "ok" THEN nack
     ELSE IF /\ e.kind = "subscribe"
             /\ h.multicast \/ refs = <<>> \/ m.size < 12 \/ Len(m.options) < Len(refs)
     THEN nack
     ELSE IF e.kind = "subscribe" /\ m.short /\ e.ttl > 0 THEN out("none")
     ELSE IF read.done # "no" THEN out(read.done)
     ELSE Handled(h, e, read, stop, force)

(***************************************************************************)
(* Receiving a message: equal entries count once, the later one, and a     *)
(* stop entry followed by its subscription only forces initial events.     *)
(***************************************************************************)
matches(a, b, options) ==
  LET ends(e) == LET here == SelectSeq(Refs(e), LAMBDA i : i <= Len(options))
                 IN {options[here[k]] : k \in {k \in DOMAIN here : options[here[k]].type \in EndpointTypes}}
  IN /\ a.group = b.group
     /\ \/ a.runs = b.runs
        \/ /\ Len(Refs(a)) = Len(Refs(b))
           /\ ends(a) # {} /\ ends(b) # {}
           /\ ends(a) \subseteq ends(b)

has_same(m, k) ==
  \E j \in k + 1..Len(m.entries) :
    /\ m.entries[j].kind = m.entries[k].kind
    /\ m.entries[j].ttl = m.entries[k].ttl
    /\ matches(m.entries[k], m.entries[j], m.options)

has_opposite(m, k) ==
  \E j \in k + 1..Len(m.entries) :
    /\ m.entries[j].kind = "subscribe"
    /\ (m.entries[j].ttl = 0) # (m.entries[k].ttl = 0)
    /\ matches(m.entries[k], m.entries[j], m.options)

check_stop_subscribe_subscribe(m, k) ==
  m.entries[k].ttl = 0 /\ m.entries[k].kind = "subscribe" /\ has_opposite(m, k)

Skipped == [what |-> "skipped", force |-> FALSE, ends |-> {}, clients |-> {}]

\* the entry loop of service_discovery_impl::on_message
on_message(h, m) ==
  LET step(s, k) ==
        IF m.entries[k].kind = "subscribe" /\ has_same(m, k)
        THEN [s EXCEPT !.out = Append(@, Skipped)]
        ELSE LET stop == check_stop_subscribe_subscribe(m, k)
             IN [out |-> Append(s.out, process_eventgroupentry(h, m, m.entries[k], stop, s.stop)),
                 stop |-> stop]
  IN IF ~HeaderAccepted(h) THEN <<>>
     ELSE FoldLeft(step, [out |-> <<>>, stop |-> FALSE], [k \in DOMAIN m.entries |-> k]).out

Receive ==
  /\ results = <<>>
  /\ messages # <<EmptyMessage>>
  /\ results' = [k \in DOMAIN messages |-> on_message(host, Transmitted(messages[k]))]
  /\ UNCHANGED <<data, messages, host>>

PackInit == data = <<>> /\ messages = <<EmptyMessage>> /\ host \in Hosts /\ results = <<>>
ReadInit == data = <<>> /\ host \in Hosts /\ results = <<>> /\ \E m \in Inputs : messages = <<m>>

\* the order in which a message takes in options it does not have yet
Add ==
  /\ Len(data) < MaxData
  /\ \E g \in Groups \ {data[k].group : k \in DOMAIN data}, o \in OptionSets, again \in BOOLEAN :
       \E order \in SetToSeqs(o) : AddEntryData([group |-> g, options |-> o, again |-> again], order)

PackNext == Add \/ Receive
ReadNext == Receive

(***************************************************************************)
(* What it is for.                                                         *)
(***************************************************************************)
AllResults == FlattenSeq(results)

\* The entries of a batch, in the order of the data they were made from.
EntryIndex(k) == Cardinality({<<j, n>> \in (1..k) \X (1..2) : n <= Len(EntriesOf(data[j]))})

\* Every subscription packed into a batch of messages reaches the provider
\* once, with exactly the endpoints and the clients it was made with, and
\* asks for initial events exactly if it is a resubscription, however the
\* options of the batch are shared and split over messages
\* (message_impl::add_entry_data, entry_impl::assign_option against
\* process_eventgroupentry). Subscriptions of at most two options: a third
\* one may fit into neither of the two runs.
ArrivesAsMeant ==
  results # <<>> => \A k \in DOMAIN data :
    LET r == AllResults[EntryIndex(k)]
        selective == {o \in data[k].options : o.type = "selective"}
    IN Cardinality(data[k].options) <= 2 =>
         /\ r.what = "subscribe"
         /\ r.ends = {Slot(o) : o \in data[k].options \ selective}
         /\ r.clients = IF selective = {} THEN {0} ELSE UNION {o.clients : o \in selective}
         /\ r.force = data[k].again
         /\ data[k].again => AllResults[EntryIndex(k) - 1].what = "none"

\* No message is longer than an SD message may be.
SizeBound == \A k \in DOMAIN messages : messages[k].size <= MaxSize

\* When a Subscribe entry is in order: every option it refers to is there and
\* known, it names at most one endpoint of each transport among the first two,
\* valid ones, and those the events need; the host offers the service in that
\* version, has the TCP connection and lets the device subscribe.
InOrder(h, m, e) ==
  LET opts == [k \in DOMAIN Refs(e) |-> m.options[Refs(e)[k]]]
      ends == SelectSeq(opts, LAMBDA o : o.type \in EndpointTypes)
      used == SubSeq(ends, 1, IF Len(ends) < 2 THEN Len(ends) ELSE 2)
      transports == {used[k].l4 : k \in DOMAIN used}
  IN /\ e.group \in h.known /\ h.code = "ok" /\ ~h.multicast
     /\ \A k \in DOMAIN Refs(e) : Refs(e)[k] <= Len(m.options)
     /\ Len(Refs(e)) <= Len(m.options)
     /\ \A k \in DOMAIN opts : opts[k].type # "unknown"
     /\ \A k \in DOMAIN ends : ends[k].l4 # "unknown"
     /\ Len(used) = 2 => used[1].l4 # used[2].l4
     /\ \A k \in DOMAIN used : used[k].type = "ip4" => used[k].address = "near" /\ used[k].port # 0
     /\ (CASE h.reliability = "both" -> {"tcp", "udp"}
           [] h.reliability = "reliable" -> {"tcp"}
           [] h.reliability = "unreliable" -> {"udp"}
           [] OTHER -> {}) \subseteq transports
     /\ h.offered = "yes" /\ h.major
     /\ "tcp" \in transports => h.connected
     /\ h.acceptance = "refused" => transports = {}
     /\ Refs(e) # <<>>

\* A Subscribe entry of a message is handed on exactly if it is in order, and
\* a Subscribe that is not in order is answered with a Nack, except for a
\* message whose SOME/IP length is too short, and one that names no endpoint
\* where none is needed; a withdrawal and an acknowledgement in order never
\* cause a Nack (process_eventgroupentry, handle_eventgroup_subscription).
AnsweredByTheRules ==
  (results # <<>> /\ data = <<>> /\ results[1] # <<>>) =>
    LET m == Transmitted(messages[1])
        e == m.entries[1]
        r == results[1][1]
        none == ~\E k \in DOMAIN Refs(e) : Refs(e)[k] <= Len(m.options) /\ m.options[Refs(e)[k]].type \in EndpointTypes
    IN /\ e.kind = "subscribe" /\ e.ttl > 0 =>
            /\ (r.what = "subscribe") = (InOrder(host, m, e) /\ ~m.short /\ ~none)
            /\ r.what # "subscribe" => r.what = "nack" \/ m.short \/ (none /\ InOrder(host, m, e))
       /\ e.ttl = 0 => r.what # "nack"
       /\ r.what = "subscribe" => Cardinality({x.reliable : x \in r.ends}) = Cardinality(r.ends)
=============================================================================
