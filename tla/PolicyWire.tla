---------------------------- MODULE PolicyWire -----------------------------
(***************************************************************************)
(* A policy on its way to other applications: which requests it opens to   *)
(* the users of the offered services (get_requester_policies), its bytes   *)
(* (policy::serialize) and their reading (policy::deserialize).  Interval  *)
(* maps are sequences of closed intervals <<lower, upper>> that do not     *)
(* overlap, with their values.                                             *)
(***************************************************************************)
EXTENDS Integers, Sequences, SequencesExt

CONSTANTS
    Policies,     \* the policies that are sent
    ANY_METHOD

VARIABLES
    policy,       \* a policy: uid, gid, requests, offers
    size          \* how many of its bytes arrive

Points(iv) == iv[1]..iv[2]
PointsOf(ivs) == UNION {Points(iv) : iv \in Range(ivs)}

\* requests: <<services, << <<instances, <<methods, ...>> >>, ... >> >>, ...
RequestPoints(requests) ==
    UNION {Points(r[1]) \X UNION {Points(j[1]) \X PointsOf(j[2]) : j \in Range(r[2])}
           : r \in Range(requests)}

-----------------------------------------------------------------------------
(* Requester policies: for every offered and every requested interval of   *)
(* services that overlap, the instances where the offered instances and    *)
(* the intervals k overlap, with the methods of the request.               *)

Overlap(a, b) == <<IF a[1] > b[1] THEN a[1] ELSE b[1], IF a[2] < b[2] THEN a[2] ELSE b[2]>>

get_requester_policies(offers, requests) ==
    UNION {Points(Overlap(o[1], r[1])) \X
               UNION {UNION {Points(Overlap(i, k)) \X PointsOf(j[2]) : k \in Range(j[2])}
                      : i \in Range(o[2]), j \in Range(r[2])}
           : o \in Range(offers), r \in Range(requests)}

-----------------------------------------------------------------------------
(* Writing.                                                                *)

U16(v) == <<v \div 256, v % 256>>
U32(v) == <<0, 0>> \o U16(v)                          \* lengths stay below 2^16
Sized(bytes) == U32(Len(bytes)) \o bytes
Concat(f(_), s) == FlattenSeq([n \in DOMAIN s |-> f(s[n])])

\* A single value or an interval: the length of the union, its type, values.
serialize_interval(iv) ==
    IF iv[1] = iv[2] THEN U32(2) \o U32(1) \o U16(iv[1])
    ELSE U32(4) \o U32(2) \o U16(iv[1]) \o U16(iv[2])

serialize_interval_set(ivs) == Sized(Concat(serialize_interval, ivs))

\* Every service of the interval is written with all its instances.
serialize_request(r) ==
    LET ids == Sized(Concat(LAMBDA j : serialize_interval_set(<<j[1]>>) \o
                                       serialize_interval_set(j[2]), r[2]))
    IN  FlattenSeq([n \in 1..(r[1][2] - r[1][1] + 1) |-> U16(r[1][1] + n - 1) \o ids])

serialize(p) ==
    U32(p.uid) \o U32(p.gid) \o Sized(Concat(serialize_request, p.requests)) \o U32(0)

-----------------------------------------------------------------------------
(* Reading.  A reader is the bytes that are left; a failed one has ok      *)
(* FALSE.  v is what was read.                                             *)

Fail == [ok |-> FALSE, rest |-> << >>, v |-> {}]
Read(ok, rest, v) == [ok |-> ok, rest |-> rest, v |-> v]

deserialize_u16(d) ==
    IF Len(d) < 2 THEN Fail ELSE Read(TRUE, SubSeq(d, 3, Len(d)), d[1] * 256 + d[2])
deserialize_u32(d) ==
    IF Len(d) < 4 THEN Fail
    ELSE Read(TRUE, SubSeq(d, 5, Len(d)), ((d[1] * 256 + d[2]) * 256 + d[3]) * 256 + d[4])

\* The unsigned length that remains; one that wraps is never used up.
Wrapped == 2147483647
Minus(length, used) == IF used > length THEN Wrapped ELSE length - used

\* The points of one item; an unknown type reads as the value 0.
deserialize_id_item(d) ==
    LET length == deserialize_u32(d)
        type == deserialize_u32(length.rest)
        low == deserialize_u16(type.rest)
        high == deserialize_u16(low.rest)
        From(l) == IF l = ANY_METHOD THEN 1 ELSE l
    IN  CASE ~length.ok \/ ~type.ok -> Fail
          [] type.v = 1 /\ length.v = 2 ->
                 IF ~low.ok \/ low.v = 0 THEN Fail ELSE Read(TRUE, low.rest, From(low.v)..low.v)
          [] type.v = 2 /\ length.v = 4 ->
                 IF ~low.ok \/ ~high.ok \/ low.v > high.v \/ low.v = 0 THEN Fail
                 ELSE Read(TRUE, high.rest, From(low.v)..high.v)
          [] OTHER -> Fail

\* Reads items with Item while the array's length is not used up.
RECURSIVE ReadArray(_, _, _, _)
ReadArray(Item(_), d, length, v) ==
    IF length = 0 THEN Read(TRUE, d, v)
    ELSE LET item == Item(d) IN
         IF ~item.ok THEN Fail
         ELSE ReadArray(Item, item.rest, Minus(length, Len(d) - Len(item.rest)), v \cup item.v)

deserialize_array(Item(_), d) ==
    LET length == deserialize_u32(d)
    IN  IF length.ok THEN ReadArray(Item, length.rest, length.v, {}) ELSE Fail

deserialize_id_item_list(d) == deserialize_array(deserialize_id_item, d)

\* One entry of deserialize_ids: instances and their methods.
ReadIds(d) ==
    LET instances == deserialize_id_item_list(d)
        methods == deserialize_id_item_list(instances.rest)
    IN  IF ~instances.ok \/ ~methods.ok THEN Fail
        ELSE Read(TRUE, methods.rest, instances.v \X methods.v)

deserialize_ids(d) == deserialize_array(ReadIds, d)

\* A service with what List reads; 0x0000 and 0xFFFF are refused.
ReadService(List(_), d) ==
    LET service == deserialize_u16(d)
        ids == List(service.rest)
    IN  IF ~service.ok \/ service.v \in {0, ANY_METHOD} \/ ~ids.ok THEN Fail
        ELSE Read(TRUE, ids.rest, {service.v} \X ids.v)

ReadRequest(d) == ReadService(deserialize_ids, d)
ReadOffer(d) == ReadService(deserialize_id_item_list, d)

deserialize(d) ==
    LET uid == deserialize_u32(d)
        gid == deserialize_u32(uid.rest)
        requests == deserialize_array(ReadRequest, gid.rest)
        offers == deserialize_array(ReadOffer, requests.rest)
    IN  IF ~uid.ok \/ ~gid.ok \/ ~requests.ok \/ ~offers.ok THEN Fail
        ELSE Read(TRUE, offers.rest, [who |-> <<uid.v, gid.v>>, requests |-> requests.v,
                                      offers |-> offers.v])

-----------------------------------------------------------------------------
Init == policy \in Policies /\ size = Len(serialize(policy))

\* A shorter message arrives.
Cut == size > 0 /\ size' = size - 1 /\ UNCHANGED policy

Next == Cut
Spec == Init /\ [][Next]_<<policy, size>>

\* A policy arrives with the requests it was sent with and to the last byte,
\* and a message that misses bytes is refused: lengths written after the
\* fact (serialize_u32_at) and the reader's counting down agree.
ArrivesOrIsRefused ==
    LET bytes == serialize(policy)
        d == deserialize(SubSeq(bytes, 1, size))
    IN  IF size < Len(bytes) THEN ~d.ok
        ELSE /\ d.ok /\ d.rest = << >>
             /\ d.v.who = <<policy.uid, policy.gid>>
             /\ d.v.requests = RequestPoints(policy.requests)

\* "r matches o if their service identifiers as well as their instances
\* overlap" (policy_manager_impl::get_requester_policies): the new policy
\* holds the requested methods of the instances that are offered.
RequestersOverlap ==
    get_requester_policies(policy.offers, policy.requests) =
        {x \in RequestPoints(policy.requests) :
            \E o \in Range(policy.offers) : x[1] \in Points(o[1]) /\ x[2][1] \in PointsOf(o[2])}
=============================================================================
