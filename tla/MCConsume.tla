------------------------------ MODULE MCConsume ------------------------------
(***************************************************************************)
(* The consumer's side of events, and the threads that run its callbacks:  *)
(* subscriptions to a remote service (EventgroupConsumer), to a service of *)
(* the same machine (LocalEvents) and the dispatchers of an application    *)
(* (Dispatcher), checked side by side.  `part' chooses the instance that   *)
(* takes steps; the variables of the others are idle.                      *)
(***************************************************************************)
EXTENDS Integers, Sequences

CONSTANTS s, app1

VARIABLES part, used,
    rmc, host, sd, prov, chan,                                       \* EventgroupConsumer
    pv, cs, net, rt,                                                 \* LocalEvents
    app, thread, life, stopping, caller, joining, owed, count        \* Dispatcher

remoteVars == <<rmc, host, sd, prov, chan>>
localVars == <<pv, cs, net, rt>>
dispatcherVars == <<app, thread, life, stopping, caller, joining, owed, count>>
all == <<part, used, remoteVars, localVars, dispatcherVars>>

-----------------------------------------------------------------------------
(* Five hosts: one application over a network that loses a message, one     *)
(* whose service or connection is lost, two applications that share a       *)
(* subscription, a service on two transports and a selective eventgroup.    *)

Losing == INSTANCE EventgroupConsumer
    WITH Clients <- {1}, Offered <- {"tcp"}, Needed <- {"tcp"}, Selective <- FALSE,
         MaxCalls <- 3, MaxOffers <- 2, MaxLapses <- 0, MaxRefusals <- 1, MaxLosses <- 1,
         MaxValue <- 2
Lapsing == INSTANCE EventgroupConsumer
    WITH Clients <- {1}, Offered <- {"tcp"}, Needed <- {"tcp"}, Selective <- FALSE,
         MaxCalls <- 2, MaxOffers <- 2, MaxLapses <- 1, MaxRefusals <- 1, MaxLosses <- 0,
         MaxValue <- 1
Shared == INSTANCE EventgroupConsumer
    WITH Clients <- {1, 2}, Offered <- {"tcp"}, Needed <- {"tcp"}, Selective <- FALSE,
         MaxCalls <- 3, MaxOffers <- 1, MaxLapses <- 0, MaxRefusals <- 1, MaxLosses <- 0,
         MaxValue <- 2
Transports == INSTANCE EventgroupConsumer
    WITH Clients <- {1}, Offered <- {"tcp", "udp"}, Needed <- {"tcp", "udp"},
         Selective <- FALSE,
         MaxCalls <- 2, MaxOffers <- 2, MaxLapses <- 1, MaxRefusals <- 1, MaxLosses <- 0,
         MaxValue <- 2
Sel == INSTANCE EventgroupConsumer
    WITH Clients <- {1, 2}, Offered <- {"udp"}, Needed <- {"udp"}, Selective <- TRUE,
         MaxCalls <- 3, MaxOffers <- 2, MaxLapses <- 0, MaxRefusals <- 1, MaxLosses <- 0,
         MaxValue <- 1

-----------------------------------------------------------------------------
(* Five machines: a field whose provider offers twice over a connection     *)
(* that breaks; subscriptions to one event and to all of them, one of which *)
(* may be rejected; a provider that loses the router; two consumers, one    *)
(* with a filter, of a cyclic field and a selective event; an event offered *)
(* after the service.                                                       *)

Breaks == INSTANCE LocalEvents
    WITH Consumers <- {1}, Events <- {"f"}, Groups <- {"g"}, GroupsOf <- [e \in {"f"} |-> {"g"}],
         Fields <- {"f"}, Cyclic <- {}, Selective <- {}, Late <- {}, Filtered <- {},
         Wanted <- {<<"g", "any">>}, MaxCalls <- 2, MaxValue <- 2, MaxOffers <- 2, MaxBreaks <- 1,
         MaxRejects <- 0, MaxLosses <- 0, MaxRepeats <- 0
AllOrOne == INSTANCE LocalEvents
    WITH Consumers <- {1}, Events <- {"f"}, Groups <- {"g"}, GroupsOf <- [e \in {"f"} |-> {"g"}],
         Fields <- {"f"}, Cyclic <- {}, Selective <- {}, Late <- {}, Filtered <- {1},
         Wanted <- {<<"g", "any">>, <<"g", "f">>}, MaxCalls <- 2, MaxValue <- 2, MaxOffers <- 1,
         MaxBreaks <- 1, MaxRejects <- 1, MaxLosses <- 0, MaxRepeats <- 1
Loss == INSTANCE LocalEvents
    WITH Consumers <- {1}, Events <- {"f"}, Groups <- {"g"}, GroupsOf <- [e \in {"f"} |-> {"g"}],
         Fields <- {"f"}, Cyclic <- {}, Selective <- {}, Late <- {}, Filtered <- {},
         Wanted <- {<<"g", "any">>}, MaxCalls <- 2, MaxValue <- 1, MaxOffers <- 1, MaxBreaks <- 1,
         MaxRejects <- 0, MaxLosses <- 1, MaxRepeats <- 0
TwoLocal == INSTANCE LocalEvents
    WITH Consumers <- {1, 2}, Events <- {"f", "s"}, Groups <- {"g"},
         GroupsOf <- [e \in {"f", "s"} |-> {"g"}],
         Fields <- {"f"}, Cyclic <- {"f"}, Selective <- {"s"}, Late <- {}, Filtered <- {1},
         Wanted <- {<<"g", "any">>}, MaxCalls <- 1, MaxValue <- 2, MaxOffers <- 1, MaxBreaks <- 0,
         MaxRejects <- 0, MaxLosses <- 0, MaxRepeats <- 1
Lates == INSTANCE LocalEvents
    WITH Consumers <- {1}, Events <- {"f"}, Groups <- {"g"}, GroupsOf <- [e \in {"f"} |-> {"g"}],
         Fields <- {"f"}, Cyclic <- {}, Selective <- {}, Late <- {"f"}, Filtered <- {1},
         Wanted <- {<<"g", "any">>, <<"g", "f">>}, MaxCalls <- 2, MaxValue <- 1, MaxOffers <- 2,
         MaxBreaks <- 0, MaxRejects <- 0, MaxLosses <- 0, MaxRepeats <- 0

-----------------------------------------------------------------------------
(* Callbacks of every kind with one additional dispatcher, availability     *)
(* changes and messages with two, and the application started twice with a  *)
(* clear_all_handler() in between.                                          *)

Mixed == INSTANCE Dispatcher WITH
    Services <- {s}, Clients <- {app1}, Threads <- 1..4, max_dispatchers <- 2,
    Types <- {"SUBSCRIPTION", "AVAILABILITY", "MESSAGE", "STATE"},
    MaxHandlers <- 4, MaxStarts <- 1, MaxClears <- 0, EarlyRestart <- FALSE
Three == INSTANCE Dispatcher WITH
    Services <- {s}, Clients <- {app1}, Threads <- 1..4, max_dispatchers <- 3,
    Types <- {"AVAILABILITY", "MESSAGE"},
    MaxHandlers <- 4, MaxStarts <- 1, MaxClears <- 0, EarlyRestart <- FALSE
Restart == INSTANCE Dispatcher WITH
    Services <- {s}, Clients <- {app1}, Threads <- 1..4, max_dispatchers <- 2,
    Types <- {"SUBSCRIPTION", "AVAILABILITY"},
    MaxHandlers <- 3, MaxStarts <- 2, MaxClears <- 1, EarlyRestart <- FALSE

-----------------------------------------------------------------------------

IdleRemote == rmc = 0 /\ host = 0 /\ sd = 0 /\ prov = 0 /\ chan = 0
IdleLocal == pv = 0 /\ cs = 0 /\ net = 0 /\ rt = 0
IdleDispatcher == /\ app = 0 /\ thread = 0 /\ life = 0 /\ stopping = 0 /\ caller = 0
                  /\ joining = 0 /\ owed = 0 /\ count = 0

RemoteInit ==
    /\ \/ part = "losing" /\ Losing!Init
       \/ part = "lapsing" /\ Lapsing!Init
       \/ part = "shared" /\ Shared!Init
       \/ part = "transports" /\ Transports!Init
       \/ part = "selective" /\ Sel!Init
    /\ IdleLocal /\ IdleDispatcher

LocalInit ==
    /\ \/ part = "breaks" /\ Breaks!Init
       \/ part = "all_or_one" /\ AllOrOne!Init
       \/ part = "loss" /\ Loss!Init
       \/ part = "two" /\ TwoLocal!Init
       \/ part = "late" /\ Lates!Init
    /\ IdleRemote /\ IdleDispatcher

DispatcherInit ==
    /\ part \in {"mixed", "three", "restart"} /\ Mixed!Init
    /\ used = 0 /\ IdleRemote /\ IdleLocal

RemoteNext ==
    /\ \/ part = "losing" /\ Losing!Next
       \/ part = "lapsing" /\ Lapsing!Next
       \/ part = "shared" /\ Shared!Next
       \/ part = "transports" /\ Transports!Next
       \/ part = "selective" /\ Sel!Next
    /\ UNCHANGED <<part, localVars, dispatcherVars>>

LocalNext ==
    /\ \/ part = "breaks" /\ Breaks!Next
       \/ part = "all_or_one" /\ AllOrOne!Next
       \/ part = "loss" /\ Loss!Next
       \/ part = "two" /\ TwoLocal!Next
       \/ part = "late" /\ Lates!Next
    /\ UNCHANGED <<part, remoteVars, dispatcherVars>>

DispatcherNext ==
    /\ \/ part = "mixed" /\ Mixed!Next
       \/ part = "three" /\ Three!Next
       \/ part = "restart" /\ Restart!Next
    /\ UNCHANGED <<part, used, remoteVars, localVars>>

Spec == (RemoteInit \/ LocalInit \/ DispatcherInit) /\ [][RemoteNext \/ LocalNext \/ DispatcherNext]_all

Dispatching == part \in {"mixed", "three", "restart"}

-----------------------------------------------------------------------------

\* A consumer of a remote service that still subscribes gets its events, and
\* one that has unsubscribed leaves nothing behind (EventgroupConsumer); a
\* consumer of a service of the same machine gets them over a connection
\* (LocalEvents).
Served ==
    /\ part = "losing" => Losing!Served /\ Losing!NothingLeft
    /\ part = "lapsing" => Lapsing!Served /\ Lapsing!NothingLeft
    /\ part = "shared" => Shared!Served /\ Shared!NothingLeft
    /\ part = "transports" => Transports!Served /\ Transports!NothingLeft
    /\ part = "selective" => Sel!Served /\ Sel!NothingLeft
    /\ part = "breaks" => Breaks!Served /\ Breaks!SubscriberIsConnected
    /\ part = "all_or_one" => AllOrOne!Served /\ AllOrOne!SubscriberIsConnected
    /\ part = "loss" => Loss!Served /\ Loss!SubscriberIsConnected
    /\ part = "two" => TwoLocal!Served /\ TwoLocal!SubscriberIsConnected
    /\ part = "late" => Lates!Served /\ Lates!SubscriberIsConnected

\* Subscription callbacks of one client, and availability callbacks of one
\* service instance, never run in parallel; no wake-up of a dispatcher is lost
\* (get_next_handler, main_dispatch, dispatch and the timer of invoke_handler).
NeverParallel ==
    /\ part = "mixed" => Mixed!NeverParallel /\ Mixed!NoLostWakeup
    /\ part = "three" => Three!NeverParallel /\ Three!NoLostWakeup
    /\ part = "restart" => Restart!NeverParallel /\ Restart!NoLostWakeup

\* Callbacks for the same client or service instance begin in the order in
\* which they were queued (get_next_handler, reschedule_*_handler).
BeginInOrder == [][Dispatching => Mixed!BeginsInOrder]_all

=============================================================================
