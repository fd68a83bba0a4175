------------------------------ MODULE MCPublish ------------------------------
(***************************************************************************)
(* The provider's side of events, and the routing host between provider    *)
(* and consumers: remote subscriptions (RemoteSubscriptions), the value of *)
(* an event on its way to remote consumers (FieldRelay) and the tables for *)
(* two fields of a remote service that two local applications consume      *)
(* (RouterEvents), checked side by side.  `part' chooses the instance that *)
(* takes steps; the variables of the others are idle.                      *)
(***************************************************************************)
EXTENDS Integers, Sequences, TLC

CONSTANTS g, h, t1, t2, t3, c1, c2, e1, e2, AnyEvent

VARIABLES part, provider,
    router, msg, requests, answers,                                \* RemoteSubscriptions
    toProvider, toRouter, sub, due, event, got, wanted, made,      \* FieldRelay
    events, groups, requesters, subscribed, values, net, owed,     \* RouterEvents
    seen, abandoned, offered, commands

subscriptionVars == <<router, msg, requests, answers>>
relayVars == <<toProvider, toRouter, sub, due, event, got, wanted, made>>
tableVars == <<events, groups, requesters, subscribed, values, net, owed, seen, abandoned,
               offered, commands>>
all == <<part, provider, subscriptionVars, relayVars, tableVars>>

-----------------------------------------------------------------------------
(* On "one" a single consumer renews, stops and reboots while its           *)
(* subscriptions are undecided; on "two" three consumers of two addresses   *)
(* meet a limit, and a provider that may refuse.                            *)

MCAddress(w) == IF w = "a" THEN "h" ELSE "i"
Entry(w, ttl, valid) == [who |-> w, clients |-> {0}, ttl |-> ttl, valid |-> valid]
Sub(w) == Entry(w, TRUE, TRUE)
Stop(w) == Entry(w, FALSE, TRUE)
Bad(w) == Entry(w, TRUE, FALSE)
Members == {"a", "b", "c"}

One == INSTANCE RemoteSubscriptions
    WITH Subscribers <- {"a"}, Clients <- {0}, Address <- MCAddress,
         Messages <- {<<Sub("a")>>, <<Stop("a")>>, <<Stop("a"), Sub("a")>>},
         MaxRemoteSubscribers <- 1, Refuses <- FALSE, MaxMessages <- 5, MaxLapses <- 1

Two == INSTANCE RemoteSubscriptions
    WITH Subscribers <- Members, Clients <- {0}, Address <- MCAddress,
         Messages <- {<<Sub(w)>> : w \in Members} \cup {<<Stop("a")>>, <<Bad("b")>>},
         MaxRemoteSubscribers <- 1, Refuses <- TRUE, MaxMessages <- 3, MaxLapses <- 1

-----------------------------------------------------------------------------
(* A field and a selective event of a local provider, and two fields of a   *)
(* remote service, one of them in two eventgroups.                          *)

Field == INSTANCE FieldRelay WITH
    Groups <- {g, h}, Targets <- {t1, t2, t3}, Reliable <- {t2},
    Wants <- {<<g, t1>>, <<h, t2>>, <<g, t3>>}, Type <- "field", Reliability <- "both",
    Threshold <- 2, MaxValues <- 2, MaxSubscribes <- 3
Selective == INSTANCE FieldRelay WITH
    Groups <- {g}, Targets <- {t1, t2}, Reliable <- {t2},
    Wants <- {<<g, t1>>, <<g, t2>>}, Type <- "selective", Reliability <- "unreliable",
    Threshold <- 0, MaxValues <- 3, MaxSubscribes <- 3
Tables == INSTANCE RouterEvents WITH
    Clients <- {c1, c2}, ByEvent <- {c1}, Events <- {e1, e2},
    GroupsOf <- (e1 :> {g, h} @@ e2 :> {h}), MaxValue <- 2, MaxCommands <- 6

-----------------------------------------------------------------------------

IdleSubscriptions == router = 0 /\ msg = 0 /\ requests = 0 /\ answers = 0
IdleRelay == /\ toProvider = 0 /\ toRouter = 0 /\ sub = 0 /\ due = 0
             /\ event = 0 /\ got = 0 /\ wanted = 0 /\ made = 0
IdleTables == /\ events = 0 /\ groups = 0 /\ requesters = 0 /\ subscribed = 0 /\ values = 0
              /\ net = 0 /\ owed = 0 /\ seen = 0 /\ abandoned = 0 /\ offered = 0 /\ commands = 0

Init ==
    \/ part = "one" /\ One!Init /\ IdleRelay /\ IdleTables
    \/ part = "two" /\ Two!Init /\ IdleRelay /\ IdleTables
    \/ part = "field" /\ Field!Init /\ IdleSubscriptions /\ IdleTables
    \/ part = "selective" /\ Selective!Init /\ IdleSubscriptions /\ IdleTables
    \/ part = "tables" /\ Tables!Init /\ provider = 0 /\ IdleSubscriptions /\ IdleRelay

Next ==
    \/ part = "one" /\ One!Next /\ UNCHANGED <<part, relayVars, tableVars>>
    \/ part = "two" /\ Two!Next /\ UNCHANGED <<part, relayVars, tableVars>>
    \/ part = "field" /\ Field!Next /\ UNCHANGED <<part, subscriptionVars, tableVars>>
    \/ part = "selective" /\ Selective!Next /\ UNCHANGED <<part, subscriptionVars, tableVars>>
    \/ part = "tables" /\ Tables!Next /\ UNCHANGED <<part, provider, subscriptionVars, relayVars>>

Spec == Init /\ [][Next]_all

-----------------------------------------------------------------------------

\* Every subscription is answered; the acknowledged ones are known to the
\* provider and get their initial events, and at the limit no further consumer
\* is acknowledged (RemoteSubscriptions).
Answered ==
    /\ part = "one" => One!Answered /\ One!AckedIsKnown /\ One!InitialEvents
    /\ part = "two" => Two!Answered /\ Two!RefusedAtLimit

\* Remote consumers know the current value of an event (FieldRelay), local
\* consumers those of a remote service (RouterEvents).
ConsumersAreCurrent ==
    /\ part = "field" => Field!TargetsAreCurrent
    /\ part = "selective" => Selective!TargetsAreCurrent
    /\ part = "tables" => Tables!SubscribersAreCurrent

=============================================================================
