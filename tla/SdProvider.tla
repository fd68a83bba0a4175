----------------------------- MODULE SdProvider -----------------------------
(***************************************************************************)
(* What service discovery promises of a host that offers services: what    *)
(* its multicast messages say of a service follows what the host offers.   *)
(* Module SdOffers, the offer phases of the code, implements it; module    *)
(* Discovery composes it with a host that looks for the services.          *)
(***************************************************************************)
CONSTANTS Services  \* services the host may offer

VARIABLES offered,  \* the services its clients offer
          active,   \* whether the network is up and the host is not suspended
          said      \* the services its messages of this session announce

pvars == <<offered, active, said>>

Init == offered = {} /\ active = FALSE /\ said = {}

\* Clients offer or stop offering a service; a StopOffer may go out at once.
Offer(s) == offered' = offered \cup {s} /\ UNCHANGED <<active, said>>
StopOffer(s) == /\ offered' = offered \ {s}
                /\ said' \in {said, said \ {s}}
                /\ UNCHANGED active

\* A message announces the services P and withdraws the services W.  Its entries may
\* have been made before the last offer or stop-offer of a service.
Say(P, W) == said' = (said \ W) \cup P /\ UNCHANGED <<offered, active>>
Announce(s) == Say({s}, {})
Withdraw(s) == Say({}, {s})

\* The network or the routing state changes; suspending withdraws what is offered.
Change == /\ active' \in BOOLEAN
          /\ \E W \in SUBSET offered : said' = said \ W
          /\ UNCHANGED offered

\* The host starts again, or its service discovery does: it begins new sessions.
Restart == offered' \in {offered, {}} /\ active' \in BOOLEAN /\ said' = {}

Next == \/ \E s \in Services : Offer(s) \/ StopOffer(s)
        \/ \E P, W \in SUBSET Services : Say(P, W)
        \/ Change \/ Restart

\* While the host is active, a service that stays offered is announced for good after
\* a while, and one that stays withdrawn is withdrawn for good: late entries do not
\* have the last word.
Announces == \A s \in Services :
    /\ <>[](active /\ s \in offered) => <>[](s \in said)
    /\ <>[](active /\ s \notin offered) => <>[](s \notin said)

Spec == Init /\ [][Next]_pvars /\ Announces
=============================================================================
