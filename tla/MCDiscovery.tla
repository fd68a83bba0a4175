---------------------------- MODULE MCDiscovery ----------------------------
(***************************************************************************)
(* Service discovery: the offer phases (SdOffers) implement SdProvider,    *)
(* and what SdProvider announces is found and forgotten by the consumer    *)
(* (Discovery).                                                            *)
(***************************************************************************)
EXTENDS SdOffers
VARIABLES part, offered, active, announced, sent, epoch, wire, finds, c, heard, asked

Search == INSTANCE Discovery WITH Width <- 2, MaxEpoch <- 1, MaxWire <- 1,
              Keys <- {"any"}, Gens <- {1}, RepetitionsMax <- 0, TTL <- 1

Others == <<offered, active, announced, sent, epoch, wire, finds, c, heard, asked>>
mcvars == <<part, p, said, Others>>

MCInit == /\ part \in {"offers", "search"}
          /\ Init /\ Search!Init

MCNext == /\ UNCHANGED part
          /\ \/ part = "offers" /\ Next /\ UNCHANGED Others
             \/ part = "search" /\ Search!Next /\ UNCHANGED vars

MCSpec == /\ MCInit /\ [][MCNext]_mcvars
          /\ part = "offers" => Fairness
          /\ part = "search" => Search!Fairness

\* What is offered is found, what is not is forgotten (Discovery).
KnownIsOffered == part = "search" => Search!KnownIsOffered
=============================================================================
