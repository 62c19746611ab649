------------------------------ MODULE MCOrders ------------------------------
(***************************************************************************)
(* Instances of Orders for TLC: in some behaviours requests overlap, in    *)
(* others they are handled one after the other, which makes a stronger     *)
(* property true.                                                          *)
(***************************************************************************)
EXTENDS Orders, TLC

CONSTANTS
    early, late,        \* two orders of one line
    large,              \* an order of two, of which the second is out of stock
    stocked, soldOut,   \* the items
    Handlings           \* how requests come

VARIABLE handling       \* "overlapping" or "in turn"

OneUnit(i)   == [item |-> i, quantity |-> 1]
OneOrTwo     == (early :> <<OneUnit(stocked)>>) @@ (late :> <<OneUnit(stocked)>>)
                    @@ (large :> <<OneUnit(stocked), OneUnit(soldOut)>>)
OnlyFirst    == (stocked :> 3) @@ (soldOut :> 0)

\* In turn, one order is on its way and another is yet to be placed.
EarlyGoing   == (early :> "CONFIRMED")

\* Overlapping, both are placed already: one is about to be completed.
BothPlaced   == (early :> "PROCESSING") @@ (late :> "DRAFT")
Overlapping  == INSTANCE Orders WITH InitialStatus <- BothPlaced, MaxInFlight <- 3

AlikeRequests == Permutations(Requests)

MCInit ==
    /\ handling \in Handlings
    /\ \/ handling = "overlapping" /\ Overlapping!Init
       \/ handling = "in turn" /\ Init

MCNext ==
    \/ handling = "overlapping" /\ Overlapping!Next /\ UNCHANGED handling
    \/ handling = "in turn" /\ Next /\ UNCHANGED handling

MCSpec == MCInit /\ [][MCNext]_<<vars, handling>>

\* Handled one at a time, requests move every order as OrderLifecycle says, and
\* its history names the status each change really left (order.service.ts).
FollowsLifecycleInTurn ==
    /\ handling = "in turn" => Lifecycle!Init
    /\ [][handling = "in turn" => Lifecycle!Next]_<<order, history>>
=============================================================================
