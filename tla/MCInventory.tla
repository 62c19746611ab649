---------------------------- MODULE MCInventory ----------------------------
(***************************************************************************)
(* Instances of Inventory for TLC.                                         *)
(***************************************************************************)
EXTENDS Inventory, TLC

CONSTANTS i1, i2, v1, v2

\* One stocked item.
OneItem == (i1 :> 2)

\* One stocked item and one whose row does not exist yet.
StockedAndNew == (i1 :> 2) @@ (i2 :> 0)

AlikeIds == Permutations(Ids) \cup Permutations(Requests)

\* Adjustments down to an empty shelf, and up.
DownAndUp == {-2, 1}

\* Requests arrive, and ids are handed out, in order: which is which makes no
\* difference to the rest.  The first two make reservations of i1, so that
\* two settlements of one of them find enough reserved to both succeed.
MCNext ==
    /\ Next
    /\ \A r \in Requests : pc'[r] # "idle" => \A x \in 1..(r - 1) : pc'[x] # "idle"
    /\ \A r \in {1, 2} : arg'[r] \in {NoArg, [op |-> "reserve", item |-> i1, amount |-> 1]}
    /\ \A id \in DOMAIN resv' : 1..id \subseteq DOMAIN resv'

MCSpec == Init /\ [][MCNext]_vars /\ Fairness
=============================================================================
