---------------------------- MODULE StockAccount ----------------------------
(***************************************************************************)
(* What the inventory promises about one item's counters: they move one    *)
(* whole movement at a time, each movement is entered in the item's book   *)
(* in the order it took effect, and no movement may leave the stock on     *)
(* hand or the reserved part of it impossible.  Requests, transactions,    *)
(* reservations and retries are not visible at this level.                 *)
(***************************************************************************)
EXTENDS StockTables

CONSTANTS
    Items,
    InitialStock,   \* opening quantity of each item
    Quantities,     \* what may be received, held, released or shipped
    Deltas          \* what a recount may correct

VARIABLES position, book

accountVars == <<position, book>>

Init ==
    /\ position = [i \in Items |-> [onHand |-> InitialStock[i], reserved |-> 0]]
    /\ book = [i \in Items |->
                  IF InitialStock[i] > 0 THEN << <<InitialStock[i], 0>> >> ELSE <<>>]

Move(i, d, e) ==
    /\ ChecksHold(Incremented(position[i], d, e))
    /\ position' = [position EXCEPT ![i] = Incremented(@, d, e)]
    /\ book' = [book EXCEPT ![i] = Append(@, <<d, e>>)]

\* Goods arrive or are counted again; a quantity is set aside; it becomes
\* available again; it leaves the warehouse.
Restock(i) == \E d \in Quantities \cup Deltas : Move(i, d, 0)
Hold(i)    == \E q \in Quantities : Move(i, 0, q)
Unhold(i)  == \E q \in Quantities : Move(i, 0, -q)
Ship(i)    == \E q \in Quantities : Move(i, -q, -q)

Next == \E i \in Items : Restock(i) \/ Hold(i) \/ Unhold(i) \/ Ship(i)

Spec == Init /\ [][Next]_accountVars
=============================================================================
