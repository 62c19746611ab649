---------------------------- MODULE StockTables ----------------------------
(***************************************************************************)
(* The rows of the inventory tables and the arithmetic of the statements   *)
(* InventoryRepository issues on them.                                     *)
(*                                                                         *)
(* A table is a function from the ids of its rows to the rows.  Quantities *)
(* are Decimal(12,3) in the schema; nothing here depends on the fraction,  *)
(* so they are integers.                                                   *)
(***************************************************************************)
EXTENDS Integers, Sequences, FiniteSets

\* A row of inventory_items: the two counters.
StockRow == [onHand : Nat, reserved : Nat]

\* enum ReservationStatus, and a row of inventory_reservations.
ReservationStatus == {"ACTIVE", "RELEASED", "CONSUMED"}
ReservationRow(Items) ==
    [item : Items, quantity : Nat \ {0}, status : ReservationStatus]

\* enum InventoryTransactionType, and a row of inventory_transactions.  The
\* code does not store the reservation a RELEASE or CONSUMPTION row settles;
\* the model keeps it in `settles' (an auxiliary field no action reads).
TransactionType ==
    {"RECEIPT", "ADJUSTMENT", "RESERVATION", "RELEASE", "CONSUMPTION"}
LedgerRow(Settled) ==
    [type : TransactionType, onHandDelta : Int, reservedDelta : Int,
     onHandAfter : Nat, reservedAfter : Nat, settles : Settled]

\* The values inventoryItem.create leaves to the column defaults.
EmptyRow == [onHand |-> 0, reserved |-> 0]

\* INSERT of, or UPDATE to, one row.
Put(table, id, row) ==
    [x \in DOMAIN table \cup {id} |-> IF x = id THEN row ELSE table[x]]

\* SET on_hand = on_hand + d, reserved = reserved + e, on the current row.
Incremented(row, d, e) ==
    [onHand |-> row.onHand + d, reserved |-> row.reserved + e]

\* Mutant: the CHECK on the reserved counter is missing.
OnHandCheckHolds(row) == row.onHand >= 0 /\ row.reserved <= row.onHand

\* The CHECK constraints of inventory_items.
ChecksHold(row) ==
    /\ row.onHand >= 0
    /\ row.reserved >= 0
    /\ row.reserved <= row.onHand

\* Mutant: the ledger row carries the counters from before the UPDATE.
LedgerEntryBefore(type, d, e, row, settled) ==
    [type |-> type, onHandDelta |-> d, reservedDelta |-> e,
     onHandAfter |-> row.onHand - d, reservedAfter |-> row.reserved - e,
     settles |-> settled]

\* The ledger row written beside an UPDATE that returned `row'.
LedgerEntry(type, d, e, row, settled) ==
    [type |-> type, onHandDelta |-> d, reservedDelta |-> e,
     onHandAfter |-> row.onHand, reservedAfter |-> row.reserved,
     settles |-> settled]
=============================================================================
