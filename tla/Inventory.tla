----------------------------- MODULE Inventory -----------------------------
(***************************************************************************)
(* InventoryService and InventoryRepository: stock items, reservations and *)
(* the append-only ledger, under concurrent HTTP requests.                 *)
(*                                                                         *)
(* Postgres runs every transaction at READ COMMITTED.  A request reads     *)
(* outside its transaction (the service's pre-check) or inside it without  *)
(* a lock (findFirst of an ACTIVE reservation), and later writes.  The     *)
(* first UPDATE of a transaction locks the item row until COMMIT, and the  *)
(* uncommitted rows are invisible to the others, so everything from that   *)
(* UPDATE to the COMMIT is one step here (`Commit...'), separate from the  *)
(* reads before it.                                                        *)
(***************************************************************************)
EXTENDS StockTables, FiniteSetsExt

CONSTANTS
    Items,          \* the (warehouse, variant) pairs stock is kept for
    Ids,            \* ids available to new reservations
    Requests,       \* HTTP requests, each handled once
    Quantities,     \* quantities of receipts and reservations
    Deltas,         \* deltas of adjustments
    InitialStock,   \* on-hand quantity of each item; 0: no row yet
    MaxInFlight,    \* bound: requests handled at the same time
    MaxAttempts     \* DB_TRANSACTION_RETRY_POLICY.maxAttempts

ASSUME InventoryAssumption ==
    /\ Quantities \subseteq Nat \ {0}
    /\ Deltas \subseteq Int
    /\ InitialStock \in [Items -> Nat]
    /\ MaxInFlight \in Nat
    /\ MaxAttempts \in Nat \ {0}

VARIABLES
    stock,          \* inventory_items: item -> counters, for rows that exist
    resv,           \* inventory_reservations: id -> row
    ledger,         \* inventory_transactions of each item, oldest first
    pc,             \* where each request is
    arg,            \* what each request was asked to do
    tries           \* attempts of the request's transaction so far

tables == <<stock, resv, ledger>>
vars   == <<stock, resv, ledger, pc, arg, tries>>

(***************************************************************************)
(* A request is idle until it arrives.  "create": it found no item row.    *)
(* "find": it is about to look its reservation up inside the transaction.  *)
(* "write": it is about to issue the UPDATE.  It ends "done" (2xx),        *)
(* "rejected" (4xx) or "failed" (5xx, or the pod died).                    *)
(***************************************************************************)
Pending  == {"create", "find", "write"}
Finished == {"done", "rejected", "failed"}

StockOps  == {"receive", "adjust", "reserve"}
SettleOps == {"release", "consume"}

StockArg  == [op : StockOps, item : Items, amount : Int]
SettleArg == [op : SettleOps, id : Ids]
NoArg     == [op |-> "none"]

InFlight == {r \in Requests : pc[r] \in Pending}

Init ==
    /\ stock = [i \in {j \in Items : InitialStock[j] > 0} |->
                    [onHand |-> InitialStock[i], reserved |-> 0]]
    /\ ledger = [i \in Items |->
                    IF InitialStock[i] > 0
                    THEN <<LedgerEntry("RECEIPT", InitialStock[i], 0,
                               [onHand |-> InitialStock[i], reserved |-> 0], {})>>
                    ELSE <<>>]
    /\ resv = [id \in {} |-> {}]
    /\ pc = [r \in Requests |-> "idle"]
    /\ arg = [r \in Requests |-> NoArg]
    /\ tries = [r \in Requests |-> 1]

Goto(r, label) == pc' = [pc EXCEPT ![r] = label]

Arrive(r, a, label) ==
    /\ pc[r] = "idle"
    /\ Cardinality(InFlight) < MaxInFlight
    /\ arg' = [arg EXCEPT ![r] = a]
    /\ Goto(r, label)
    /\ UNCHANGED <<stock, resv, ledger, tries>>

-----------------------------------------------------------------------------
(* Reads: the service's pre-checks, each on the committed row.             *)

\* receiveStock: find the item, or decide to create it.
Receive(r, i, q) ==
    Arrive(r, [op |-> "receive", item |-> i, amount |-> q],
           IF i \in DOMAIN stock THEN "write" ELSE "create")

\* receiveStock: inventoryItem.create; the partial unique index refuses a
\* second row for the pair, and nothing catches that error.
CreateItem(r) ==
    /\ pc[r] = "create"
    /\ \/ /\ arg[r].item \notin DOMAIN stock
          /\ stock' = Put(stock, arg[r].item, EmptyRow)
          /\ Goto(r, "write")
       \/ /\ arg[r].item \in DOMAIN stock
          /\ Goto(r, "failed")
          /\ UNCHANGED stock
    /\ UNCHANGED <<resv, ledger, arg, tries>>

\* adjustStock: 404 without a row, 400 if the row read would go negative.
Adjust(r, i, d) ==
    Arrive(r, [op |-> "adjust", item |-> i, amount |-> d],
           IF i \in DOMAIN stock /\ stock[i].onHand + d >= 0
           THEN "write" ELSE "rejected")

\* reserveStockInternal: 404 without a row, 400 beyond what was read to be
\* available.
Reserve(r, i, q) ==
    /\ Cardinality({x \in Requests : arg[x].op = "reserve"}) < Cardinality(Ids) \* bound
    /\ Arrive(r, [op |-> "reserve", item |-> i, amount |-> q],
           IF i \in DOMAIN stock /\ stock[i].reserved + q <= stock[i].onHand
           THEN "write" ELSE "rejected")

\* releaseReservation, consumeReservation: straight into the transaction.
Settle(r, op, id) ==
    Arrive(r, [op |-> op, id |-> id], "find")

IsActive(id) == id \in DOMAIN resv /\ resv[id].status = "ACTIVE"

\* findFirst(status: ACTIVE), which takes no lock; null becomes a 404.
FindActive(r) ==
    /\ pc[r] = "find"
    /\ Goto(r, IF IsActive(arg[r].id) THEN "write" ELSE "rejected")
    /\ UNCHANGED <<stock, resv, ledger, arg, tries>>

-----------------------------------------------------------------------------
(* Writes: the UPDATE of the counters by increments, the reservation row,  *)
(* the ledger row, COMMIT.  A CHECK violation rolls everything back.       *)

\* The one item row each transaction writes, and its increments.
Target(r) ==
    IF arg[r].op \in SettleOps THEN resv[arg[r].id].item ELSE arg[r].item

OnHandDelta(r) ==
    IF arg[r].op = "consume" THEN -resv[arg[r].id].quantity
    ELSE IF arg[r].op \in {"receive", "adjust"} THEN arg[r].amount ELSE 0

\* Mutant: a consumption leaves the reserved counter alone.
ReservedDeltaUnlessConsumed(r) ==
    IF arg[r].op = "release" THEN -resv[arg[r].id].quantity
    ELSE IF arg[r].op = "reserve" THEN arg[r].amount ELSE 0

ReservedDelta(r) ==
    IF arg[r].op \in SettleOps THEN -resv[arg[r].id].quantity
    ELSE IF arg[r].op = "reserve" THEN arg[r].amount ELSE 0

Updated(r) == Incremented(stock[Target(r)], OnHandDelta(r), ReservedDelta(r))

\* Mutant: the CHECK constraints were never migrated.
UpdateAndLogUnchecked(r, type, settled) ==
    /\ stock' = Put(stock, Target(r), Updated(r))
    /\ ledger' = [ledger EXCEPT ![Target(r)] =
                     Append(@, LedgerEntry(type, OnHandDelta(r), ReservedDelta(r),
                                           Updated(r), settled))]

\* UPDATE inventory_items, and the ledger row with the counters it returned.
UpdateAndLog(r, type, settled) ==
    /\ ChecksHold(Updated(r))
    /\ stock' = Put(stock, Target(r), Updated(r))
    /\ ledger' = [ledger EXCEPT ![Target(r)] =
                     Append(@, LedgerEntry(type, OnHandDelta(r), ReservedDelta(r),
                                           Updated(r), settled))]

\* applyStockChangeInTx, for a receipt or an adjustment.
CommitStockChange(r) ==
    /\ pc[r] = "write"
    /\ arg[r].op \in {"receive", "adjust"}
    /\ UpdateAndLog(r, IF arg[r].op = "receive" THEN "RECEIPT" ELSE "ADJUSTMENT", {})
    /\ Goto(r, "done")
    /\ UNCHANGED <<resv, arg, tries>>

\* reserveStockInTx; the new reservation has an id of its own.
CommitReservation(r) ==
    /\ pc[r] = "write"
    /\ arg[r].op = "reserve"
    /\ UpdateAndLog(r, "RESERVATION", {})
    /\ \E id \in Ids \ DOMAIN resv :
           resv' = Put(resv, id, [item |-> arg[r].item, quantity |-> arg[r].amount,
                                  status |-> "ACTIVE"])
    /\ Goto(r, "done")
    /\ UNCHANGED <<arg, tries>>

\* Mutant: a settled reservation is deleted instead of marked.
CommitSettlementByDelete(r) ==
    /\ pc[r] = "write"
    /\ arg[r].op \in SettleOps
    /\ UpdateAndLog(r, IF arg[r].op = "release" THEN "RELEASE" ELSE "CONSUMPTION",
                    {arg[r].id})
    /\ resv' = [id \in DOMAIN resv \ {arg[r].id} |-> resv[id]]
    /\ Goto(r, "done")
    /\ UNCHANGED <<arg, tries>>

\* releaseReservationInTx and consumeReservationInTx after their findFirst:
\* neither UPDATE mentions the status that was read.
CommitSettlement(r) ==
    /\ pc[r] = "write"
    /\ arg[r].op \in SettleOps
    /\ LET release == arg[r].op = "release"
           id      == arg[r].id
       IN  /\ UpdateAndLog(r, IF release THEN "RELEASE" ELSE "CONSUMPTION", {id})
           /\ resv' = [resv EXCEPT ![id].status =
                          IF release THEN "RELEASED" ELSE "CONSUMED"]
    /\ Goto(r, "done")
    /\ UNCHANGED <<arg, tries>>

\* A CHECK constraint refuses the UPDATE.  receiveStock, adjustStock and
\* reserveStock translate it to a 409; the settlements let it become a 500.
CheckViolation(r) ==
    /\ pc[r] = "write"
    /\ ~ChecksHold(Updated(r))
    /\ Goto(r, IF arg[r].op \in SettleOps THEN "failed" ELSE "rejected")
    /\ UNCHANGED <<stock, resv, ledger, arg, tries>>

\* Mutant: the attempts are not counted.
TransientErrorUncounted(r) ==
    /\ pc[r] \in {"find", "write"}
    /\ Goto(r, IF arg[r].op \in SettleOps THEN "find" ELSE "write")
    /\ UNCHANGED <<stock, resv, ledger, arg, tries>>

\* withTransactionRetry: a transient error rolls the attempt back and runs it
\* again from its start, or gives up after MaxAttempts.
TransientError(r) ==
    /\ pc[r] \in {"find", "write"}
    /\ \/ /\ tries[r] < MaxAttempts
          /\ tries' = [tries EXCEPT ![r] = @ + 1]
          /\ Goto(r, IF arg[r].op \in SettleOps THEN "find" ELSE "write")
       \/ /\ tries[r] = MaxAttempts
          /\ Goto(r, "failed")
          /\ UNCHANGED tries
    /\ UNCHANGED <<stock, resv, ledger, arg>>

\* The pod dies, or the error is not retryable: the open transaction is lost.
Crash(r) ==
    /\ pc[r] \in Pending
    /\ Goto(r, "failed")
    /\ UNCHANGED <<stock, resv, ledger, arg, tries>>

-----------------------------------------------------------------------------
Handle(r) ==
    \/ CreateItem(r)
    \/ FindActive(r)
    \/ CommitStockChange(r)
    \/ CommitReservation(r)
    \/ CommitSettlement(r)
    \/ CheckViolation(r)

\* Every request has been answered: the server waits for more.
AllAnswered ==
    /\ \A r \in Requests : pc[r] \in Finished
    /\ UNCHANGED vars

Next ==
    \/ \E r \in Requests :
           \/ \E i \in Items, q \in Quantities : Receive(r, i, q) \/ Reserve(r, i, q)
           \/ \E i \in Items, d \in Deltas : Adjust(r, i, d)
           \/ \E id \in Ids, op \in SettleOps : Settle(r, op, id)
           \/ Handle(r)
           \/ TransientError(r)
           \/ Crash(r)
    \/ AllAnswered

\* Node keeps running the handlers it has started, and Postgres answers them.
Fairness == \A r \in Requests : WF_vars(Handle(r))

Spec     == Init /\ [][Next]_vars
FairSpec == Spec /\ Fairness

-----------------------------------------------------------------------------
(* What a client of the stock counters may rely on: StockAccount.          *)

Position == [i \in Items |-> IF i \in DOMAIN stock THEN stock[i] ELSE EmptyRow]
Book == [i \in Items |->
            [k \in 1..Len(ledger[i]) |->
                <<ledger[i][k].onHandDelta, ledger[i][k].reservedDelta>>]]

Account == INSTANCE StockAccount WITH position <- Position, book <- Book

-----------------------------------------------------------------------------
(* Properties.                                                             *)

\* What a request in progress was asked, and what it has already found.
ArgumentFits(r) ==
    \/ /\ arg[r] \in StockArg
       /\ pc[r] = "create" => arg[r].op = "receive"
       /\ pc[r] = "write" => arg[r].item \in DOMAIN stock
       /\ pc[r] # "find"
       /\ arg[r].op = "adjust" => arg[r].amount \in Deltas
       /\ arg[r].op # "adjust" => arg[r].amount \in Quantities
    \/ /\ arg[r] \in SettleArg
       /\ pc[r] = "write" => arg[r].id \in DOMAIN resv
       /\ pc[r] # "create"

\* The tables keep their types and CHECKs; a reservation's item exists.
TypeOK ==
    /\ DOMAIN stock \subseteq Items
    /\ stock \in [DOMAIN stock -> StockRow]
    /\ \A i \in DOMAIN stock : ChecksHold(stock[i])
    /\ DOMAIN resv \subseteq Ids
    /\ resv \in [DOMAIN resv -> ReservationRow(Items)]
    /\ ledger \in [Items -> Seq(LedgerRow(SUBSET Ids))]
    /\ pc \in [Requests -> {"idle"} \cup Pending \cup Finished]
    /\ arg \in [Requests -> StockArg \cup SettleArg \cup {NoArg}]
    /\ tries \in [Requests -> 1..MaxAttempts]
    /\ \A id \in DOMAIN resv : /\ resv[id].item \in DOMAIN stock
                                /\ resv[id].quantity \in Quantities
    /\ \A r \in Requests : pc[r] \in Pending => ArgumentFits(r)

\* "Stock changes always create transaction records" (inventory.service.ts):
\* replaying the ledger of an item from zero gives, row by row, the counters
\* it recorded, and at the end the counters of the item.
Opening(i, k) ==
    IF k = 1 THEN EmptyRow
    ELSE [onHand   |-> ledger[i][k-1].onHandAfter,
          reserved |-> ledger[i][k-1].reservedAfter]

Closing(i) == Opening(i, Len(ledger[i]) + 1)

RowsChain(i) ==
    \A k \in 1..Len(ledger[i]) :
        [onHand |-> ledger[i][k].onHandAfter, reserved |-> ledger[i][k].reservedAfter]
        = Incremented(Opening(i, k), ledger[i][k].onHandDelta,
                      ledger[i][k].reservedDelta)

LedgerBalances ==
    \A i \in Items :
        /\ RowsChain(i)
        /\ Closing(i) = IF i \in DOMAIN stock THEN stock[i] ELSE EmptyRow

\* How often the ledger says a reservation was settled.
Settlements(id) ==
    MapThenSumSet(LAMBDA i : Cardinality({k \in 1..Len(ledger[i]) :
                                              id \in ledger[i][k].settles}), Items)

HeldBy(i, id) ==
    IF resv[id].item = i THEN resv[id].quantity ELSE 0

\* An item's `reserved' counter is the quantity of its ACTIVE reservations,
\* short of it by exactly the repeated settlements: no other interleaving of
\* the operations, no rollback and no retry makes the counter drift.
ReservedIsAccountedFor ==
    \A i \in DOMAIN stock :
        stock[i].reserved
        = MapThenSumSet(LAMBDA id : (1 - Settlements(id)) * HeldBy(i, id), DOMAIN resv)

\* "Returns null if no ACTIVE reservation with this id exists (already
\* released/consumed ...)" (inventory.repository.ts): a reservation gives its
\* quantity back at most once.
SettledOnce == \A id \in Ids : Settlements(id) <= 1

\* A settled reservation stays settled, what a reservation holds never
\* changes, and the ledger only grows ("Transactions are append-only").
HistoryIsKept ==
    [][/\ \A id \in DOMAIN resv :
              /\ id \in DOMAIN resv'
              /\ resv'[id].item = resv[id].item
              /\ resv'[id].quantity = resv[id].quantity
              /\ resv[id].status # "ACTIVE" => resv'[id].status # "ACTIVE"
       /\ \A i \in Items :
              /\ Len(ledger[i]) <= Len(ledger'[i])
              /\ \A k \in 1..Len(ledger[i]) : ledger'[i][k] = ledger[i][k]]_vars

\* Whatever the interleaving, each item behaves as an account on which whole,
\* recorded movements happen one at a time ("Inventory math must remain
\* transactional", inventory.repository.ts).
BehavesAsAccount == Account!Spec

\* Every request that arrived is answered, through conflicts and retries.
EveryRequestEnds == \A r \in Requests : pc[r] \in Pending ~> pc[r] \in Finished
=============================================================================
