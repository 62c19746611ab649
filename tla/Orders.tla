------------------------------- MODULE Orders -------------------------------
(***************************************************************************)
(* OrderService over OrderRepository and the inventory tables, under       *)
(* concurrent HTTP requests.                                               *)
(*                                                                         *)
(* create, changeStatus and cancel read the order (or validate the new     *)
(* one) first and then run ONE transaction made of several statements.     *)
(* Postgres gives READ COMMITTED: a read sees the committed rows and the   *)
(* transaction's own writes; an UPDATE waits for the transaction that      *)
(* wrote the row and then applies to what that one committed; COMMIT makes *)
(* all writes visible at once.  A transaction's writes are kept in tx[r]   *)
(* until then, and the rows it holds locked are the rows it wrote.         *)
(*                                                                         *)
(* The ledger is reduced to how often each kind of row was written for     *)
(* each reservation; the counters a row records are Inventory's subject.   *)
(***************************************************************************)
EXTENDS StockTables, FiniteSetsExt

CONSTANTS
    Items,          \* inventory items
    Orders,         \* ids of the orders there may be
    Lines,          \* order -> its lines: [item, quantity], in order
    InitialStock,   \* item -> on-hand quantity
    InitialStatus,  \* order -> status, for the orders that exist at the start
    Requests,       \* HTTP requests, each handled once
    MaxInFlight,    \* bound: requests handled at the same time
    MaxAttempts,    \* DB_TRANSACTION_RETRY_POLICY.maxAttempts
    PoolSize        \* poolMax of the transaction client

VARIABLES
    stock,          \* inventory_items
    resv,           \* inventory_reservations: <<order, line>> -> status
    moves,          \* RESERVATION, RELEASE and CONSUMPTION rows per reservation
    order,          \* orders: id -> status
    history,        \* order_status_history of each order, oldest first
    pc,             \* where each request is
    arg,            \* what each request was asked to do
    seen,           \* the status the request read before its transaction
    at,             \* the step of its transaction the request is at
    tries,          \* attempts of the transaction so far
    tx              \* the uncommitted writes of the request's transaction

tables  == <<stock, resv, moves, order, history>>
request == <<pc, arg, seen, at, tries, tx>>
vars    == <<stock, resv, moves, order, history, pc, arg, seen, at, tries, tx>>

Lifecycle == INSTANCE OrderLifecycle WITH status <- order, trail <- history

OrderStatus == Lifecycle!OrderStatus
Forward     == Lifecycle!Forward
Cancellable == Lifecycle!Cancellable

LineIds(o) == 1..Len(Lines[o])
ResvIds    == UNION {{o} \X LineIds(o) : o \in Orders}
ItemOf(v)  == Lines[v[1]][v[2]].item
QtyOf(v)   == Lines[v[1]][v[2]].quantity

InitialResv == {v \in ResvIds : v[1] \in DOMAIN InitialStatus}

\* What the orders that exist at the start have reserved of an item.
InitialReserved(i) == MapThenSumSet(QtyOf, {v \in InitialResv : ItemOf(v) = i})

\* Rows of different tables are different rows, every order has a line, and the
\* counters satisfy their CHECKs at the start.
ASSUME OrdersAssumption ==
    /\ Items \cap Orders = {}
    /\ Lines \in [Orders -> Seq([item : Items, quantity : Nat \ {0}])]
    /\ \A o \in Orders : Len(Lines[o]) > 0
    /\ InitialStock \in [Items -> Nat]
    /\ DOMAIN InitialStatus \subseteq Orders
    /\ InitialStatus \in [DOMAIN InitialStatus -> Cancellable]
    /\ \A i \in Items : InitialReserved(i) \in 0..InitialStock[i]
    /\ MaxInFlight \in Nat /\ MaxAttempts \in Nat \ {0} /\ PoolSize \in Nat \ {0}

None == "none"
NoTx == [stock |-> <<>>, resv |-> <<>>, order |-> <<>>, rows |-> {}, trail |-> <<>>]

\* A request waits in "begin" for a connection; "read" and "write" are the two
\* halves of a step of its transaction; "commit" ends it.
Pending  == {"begin", "read", "write", "commit"}
Finished == {"done", "rejected", "failed"}
InFlight == {r \in Requests : pc[r] \in Pending}

MoveType == {"RESERVATION", "RELEASE", "CONSUMPTION"}

\* The orders that exist at the start were created and moved forward before.
Init ==
    /\ order = InitialStatus
    /\ resv = [v \in InitialResv |-> "ACTIVE"]
    /\ stock = [i \in Items |->
                   [onHand |-> InitialStock[i], reserved |-> InitialReserved(i)]]
    /\ moves = [v \in ResvIds |->
                   [t \in MoveType |->
                       IF t = "RESERVATION" /\ v \in InitialResv THEN 1 ELSE 0]]
    /\ history = [o \in Orders |->
                     IF o \in DOMAIN InitialStatus
                     THEN Lifecycle!TrailTo(InitialStatus[o]) ELSE <<>>]
    /\ pc = [r \in Requests |-> "idle"]
    /\ arg = [r \in Requests |-> [op |-> "none"]]
    /\ seen = [r \in Requests |-> None]
    /\ at = [r \in Requests |-> 1]
    /\ tries = [r \in Requests |-> 1]
    /\ tx = [r \in Requests |-> NoTx]

-----------------------------------------------------------------------------
(* The statements of each handler's transaction, in the order of the code. *)

Step(act, v) == [act |-> act, v |-> v]

EachLine(act, o) == [k \in LineIds(o) |-> Step(act, <<o, k>>)]

\* Mutant: the reservations are consumed before the order row is updated.
PlanConsumeFirst(a) ==
    CASE a.op = "create"  -> EachLine("reserve", a.order) \o <<Step("insert", None)>>
      [] a.op = "change"  -> (IF a.status = "COMPLETED" THEN EachLine("consume", a.order)
                              ELSE <<>>) \o <<Step("status", None)>>
      [] a.op = "cancel"  -> EachLine("release", a.order) \o <<Step("status", None)>>
      [] a.op = "release" -> <<Step("release", a.v)>>

\* Mutant: cancel does not release the first line's reservation.
PlanKeepFirst(a) ==
    CASE a.op = "create"  -> EachLine("reserve", a.order) \o <<Step("insert", None)>>
      [] a.op = "change"  -> <<Step("status", None)>> \o
                             (IF a.status = "COMPLETED" THEN EachLine("consume", a.order)
                              ELSE <<>>)
      [] a.op = "cancel"  -> Tail(EachLine("release", a.order)) \o <<Step("status", None)>>
      [] a.op = "release" -> <<Step("release", a.v)>>

Plan(a) ==
    CASE a.op = "create"  -> EachLine("reserve", a.order) \o <<Step("insert", None)>>
      [] a.op = "change"  -> <<Step("status", None)>> \o
                             (IF a.status = "COMPLETED" THEN EachLine("consume", a.order)
                              ELSE <<>>)
      [] a.op = "cancel"  -> EachLine("release", a.order) \o <<Step("status", None)>>
      [] a.op = "release" -> <<Step("release", a.v)>>

Current(r) == Plan(arg[r])[at[r]]

\* Where a transaction stands when its n-th step is next.
Label(a, n) ==
    IF n > Len(Plan(a)) THEN "commit"
    ELSE IF Plan(a)[n].act \in {"reserve", "release", "consume"} THEN "read"
    ELSE "write"

-----------------------------------------------------------------------------
(* Rows, locks and connections.                                            *)

Over(committed, own) ==
    [x \in DOMAIN committed \cup DOMAIN own |->
        IF x \in DOMAIN own THEN own[x] ELSE committed[x]]

Holds(r) == DOMAIN tx[r].stock \cup DOMAIN tx[r].order
Free(r, row) == \A s \in Requests \ {r} : row \notin Holds(s)

\* The row the next UPDATE of r has to lock.
Wants(r) ==
    IF pc[r] # "write" THEN {}
    ELSE IF Current(r).act = "status" THEN {arg[r].order}
    ELSE IF Current(r).act = "insert" THEN {}
    ELSE {ItemOf(Current(r).v)}

Blocked(r)     == \E row \in Wants(r) : ~Free(r, row)
WaitsFor(r, s) == s # r /\ Wants(r) \cap Holds(s) # {}

\* Connections in use: one for each open transaction.
Connections == {r \in Requests : pc[r] \in {"read", "write", "commit"}}
PoolFull    == Cardinality(Connections) >= PoolSize

\* The availability check of reserveStockInternal does not use the
\* transaction's client: it needs a connection besides the one r holds.
NeedsSecondConnection(r) == pc[r] = "read" /\ Current(r).act = "reserve"

Waiting(r) ==
    \/ pc[r] = "begin" /\ PoolFull
    \/ NeedsSecondConnection(r) /\ PoolFull
    \/ Blocked(r)

-----------------------------------------------------------------------------
(* Arrival: what each handler reads and checks before its transaction.     *)

Goto(r, label) == pc' = [pc EXCEPT ![r] = label]

Arrive(r, a, status, label) ==
    /\ pc[r] = "idle"
    /\ Cardinality(InFlight) < MaxInFlight
    /\ arg' = [arg EXCEPT ![r] = a]
    /\ seen' = [seen EXCEPT ![r] = status]
    /\ Goto(r, label)
    /\ UNCHANGED <<stock, resv, moves, order, history, at, tries, tx>>

\* create: the order gets an id of its own.
Create(r, o) ==
    /\ o \notin DOMAIN order
    /\ \A s \in Requests : arg[s].op = "create" => arg[s].order # o
    /\ Arrive(r, [op |-> "create", order |-> o], None, "begin")

\* changeStatus: 400 unless the target follows the status just read.
ChangeStatus(r, o, s) ==
    /\ o \in DOMAIN order
    /\ Arrive(r, [op |-> "change", order |-> o, status |-> s], order[o],
              IF order[o] \in DOMAIN Forward /\ Forward[order[o]] = s
              THEN "begin" ELSE "rejected")

\* cancel: 400 unless the status just read is cancellable.
Cancel(r, o) ==
    /\ o \in DOMAIN order
    /\ Arrive(r, [op |-> "cancel", order |-> o, status |-> "CANCELLED"], order[o],
              IF order[o] \in Cancellable THEN "begin" ELSE "rejected")

\* POST /inventory/reservations/:id/release, on an order's reservation.
Release(r, v) ==
    /\ v \in DOMAIN resv
    /\ Arrive(r, [op |-> "release", v |-> v], None, "begin")

-----------------------------------------------------------------------------
(* The transaction.                                                        *)

Begin(r) ==
    /\ pc[r] = "begin"
    /\ ~PoolFull
    /\ Goto(r, Label(arg[r], 1))
    /\ UNCHANGED <<stock, resv, moves, order, history, arg, seen, at, tries, tx>>

\* Mutant: the error is caught, and the statements so far are committed.
RollbackKeepsWrites(r, label) ==
    /\ Goto(r, label)
    /\ stock' = Over(stock, tx[r].stock)
    /\ resv' = Over(resv, tx[r].resv)
    /\ moves' = [v \in ResvIds |->
                    [t \in MoveType |->
                        moves[v][t] + IF <<v, t>> \in tx[r].rows THEN 1 ELSE 0]]
    /\ order' = Over(order, tx[r].order)
    /\ tx' = [tx EXCEPT ![r] = NoTx]
    /\ at' = [at EXCEPT ![r] = 1]
    /\ UNCHANGED <<history, arg, seen>>

\* The exception leaves the callback: ROLLBACK, and the request ends.
Rollback(r, label) ==
    /\ Goto(r, label)
    /\ tx' = [tx EXCEPT ![r] = NoTx]
    /\ at' = [at EXCEPT ![r] = 1]
    /\ UNCHANGED <<stock, resv, moves, order, history, arg, seen>>

\* reserveStockInternal: the item as committed, outside the transaction.
CheckAvailability(r) ==
    /\ NeedsSecondConnection(r)
    /\ ~PoolFull
    /\ LET v == Current(r).v
       IN  IF stock[ItemOf(v)].reserved + QtyOf(v) <= stock[ItemOf(v)].onHand
           THEN /\ Goto(r, "write")
                /\ UNCHANGED <<stock, resv, moves, order, history, arg, seen, at, tx>>
           ELSE Rollback(r, "rejected")
    /\ UNCHANGED tries

\* releaseReservationInTx, consumeReservationInTx: findFirst(ACTIVE) takes no
\* lock; null becomes a 404 that rolls the caller's transaction back.
FindActive(r) ==
    /\ pc[r] = "read"
    /\ Current(r).act \in {"release", "consume"}
    /\ LET v    == Current(r).v
           view == Over(resv, tx[r].resv)
       IN  IF v \in DOMAIN view /\ view[v] = "ACTIVE"
           THEN /\ Goto(r, "write")
                /\ UNCHANGED <<stock, resv, moves, order, history, arg, seen, at, tx>>
           ELSE Rollback(r, "rejected")
    /\ UNCHANGED tries

\* The increments of each kind of stock statement, and what it leaves.
OnHandDelta(act, v)   == IF act = "consume" THEN -QtyOf(v) ELSE 0
ReservedDelta(act, v) == IF act = "reserve" THEN QtyOf(v) ELSE -QtyOf(v)

RowType == [reserve |-> "RESERVATION", release |-> "RELEASE", consume |-> "CONSUMPTION"]
After   == [reserve |-> "ACTIVE", release |-> "RELEASED", consume |-> "CONSUMED"]

Advance(r, writes) ==
    /\ tx' = [tx EXCEPT ![r] = writes]
    /\ at' = [at EXCEPT ![r] = @ + 1]
    /\ Goto(r, Label(arg[r], at[r] + 1))
    /\ UNCHANGED <<stock, resv, moves, order, history, arg, seen>>

\* Mutant: the UPDATE does not wait for the transaction that wrote the row.
WriteStockNoLock(r) ==
    /\ pc[r] = "write"
    /\ Current(r).act \in DOMAIN After
    /\ LET act == Current(r).act
           v   == Current(r).v
           row == Incremented(Over(stock, tx[r].stock)[ItemOf(v)],
                              OnHandDelta(act, v), ReservedDelta(act, v))
       IN  IF ChecksHold(row)
           THEN Advance(r, [tx[r] EXCEPT
                    !.stock = Put(@, ItemOf(v), row),
                    !.resv  = Put(@, v, After[act]),
                    !.rows  = @ \cup {<<v, RowType[act]>>}])
           ELSE Rollback(r, IF act = "reserve" THEN "rejected" ELSE "failed")
    /\ UNCHANGED tries

\* UPDATE inventory_items by increments, once the row is free; the reservation
\* row; the ledger row.  A CHECK violation is a 409 when reserving and a 500
\* when settling, and rolls back either way.
WriteStock(r) ==
    /\ pc[r] = "write"
    /\ Current(r).act \in DOMAIN After
    /\ ~Blocked(r)
    /\ LET act == Current(r).act
           v   == Current(r).v
           row == Incremented(Over(stock, tx[r].stock)[ItemOf(v)],
                              OnHandDelta(act, v), ReservedDelta(act, v))
       IN  IF ChecksHold(row)
           THEN Advance(r, [tx[r] EXCEPT
                    !.stock = Put(@, ItemOf(v), row),
                    !.resv  = Put(@, v, After[act]),
                    !.rows  = @ \cup {<<v, RowType[act]>>}])
           ELSE Rollback(r, IF act = "reserve" THEN "rejected" ELSE "failed")
    /\ UNCHANGED tries

\* updateStatusInTx and addStatusHistoryInTx: `previous' is the status read
\* before the transaction.
WriteStatus(r) ==
    /\ pc[r] = "write"
    /\ Current(r).act = "status"
    /\ ~Blocked(r)
    /\ Advance(r, [tx[r] EXCEPT
           !.order = Put(@, arg[r].order, arg[r].status),
           !.trail = Append(@, [status |-> arg[r].status, previous |-> seen[r]])])
    /\ UNCHANGED tries

\* createInTx: the order, its items and its first history row.
InsertOrder(r) ==
    /\ pc[r] = "write"
    /\ Current(r).act = "insert"
    /\ Advance(r, [tx[r] EXCEPT
           !.order = Put(@, arg[r].order, "DRAFT"),
           !.trail = Append(@, [status |-> "DRAFT", previous |-> None])])
    /\ UNCHANGED tries

Commit(r) ==
    /\ pc[r] = "commit"
    /\ stock' = Over(stock, tx[r].stock)
    /\ resv' = Over(resv, tx[r].resv)
    /\ moves' = [v \in ResvIds |->
                    [t \in MoveType |->
                        moves[v][t] + IF <<v, t>> \in tx[r].rows THEN 1 ELSE 0]]
    /\ order' = Over(order, tx[r].order)
    /\ history' = [o \in Orders |->
                      IF o \in DOMAIN tx[r].order THEN history[o] \o tx[r].trail
                      ELSE history[o]]
    /\ tx' = [tx EXCEPT ![r] = NoTx]
    /\ at' = [at EXCEPT ![r] = 1]
    /\ Goto(r, "done")
    /\ UNCHANGED <<arg, seen, tries>>

-----------------------------------------------------------------------------
(* Failures.                                                               *)

\* withTransactionRetry on 40P01, 40001 or a terminated connection: roll back
\* and run the callback again, with everything read before it unchanged.
Retry(r) ==
    \/ /\ tries[r] < MaxAttempts
       /\ tries' = [tries EXCEPT ![r] = @ + 1]
       /\ Rollback(r, "begin")
    \/ /\ tries[r] = MaxAttempts
       /\ Rollback(r, "failed")
       /\ UNCHANGED tries

\* Postgres finds r on a cycle of waiting transactions.
Deadlock(r) ==
    /\ \E S \in SUBSET Requests :
          /\ r \in S
          /\ \A s \in S : /\ \E t \in S : WaitsFor(s, t)
                          /\ \E t \in S : WaitsFor(t, s)
    /\ Retry(r)

\* A transient error of the database.
TransientError(r) ==
    /\ pc[r] \in Pending
    /\ Retry(r)

\* Mutant: only a request without a transaction is timed out.
TimeOutUnopened(r) ==
    /\ pc[r] = "begin" /\ PoolFull
    /\ Rollback(r, "failed")
    /\ UNCHANGED tries

\* connectionTimeoutMillis for a connection, or the interactive transaction's
\* own timeout while it waits for a lock: not retried.
TimeOut(r) ==
    /\ Waiting(r)
    /\ Rollback(r, "failed")
    /\ UNCHANGED tries

\* The pod dies, or the error is not retryable.
Crash(r) ==
    /\ pc[r] \in Pending
    /\ Rollback(r, "failed")
    /\ UNCHANGED tries

-----------------------------------------------------------------------------
Handle(r) ==
    \/ Begin(r)
    \/ CheckAvailability(r)
    \/ FindActive(r)
    \/ WriteStock(r)
    \/ WriteStatus(r)
    \/ InsertOrder(r)
    \/ Commit(r)

AllAnswered ==
    /\ \A r \in Requests : pc[r] \in Finished
    /\ UNCHANGED vars

Next ==
    \/ \E r \in Requests :
           \/ \E o \in Orders : Create(r, o) \/ Cancel(r, o)
           \/ \E o \in Orders, s \in OrderStatus \ {"DRAFT", "CANCELLED"} :
                  ChangeStatus(r, o, s)
           \/ \E v \in ResvIds : Release(r, v)
           \/ Handle(r)
           \/ Deadlock(r)
           \/ TransientError(r)
           \/ TimeOut(r)
           \/ Crash(r)
    \/ AllAnswered

\* Node runs the handlers it has started, Postgres answers, and the timeouts
\* of the pool and of interactive transactions fire.
Fairness == \A r \in Requests : WF_vars(Handle(r)) /\ WF_vars(TimeOut(r))

Spec     == Init /\ [][Next]_vars
FairSpec == Spec /\ Fairness

-----------------------------------------------------------------------------
(* Properties.                                                             *)

TrailType == Seq([status : OrderStatus, previous : OrderStatus \cup {None}])

TxOK(t) ==
    /\ DOMAIN t.stock \subseteq Items /\ t.stock \in [DOMAIN t.stock -> StockRow]
    /\ DOMAIN t.resv \subseteq ResvIds /\ t.resv \in [DOMAIN t.resv -> ReservationStatus]
    /\ DOMAIN t.order \subseteq Orders /\ t.order \in [DOMAIN t.order -> OrderStatus]
    /\ t.rows \subseteq ResvIds \X MoveType
    /\ t.trail \in TrailType

\* The tables keep their types and CHECKs, and a row lock is exclusive.
TypeOK ==
    /\ stock \in [Items -> StockRow]
    /\ \A i \in Items : ChecksHold(stock[i])
    /\ DOMAIN resv \subseteq ResvIds /\ resv \in [DOMAIN resv -> ReservationStatus]
    /\ moves \in [ResvIds -> [MoveType -> Nat]]
    /\ DOMAIN order \subseteq Orders /\ order \in [DOMAIN order -> OrderStatus]
    /\ history \in [Orders -> TrailType]
    /\ pc \in [Requests -> {"idle"} \cup Pending \cup Finished]
    /\ seen \in [Requests -> OrderStatus \cup {None}]
    /\ tries \in [Requests -> 1..MaxAttempts]
    /\ \A r \in Requests : TxOK(tx[r]) /\ (tx[r] # NoTx => pc[r] \in Pending)
    /\ \A r, s \in Requests : r # s => Holds(r) \cap Holds(s) = {}

EverHad(o, s) == \E k \in 1..Len(history[o]) : history[o][k].status = s

\* Completing an order consumes every one of its reservations exactly once,
\* however many requests complete, cancel or release it at the same time, and
\* nothing else consumes them: changeStatus takes the order row before it
\* looks for ACTIVE reservations.
ShippedExactlyOnce ==
    \A v \in ResvIds :
        moves[v]["CONSUMPTION"] = IF EverHad(v[1], "COMPLETED") THEN 1 ELSE 0

\* "The order's own rows and its inventory side-effects commit or roll back
\* together": an order exists with all its reservations or not at all, and an
\* order that was ever completed or cancelled holds no stock.
OrdersHoldTheirStock ==
    /\ \A v \in ResvIds : moves[v]["RESERVATION"] = IF v[1] \in DOMAIN order THEN 1 ELSE 0
    /\ DOMAIN resv = {v \in ResvIds : v[1] \in DOMAIN order}
    /\ \A v \in DOMAIN resv :
           EverHad(v[1], "COMPLETED") \/ EverHad(v[1], "CANCELLED") => resv[v] # "ACTIVE"

\* No increment is lost: the counters of an item are what the committed
\* ledger rows add up to, across concurrent transactions over many items.
CountersAddUp ==
    \A i \in Items :
        LET on == {v \in ResvIds : ItemOf(v) = i}
        IN  /\ stock[i].onHand = InitialStock[i]
                 - MapThenSumSet(LAMBDA v : QtyOf(v) * moves[v]["CONSUMPTION"], on)
            /\ stock[i].reserved =
                 MapThenSumSet(LAMBDA v : QtyOf(v) *
                     (moves[v]["RESERVATION"] - moves[v]["RELEASE"]
                                              - moves[v]["CONSUMPTION"]), on)

\* "COMPLETED and CANCELLED are both terminal" (orders.constant.ts).
FinalStatusesAreFinal ==
    [][\A o \in DOMAIN order :
          order[o] \in {"COMPLETED", "CANCELLED"} => order'[o] = order[o]]_vars

\* Every request that arrived is answered: no deadlock of row locks or of
\* pooled connections lasts.
EveryRequestEnds == \A r \in Requests : pc[r] \in Pending ~> pc[r] \in Finished
=============================================================================
