-------------------------- MODULE InventoryProofs --------------------------
(***************************************************************************)
(* Theorems about Inventory for any items, requests and quantities.        *)
(***************************************************************************)
EXTENDS Inventory, SequenceTheorems, SumTheorems, TLAPS

USE DEF Pending, Finished, StockOps, SettleOps

\* A request about to write has its item row, and integer increments.
LEMMA WriteTarget ==
    ASSUME TypeOK, NEW r \in Requests, pc[r] = "write"
    PROVE  /\ Target(r) \in DOMAIN stock
           /\ Target(r) \in Items
           /\ OnHandDelta(r) \in Int
           /\ ReservedDelta(r) \in Int
<1> USE InventoryAssumption
<1>1. CASE arg[r] \in StockArg
  <2>1. arg[r].op \notin SettleOps /\ arg[r].item \in DOMAIN stock
    BY <1>1 DEF TypeOK, ArgumentFits, StockArg, SettleArg
  <2>2. arg[r].amount \in Int
    BY <1>1 DEF StockArg
  <2> QED BY <2>1, <2>2, <1>1 DEF Target, OnHandDelta, ReservedDelta, TypeOK, StockArg
<1>2. CASE arg[r] \in SettleArg
  <2>1. arg[r].op \in SettleOps /\ arg[r].id \in DOMAIN resv
    BY <1>2 DEF TypeOK, ArgumentFits, StockArg, SettleArg
  <2>2. /\ resv[arg[r].id].quantity \in Nat
        /\ resv[arg[r].id].item \in DOMAIN stock
    BY <2>1 DEF TypeOK, ReservationRow
  <2> QED BY <2>1, <2>2 DEF Target, OnHandDelta, ReservedDelta, TypeOK
<1> QED BY <1>1, <1>2 DEF TypeOK, ArgumentFits

\* The UPDATE keeps the item table well-formed and appends one ledger row.
LEMMA UpdateKeepsTypes ==
    ASSUME TypeOK, NEW r \in Requests, pc[r] = "write",
           NEW type \in TransactionType, NEW settled \in SUBSET Ids,
           UpdateAndLog(r, type, settled)
    PROVE  /\ Updated(r) \in StockRow
           /\ DOMAIN stock' = DOMAIN stock
           /\ stock' \in [DOMAIN stock -> StockRow]
           /\ \A i \in DOMAIN stock : ChecksHold(stock'[i])
           /\ ledger' \in [Items -> Seq(LedgerRow(SUBSET Ids))]
<1>1. /\ Target(r) \in DOMAIN stock
      /\ Target(r) \in Items
      /\ OnHandDelta(r) \in Int
      /\ ReservedDelta(r) \in Int
  BY WriteTarget
<1>2. Updated(r) \in StockRow
  BY <1>1 DEF UpdateAndLog, Updated, Incremented, ChecksHold, StockRow, TypeOK
<1>3. /\ DOMAIN stock' = DOMAIN stock
      /\ stock' \in [DOMAIN stock -> StockRow]
      /\ \A i \in DOMAIN stock : ChecksHold(stock'[i])
  BY <1>1, <1>2 DEF UpdateAndLog, Put, TypeOK
<1>4. LedgerEntry(type, OnHandDelta(r), ReservedDelta(r), Updated(r), settled)
         \in LedgerRow(SUBSET Ids)
  BY <1>1, <1>2 DEF LedgerEntry, LedgerRow, StockRow
<1>5. ledger' \in [Items -> Seq(LedgerRow(SUBSET Ids))]
  <2>1. ledger[Target(r)] \in Seq(LedgerRow(SUBSET Ids))
    BY <1>1 DEF TypeOK
  <2>2. Append(ledger[Target(r)],
               LedgerEntry(type, OnHandDelta(r), ReservedDelta(r), Updated(r), settled))
           \in Seq(LedgerRow(SUBSET Ids))
    BY <2>1, <1>4
  <2> QED BY <1>1, <2>2 DEF UpdateAndLog, TypeOK
<1> QED BY <1>2, <1>3, <1>5

-----------------------------------------------------------------------------
LEMMA TypeInit == Init => TypeOK
<1> SUFFICES ASSUME Init PROVE TypeOK OBVIOUS
<1> USE InventoryAssumption
<1>1. /\ DOMAIN stock \subseteq Items
      /\ stock \in [DOMAIN stock -> StockRow]
      /\ \A i \in DOMAIN stock : ChecksHold(stock[i])
  BY DEF Init, StockRow, ChecksHold
<1>2. ledger \in [Items -> Seq(LedgerRow(SUBSET Ids))]
  <2>1. ASSUME NEW i \in Items PROVE ledger[i] \in Seq(LedgerRow(SUBSET Ids))
    <3> DEFINE row == LedgerEntry("RECEIPT", InitialStock[i], 0,
                          [onHand |-> InitialStock[i], reserved |-> 0], {})
    <3>1. row \in LedgerRow(SUBSET Ids)
      BY DEF LedgerRow, LedgerEntry, TransactionType
    <3> HIDE DEF row
    <3>2. <<row>> \in Seq(LedgerRow(SUBSET Ids)) /\ << >> \in Seq(LedgerRow(SUBSET Ids))
      BY <3>1
    <3>3. ledger[i] = IF InitialStock[i] > 0 THEN <<row>> ELSE << >>
      BY DEF Init, row
    <3> QED BY <3>2, <3>3
  <2> QED BY <2>1 DEF Init
<1>3. DOMAIN resv = {} /\ resv \in [DOMAIN resv -> ReservationRow(Items)]
  BY DEF Init
<1>4. /\ pc \in [Requests -> {"idle"} \cup Pending \cup Finished]
      /\ arg \in [Requests -> StockArg \cup SettleArg \cup {NoArg}]
      /\ tries \in [Requests -> 1..MaxAttempts]
      /\ \A r \in Requests : pc[r] \notin Pending
  BY DEF Init
<1> QED BY <1>1, <1>2, <1>3, <1>4 DEF TypeOK

\* Arriving changes nothing but the request's own state.
LEMMA TypeArrive ==
    ASSUME TypeOK, NEW r \in Requests,
           NEW a, NEW label, Arrive(r, a, label),
           a \in StockArg \cup SettleArg,
           label \in Pending \cup Finished,
           label \in Pending =>
               \/ /\ a \in StockArg
                  /\ label = "create" => a.op = "receive"
                  /\ label = "write" => a.item \in DOMAIN stock
                  /\ label # "find"
                  /\ a.op = "adjust" => a.amount \in Deltas
                  /\ a.op # "adjust" => a.amount \in Quantities
               \/ /\ a \in SettleArg
                  /\ label = "write" => a.id \in DOMAIN resv
                  /\ label # "create"
    PROVE  TypeOK'
<1>1. /\ arg' \in [Requests -> StockArg \cup SettleArg \cup {NoArg}]
      /\ pc' \in [Requests -> {"idle"} \cup Pending \cup Finished]
  BY DEF Arrive, Goto, TypeOK
<1>2. \A x \in Requests : pc'[x] \in Pending => ArgumentFits(x)'
  BY DEF Arrive, Goto, TypeOK, ArgumentFits
<1> QED BY <1>1, <1>2 DEF TypeOK, Arrive

LEMMA TypeNext == TypeOK /\ [Next]_vars => TypeOK'
<1> SUFFICES ASSUME TypeOK, [Next]_vars PROVE TypeOK' OBVIOUS
<1> USE InventoryAssumption
<1>1. ASSUME NEW r \in Requests, NEW i \in Items, NEW q \in Quantities, Receive(r, i, q)
      PROVE  TypeOK'
  <2> DEFINE a == [op |-> "receive", item |-> i, amount |-> q]
            label == IF i \in DOMAIN stock THEN "write" ELSE "create"
  <2>1. Arrive(r, a, label)
    BY <1>1 DEF Receive
  <2>2. a \in StockArg /\ a.op = "receive" /\ a.item = i /\ a.amount \in Quantities
    BY DEF StockArg
  <2>3. /\ label \in Pending \cup Finished /\ label # "find"
        /\ label = "create" => a.op = "receive"
        /\ label = "write" => i \in DOMAIN stock
    OBVIOUS
  <2> HIDE DEF a, label
  <2> QED BY <2>1, <2>2, <2>3, TypeArrive
<1>2. ASSUME NEW r \in Requests, NEW i \in Items, NEW q \in Quantities, Reserve(r, i, q)
      PROVE  TypeOK'
  <2> DEFINE a == [op |-> "reserve", item |-> i, amount |-> q]
            label == IF i \in DOMAIN stock /\ stock[i].reserved + q <= stock[i].onHand
                     THEN "write" ELSE "rejected"
  <2>1. Arrive(r, a, label)
    BY <1>2 DEF Reserve
  <2>2. a \in StockArg /\ a.op = "reserve" /\ a.item = i /\ a.amount \in Quantities
    BY DEF StockArg
  <2>3. /\ label \in Pending \cup Finished /\ label # "find"
        /\ label = "create" => a.op = "receive"
        /\ label = "write" => i \in DOMAIN stock
    OBVIOUS
  <2> HIDE DEF a, label
  <2> QED BY <2>1, <2>2, <2>3, TypeArrive
<1>3. ASSUME NEW r \in Requests, NEW i \in Items, NEW d \in Deltas, Adjust(r, i, d)
      PROVE  TypeOK'
  BY <1>3, TypeArrive DEF Adjust, StockArg
<1>4. ASSUME NEW r \in Requests, NEW id \in Ids, NEW op \in SettleOps, Settle(r, op, id)
      PROVE  TypeOK'
  BY <1>4, TypeArrive DEF Settle, SettleArg
<1>5. ASSUME NEW r \in Requests, CreateItem(r)
      PROVE  TypeOK'
  <2>1. arg[r] \in StockArg /\ arg[r].item \in Items
    BY <1>5 DEF CreateItem, TypeOK, ArgumentFits, StockArg
  <2>2. /\ DOMAIN stock \subseteq DOMAIN stock' /\ DOMAIN stock' \subseteq Items
        /\ stock' \in [DOMAIN stock' -> StockRow]
        /\ \A i \in DOMAIN stock' : ChecksHold(stock'[i])
        /\ pc'[r] = "write" => arg[r].item \in DOMAIN stock'
    <3>1. CASE arg[r].item \notin DOMAIN stock /\ stock' = Put(stock, arg[r].item, EmptyRow)
      <4>1. EmptyRow \in StockRow /\ ChecksHold(EmptyRow)
        BY DEF EmptyRow, StockRow, ChecksHold
      <4> HIDE DEF EmptyRow
      <4> QED BY <3>1, <2>1, <4>1 DEF Put, TypeOK
    <3>2. CASE UNCHANGED stock /\ arg[r].item \in DOMAIN stock
      BY <3>2 DEF TypeOK
    <3> QED BY <1>5, <3>1, <3>2 DEF CreateItem
  <2>3. /\ pc' \in [Requests -> {"idle"} \cup Pending \cup Finished]
        /\ pc'[r] \in {"write", "failed"}
        /\ \A x \in Requests : x # r => pc'[x] = pc[x]
    BY <1>5 DEF CreateItem, Goto, TypeOK
  <2>4. UNCHANGED <<resv, ledger, arg, tries>>
    BY <1>5 DEF CreateItem
  <2>5. ASSUME NEW x \in Requests, pc'[x] \in Pending PROVE ArgumentFits(x)'
    <3>1. CASE x = r
      <4>1. ArgumentFits(r)
        BY <1>5 DEF CreateItem, TypeOK
      <4> QED BY <4>1, <3>1, <2>1, <2>2, <2>3, <2>4, <2>5, <1>5
              DEF ArgumentFits, CreateItem, StockArg, SettleArg
    <3>2. CASE x # r
      <4>1. ArgumentFits(x)
        BY <2>5, <2>3, <3>2 DEF TypeOK
      <4> QED BY <4>1, <3>2, <2>2, <2>3, <2>4 DEF ArgumentFits
    <3> QED BY <3>1, <3>2
  <2>6. \A id \in DOMAIN resv' : /\ resv'[id].item \in DOMAIN stock'
                                 /\ resv'[id].quantity \in Quantities
    BY <2>2, <2>4 DEF TypeOK
  <2> QED BY <2>2, <2>3, <2>4, <2>5, <2>6 DEF TypeOK
<1>6. ASSUME NEW r \in Requests, FindActive(r)
      PROVE  TypeOK'
  <2>1. ArgumentFits(r)
    BY <1>6 DEF FindActive, TypeOK
  <2> QED BY <1>6, <2>1 DEF FindActive, Goto, TypeOK, ArgumentFits, IsActive
<1>7. ASSUME NEW r \in Requests, CommitStockChange(r)
      PROVE  TypeOK'
  <2>1. PICK type \in TransactionType : UpdateAndLog(r, type, {})
    BY <1>7 DEF CommitStockChange, TransactionType
  <2>2. /\ DOMAIN stock' = DOMAIN stock
        /\ stock' \in [DOMAIN stock -> StockRow]
        /\ \A i \in DOMAIN stock : ChecksHold(stock'[i])
        /\ ledger' \in [Items -> Seq(LedgerRow(SUBSET Ids))]
    BY <1>7, <2>1, UpdateKeepsTypes DEF CommitStockChange
  <2> QED BY <1>7, <2>2 DEF CommitStockChange, Goto, TypeOK, ArgumentFits
<1>8. ASSUME NEW r \in Requests, CommitReservation(r)
      PROVE  TypeOK'
  <2>1. UpdateAndLog(r, "RESERVATION", {}) /\ pc[r] = "write"
    BY <1>8 DEF CommitReservation
  <2>2. /\ DOMAIN stock' = DOMAIN stock
        /\ stock' \in [DOMAIN stock -> StockRow]
        /\ \A i \in DOMAIN stock : ChecksHold(stock'[i])
        /\ ledger' \in [Items -> Seq(LedgerRow(SUBSET Ids))]
    <3>1. "RESERVATION" \in TransactionType /\ {} \in SUBSET Ids
      BY DEF TransactionType
    <3> QED BY <2>1, <3>1, UpdateKeepsTypes
  <2>3. /\ arg[r].item \in DOMAIN stock /\ arg[r].item \in Items
        /\ arg[r].amount \in Quantities
    BY <1>8 DEF CommitReservation, TypeOK, ArgumentFits, StockArg, SettleArg
  <2>4. /\ DOMAIN resv \subseteq DOMAIN resv'
        /\ DOMAIN resv' \subseteq Ids
        /\ resv' \in [DOMAIN resv' -> ReservationRow(Items)]
        /\ \A id \in DOMAIN resv' : /\ resv'[id].item \in DOMAIN stock
                                    /\ resv'[id].quantity \in Quantities
    <3>1. PICK id \in Ids \ DOMAIN resv :
              resv' = Put(resv, id, [item |-> arg[r].item, quantity |-> arg[r].amount,
                                     status |-> "ACTIVE"])
      BY <1>8 DEF CommitReservation
    <3>2. [item |-> arg[r].item, quantity |-> arg[r].amount, status |-> "ACTIVE"]
             \in ReservationRow(Items)
      BY <2>3 DEF ReservationRow, ReservationStatus
    <3> QED BY <3>1, <3>2, <2>3 DEF Put, TypeOK
  <2> QED BY <1>8, <2>2, <2>4 DEF CommitReservation, Goto, TypeOK, ArgumentFits
<1>9. ASSUME NEW r \in Requests, CommitSettlement(r)
      PROVE  TypeOK'
  <2>1. arg[r].id \in DOMAIN resv
    BY <1>9 DEF CommitSettlement, TypeOK, ArgumentFits, StockArg, SettleArg
  <2>2. PICK type \in TransactionType : UpdateAndLog(r, type, {arg[r].id})
    BY <1>9 DEF CommitSettlement, TransactionType
  <2>3. /\ DOMAIN stock' = DOMAIN stock
        /\ stock' \in [DOMAIN stock -> StockRow]
        /\ \A i \in DOMAIN stock : ChecksHold(stock'[i])
        /\ ledger' \in [Items -> Seq(LedgerRow(SUBSET Ids))]
    BY <1>9, <2>1, <2>2, UpdateKeepsTypes DEF CommitSettlement, TypeOK
  <2>4. /\ DOMAIN resv' = DOMAIN resv
        /\ resv' \in [DOMAIN resv -> ReservationRow(Items)]
        /\ \A id \in DOMAIN resv : /\ resv'[id].item = resv[id].item
                                   /\ resv'[id].quantity = resv[id].quantity
    <3>1. PICK status \in ReservationStatus :
              resv' = [resv EXCEPT ![arg[r].id] = [@ EXCEPT !.status = status]]
      BY <1>9 DEF CommitSettlement, ReservationStatus
    <3> QED BY <3>1, <2>1 DEF TypeOK, ReservationRow
  <2> QED BY <1>9, <2>3, <2>4 DEF CommitSettlement, Goto, TypeOK, ArgumentFits
<1>10. ASSUME NEW r \in Requests, CheckViolation(r)
      PROVE  TypeOK'
  BY <1>10 DEF CheckViolation, Goto, TypeOK, ArgumentFits
<1>11. ASSUME NEW r \in Requests, TransientError(r)
      PROVE  TypeOK'
  <2>1. ArgumentFits(r)
    BY <1>11 DEF TransientError, TypeOK
  <2>2. tries' \in [Requests -> 1..MaxAttempts]
    <3>1. tries[r] \in 1..MaxAttempts /\ MaxAttempts \in Nat
      BY DEF TypeOK
    <3>2. CASE tries[r] < MaxAttempts /\ tries' = [tries EXCEPT ![r] = @ + 1]
      <4>1. tries[r] + 1 \in 1..MaxAttempts
        BY <3>1, <3>2
      <4> QED BY <4>1, <3>2 DEF TypeOK
    <3>3. CASE UNCHANGED tries
      BY <3>3 DEF TypeOK
    <3> QED BY <1>11, <3>2, <3>3 DEF TransientError
  <2>3. /\ pc' \in [Requests -> {"idle"} \cup Pending \cup Finished]
        /\ \A x \in Requests : x # r => pc'[x] = pc[x]
        /\ pc'[r] = "find" => arg[r].op \in SettleOps
        /\ pc'[r] = "write" => pc[r] = "write" /\ arg[r].op \notin SettleOps
        /\ pc'[r] # "create" /\ pc[r] \in Pending
    <3>1. pc[r] = "find" => arg[r].op \in SettleOps
      BY <2>1 DEF ArgumentFits, SettleArg
    <3> QED BY <1>11, <3>1 DEF TransientError, Goto, TypeOK, Pending, Finished
  <2>4. UNCHANGED <<stock, resv, ledger, arg>>
    BY <1>11 DEF TransientError
  <2>5. ASSUME NEW x \in Requests, pc'[x] \in Pending PROVE ArgumentFits(x)'
    <3>1. CASE x = r
      <4>1. CASE arg[r] \in StockArg
        BY <4>1, <3>1, <2>1, <2>3, <2>4, <2>5 DEF ArgumentFits, StockArg, SettleArg,
                                                  StockOps, SettleOps
      <4>2. CASE arg[r] \in SettleArg
        BY <4>2, <3>1, <2>1, <2>3, <2>4, <2>5 DEF ArgumentFits, StockArg, SettleArg,
                                                  StockOps, SettleOps
      <4> QED BY <4>1, <4>2, <2>1 DEF ArgumentFits
    <3>2. CASE x # r
      <4>1. ArgumentFits(x)
        BY <2>5, <2>3, <3>2 DEF TypeOK
      <4> QED BY <4>1, <3>2, <2>3, <2>4 DEF ArgumentFits
    <3> QED BY <3>1, <3>2
  <2> QED BY <2>2, <2>3, <2>4, <2>5 DEF TypeOK
<1>12. ASSUME NEW r \in Requests, Crash(r)
      PROVE  TypeOK'
  BY <1>12 DEF Crash, Goto, TypeOK, ArgumentFits
<1>13. CASE UNCHANGED vars
  BY <1>13 DEF vars, TypeOK, ArgumentFits
<1> QED BY <1>1, <1>2, <1>3, <1>4, <1>5, <1>6, <1>7, <1>8, <1>9, <1>10, <1>11,
           <1>12, <1>13 DEF Next, Handle, AllAnswered

\* The tables keep their types and CHECKs in every reachable state.
THEOREM TypeCorrect == Spec => []TypeOK
<1>1. Init => TypeOK BY TypeInit
<1>2. TypeOK /\ [Next]_vars => TypeOK' BY TypeNext
<1> QED BY <1>1, <1>2, PTL DEF Spec

-----------------------------------------------------------------------------
(* The ledger.  RowsChain(i) and Closing(i) read stock[i] and ledger[i]     *)
(* only, so only CreateItem and the three commits can disturb them.         *)

\* The UPDATE and its ledger row keep the books balanced.
LEMMA UpdateKeepsBalance ==
    ASSUME TypeOK, LedgerBalances, NEW r \in Requests, pc[r] = "write",
           NEW type \in TransactionType, NEW settled \in SUBSET Ids,
           UpdateAndLog(r, type, settled)
    PROVE  LedgerBalances'
<1>0. PICK t \in Items : t = Target(r)
  BY WriteTarget
<1> DEFINE row == LedgerEntry(type, OnHandDelta(r), ReservedDelta(r), Updated(r), settled)
<1>1. /\ t \in DOMAIN stock
      /\ t \in Items
      /\ OnHandDelta(r) \in Int
      /\ ReservedDelta(r) \in Int
  BY <1>0, WriteTarget
<1>2. /\ Updated(r) \in StockRow
      /\ DOMAIN stock' = DOMAIN stock
      /\ ledger' \in [Items -> Seq(LedgerRow(SUBSET Ids))]
  BY UpdateKeepsTypes
<1>3. /\ stock' = Put(stock, t, Updated(r))
      /\ ledger' = [ledger EXCEPT ![t] = Append(@, row)]
  BY <1>0 DEF UpdateAndLog
<1>4. /\ row.onHandDelta = OnHandDelta(r) /\ row.reservedDelta = ReservedDelta(r)
      /\ [onHand |-> row.onHandAfter, reserved |-> row.reservedAfter] = Updated(r)
  BY <1>2 DEF LedgerEntry, StockRow
<1>5. Updated(r) = Incremented(stock[t], OnHandDelta(r), ReservedDelta(r))
  BY <1>0 DEF Updated
<1> HIDE DEF row
<1>6. ASSUME NEW i \in Items, i # t
      PROVE  /\ ledger'[i] = ledger[i]
             /\ i \in DOMAIN stock => stock'[i] = stock[i]
  BY <1>1, <1>3, <1>6 DEF Put, TypeOK
<1>7. ASSUME NEW i \in Items, i # t
      PROVE  RowsChain(i)' /\ Closing(i)' = IF i \in DOMAIN stock' THEN stock'[i] ELSE EmptyRow
  <2>1. RowsChain(i) /\ Closing(i) = IF i \in DOMAIN stock THEN stock[i] ELSE EmptyRow
    BY DEF LedgerBalances
  <2> QED BY <2>1, <1>2, <1>6, <1>7 DEF RowsChain, Closing, Opening
<1>8. RowsChain(t)' /\ Closing(t)' = stock'[t]
  <2>0. ledger[t] \in Seq(LedgerRow(SUBSET Ids))
    BY DEF TypeOK
  <2>1. PICK n \in Nat : n = Len(ledger[t])
    BY <2>0
  <2>2. ledger'[t] = Append(ledger[t], row)
    BY <1>1, <1>3 DEF TypeOK
  <2>3. /\ Len(ledger'[t]) = n + 1
        /\ ledger'[t][n + 1] = row
        /\ \A k \in 1..n : ledger'[t][k] = ledger[t][k]
    BY <2>0, <2>1, <2>2
  <2>4. RowsChain(t) /\ Closing(t) = stock[t]
    BY <1>1 DEF LedgerBalances
  <2>5. \A k \in 1..n+1 : Opening(t, k)' = Opening(t, k)
    BY <2>1, <2>3 DEF Opening
  <2>6. Opening(t, n + 2)' = Updated(r)
    BY <2>1, <2>3, <1>4 DEF Opening
  <2>7. Closing(t)' = Updated(r)
    BY <2>1, <2>3, <2>6 DEF Closing
  <2>8. Opening(t, n + 1) = stock[t]
    BY <2>1, <2>4 DEF Closing
  <2>9. ASSUME NEW k \in 1..n+1
        PROVE  [onHand |-> ledger'[t][k].onHandAfter, reserved |-> ledger'[t][k].reservedAfter]
               = Incremented(Opening(t, k)', ledger'[t][k].onHandDelta,
                             ledger'[t][k].reservedDelta)
    <3>1. CASE k \in 1..n
      BY <3>1, <2>3, <2>4, <2>5, <2>1 DEF RowsChain
    <3>2. CASE k = n + 1
      BY <3>2, <2>3, <2>5, <2>8, <1>4, <1>5
    <3> QED BY <3>1, <3>2, <2>1
  <2>10. RowsChain(t)'
    BY <2>3, <2>9 DEF RowsChain
  <2>11. stock'[t] = Updated(r)
    BY <1>1, <1>3 DEF Put
  <2> QED BY <2>7, <2>10, <2>11
<1> QED BY <1>1, <1>2, <1>7, <1>8 DEF LedgerBalances

LEMMA BalanceInit == Init => LedgerBalances
<1> SUFFICES ASSUME Init, NEW i \in Items
             PROVE  /\ RowsChain(i)
                    /\ Closing(i) = IF i \in DOMAIN stock THEN stock[i] ELSE EmptyRow
  BY DEF LedgerBalances
<1> USE InventoryAssumption
<1>1. CASE InitialStock[i] > 0
  <2> DEFINE opening == [onHand |-> InitialStock[i], reserved |-> 0]
             row == LedgerEntry("RECEIPT", InitialStock[i], 0, opening, {})
  <2>1. i \in DOMAIN stock /\ stock[i] = opening /\ ledger[i] = <<row>>
    BY <1>1 DEF Init
  <2>2. /\ row.onHandAfter = InitialStock[i] /\ row.reservedAfter = 0
        /\ row.onHandDelta = InitialStock[i] /\ row.reservedDelta = 0
    BY DEF LedgerEntry
  <2> HIDE DEF row
  <2>3. Len(ledger[i]) = 1 /\ ledger[i][1] = row
    BY <2>1
  <2>4. RowsChain(i)
    BY <2>2, <2>3 DEF RowsChain, Opening, EmptyRow, Incremented
  <2>5. Closing(i) = opening
    BY <2>2, <2>3 DEF Closing, Opening
  <2> QED BY <2>1, <2>4, <2>5
<1>2. CASE ~(InitialStock[i] > 0)
  <2>1. i \notin DOMAIN stock /\ ledger[i] = << >>
    BY <1>2 DEF Init
  <2> QED BY <2>1 DEF RowsChain, Closing, Opening
<1> QED BY <1>1, <1>2

LEMMA BalanceNext == TypeOK /\ LedgerBalances /\ [Next]_vars => LedgerBalances'
<1> SUFFICES ASSUME TypeOK, LedgerBalances, [Next]_vars PROVE LedgerBalances' OBVIOUS
<1>1. ASSUME UNCHANGED <<stock, ledger>> PROVE LedgerBalances'
  BY <1>1 DEF LedgerBalances, RowsChain, Closing, Opening
<1>2. ASSUME NEW r \in Requests, CreateItem(r) PROVE LedgerBalances'
  <2>1. CASE UNCHANGED stock
    BY <1>1, <1>2, <2>1 DEF CreateItem
  <2>2. CASE /\ arg[r].item \notin DOMAIN stock
             /\ stock' = Put(stock, arg[r].item, EmptyRow)
    <3>1. ASSUME NEW i \in Items
          PROVE  (IF i \in DOMAIN stock' THEN stock'[i] ELSE EmptyRow)
                 = (IF i \in DOMAIN stock THEN stock[i] ELSE EmptyRow)
      BY <2>2 DEF Put
    <3>2. UNCHANGED ledger
      BY <1>2 DEF CreateItem
    <3> QED BY <3>1, <3>2 DEF LedgerBalances, RowsChain, Closing, Opening
  <2> QED BY <1>2, <2>1, <2>2 DEF CreateItem
<1>3. ASSUME NEW r \in Requests, CommitStockChange(r) PROVE LedgerBalances'
  <2>1. PICK type \in TransactionType : UpdateAndLog(r, type, {})
    BY <1>3 DEF CommitStockChange, TransactionType
  <2> QED BY <1>3, <2>1, UpdateKeepsBalance DEF CommitStockChange
<1>4. ASSUME NEW r \in Requests, CommitReservation(r) PROVE LedgerBalances'
  <2>1. "RESERVATION" \in TransactionType /\ {} \in SUBSET Ids
    BY DEF TransactionType
  <2> QED BY <1>4, <2>1, UpdateKeepsBalance DEF CommitReservation
<1>5. ASSUME NEW r \in Requests, CommitSettlement(r) PROVE LedgerBalances'
  <2>1. arg[r].id \in Ids
    BY <1>5 DEF CommitSettlement, TypeOK, ArgumentFits, StockArg, SettleArg
  <2>2. PICK type \in TransactionType : UpdateAndLog(r, type, {arg[r].id})
    BY <1>5 DEF CommitSettlement, TransactionType
  <2> QED BY <1>5, <2>1, <2>2, UpdateKeepsBalance DEF CommitSettlement
<1> QED BY <1>1, <1>2, <1>3, <1>4, <1>5
        DEF Next, Handle, AllAnswered, Receive, Reserve, Adjust, Settle, Arrive,
            FindActive, CheckViolation, TransientError, Crash, vars

\* "Stock changes always create transaction records": in every reachable state
\* replaying an item's ledger gives its counters, whatever overlapped.
THEOREM LedgerCorrect == Spec => []LedgerBalances
<1>1. Init => TypeOK /\ LedgerBalances
  BY TypeInit, BalanceInit
<1>2. TypeOK /\ LedgerBalances /\ [Next]_vars => (TypeOK /\ LedgerBalances)'
  BY TypeNext, BalanceNext
<1> QED BY <1>1, <1>2, PTL DEF Spec

-----------------------------------------------------------------------------
(* What a step may never undo.                                              *)

Kept == /\ \A id \in DOMAIN resv :
               /\ id \in DOMAIN resv'
               /\ resv'[id].item = resv[id].item
               /\ resv'[id].quantity = resv[id].quantity
               /\ resv[id].status # "ACTIVE" => resv'[id].status # "ACTIVE"
        /\ \A i \in Items :
               /\ Len(ledger[i]) <= Len(ledger'[i])
               /\ \A k \in 1..Len(ledger[i]) : ledger'[i][k] = ledger[i][k]

LEMMA UpdateKeepsLedger ==
    ASSUME TypeOK, NEW r \in Requests, pc[r] = "write",
           NEW type, NEW settled, UpdateAndLog(r, type, settled), NEW i \in Items
    PROVE  /\ Len(ledger[i]) <= Len(ledger'[i])
           /\ \A k \in 1..Len(ledger[i]) : ledger'[i][k] = ledger[i][k]
<1>1. PICK row : ledger' = [ledger EXCEPT ![Target(r)] = Append(@, row)]
  BY DEF UpdateAndLog
<1>2. ledger[i] \in Seq(LedgerRow(SUBSET Ids))
  BY DEF TypeOK
<1>3. ledger'[i] = ledger[i] \/ ledger'[i] = Append(ledger[i], row)
  BY <1>1 DEF TypeOK
<1> QED BY <1>2, <1>3

LEMMA KeptNext == TypeOK /\ [Next]_vars => [Kept]_vars
<1> SUFFICES ASSUME TypeOK, Next PROVE Kept
  OBVIOUS
<1>1. ASSUME UNCHANGED <<resv, ledger>> PROVE Kept
  <2>1. \A i \in Items : ledger[i] \in Seq(LedgerRow(SUBSET Ids))
    BY DEF TypeOK
  <2> QED BY <1>1, <2>1 DEF Kept
<1>2. ASSUME NEW r \in Requests, CommitStockChange(r) PROVE Kept
  <2>1. PICK type : UpdateAndLog(r, type, {})
    BY <1>2 DEF CommitStockChange
  <2> QED BY <1>2, <2>1, UpdateKeepsLedger DEF CommitStockChange, Kept
<1>3. ASSUME NEW r \in Requests, CommitReservation(r) PROVE Kept
  <2>1. UpdateAndLog(r, "RESERVATION", {}) /\ pc[r] = "write"
    BY <1>3 DEF CommitReservation
  <2>2. \A id \in DOMAIN resv : id \in DOMAIN resv' /\ resv'[id] = resv[id]
    BY <1>3 DEF CommitReservation, Put
  <2> QED BY <2>1, <2>2, UpdateKeepsLedger DEF Kept
<1>4. ASSUME NEW r \in Requests, CommitSettlement(r) PROVE Kept
  <2>1. PICK type : UpdateAndLog(r, type, {arg[r].id})
    BY <1>4 DEF CommitSettlement
  <2>2. PICK status \in {"RELEASED", "CONSUMED"} :
            resv' = [resv EXCEPT ![arg[r].id].status = status]
    BY <1>4 DEF CommitSettlement
  <2>3. \A id \in DOMAIN resv :
           /\ id \in DOMAIN resv'
           /\ resv'[id].item = resv[id].item
           /\ resv'[id].quantity = resv[id].quantity
           /\ resv[id].status # "ACTIVE" => resv'[id].status # "ACTIVE"
    BY <2>2 DEF TypeOK, ReservationRow
  <2> QED BY <1>4, <2>1, <2>3, UpdateKeepsLedger DEF CommitSettlement, Kept
<1> QED BY <1>1, <1>2, <1>3, <1>4
        DEF Next, Handle, AllAnswered, Receive, Reserve, Adjust, Settle, Arrive,
            CreateItem, FindActive, CheckViolation, TransientError, Crash, vars

\* "Transactions are append-only", and a settled reservation stays settled.
THEOREM HistoryKept == Spec => HistoryIsKept
<1>1. TypeOK /\ [Next]_vars => [Kept]_vars
  BY KeptNext
<1> QED BY <1>1, TypeCorrect, PTL DEF Spec, HistoryIsKept, Kept

-----------------------------------------------------------------------------
(* Refinement of StockAccount: each commit is one movement of one item, and *)
(* every other step leaves positions and books alone.                       *)

LEMMA CommitIsMove ==
    ASSUME TypeOK, NEW r \in Requests, pc[r] = "write",
           NEW type \in TransactionType, NEW settled \in SUBSET Ids,
           UpdateAndLog(r, type, settled)
    PROVE  Account!Move(Target(r), OnHandDelta(r), ReservedDelta(r))
<1>0. PICK t \in Items : t = Target(r)
  BY WriteTarget
<1>1. PICK d \in Int, e \in Int : d = OnHandDelta(r) /\ e = ReservedDelta(r)
  BY WriteTarget
<1>2. /\ t \in DOMAIN stock
      /\ Updated(r) = Incremented(stock[t], d, e)
      /\ Updated(r) \in StockRow
      /\ DOMAIN stock' = DOMAIN stock
  BY <1>0, <1>1, WriteTarget, UpdateKeepsTypes DEF Updated
<1>3. Position[t] = stock[t]
  BY <1>2 DEF Position
<1>4. ChecksHold(Incremented(Position[t], d, e))
  BY <1>2, <1>3 DEF UpdateAndLog
<1>5. Position' = [Position EXCEPT ![t] = Incremented(@, d, e)]
  <2>1. stock' = Put(stock, t, Updated(r))
    BY <1>0 DEF UpdateAndLog
  <2>2. \A i \in Items : Position'[i] = IF i = t THEN Incremented(stock[t], d, e)
                                        ELSE Position[i]
    BY <1>2, <2>1 DEF Position, Put
  <2> QED BY <1>3, <2>2 DEF Position
<1>6. Book' = [Book EXCEPT ![t] = Append(@, <<d, e>>)]
  <2>1. PICK row : /\ ledger' = [ledger EXCEPT ![t] = Append(@, row)]
                   /\ row.onHandDelta = d /\ row.reservedDelta = e
    <3> DEFINE entry == LedgerEntry(type, OnHandDelta(r), ReservedDelta(r), Updated(r), settled)
    <3>1. entry.onHandDelta = d /\ entry.reservedDelta = e
      BY <1>1 DEF LedgerEntry
    <3>2. ledger' = [ledger EXCEPT ![t] = Append(@, entry)]
      BY <1>0 DEF UpdateAndLog
    <3> HIDE DEF entry
    <3> QED BY <3>1, <3>2
  <2>2. ledger[t] \in Seq(LedgerRow(SUBSET Ids)) /\ ledger'[t] = Append(ledger[t], row)
    BY <2>1 DEF TypeOK
  <2>3. PICK n \in Nat : n = Len(ledger[t])
    BY <2>2
  <2>4. /\ Len(ledger'[t]) = n + 1 /\ ledger'[t][n + 1] = row
        /\ \A k \in 1..n : ledger'[t][k] = ledger[t][k]
    BY <2>2, <2>3
  <2>5. Book[t] = [k \in 1..n |-> <<ledger[t][k].onHandDelta, ledger[t][k].reservedDelta>>]
    BY <2>3 DEF Book
  <2>6. Book'[t] = [k \in 1..n+1 |-> <<ledger'[t][k].onHandDelta, ledger'[t][k].reservedDelta>>]
    BY <2>4 DEF Book
  <2>7. \A k \in 1..n+1 : Book'[t][k] = IF k = n + 1 THEN <<d, e>> ELSE Book[t][k]
    BY <2>1, <2>4, <2>5, <2>6
  <2>8. Book'[t] = [k \in 1..n+1 |-> IF k = n + 1 THEN <<d, e>> ELSE Book[t][k]]
    BY <2>6, <2>7
  <2>9. Append(Book[t], <<d, e>>)
           = [k \in 1..n+1 |-> IF k = n + 1 THEN <<d, e>> ELSE Book[t][k]]
    <3> DEFINE T == {<<ledger[t][k].onHandDelta, ledger[t][k].reservedDelta>> : k \in 1..n}
                       \cup {<<d, e>>}
    <3>1. Book[t] \in Seq(T) /\ Len(Book[t]) = n /\ <<d, e>> \in T
      BY <2>5
    <3> QED BY <3>1, AppendProperties, <2>5
  <2>10. \A i \in Items \ {t} : Book'[i] = Book[i]
    BY <2>1 DEF Book, TypeOK
  <2> QED BY <2>8, <2>9, <2>10 DEF Book
<1> QED BY <1>0, <1>1, <1>4, <1>5, <1>6
        DEF Account!Move, Account!ChecksHold, Account!Incremented, ChecksHold, Incremented

LEMMA AccountNext == TypeOK /\ [Next]_vars => [Account!Next]_<<Position, Book>>
<1> SUFFICES ASSUME TypeOK, [Next]_vars PROVE [Account!Next]_<<Position, Book>>
  OBVIOUS
<1> USE InventoryAssumption
<1>1. ASSUME UNCHANGED <<stock, ledger>> PROVE UNCHANGED <<Position, Book>>
  BY <1>1 DEF Position, Book
<1>2. ASSUME NEW r \in Requests, CreateItem(r) PROVE UNCHANGED <<Position, Book>>
  BY <1>2 DEF CreateItem, Put, Position, Book
<1>3. ASSUME NEW r \in Requests, CommitStockChange(r) PROVE Account!Next
  <2>1. PICK type \in TransactionType : UpdateAndLog(r, type, {})
    BY <1>3 DEF CommitStockChange, TransactionType
  <2>2. /\ Account!Move(Target(r), OnHandDelta(r), ReservedDelta(r))
        /\ Target(r) \in Items
    BY <1>3, <2>1, CommitIsMove, WriteTarget DEF CommitStockChange
  <2>3. OnHandDelta(r) \in Quantities \cup Deltas /\ ReservedDelta(r) = 0
    BY <1>3 DEF CommitStockChange, OnHandDelta, ReservedDelta, TypeOK, ArgumentFits,
               StockArg, SettleArg
  <2> QED BY <2>2, <2>3 DEF Account!Next, Account!Restock
<1>4. ASSUME NEW r \in Requests, CommitReservation(r) PROVE Account!Next
  <2>1. /\ UpdateAndLog(r, "RESERVATION", {}) /\ pc[r] = "write"
        /\ "RESERVATION" \in TransactionType /\ {} \in SUBSET Ids
    BY <1>4 DEF CommitReservation, TransactionType
  <2>2. /\ Account!Move(Target(r), OnHandDelta(r), ReservedDelta(r))
        /\ Target(r) \in Items
    BY <2>1, CommitIsMove, WriteTarget
  <2>3. OnHandDelta(r) = 0 /\ ReservedDelta(r) \in Quantities
    BY <1>4 DEF CommitReservation, OnHandDelta, ReservedDelta, TypeOK, ArgumentFits,
               StockArg, SettleArg
  <2> QED BY <2>2, <2>3 DEF Account!Next, Account!Hold
<1>5. ASSUME NEW r \in Requests, CommitSettlement(r) PROVE Account!Next
  <2>1. /\ arg[r].id \in DOMAIN resv /\ arg[r].id \in Ids
        /\ arg[r].op \in SettleOps
    BY <1>5 DEF CommitSettlement, TypeOK, ArgumentFits, StockArg, SettleArg
  <2>2. PICK type \in TransactionType : UpdateAndLog(r, type, {arg[r].id})
    BY <1>5 DEF CommitSettlement, TransactionType
  <2>3. /\ Account!Move(Target(r), OnHandDelta(r), ReservedDelta(r))
        /\ Target(r) \in Items
    BY <1>5, <2>1, <2>2, CommitIsMove, WriteTarget DEF CommitSettlement
  <2>4. PICK q \in Quantities : q = resv[arg[r].id].quantity
    BY <2>1 DEF TypeOK
  <2>5. \/ OnHandDelta(r) = 0 /\ ReservedDelta(r) = -q
        \/ OnHandDelta(r) = -q /\ ReservedDelta(r) = -q
    BY <2>1, <2>4 DEF OnHandDelta, ReservedDelta
  <2> QED BY <2>3, <2>4, <2>5 DEF Account!Next, Account!Unhold, Account!Ship
<1> QED BY <1>1, <1>2, <1>3, <1>4, <1>5
        DEF Next, Handle, AllAnswered, Receive, Reserve, Adjust, Settle, Arrive,
            FindActive, CheckViolation, TransientError, Crash, vars

LEMMA AccountInit == Init => Account!Init
<1> SUFFICES ASSUME Init PROVE Account!Init OBVIOUS
<1> USE InventoryAssumption
<1>1. Position = [i \in Items |-> [onHand |-> InitialStock[i], reserved |-> 0]]
  <2>1. ASSUME NEW i \in Items
        PROVE  Position[i] = [onHand |-> InitialStock[i], reserved |-> 0]
    BY DEF Init, Position, EmptyRow
  <2> QED BY <2>1 DEF Position
<1>2. ASSUME NEW i \in Items
      PROVE  Book[i] = IF InitialStock[i] > 0 THEN << <<InitialStock[i], 0>> >> ELSE << >>
  <2>1. CASE InitialStock[i] > 0
    <3>1. PICK row : /\ ledger[i] = <<row>>
                     /\ row.onHandDelta = InitialStock[i] /\ row.reservedDelta = 0
      BY <2>1 DEF Init, LedgerEntry
    <3>2. Len(ledger[i]) = 1 /\ ledger[i][1] = row
      BY <3>1
    <3>3. Book[i] = [k \in 1..1 |-> <<InitialStock[i], 0>>]
      <4>1. Book[i] = [k \in 1..1 |-> <<ledger[i][k].onHandDelta, ledger[i][k].reservedDelta>>]
        BY <3>2 DEF Book
      <4>2. \A k \in 1..1 : ledger[i][k] = row
        BY <3>2
      <4> QED BY <4>1, <4>2, <3>1
    <3> QED BY <2>1, <3>3
  <2>2. CASE ~(InitialStock[i] > 0)
    <3>1. ledger[i] = << >> /\ Len(ledger[i]) = 0
      BY <2>2 DEF Init
    <3>2. Book[i] = [k \in 1..0 |-> <<ledger[i][k].onHandDelta, ledger[i][k].reservedDelta>>]
      BY <3>1 DEF Book
    <3> QED BY <2>2, <3>2
  <2> QED BY <2>1, <2>2
<1> QED BY <1>1, <1>2 DEF Account!Init, Book

\* Whatever overlaps, the inventory behaves as StockAccount: whole, recorded
\* movements of one item, one at a time.
THEOREM ImplementsAccount == Spec => BehavesAsAccount
<1>1. Init => Account!Init
  BY AccountInit
<1>2. TypeOK /\ [Next]_vars => [Account!Next]_<<Position, Book>>
  BY AccountNext
<1> QED BY <1>1, <1>2, TypeCorrect, PTL
        DEF Spec, BehavesAsAccount, Account!Spec, Account!accountVars

-----------------------------------------------------------------------------
(* The reserved counters.                                                  *)

Rows == LedgerRow(SUBSET Ids)

\* How often the rows l of an item, and the ledger m of them all, settle a
\* reservation, and what the reservations v then still hold of an item.
Times(l, id) == Cardinality({k \in 1..Len(l) : id \in l[k].settles})
TimesOver(m, id) == [i \in Items |-> Times(m[i], id)]
Owed(i, v, m) ==
    [id \in DOMAIN v |->
        (1 - SumOf(TimesOver(m, id))) * (IF v[id].item = i THEN v[id].quantity ELSE 0)]

\* There are finitely many reservations, and only they are settled.
ReservedFits ==
    /\ IsFiniteSet(DOMAIN resv)
    /\ \A i \in Items : \A k \in 1..Len(ledger[i]) : ledger[i][k].settles \subseteq DOMAIN resv
    /\ \A i \in DOMAIN stock : stock[i].reserved = SumOf(Owed(i, resv, ledger))

LEMMA TimesGrow ==
    ASSUME NEW l \in Seq(Rows), NEW row \in Rows, NEW id
    PROVE  /\ Times(l, id) \in Nat
           /\ Times(Append(l, row), id) = Times(l, id) + IF id \in row.settles THEN 1 ELSE 0
<1> DEFINE n == Len(l)
           m == Append(l, row)
           S == {k \in 1..n : id \in l[k].settles}
           T == {k \in 1..Len(m) : id \in m[k].settles}
<1>1. n \in Nat /\ Len(m) = n + 1 /\ m[n + 1] = row /\ \A k \in 1..n : m[k] = l[k]
  OBVIOUS
<1>2. IsFiniteSet(S) /\ n + 1 \notin S
  <2>1. IsFiniteSet(1..n) /\ S \in SUBSET (1..n)
    BY <1>1, FS_Interval
  <2> QED BY <1>1, <2>1, FS_Subset
<1>3. T = IF id \in row.settles THEN S \cup {n + 1} ELSE S
  <2> HIDE DEF n, m
  <2> QED BY <1>1
<1>4. Cardinality(S) \in Nat
  BY <1>2, FS_CardinalityType
<1>5. Cardinality(S \cup {n + 1}) = Cardinality(S) + 1
  <2> HIDE DEF S
  <2> QED BY <1>2, FS_AddElement
<1>6. PICK c \in Nat : c = Cardinality(S)
  BY <1>4
<1>7. Cardinality(T) = c + IF id \in row.settles THEN 1 ELSE 0
  <2> HIDE DEF S, T
  <2>1. CASE id \in row.settles
    BY <1>3, <1>5, <1>6, <2>1
  <2>2. CASE id \notin row.settles
    BY <1>3, <1>6, <2>2
  <2> QED BY <2>1, <2>2
<1> QED BY <1>6, <1>7 DEF Times

LEMMA CountsGrow ==
    ASSUME IsFiniteSet(Items), NEW m \in [Items -> Seq(Rows)], NEW t \in Items,
           NEW row \in Rows, NEW n, n[t] = Append(m[t], row),
           \A i \in Items \ {t} : n[i] = m[i], NEW id
    PROVE  /\ SumOf(TimesOver(m, id)) \in Int
           /\ SumOf(TimesOver(n, id)) =
                  SumOf(TimesOver(m, id)) + IF id \in row.settles THEN 1 ELSE 0
<1> DEFINE f == TimesOver(m, id)
           g == TimesOver(n, id)
<1>1. \A i \in Items : Times(m[i], id) \in Nat /\ Times(n[i], id) \in Nat
  <2>1. \A i \in Items : m[i] \in Seq(Rows)
    OBVIOUS
  <2>2. Append(m[t], row) \in Seq(Rows)
    BY <2>1
  <2>3. \A i \in Items : n[i] \in Seq(Rows)
    BY <2>1, <2>2
  <2> QED BY <2>1, <2>3, TimesGrow
<1>2. f \in [Items -> Int] /\ g \in [Items -> Int] /\ \A i \in Items \ {t} : g[i] = f[i]
  BY <1>1 DEF TimesOver
<1>3. g[t] = f[t] + IF id \in row.settles THEN 1 ELSE 0
  <2>1. m[t] \in Seq(Rows)
    OBVIOUS
  <2>2. Times(Append(m[t], row), id) = Times(m[t], id) + IF id \in row.settles THEN 1 ELSE 0
    BY <2>1, TimesGrow
  <2> QED BY <2>2 DEF TimesOver
<1> HIDE DEF f, g
<1>4. SumOf(g) = SumOf(f) + (g[t] - f[t]) /\ SumOf(f) \in Int
  BY <1>2, SumOfUpdated, SumOfType
<1>5. PICK x, y \in Int : x = f[t] /\ y = SumOf(f)
  BY <1>2, <1>4
<1>6. g[t] - f[t] = IF id \in row.settles THEN 1 ELSE 0
  <2>1. CASE id \in row.settles
    <3>1. g[t] = x + 1
      BY <1>3, <1>5, <2>1
    <3> QED BY <1>5, <2>1, <3>1
  <2>2. CASE id \notin row.settles
    <3>1. g[t] = x + 0
      BY <1>3, <1>5, <2>2
    <3> QED BY <1>5, <2>2, <3>1
  <2> QED BY <2>1, <2>2
<1> QED BY <1>4, <1>6 DEF f, g

\* What an UPDATE and its ledger row do.
LEMMA Posted ==
    ASSUME TypeOK, NEW r \in Requests, pc[r] = "write",
           NEW type \in TransactionType, NEW settled \in SUBSET Ids,
           UpdateAndLog(r, type, settled)
    PROVE  /\ Target(r) \in DOMAIN stock /\ Target(r) \in Items
           /\ ReservedDelta(r) \in Int /\ DOMAIN stock' = DOMAIN stock
           /\ stock'[Target(r)].reserved = stock[Target(r)].reserved + ReservedDelta(r)
           /\ \A i \in DOMAIN stock \ {Target(r)} : stock'[i] = stock[i]
           /\ \E row \in Rows : row.settles = settled
                                /\ ledger' = [ledger EXCEPT ![Target(r)] = Append(@, row)]
<1>1. /\ Target(r) \in DOMAIN stock /\ Target(r) \in Items
      /\ OnHandDelta(r) \in Int /\ ReservedDelta(r) \in Int
  BY WriteTarget
<1>2. Updated(r) \in StockRow /\ DOMAIN stock' = DOMAIN stock
  BY UpdateKeepsTypes
<1> DEFINE row == LedgerEntry(type, OnHandDelta(r), ReservedDelta(r), Updated(r), settled)
<1>3. row \in Rows /\ row.settles = settled
  BY <1>1, <1>2 DEF LedgerEntry, LedgerRow, StockRow, Rows
<1>4. ledger' = [ledger EXCEPT ![Target(r)] = Append(@, row)]
  BY DEF UpdateAndLog
<1> HIDE DEF row
<1>5. stock' = Put(stock, Target(r), Updated(r))
  BY DEF UpdateAndLog
<1>6. Updated(r).reserved = stock[Target(r)].reserved + ReservedDelta(r)
  BY DEF Updated, Incremented
<1>7. stock'[Target(r)].reserved = stock[Target(r)].reserved + ReservedDelta(r)
  BY <1>5, <1>6 DEF Put
<1>8. \A i \in DOMAIN stock \ {Target(r)} : stock'[i] = stock[i]
  BY <1>5 DEF Put
<1> QED BY <1>1, <1>2, <1>3, <1>4, <1>7, <1>8

LEMMA SettlesGrow ==
    ASSUME TypeOK, ReservedFits, NEW t \in Items, NEW row \in Rows,
           ledger' = [ledger EXCEPT ![t] = Append(@, row)],
           row.settles \subseteq DOMAIN resv', DOMAIN resv \subseteq DOMAIN resv'
    PROVE  \A i \in Items : \A k \in 1..Len(ledger'[i]) : ledger'[i][k].settles \subseteq DOMAIN resv'
<1> SUFFICES ASSUME NEW i \in Items, NEW k \in 1..Len(ledger'[i])
             PROVE  ledger'[i][k].settles \subseteq DOMAIN resv'
  OBVIOUS
<1>1. ledger[i] \in Seq(Rows) /\ ledger \in [Items -> Seq(Rows)]
  BY DEF TypeOK, Rows
<1>2. \A j \in 1..Len(ledger[i]) : ledger[i][j].settles \subseteq DOMAIN resv
  BY DEF ReservedFits
<1>3. CASE i # t
  BY <1>1, <1>2, <1>3
<1>4. CASE i = t
  <2>1. ledger'[i] = Append(ledger[i], row)
    BY <1>1, <1>4
  <2> DEFINE l == ledger[i]
             m == ledger'[i]
  <2>2. l \in Seq(Rows) /\ m = Append(l, row) /\ k \in 1..Len(m)
    BY <1>1, <2>1
  <2> HIDE DEF l, m
  <2>3. m[k] = row \/ (k \in 1..Len(l) /\ m[k] = l[k])
    BY <2>2
  <2> QED BY <1>2, <2>3 DEF l, m
<1> QED BY <1>3, <1>4

LEMMA OwedTyped ==
    ASSUME IsFiniteSet(Items), TypeOK, NEW i
    PROVE  /\ \A id : SumOf(TimesOver(ledger, id)) \in Int
           /\ Owed(i, resv, ledger) \in [DOMAIN resv -> Int]
<1>1. \A j \in Items : ledger[j] \in Seq(Rows)
  BY DEF TypeOK, Rows
<1>2. ASSUME NEW id PROVE SumOf(TimesOver(ledger, id)) \in Int
  <2>1. \A j \in Items : Times(ledger[j], id) \in Nat
    <3> TAKE j \in Items
    <3>1. IsFiniteSet(1..Len(ledger[j]))
      BY <1>1, FS_Interval
    <3>2. {k \in 1..Len(ledger[j]) : id \in ledger[j][k].settles} \in SUBSET (1..Len(ledger[j]))
      OBVIOUS
    <3> QED BY <3>1, <3>2, FS_Subset, FS_CardinalityType DEF Times
  <2>2. TimesOver(ledger, id) \in [Items -> Int]
    BY <2>1 DEF TimesOver
  <2> QED BY <2>2, SumOfType
<1>3. \A id \in DOMAIN resv :
          (1 - SumOf(TimesOver(ledger, id)))
              * (IF resv[id].item = i THEN resv[id].quantity ELSE 0) \in Int
  <2> TAKE id \in DOMAIN resv
  <2>1. PICK n \in Int : n = SumOf(TimesOver(ledger, id))
    BY <1>2
  <2>2. PICK q \in Int : q = IF resv[id].item = i THEN resv[id].quantity ELSE 0
    BY DEF TypeOK, ReservationRow
  <2>3. (1 - n) * q \in Int
    OBVIOUS
  <2> QED BY <2>1, <2>2, <2>3
<1> QED BY <1>2, <1>3 DEF Owed

-----------------------------------------------------------------------------
(* A receipt or an adjustment settles nothing; a new reservation was never  *)
(* settled; a settlement takes its quantity once more.                     *)

LEMMA StockChangeFits ==
    ASSUME IsFiniteSet(Items), TypeOK, ReservedFits, NEW r \in Requests, CommitStockChange(r)
    PROVE  ReservedFits'
<1>1. PICK type \in TransactionType : UpdateAndLog(r, type, {})
  BY DEF CommitStockChange, TransactionType
<1>2. pc[r] = "write" /\ ReservedDelta(r) = 0 /\ resv' = resv
  BY DEF CommitStockChange, ReservedDelta
<1>3. PICK t \in Items : t = Target(r)
  BY <1>1, <1>2, Posted
<1>4. PICK row \in Rows : row.settles = {} /\ ledger' = [ledger EXCEPT ![t] = Append(@, row)]
  BY <1>1, <1>2, <1>3, Posted
<1>5. /\ DOMAIN stock' = DOMAIN stock
      /\ \A i \in DOMAIN stock : stock'[i].reserved = stock[i].reserved
  <2>1. /\ DOMAIN stock' = DOMAIN stock /\ t \in DOMAIN stock
        /\ stock'[t].reserved = stock[t].reserved + 0
        /\ \A i \in DOMAIN stock \ {t} : stock'[i] = stock[i]
    BY <1>1, <1>2, <1>3, Posted
  <2>2. stock[t].reserved \in Nat
    BY <2>1 DEF TypeOK, StockRow
  <2>3. stock'[t].reserved = stock[t].reserved
    BY <2>1, <2>2
  <2> QED BY <2>1, <2>3
<1>6. /\ ledger \in [Items -> Seq(Rows)] /\ ledger'[t] = Append(ledger[t], row)
      /\ \A i \in Items \ {t} : ledger'[i] = ledger[i]
  BY <1>4 DEF TypeOK, Rows
<1>7. \A id : SumOf(TimesOver(ledger', id)) = SumOf(TimesOver(ledger, id))
  <2> TAKE id
  <2>1. PICK n \in Int : n = SumOf(TimesOver(ledger, id))
    BY OwedTyped
  <2>2. SumOf(TimesOver(ledger', id)) =
            SumOf(TimesOver(ledger, id)) + IF id \in row.settles THEN 1 ELSE 0
    BY <1>6, CountsGrow
  <2>3. SumOf(TimesOver(ledger', id)) = n + 0
    BY <1>4, <2>1, <2>2
  <2> QED BY <2>1, <2>3
<1>8. \A i : Owed(i, resv', ledger') = Owed(i, resv, ledger)
  BY <1>2, <1>7 DEF Owed
<1>9. \A i \in Items : \A k \in 1..Len(ledger'[i]) : ledger'[i][k].settles \subseteq DOMAIN resv'
  BY <1>2, <1>4, SettlesGrow
<1> QED BY <1>2, <1>5, <1>8, <1>9 DEF ReservedFits

LEMMA SettlementFits ==
    ASSUME IsFiniteSet(Items), TypeOK, ReservedFits, NEW r \in Requests, CommitSettlement(r)
    PROVE  ReservedFits'
<1> DEFINE id == arg[r].id
<1>1. pc[r] = "write" /\ arg[r].op \in SettleOps
  BY DEF CommitSettlement
<1>0. PICK t \in Items : t = Target(r)
  BY <1>1, WriteTarget
<1>2. id \in DOMAIN resv /\ id \in Ids /\ t = resv[id].item /\ ReservedDelta(r) = -resv[id].quantity
  BY <1>0, <1>1 DEF TypeOK, ArgumentFits, StockArg, SettleArg, Target, ReservedDelta
<1>3. PICK type \in TransactionType : UpdateAndLog(r, type, {id})
  BY DEF CommitSettlement, TransactionType
<1>4. /\ DOMAIN resv' = DOMAIN resv
      /\ \A x \in DOMAIN resv : /\ resv'[x].item = resv[x].item
                                /\ resv'[x].quantity = resv[x].quantity
  <2>1. PICK status \in {"RELEASED", "CONSUMED"} : resv' = [resv EXCEPT ![id].status = status]
    BY DEF CommitSettlement
  <2> QED BY <2>1 DEF TypeOK, ReservationRow
<1>5. /\ t \in DOMAIN stock /\ t \in Items /\ DOMAIN stock' = DOMAIN stock
      /\ stock'[t].reserved = stock[t].reserved + ReservedDelta(r)
      /\ \A i \in DOMAIN stock \ {t} : stock'[i] = stock[i]
      /\ \E row \in Rows : row.settles = {id} /\ ledger' = [ledger EXCEPT ![t] = Append(@, row)]
  <2>1. {id} \in SUBSET Ids
    BY <1>2
  <2> HIDE DEF id
  <2> QED BY <1>0, <1>1, <1>3, <2>1, Posted
<1>6. PICK row \in Rows : row.settles = {id} /\ ledger' = [ledger EXCEPT ![t] = Append(@, row)]
  BY <1>5
<1> HIDE DEF id
<1>7. /\ ledger \in [Items -> Seq(Rows)] /\ ledger'[t] = Append(ledger[t], row)
      /\ \A i \in Items \ {t} : ledger'[i] = ledger[i]
  BY <1>5, <1>6 DEF TypeOK, Rows
<1>8. \A x : /\ SumOf(TimesOver(ledger, x)) \in Int
             /\ SumOf(TimesOver(ledger', x)) =
                    SumOf(TimesOver(ledger, x)) + IF x = id THEN 1 ELSE 0
  <2> TAKE x
  <2>1. x \in row.settles <=> x = id
    BY <1>6
  <2>2. /\ SumOf(TimesOver(ledger, x)) \in Int
        /\ SumOf(TimesOver(ledger', x)) =
               SumOf(TimesOver(ledger, x)) + IF x \in row.settles THEN 1 ELSE 0
    BY <1>7, CountsGrow
  <2> QED BY <2>1, <2>2
<1>9. PICK q \in Nat : q = resv[id].quantity
  BY <1>2 DEF TypeOK, ReservationRow
<1>10. PICK n \in Int : n = SumOf(TimesOver(ledger, id))
  BY <1>8
<1>11. ASSUME NEW i \in DOMAIN stock PROVE stock'[i].reserved = SumOf(Owed(i, resv', ledger'))
  <2> DEFINE f == Owed(i, resv, ledger)
             g == Owed(i, resv', ledger')
             h == IF i = t THEN q ELSE 0
  <2>1. f[id] = (1 - n) * h /\ g[id] = (1 - (n + 1)) * h /\ h \in Int
    BY <1>2, <1>4, <1>8, <1>9, <1>10 DEF Owed
  <2>2. ASSUME NEW x \in DOMAIN resv \ {id} PROVE g[x] = f[x]
    <3>1. PICK m \in Int : m = SumOf(TimesOver(ledger, x))
      BY <1>8
    <3>2. SumOf(TimesOver(ledger', x)) = m + 0
      BY <1>8, <2>2, <3>1
    <3>3. SumOf(TimesOver(ledger', x)) = m
      BY <3>2
    <3> QED BY <1>4, <3>1, <3>3 DEF Owed
  <2>3. f \in [DOMAIN resv -> Int] /\ DOMAIN g = DOMAIN resv /\ g = [x \in DOMAIN resv |-> g[x]]
    BY <1>4, OwedTyped DEF Owed
  <2> HIDE DEF f, g, h
  <2>4. (1 - (n + 1)) * h = (1 - n) * h - h /\ (1 - n) * h \in Int
    <3>1. \A k, p \in Int : (k - 1) * p = k * p - p /\ k * p \in Int
      OBVIOUS
    <3>2. 1 - (n + 1) = (1 - n) - 1 /\ 1 - n \in Int
      OBVIOUS
    <3> QED BY <2>1, <3>1, <3>2
  <2>5. g[id] \in Int /\ f[id] \in Int /\ g[id] - f[id] = -h
    <3>1. PICK c \in Int : c = (1 - n) * h
      BY <2>4
    <3>2. f[id] = c /\ g[id] = c - h
      BY <2>1, <2>4, <3>1
    <3> QED BY <2>1, <3>1, <3>2
  <2>6. g \in [DOMAIN resv -> Int]
    <3>1. \A x \in DOMAIN resv : g[x] \in Int
      BY <2>2, <2>3, <2>5
    <3> QED BY <2>3, <3>1
  <2>7. IsFiniteSet(DOMAIN resv) /\ stock[i].reserved = SumOf(f)
    BY DEF ReservedFits, f
  <2>8. SumOf(g) = SumOf(f) + (g[id] - f[id])
    BY <1>2, <2>2, <2>3, <2>6, <2>7, SumOfUpdated
  <2>9. SumOf(g) = stock[i].reserved + (-h) /\ stock[i].reserved \in Nat
    BY <2>5, <2>7, <2>8 DEF TypeOK, StockRow
  <2>10. stock'[i].reserved = stock[i].reserved + (-h)
    <3>1. CASE i = t
      <4>1. stock'[i].reserved = stock[i].reserved + (-q)
        BY <1>2, <1>5, <1>9, <3>1
      <4> QED BY <3>1, <4>1 DEF h
    <3>2. CASE i # t
      <4>1. stock'[i].reserved = stock[i].reserved
        BY <1>5, <3>2
      <4> QED BY <2>9, <3>2, <4>1 DEF h
    <3> QED BY <3>1, <3>2
  <2> QED BY <2>9, <2>10 DEF g
<1>12. \A i \in Items : \A k \in 1..Len(ledger'[i]) : ledger'[i][k].settles \subseteq DOMAIN resv'
  <2>1. row.settles \subseteq DOMAIN resv'
    BY <1>2, <1>4, <1>6
  <2> QED BY <1>4, <1>5, <1>6, <2>1, SettlesGrow
<1> QED BY <1>4, <1>5, <1>11, <1>12 DEF ReservedFits

LEMMA ReservationFits ==
    ASSUME IsFiniteSet(Items), TypeOK, ReservedFits, NEW r \in Requests, CommitReservation(r)
    PROVE  ReservedFits'
<1>1. /\ pc[r] = "write" /\ arg[r].op = "reserve" /\ UpdateAndLog(r, "RESERVATION", {})
      /\ "RESERVATION" \in TransactionType /\ {} \in SUBSET Ids
  BY DEF CommitReservation, TransactionType
<1>0. PICK t \in Items : t = Target(r)
  BY <1>1, WriteTarget
<1>2. t = arg[r].item /\ ReservedDelta(r) = arg[r].amount
  BY <1>0, <1>1 DEF Target, ReservedDelta
<1>3. PICK q \in Nat : q = arg[r].amount
  BY <1>1, InventoryAssumption DEF TypeOK, ArgumentFits, StockArg, SettleArg
<1>4. PICK id \in Ids \ DOMAIN resv :
          resv' = Put(resv, id, [item |-> arg[r].item, quantity |-> arg[r].amount,
                                 status |-> "ACTIVE"])
  BY DEF CommitReservation
<1>5. /\ DOMAIN resv' = DOMAIN resv \cup {id} /\ resv'[id].item = t /\ resv'[id].quantity = q
      /\ \A x \in DOMAIN resv : resv'[x] = resv[x]
  BY <1>2, <1>3, <1>4 DEF Put
<1>6. /\ t \in DOMAIN stock /\ t \in Items /\ DOMAIN stock' = DOMAIN stock
      /\ stock'[t].reserved = stock[t].reserved + q
      /\ \A i \in DOMAIN stock \ {t} : stock'[i] = stock[i]
      /\ \E row \in Rows : row.settles = {} /\ ledger' = [ledger EXCEPT ![t] = Append(@, row)]
  <2>1. ReservedDelta(r) = q
    BY <1>2, <1>3
  <2> QED BY <1>0, <1>1, <2>1, Posted
<1>7. PICK row \in Rows : row.settles = {} /\ ledger' = [ledger EXCEPT ![t] = Append(@, row)]
  BY <1>6
<1>8. /\ ledger \in [Items -> Seq(Rows)] /\ ledger'[t] = Append(ledger[t], row)
      /\ \A i \in Items \ {t} : ledger'[i] = ledger[i]
  BY <1>6, <1>7 DEF TypeOK, Rows
<1>9. \A x : /\ SumOf(TimesOver(ledger, x)) \in Int
             /\ SumOf(TimesOver(ledger', x)) = SumOf(TimesOver(ledger, x))
  <2> TAKE x
  <2>1. PICK n \in Int : n = SumOf(TimesOver(ledger, x))
    BY OwedTyped
  <2>2. SumOf(TimesOver(ledger', x)) =
            SumOf(TimesOver(ledger, x)) + IF x \in row.settles THEN 1 ELSE 0
    BY <1>8, CountsGrow, SMTT(60)
  <2>3. SumOf(TimesOver(ledger', x)) = n + 0
    BY <1>7, <2>1, <2>2
  <2> QED BY <2>1, <2>3
<1>10. SumOf(TimesOver(ledger, id)) = 0
  <2>1. ASSUME NEW i \in Items PROVE Times(ledger[i], id) = 0
    <3>1. \A k \in 1..Len(ledger[i]) : ledger[i][k].settles \subseteq DOMAIN resv
      BY DEF ReservedFits
    <3>2. {k \in 1..Len(ledger[i]) : id \in ledger[i][k].settles} = {}
      BY <3>1
    <3> QED BY <3>2, FS_EmptySet DEF Times
  <2>2. TimesOver(ledger, id) = [i \in Items |-> 0]
    BY <2>1 DEF TimesOver
  <2> QED BY <2>2, SumOfZero
<1>11. IsFiniteSet(DOMAIN resv) /\ IsFiniteSet(DOMAIN resv')
  BY <1>5, FS_AddElement DEF ReservedFits
<1>12. ASSUME NEW i \in DOMAIN stock PROVE stock'[i].reserved = SumOf(Owed(i, resv', ledger'))
  <2> DEFINE f == Owed(i, resv, ledger)
             g == Owed(i, resv', ledger')
             h == IF i = t THEN q ELSE 0
  <2>1. g[id] = (1 - 0) * h /\ h \in Int
    BY <1>5, <1>9, <1>10 DEF Owed
  <2>2. g[id] = h
    <3> HIDE DEF g, h
    <3> QED BY <2>1
  <2>3. \A x \in DOMAIN resv : g[x] = f[x]
    BY <1>5, <1>9 DEF Owed
  <2>4. /\ f \in [DOMAIN resv -> Int] /\ DOMAIN g = DOMAIN resv'
        /\ g = [x \in DOMAIN resv' |-> g[x]] /\ f = [x \in DOMAIN resv |-> f[x]]
    BY OwedTyped DEF Owed
  <2>5. stock[i].reserved = SumOf(f) /\ stock[i].reserved \in Nat
    BY DEF ReservedFits, TypeOK, StockRow
  <2>6. i # t => stock'[i].reserved = stock[i].reserved
    BY <1>6
  <2>7. i = t => stock'[i].reserved = stock[i].reserved + q
    BY <1>6
  <2>8. stock'[i].reserved = stock[i].reserved + h
    <3>1. CASE i = t
      BY <2>7, <3>1
    <3>2. CASE i # t
      BY <2>5, <2>6, <3>2
    <3> QED BY <3>1, <3>2
  <2> HIDE DEF f, g, h
  <2>9. g \in [DOMAIN resv' -> Int] /\ id \in DOMAIN resv' /\ DOMAIN resv' \ {id} = DOMAIN resv
    <3>1. \A x \in DOMAIN resv' : g[x] \in Int
      BY <1>5, <2>1, <2>2, <2>3, <2>4
    <3> QED BY <1>4, <1>5, <2>4, <3>1
  <2>10. SumOf(g) = g[id] + SumOf(f)
    <3>1. PICK D, k, l : D = DOMAIN resv' /\ k = g /\ l = f
      OBVIOUS
    <3>2. /\ IsFiniteSet(D) /\ id \in D /\ k \in [D -> Int] /\ l \in [D \ {id} -> Int]
          /\ \A y \in D \ {id} : k[y] = l[y]
      BY <1>11, <2>3, <2>4, <2>9, <3>1
    <3>3. SumOf(k) = k[id] + SumOf(l)
      BY <3>2, SumOfExtension
    <3> QED BY <3>1, <3>3
  <2>12. SumOf(g) = h + SumOf(f)
    BY <2>2, <2>10
  <2>13. SumOf(g) = stock[i].reserved + h
    BY <2>1, <2>5, <2>12
  <2> QED BY <2>8, <2>13 DEF g
<1>13. \A i \in Items : \A k \in 1..Len(ledger'[i]) : ledger'[i][k].settles \subseteq DOMAIN resv'
  <2>1. row.settles \subseteq DOMAIN resv' /\ DOMAIN resv \subseteq DOMAIN resv'
    BY <1>5, <1>7
  <2> QED BY <1>6, <1>7, <2>1, SettlesGrow
<1> QED BY <1>6, <1>11, <1>12, <1>13 DEF ReservedFits

\* A new row holds nothing, and nothing was reserved of an item without a row.
LEMMA CreationFits ==
    ASSUME IsFiniteSet(Items), TypeOK, ReservedFits, NEW r \in Requests, CreateItem(r)
    PROVE  ReservedFits'
<1>1. UNCHANGED <<resv, ledger>>
  BY DEF CreateItem
<1>2. CASE UNCHANGED stock
  BY <1>1, <1>2 DEF ReservedFits
<1>3. CASE arg[r].item \notin DOMAIN stock /\ stock' = Put(stock, arg[r].item, EmptyRow)
  <2> DEFINE t == arg[r].item
             f == Owed(t, resv, ledger)
  <2>1. /\ DOMAIN stock' = DOMAIN stock \cup {t} /\ stock'[t].reserved = 0
        /\ \A i \in DOMAIN stock : stock'[i] = stock[i]
    BY <1>3 DEF Put, EmptyRow
  <2>2. \A id \in DOMAIN resv : resv[id].item # t
    BY <1>3 DEF TypeOK
  <2>3. f = [id \in DOMAIN resv |-> 0]
    <3>1. ASSUME NEW id \in DOMAIN resv PROVE f[id] = 0
      <4>1. PICK n \in Int : n = SumOf(TimesOver(ledger, id))
        BY OwedTyped
      <4>2. f[id] = (1 - n) * 0
        BY <2>2, <4>1 DEF Owed
      <4> HIDE DEF f
      <4> QED BY <4>2
    <3> QED BY <3>1 DEF Owed
  <2> HIDE DEF f
  <2>4. SumOf(f) = 0
    BY <2>3, SumOfZero DEF ReservedFits
  <2>5. \A i \in DOMAIN stock' : stock'[i].reserved = SumOf(Owed(i, resv, ledger))
    BY <2>1, <2>4 DEF ReservedFits, f
  <2> QED BY <1>1, <2>5 DEF ReservedFits
<1> QED BY <1>2, <1>3 DEF CreateItem

LEMMA ReservedInit == ASSUME Init PROVE ReservedFits
<1>1. DOMAIN resv = {} /\ IsFiniteSet(DOMAIN resv)
  BY FS_EmptySet DEF Init
<1>2. \A i \in DOMAIN stock : stock[i].reserved = 0
  BY DEF Init
<1>3. \A i : DOMAIN Owed(i, resv, ledger) = {}
  BY <1>1 DEF Owed
<1>4. \A i : SumOf(Owed(i, resv, ledger)) = 0
  BY <1>3, SumOfEmpty
<1>5. ASSUME NEW i \in Items, NEW k \in 1..Len(ledger[i]) PROVE ledger[i][k].settles = {}
  <2> DEFINE row == LedgerEntry("RECEIPT", InitialStock[i], 0,
                        [onHand |-> InitialStock[i], reserved |-> 0], {})
  <2>1. row.settles = {}
    BY DEF LedgerEntry
  <2>2. ledger[i] = <<row>> \/ ledger[i] = <<>>
    BY DEF Init
  <2> HIDE DEF row
  <2>3. ledger[i] = <<row>>
    BY <1>5, <2>2
  <2> QED BY <1>5, <2>1, <2>3
<1> QED BY <1>1, <1>2, <1>4, <1>5 DEF ReservedFits

LEMMA ReservedNext ==
    ASSUME IsFiniteSet(Items), TypeOK, ReservedFits, [Next]_vars
    PROVE  ReservedFits'
<1>1. CASE UNCHANGED <<stock, resv, ledger>>
  BY <1>1 DEF ReservedFits
<1>2. ASSUME NEW r \in Requests, Handle(r) PROVE ReservedFits'
  BY <1>1, <1>2, CreationFits, StockChangeFits, ReservationFits, SettlementFits
     DEF Handle, FindActive, CheckViolation
<1> QED BY <1>1, <1>2 DEF Next, AllAnswered, Receive, Reserve, Adjust, Settle, Arrive,
                          TransientError, Crash, vars

-----------------------------------------------------------------------------
(* The sums of ReservedIsAccountedFor are these sums.                      *)

LEMMA SettlementsAre ==
    ASSUME IsFiniteSet(Items), NEW id
    PROVE  Settlements(id) = SumOf(TimesOver(ledger, id))
<1> DEFINE f == [i \in Items |-> Times(ledger[i], id)]
           Sums(g) == g = [s \in SUBSET Items |->
                              IF s = {} THEN 0
                              ELSE Times(ledger[Picked(s)], id) + g[s \ {Picked(s)}]]
           iter == CHOOSE g : Sums(g)
<1>1. \A s \in SUBSET Items : s # {} => f[Picked(s)] = Times(ledger[Picked(s)], id)
  BY PickedIsIn
<1>2. DOMAIN f = Items /\ Settlements(id) = iter[Items]
  BY DEF Settlements, Times, MapThenSumSet, MapThenFoldSet, Picked
<1> HIDE DEF f
<1>3. \A g : Sums(g) <=> SumsUp(g, f, Items)
  BY <1>1 DEF SumsUp
<1> HIDE DEF Sums
<1>4. SumsUp(iter, f, Items)
  BY <1>3, SumsExist
<1> HIDE DEF iter
<1>5. SumOf(f) = iter[Items]
  BY <1>2, <1>4, SumIs
<1> QED BY <1>2, <1>5 DEF f, TimesOver

LEMMA OwedIs ==
    ASSUME IsFiniteSet(Items), NEW i, IsFiniteSet(DOMAIN resv)
    PROVE  MapThenSumSet(LAMBDA id : (1 - Settlements(id)) * HeldBy(i, id), DOMAIN resv)
               = SumOf(Owed(i, resv, ledger))
<1> DEFINE S == DOMAIN resv
           E(id) == (1 - Settlements(id)) * HeldBy(i, id)
           f == Owed(i, resv, ledger)
           Sums(g) == g = [s \in SUBSET S |->
                              IF s = {} THEN 0 ELSE E(Picked(s)) + g[s \ {Picked(s)}]]
           iter == CHOOSE g : Sums(g)
<1>1. \A id \in S : f[id] = E(id)
  BY SettlementsAre DEF Owed, HeldBy
<1>2. /\ DOMAIN f = S
      /\ MapThenSumSet(LAMBDA id : (1 - Settlements(id)) * HeldBy(i, id), S) = iter[S]
  BY DEF Owed, MapThenSumSet, MapThenFoldSet, Picked
<1> HIDE DEF f, E
<1>3. \A s \in SUBSET S : s # {} => f[Picked(s)] = E(Picked(s))
  BY <1>1, PickedIsIn
<1>4. \A g : Sums(g) <=> SumsUp(g, f, S)
  BY <1>3 DEF SumsUp
<1> HIDE DEF Sums, S
<1>5. SumsUp(iter, f, S)
  BY <1>4, SumsExist DEF S
<1> HIDE DEF iter
<1>6. SumOf(f) = iter[S]
  BY <1>2, <1>5, SumIs DEF S
<1> QED BY <1>2, <1>6 DEF f, S

\* However requests overlap, roll back and retry, an item's `reserved' counter
\* is off the quantity of its ACTIVE reservations by the repeated settlements
\* and by nothing else (inventory.repository.ts).
THEOREM ReservedCorrect == IsFiniteSet(Items) => (Spec => []ReservedIsAccountedFor)
<1> SUFFICES ASSUME IsFiniteSet(Items) PROVE Spec => []ReservedIsAccountedFor
  OBVIOUS
<1>1. Init => TypeOK /\ ReservedFits
  BY TypeInit, ReservedInit
<1>2. TypeOK /\ ReservedFits /\ [Next]_vars => (TypeOK /\ ReservedFits)'
  BY TypeNext, ReservedNext
<1>3. ReservedFits => ReservedIsAccountedFor
  BY OwedIs DEF ReservedFits, ReservedIsAccountedFor
<1> QED BY <1>1, <1>2, <1>3, PTL DEF Spec
=============================================================================
