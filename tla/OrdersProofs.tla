---------------------------- MODULE OrdersProofs ----------------------------
(***************************************************************************)
(* Theorems about Orders for any orders, lines, items and stock, any       *)
(* number of overlapping requests, any pool and any bound on retries.      *)
(***************************************************************************)
EXTENDS MCOrders, SequenceTheorems, SumTheorems, TLAPS

USE DEF None, Pending, Finished

Open       == {"read", "write", "commit"}
Settling   == {"reserve", "release", "consume"}
LinesOf(o) == {<<o, k>> : k \in LineIds(o)}

-----------------------------------------------------------------------------
(* What a request asks for.                                                *)

Creates(a, o)     == a = [op |-> "create", order |-> o]
Changes(a, o, s)  == a = [op |-> "change", order |-> o, status |-> s]
Cancels(a, o)     == a = [op |-> "cancel", order |-> o, status |-> "CANCELLED"]
Releases(a, v)    == a = [op |-> "release", v |-> v]
Completes(a, o)   == Changes(a, o, "COMPLETED")

Asked(a) ==
    \/ \E o \in Orders : Creates(a, o)
    \/ \E o \in Orders, s \in OrderStatus \ {"DRAFT", "CANCELLED"} : Changes(a, o, s)
    \/ \E o \in Orders : Cancels(a, o)
    \/ \E v \in ResvIds : Releases(a, v)

\* The statement its transaction runs for each reservation, the reservations it
\* is run for, the statement for the order's row, and what it makes of the order.
StockAct(a) ==
    IF a.op = "create" THEN "reserve" ELSE IF a.op = "change" THEN "consume" ELSE "release"

Touched(a) ==
    IF a.op = "release" THEN {a.v}
    ELSE IF a.op = "change" /\ a.status # "COMPLETED" THEN {}
    ELSE LinesOf(a.order)

OrderAct(a) ==
    IF a.op = "create" THEN "insert" ELSE IF a.op = "release" THEN "none" ELSE "status"

Target(a) == IF a.op = "create" THEN "DRAFT" ELSE a.status

-----------------------------------------------------------------------------
(* The inductive invariant.                                                *)

\* A request p that was asked a refers to rows among the orders O and the
\* reservations V, or to an order that is not there before it commits.
ArgFits(p, a, O, V) ==
    \/ a = [op |-> "none"] /\ p = "idle"
    \/ \E o \in Orders : Creates(a, o) /\ (p \in Pending => o \notin O)
    \/ \E o \in O : \E s \in OrderStatus \ {"DRAFT", "CANCELLED"} : Changes(a, o, s)
    \/ \E o \in O : Cancels(a, o)
    \/ \E v \in V : Releases(a, v)

\* What the transaction t of a request asked a has written before its n-th
\* step: a reservation and a ledger row for every line it passed, and the order
\* if it passed that statement.
StockWritten(a, n, t) ==
    \A v \in ResvIds :
        /\ v \in DOMAIN t.resv <=>
               \E m \in 1..(n - 1) : Plan(a)[m].act = StockAct(a) /\ Plan(a)[m].v = v
        /\ v \in DOMAIN t.resv => t.resv[v] = After[StockAct(a)]
        /\ \A y \in MoveType :
               <<v, y>> \in t.rows <=> v \in DOMAIN t.resv /\ y = RowType[StockAct(a)]

OrderWritten(a, n, t) ==
    \/ /\ \E m \in 1..(n - 1) : Plan(a)[m].act = OrderAct(a)
       /\ DOMAIN t.order = {a.order} /\ t.order[a.order] = Target(a)
       /\ Len(t.trail) > 0 /\ \A k \in 1..Len(t.trail) : t.trail[k].status = Target(a)
    \/ /\ \A m \in 1..(n - 1) : Plan(a)[m].act # OrderAct(a)
       /\ DOMAIN t.order = {} /\ t.trail = <<>>

\* Where p is in that transaction.
StepFits(p, a, n) ==
    /\ n \in 1..(Len(Plan(a)) + 1)
    /\ p = "read" => n <= Len(Plan(a)) /\ Plan(a)[n].act \in Settling
    /\ p = "write" => n <= Len(Plan(a))
    /\ p = "commit" => n = Len(Plan(a)) + 1

TxTyped(t) ==
    /\ t = [stock |-> t.stock, resv |-> t.resv, order |-> t.order,
            rows |-> t.rows, trail |-> t.trail]
    /\ TxOK(t)
    /\ \A i \in DOMAIN t.stock : ChecksHold(t.stock[i])

TxFits(p, a, n, t) ==
    /\ TxTyped(t)
    /\ p \notin Open => t = NoTx /\ n = 1
    /\ p \in Open => StepFits(p, a, n) /\ StockWritten(a, n, t) /\ OrderWritten(a, n, t)

RequestFits(r) ==
    /\ pc[r] \in {"idle"} \cup Pending \cup Finished
    /\ seen[r] \in OrderStatus \cup {None}
    /\ tries[r] \in 1..MaxAttempts
    /\ ArgFits(pc[r], arg[r], DOMAIN order, DOMAIN resv)
    /\ TxFits(pc[r], arg[r], at[r], tx[r])

\* Two requests create different orders and hold different rows.
HeldBy(t)      == DOMAIN t.stock \cup DOMAIN t.order
Clash(a, b)    == a.op = "create" /\ b.op = "create" /\ a.order = b.order
Apart(a, b, t, u) == ~Clash(a, b) /\ HeldBy(t) \cap HeldBy(u) = {}

PerRequest ==
    /\ pc = [r \in Requests |-> pc[r]] /\ arg = [r \in Requests |-> arg[r]]
    /\ seen = [r \in Requests |-> seen[r]] /\ at = [r \in Requests |-> at[r]]
    /\ tries = [r \in Requests |-> tries[r]] /\ tx = [r \in Requests |-> tx[r]]

RequestsFit == \A r \in Requests : RequestFits(r)

RequestsApart ==
    \A r, s \in Requests : r # s => Apart(arg[r], arg[s], tx[r], tx[s])

TablesFit ==
    /\ stock \in [Items -> StockRow]
    /\ \A i \in Items : ChecksHold(stock[i])
    /\ DOMAIN resv \subseteq ResvIds /\ resv \in [DOMAIN resv -> ReservationStatus]
    /\ moves \in [ResvIds -> [MoveType -> Nat]]
    /\ DOMAIN order \subseteq Orders /\ order \in [DOMAIN order -> OrderStatus]
    /\ history \in [Orders -> TrailType]
    /\ \A o \in Orders \ DOMAIN order : history[o] = <<>>

\* Past its first look at a reservation, a completion is the only one: it found
\* that reservation ACTIVE while it held the order's row, which it still holds.
Looked(p, n) == p \in Open /\ (n > 2 \/ (n = 2 /\ p = "write"))

CompletesAlone ==
    \A r \in Requests, o \in Orders :
        Completes(arg[r], o) /\ Looked(pc[r], at[r]) => ~EverHad(o, "COMPLETED")

Inv ==
    /\ TablesFit /\ PerRequest /\ RequestsFit /\ RequestsApart /\ CompletesAlone
    /\ ShippedExactlyOnce /\ OrdersHoldTheirStock

-----------------------------------------------------------------------------
(* The plans.                                                              *)

LEMMA LinesFit ==
    ASSUME NEW o \in Orders
    PROVE  /\ Len(Lines[o]) \in Nat \ {0}
           /\ LineIds(o) = 1..Len(Lines[o])
           /\ LinesOf(o) \subseteq ResvIds
           /\ \A v \in ResvIds : v[1] = o => v \in LinesOf(o)
           /\ \A k \in LineIds(o) : <<o, k>>[1] = o
<1>1. Lines[o] \in Seq([item : Items, quantity : Nat \ {0}]) /\ Len(Lines[o]) > 0
  BY OrdersAssumption
<1>2. Len(Lines[o]) \in Nat
  BY <1>1
<1>3. \A v \in ResvIds : \E p \in Orders : \E k \in LineIds(p) : v = <<p, k>>
  BY DEF ResvIds
<1>4. LinesOf(o) \subseteq ResvIds
  BY DEF ResvIds, LinesOf
<1> QED BY <1>1, <1>2, <1>3, <1>4 DEF LineIds, LinesOf

LEMMA LineRows ==
    ASSUME NEW v \in ResvIds
    PROVE  ItemOf(v) \in Items /\ QtyOf(v) \in Nat \ {0} /\ v[1] \in Orders
<1>1. PICK o \in Orders : \E k \in LineIds(o) : v = <<o, k>>
  BY DEF ResvIds
<1>2. PICK k \in LineIds(o) : v = <<o, k>>
  BY <1>1
<1>3. Lines[o] \in Seq([item : Items, quantity : Nat \ {0}]) /\ k \in 1..Len(Lines[o])
  BY OrdersAssumption DEF LineIds
<1>4. Lines[o][k] \in [item : Items, quantity : Nat \ {0}]
  BY <1>3, ElementOfSeq
<1> QED BY <1>2, <1>4 DEF ItemOf, QtyOf

StepsOf(act, o) == {Step(act, v) : v \in LinesOf(o)}

LEMMA EachLineFits ==
    ASSUME NEW o \in Orders, NEW act
    PROVE  /\ EachLine(act, o) \in Seq(StepsOf(act, o))
           /\ Len(EachLine(act, o)) = Len(Lines[o])
           /\ \A k \in 1..Len(Lines[o]) : EachLine(act, o)[k] = Step(act, <<o, k>>)
<1>1. Len(Lines[o]) \in Nat /\ LineIds(o) = 1..Len(Lines[o])
  BY LinesFit
<1>2. \A k \in 1..Len(Lines[o]) : Step(act, <<o, k>>) \in StepsOf(act, o)
  BY <1>1 DEF LinesOf, StepsOf
<1> QED BY <1>1, <1>2 DEF EachLine

\* Every step of a plan is about one of the reservations touched or about the
\* order, and all of them are.
PlanFits(a) ==
    /\ Len(Plan(a)) \in Nat \ {0}
    /\ \A m \in 1..Len(Plan(a)) :
           \/ Plan(a)[m].act = StockAct(a) /\ Plan(a)[m].v \in Touched(a)
           \/ Plan(a)[m].act = OrderAct(a)
    /\ \A v \in Touched(a) :
           \E m \in 1..Len(Plan(a)) : Plan(a)[m].act = StockAct(a) /\ Plan(a)[m].v = v
    /\ a.op # "release" => \E m \in 1..Len(Plan(a)) : Plan(a)[m].act = OrderAct(a)
    /\ a.op = "release" => \A m \in 1..Len(Plan(a)) : Plan(a)[m].act = StockAct(a)

LEMMA LinesThenOrder ==
    ASSUME NEW o \in Orders, NEW act, NEW last
    PROVE  LET plan == EachLine(act, o) \o <<Step(last, None)>>
           IN  /\ Len(plan) = Len(Lines[o]) + 1
               /\ \A k \in 1..Len(Lines[o]) : plan[k].act = act /\ plan[k].v = <<o, k>>
               /\ plan[Len(Lines[o]) + 1].act = last
<1>1. /\ EachLine(act, o) \in Seq(StepsOf(act, o))
      /\ Len(EachLine(act, o)) = Len(Lines[o])
      /\ \A k \in 1..Len(Lines[o]) : EachLine(act, o)[k] = Step(act, <<o, k>>)
      /\ Len(Lines[o]) \in Nat
  BY EachLineFits, LinesFit
<1> DEFINE S == StepsOf(act, o) \cup {Step(last, None)}
<1>2. EachLine(act, o) \in Seq(S) /\ <<Step(last, None)>> \in Seq(S)
  BY <1>1
<1> DEFINE plan == EachLine(act, o) \o <<Step(last, None)>>
<1>3. /\ Len(plan) = Len(Lines[o]) + 1
      /\ \A k \in 1..Len(Lines[o]) : plan[k] = Step(act, <<o, k>>)
      /\ plan[Len(Lines[o]) + 1] = Step(last, None)
  BY <1>1, <1>2
<1> HIDE DEF plan
<1>4. \A k \in 1..Len(Lines[o]) : plan[k].act = act /\ plan[k].v = <<o, k>>
  <2> TAKE k \in 1..Len(Lines[o])
  <2>1. plan[k] = Step(act, <<o, k>>)
    BY <1>3
  <2> QED BY <2>1 DEF Step
<1>5. plan[Len(Lines[o]) + 1].act = last
  BY <1>3 DEF Step
<1> QED BY <1>3, <1>4, <1>5 DEF plan

LEMMA OrderThenLines ==
    ASSUME NEW o \in Orders, NEW act, NEW first
    PROVE  LET plan == <<Step(first, None)>> \o EachLine(act, o)
           IN  /\ Len(plan) = Len(Lines[o]) + 1
               /\ plan[1].act = first
               /\ \A k \in 1..Len(Lines[o]) : plan[k + 1].act = act /\ plan[k + 1].v = <<o, k>>
<1>1. /\ EachLine(act, o) \in Seq(StepsOf(act, o))
      /\ Len(EachLine(act, o)) = Len(Lines[o])
      /\ \A k \in 1..Len(Lines[o]) : EachLine(act, o)[k] = Step(act, <<o, k>>)
      /\ Len(Lines[o]) \in Nat
  BY EachLineFits, LinesFit
<1> DEFINE S == StepsOf(act, o) \cup {Step(first, None)}
<1>2. EachLine(act, o) \in Seq(S) /\ <<Step(first, None)>> \in Seq(S)
  BY <1>1
<1> DEFINE plan == <<Step(first, None)>> \o EachLine(act, o)
<1>3. /\ Len(plan) = Len(Lines[o]) + 1
      /\ plan[1] = Step(first, None)
      /\ \A k \in 1..Len(Lines[o]) : plan[k + 1] = Step(act, <<o, k>>)
  BY <1>1, <1>2
<1> HIDE DEF plan
<1>4. \A k \in 1..Len(Lines[o]) : plan[k + 1].act = act /\ plan[k + 1].v = <<o, k>>
  <2> TAKE k \in 1..Len(Lines[o])
  <2>1. plan[k + 1] = Step(act, <<o, k>>)
    BY <1>3
  <2> QED BY <2>1 DEF Step
<1>5. plan[1].act = first
  BY <1>3 DEF Step
<1> QED BY <1>3, <1>4, <1>5 DEF plan

LEMMA PlansFit == ASSUME NEW a, Asked(a) PROVE PlanFits(a)
<1> USE DEF StockAct, Touched, OrderAct, LinesOf
<1>1. CASE \E o \in Orders : Creates(a, o)
  <2>1. PICK o \in Orders : Creates(a, o)
    BY <1>1
  <2>2. a.op = "create" /\ a.order = o /\ Plan(a) = EachLine("reserve", o) \o <<Step("insert", None)>>
    BY <2>1 DEF Creates, Plan
  <2>3. Len(Lines[o]) \in Nat \ {0} /\ LineIds(o) = 1..Len(Lines[o])
    BY LinesFit
  <2>4. /\ Len(Plan(a)) = Len(Lines[o]) + 1
        /\ \A k \in 1..Len(Lines[o]) : Plan(a)[k].act = "reserve" /\ Plan(a)[k].v = <<o, k>>
        /\ Plan(a)[Len(Lines[o]) + 1].act = "insert"
    BY <2>2, LinesThenOrder
  <2>5. \A m \in 1..Len(Plan(a)) : m \in 1..Len(Lines[o]) \/ m = Len(Lines[o]) + 1
    BY <2>3, <2>4
  <2>6. 1..Len(Lines[o]) \subseteq 1..Len(Plan(a)) /\ Len(Lines[o]) + 1 \in 1..Len(Plan(a))
    BY <2>3, <2>4
  <2>7. /\ StockAct(a) = "reserve" /\ OrderAct(a) = "insert"
        /\ Touched(a) = {<<o, k>> : k \in 1..Len(Lines[o])}
    BY <2>2, <2>3
  <2>10. \A m \in 1..Len(Plan(a)) :
             \/ Plan(a)[m].act = StockAct(a) /\ Plan(a)[m].v \in Touched(a)
             \/ Plan(a)[m].act = OrderAct(a)
    BY <2>4, <2>5, <2>7
  <2>11. \A v \in Touched(a) :
             \E m \in 1..Len(Plan(a)) : Plan(a)[m].act = StockAct(a) /\ Plan(a)[m].v = v
    BY <2>4, <2>6, <2>7
  <2>12. \E m \in 1..Len(Plan(a)) : Plan(a)[m].act = OrderAct(a)
    BY <2>4, <2>6, <2>7
  <2>13. Len(Plan(a)) \in Nat \ {0}
    BY <2>3, <2>4
  <2> QED BY <2>2, <2>10, <2>11, <2>12, <2>13 DEF PlanFits
<1>2. CASE \E o \in Orders, s \in OrderStatus \ {"DRAFT", "CANCELLED"} : Changes(a, o, s)
  <2>1. PICK o \in Orders, s \in OrderStatus : Changes(a, o, s)
    BY <1>2
  <2>2. a.op = "change" /\ a.order = o /\ a.status = s
    BY <2>1 DEF Changes
  <2>3. Len(Lines[o]) \in Nat \ {0} /\ LineIds(o) = 1..Len(Lines[o])
    BY LinesFit
  <2>4. CASE s = "COMPLETED"
    <3>1. Plan(a) = <<Step("status", None)>> \o EachLine("consume", o)
      BY <2>2, <2>4 DEF Plan
    <3>2. /\ Len(Plan(a)) = Len(Lines[o]) + 1
          /\ Plan(a)[1].act = "status"
          /\ \A k \in 1..Len(Lines[o]) :
                 Plan(a)[k + 1].act = "consume" /\ Plan(a)[k + 1].v = <<o, k>>
      BY <3>1, OrderThenLines
    <3>3. \A m \in 1..Len(Plan(a)) : m = 1 \/ (m - 1 \in 1..Len(Lines[o]) /\ m = (m - 1) + 1)
      BY <2>3, <3>2
    <3>4. 1 \in 1..Len(Plan(a)) /\ \A k \in 1..Len(Lines[o]) : k + 1 \in 1..Len(Plan(a))
      BY <2>3, <3>2
    <3>5. /\ StockAct(a) = "consume" /\ OrderAct(a) = "status"
          /\ Touched(a) = {<<o, k>> : k \in 1..Len(Lines[o])}
      BY <2>2, <2>3, <2>4
    <3>8. \A m \in 1..Len(Plan(a)) :
              \/ Plan(a)[m].act = StockAct(a) /\ Plan(a)[m].v \in Touched(a)
              \/ Plan(a)[m].act = OrderAct(a)
      BY <3>2, <3>3, <3>5
    <3>9. \A v \in Touched(a) :
              \E m \in 1..Len(Plan(a)) : Plan(a)[m].act = StockAct(a) /\ Plan(a)[m].v = v
      BY <3>2, <3>4, <3>5
    <3>10. \E m \in 1..Len(Plan(a)) : Plan(a)[m].act = OrderAct(a)
      BY <3>2, <3>4, <3>5
    <3>11. Len(Plan(a)) \in Nat \ {0}
      BY <2>3, <3>2
    <3> QED BY <2>2, <3>8, <3>9, <3>10, <3>11 DEF PlanFits
  <2>5. CASE s # "COMPLETED"
    <3>1. Plan(a) = <<Step("status", None)>> \o <<>>
      BY <2>2, <2>5 DEF Plan
    <3>2. Plan(a) = <<Step("status", None)>>
      BY <3>1
    <3> QED BY <2>2, <2>5, <3>2 DEF PlanFits, Step
  <2> QED BY <2>4, <2>5
<1>3. CASE \E o \in Orders : Cancels(a, o)
  <2>1. PICK o \in Orders : Cancels(a, o)
    BY <1>3
  <2>2. a.op = "cancel" /\ a.order = o /\ Plan(a) = EachLine("release", o) \o <<Step("status", None)>>
    BY <2>1 DEF Cancels, Plan
  <2>3. Len(Lines[o]) \in Nat \ {0} /\ LineIds(o) = 1..Len(Lines[o])
    BY LinesFit
  <2>4. /\ Len(Plan(a)) = Len(Lines[o]) + 1
        /\ \A k \in 1..Len(Lines[o]) : Plan(a)[k].act = "release" /\ Plan(a)[k].v = <<o, k>>
        /\ Plan(a)[Len(Lines[o]) + 1].act = "status"
    BY <2>2, LinesThenOrder
  <2>5. \A m \in 1..Len(Plan(a)) : m \in 1..Len(Lines[o]) \/ m = Len(Lines[o]) + 1
    BY <2>3, <2>4
  <2>6. 1..Len(Lines[o]) \subseteq 1..Len(Plan(a)) /\ Len(Lines[o]) + 1 \in 1..Len(Plan(a))
    BY <2>3, <2>4
  <2>7. /\ StockAct(a) = "release" /\ OrderAct(a) = "status"
        /\ Touched(a) = {<<o, k>> : k \in 1..Len(Lines[o])}
    BY <2>2, <2>3
  <2>10. \A m \in 1..Len(Plan(a)) :
             \/ Plan(a)[m].act = StockAct(a) /\ Plan(a)[m].v \in Touched(a)
             \/ Plan(a)[m].act = OrderAct(a)
    BY <2>4, <2>5, <2>7
  <2>11. \A v \in Touched(a) :
             \E m \in 1..Len(Plan(a)) : Plan(a)[m].act = StockAct(a) /\ Plan(a)[m].v = v
    BY <2>4, <2>6, <2>7
  <2>12. \E m \in 1..Len(Plan(a)) : Plan(a)[m].act = OrderAct(a)
    BY <2>4, <2>6, <2>7
  <2>13. Len(Plan(a)) \in Nat \ {0}
    BY <2>3, <2>4
  <2> QED BY <2>2, <2>10, <2>11, <2>12, <2>13 DEF PlanFits
<1>4. CASE \E v \in ResvIds : Releases(a, v)
  <2>1. PICK v \in ResvIds : Releases(a, v)
    BY <1>4
  <2>2. a.op = "release" /\ a.v = v /\ Plan(a) = <<Step("release", v)>>
    BY <2>1 DEF Releases, Plan
  <2> QED BY <2>2 DEF PlanFits, Step
<1> QED BY <1>1, <1>2, <1>3, <1>4 DEF Asked

\* A completion writes the order's row before it looks at a reservation.
LEMMA CompletionPlan ==
    ASSUME NEW a, NEW o \in Orders, Completes(a, o)
    PROVE  /\ Asked(a) /\ a.op = "change" /\ a.order = o /\ a.status = "COMPLETED"
           /\ Len(Plan(a)) > 1
           /\ Plan(a)[1].act = "status"
           /\ \A m \in 2..Len(Plan(a)) : Plan(a)[m].act = "consume"
<1>1. a.op = "change" /\ a.order = o /\ a.status = "COMPLETED" /\ Asked(a)
  <2>1. "COMPLETED" \in OrderStatus \ {"DRAFT", "CANCELLED"}
    BY DEF OrderStatus, Lifecycle!OrderStatus
  <2> QED BY <2>1 DEF Completes, Changes, Asked
<1>2. Plan(a) = <<Step("status", None)>> \o EachLine("consume", o)
  BY <1>1 DEF Plan
<1>3. Len(Lines[o]) \in Nat \ {0}
  BY LinesFit
<1>4. /\ Len(Plan(a)) = Len(Lines[o]) + 1
      /\ Plan(a)[1].act = "status"
      /\ \A k \in 1..Len(Lines[o]) : Plan(a)[k + 1].act = "consume"
  BY <1>2, OrderThenLines
<1>5. \A m \in 2..Len(Plan(a)) : m - 1 \in 1..Len(Lines[o]) /\ m = (m - 1) + 1
  BY <1>3, <1>4
<1>7. \A m \in 2..Len(Plan(a)) : Plan(a)[m].act = "consume"
  <2> TAKE m \in 2..Len(Plan(a))
  <2>1. PICK k \in 1..Len(Lines[o]) : m = k + 1
    BY <1>5
  <2> QED BY <1>4, <2>1
<1>8. Len(Plan(a)) > 1 /\ Plan(a)[1].act = "status"
  BY <1>3, <1>4 DEF Step
<1> QED BY <1>1, <1>7, <1>8

\* What a request is asked, it is asked of something.
LEMMA TouchedFits ==
    ASSUME NEW a, Asked(a)
    PROVE  /\ Touched(a) \subseteq ResvIds
           /\ StockAct(a) \in Settling /\ OrderAct(a) \notin Settling
           /\ a.op \in {"create", "change", "cancel", "release"}
           /\ a.op # "release" => a.order \in Orders /\ Target(a) \in OrderStatus
<1>1. ASSUME NEW o \in Orders PROVE LinesOf(o) \subseteq ResvIds
  BY LinesFit
<1> QED BY <1>1 DEF Asked, Creates, Changes, Cancels, Releases, Touched, StockAct, OrderAct,
                    Target, Settling, OrderStatus, Lifecycle!OrderStatus

-----------------------------------------------------------------------------
(* One step of a request, seen from the request.                           *)

LEMMA NoTxFits ==
    ASSUME NEW a
    PROVE  /\ TxTyped(NoTx) /\ HeldBy(NoTx) = {} /\ DOMAIN NoTx.resv = {}
           /\ StockWritten(a, 1, NoTx) /\ OrderWritten(a, 1, NoTx)
<1>1. DOMAIN NoTx.stock = {} /\ DOMAIN NoTx.resv = {} /\ DOMAIN NoTx.order = {}
  BY DEF NoTx
<1>2. NoTx.rows = {} /\ NoTx.trail = <<>> /\ NoTx.trail \in TrailType
  BY DEF NoTx, TrailType
<1>3. /\ NoTx.stock \in [{} -> StockRow] /\ NoTx.resv \in [{} -> ReservationStatus]
      /\ NoTx.order \in [{} -> OrderStatus]
  BY DEF NoTx
<1>4. TxOK(NoTx)
  BY <1>1, <1>2, <1>3 DEF TxOK
<1>5. NoTx = [stock |-> NoTx.stock, resv |-> NoTx.resv, order |-> NoTx.order,
              rows |-> NoTx.rows, trail |-> NoTx.trail]
  BY DEF NoTx
<1>6. 1..(1 - 1) = {}
  OBVIOUS
<1> QED BY <1>1, <1>2, <1>4, <1>5, <1>6 DEF TxTyped, HeldBy, StockWritten, OrderWritten

LEMMA LabelFits ==
    ASSUME NEW a, Asked(a), NEW n \in 1..(Len(Plan(a)) + 1)
    PROVE  /\ Label(a, n) \in Open /\ StepFits(Label(a, n), a, n)
           /\ Label(a, n) = "write" => Plan(a)[n].act \notin Settling
<1>1. Len(Plan(a)) \in Nat
  BY PlansFit DEF PlanFits
<1> QED BY <1>1 DEF Label, Open, StepFits, Settling

\* A transaction that is not open, or no longer, has written nothing.
LEMMA ClosedFits ==
    ASSUME NEW p, NEW a, p \notin Open PROVE TxFits(p, a, 1, NoTx)
  BY NoTxFits DEF TxFits

LEMMA RollbackFits ==
    ASSUME NEW p \in Pending, NEW a, NEW O \in SUBSET Orders, NEW V \in SUBSET ResvIds,
           ArgFits(p, a, O, V), NEW q \in {"begin"} \cup Finished
    PROVE  ArgFits(q, a, O, V) /\ TxFits(q, a, 1, NoTx)
<1>1. q \notin Open /\ p # "idle"
  BY DEF Open
<1>2. ArgFits(q, a, O, V)
  BY <1>1 DEF ArgFits
<1> QED BY <1>1, <1>2, ClosedFits

LEMMA ArgsAsked ==
    ASSUME NEW p, NEW a, NEW O \in SUBSET Orders, NEW V \in SUBSET ResvIds,
           ArgFits(p, a, O, V)
    PROVE  p # "idle" => Asked(a)
BY DEF ArgFits, Asked

LEMMA BeginFits ==
    ASSUME NEW a, Asked(a), NEW n, NEW t, TxFits("begin", a, n, t)
    PROVE  TxFits(Label(a, 1), a, n, t) /\ n = 1 /\ t = NoTx
<1>1. n = 1 /\ t = NoTx
  BY DEF TxFits, Open
<1>2. 1 \in 1..(Len(Plan(a)) + 1)
  BY PlansFit DEF PlanFits
<1>3. Label(a, 1) \in Open /\ StepFits(Label(a, 1), a, 1)
  BY <1>2, LabelFits
<1> QED BY <1>1, <1>3, NoTxFits DEF TxFits

\* The step a request is at: it is about a reservation it has not written yet,
\* or about the order.
LEMMA StepFound ==
    ASSUME NEW p \in {"read", "write"}, NEW a, Asked(a), NEW n, NEW t, TxFits(p, a, n, t)
    PROVE  /\ n \in 1..Len(Plan(a)) /\ n + 1 \in 1..(Len(Plan(a)) + 1)
           /\ TxTyped(t) /\ StockWritten(a, n, t) /\ OrderWritten(a, n, t)
           /\ \/ /\ Plan(a)[n].act \in Settling /\ Plan(a)[n].act = StockAct(a)
                 /\ Plan(a)[n].v \in Touched(a) /\ Plan(a)[n].v \in ResvIds
              \/ Plan(a)[n].act \notin Settling /\ Plan(a)[n].act = OrderAct(a)
<1>1. StepFits(p, a, n) /\ p \in Open
  BY DEF TxFits, Open
<1>2. Len(Plan(a)) \in Nat /\ n \in 1..Len(Plan(a))
  BY <1>1, PlansFit DEF StepFits, PlanFits
<1>3. n + 1 \in 1..(Len(Plan(a)) + 1)
  BY <1>2
<1>4. \/ Plan(a)[n].act = StockAct(a) /\ Plan(a)[n].v \in Touched(a)
      \/ Plan(a)[n].act = OrderAct(a)
  BY <1>2, PlansFit DEF PlanFits
<1> QED BY <1>1, <1>2, <1>3, <1>4, TouchedFits DEF TxFits

LEMMA LookFits ==
    ASSUME NEW a, Asked(a), NEW n, NEW t, TxFits("read", a, n, t)
    PROVE  TxFits("write", a, n, t)
BY PlansFit DEF TxFits, StepFits, Open, PlanFits

WithStock(t, x, y, z) == [t EXCEPT !.stock = x, !.resv = y, !.rows = z]
WithOrder(t, x, y)    == [t EXCEPT !.order = x, !.trail = y]

\* One column of the writes at a time.
LEMMA TxWrites ==
    ASSUME NEW t, TxTyped(t), NEW x, NEW y, NEW z
    PROVE  /\ WithStock(t, x, y, z) =
                  [stock |-> x, resv |-> y, order |-> t.order, rows |-> z, trail |-> t.trail]
           /\ WithOrder(t, x, y) =
                  [stock |-> t.stock, resv |-> t.resv, order |-> x, rows |-> t.rows, trail |-> y]
<1>1. t = [stock |-> t.stock, resv |-> t.resv, order |-> t.order, rows |-> t.rows,
           trail |-> t.trail]
  BY DEF TxTyped
<1> DEFINE f == [t EXCEPT !.stock = x]
           g == [f EXCEPT !.resv = y]
           h == [t EXCEPT !.order = x]
<1>2. f = [stock |-> x, resv |-> t.resv, order |-> t.order, rows |-> t.rows, trail |-> t.trail]
  BY <1>1
<1>3. h = [stock |-> t.stock, resv |-> t.resv, order |-> x, rows |-> t.rows, trail |-> t.trail]
  BY <1>1
<1> HIDE DEF f, h
<1>4. g = [stock |-> x, resv |-> y, order |-> t.order, rows |-> t.rows, trail |-> t.trail]
  BY <1>2
<1>5. [h EXCEPT !.trail = y] =
          [stock |-> t.stock, resv |-> t.resv, order |-> x, rows |-> t.rows, trail |-> y]
  BY <1>3
<1> HIDE DEF g
<1>6. [g EXCEPT !.rows = z] =
          [stock |-> x, resv |-> y, order |-> t.order, rows |-> z, trail |-> t.trail]
  BY <1>4
<1> QED BY <1>5, <1>6 DEF f, g, h, WithStock, WithOrder

Logged(rows, v, y)   == rows \cup {<<v, y>>}
Entered(trail, s, w) == Append(trail, [status |-> s, previous |-> w])

\* UPDATE of an item's counters, the reservation's row and the ledger row.
LEMMA StockStepFits ==
    ASSUME NEW a, Asked(a), NEW n, NEW t, TxFits("write", a, n, t),
           Plan(a)[n].act \in Settling,
           NEW row \in StockRow, ChecksHold(row),
           NEW rows, rows = Logged(t.rows, Plan(a)[n].v, RowType[Plan(a)[n].act]),
           NEW u, u = [stock |-> Put(t.stock, ItemOf(Plan(a)[n].v), row),
                       resv  |-> Put(t.resv, Plan(a)[n].v, After[Plan(a)[n].act]),
                       order |-> t.order, rows |-> rows, trail |-> t.trail]
    PROVE  /\ TxFits(Label(a, n + 1), a, n + 1, u)
           /\ HeldBy(u) = HeldBy(t) \cup {ItemOf(Plan(a)[n].v)}
<1> DEFINE v == Plan(a)[n].v
           act == StockAct(a)
<1>1. /\ n \in 1..Len(Plan(a)) /\ n + 1 \in 1..(Len(Plan(a)) + 1)
      /\ TxTyped(t) /\ StockWritten(a, n, t) /\ OrderWritten(a, n, t)
      /\ Plan(a)[n].act = act /\ v \in ResvIds
  BY StepFound, TouchedFits
<1>2. act \in Settling /\ OrderAct(a) \notin Settling /\ Plan(a)[n].act # OrderAct(a)
  BY <1>1, TouchedFits
<1>3. After[act] \in ReservationStatus /\ RowType[act] \in MoveType
  BY <1>2 DEF Settling, After, RowType, ReservationStatus, MoveType
<1>4. ItemOf(v) \in Items
  BY <1>1, LineRows
<1> HIDE DEF act, v
<1>5. /\ u = [stock |-> Put(t.stock, ItemOf(v), row), resv |-> Put(t.resv, v, After[act]),
              order |-> t.order, rows |-> t.rows \cup {<<v, RowType[act]>>},
              trail |-> t.trail]
  BY <1>1 DEF act, v, Logged
<1>6. /\ u.stock = Put(t.stock, ItemOf(v), row) /\ u.resv = Put(t.resv, v, After[act])
      /\ u.order = t.order /\ u.trail = t.trail
      /\ u.rows = t.rows \cup {<<v, RowType[act]>>}
  BY <1>5
<1>7. TxTyped(u)
  <2>1. DOMAIN u.stock = DOMAIN t.stock \cup {ItemOf(v)} /\ DOMAIN u.resv = DOMAIN t.resv \cup {v}
    BY <1>6 DEF Put
  <2>2. u.stock \in [DOMAIN u.stock -> StockRow]
    BY <1>1, <1>6, <2>1 DEF TxTyped, TxOK, Put
  <2>3. u.resv \in [DOMAIN u.resv -> ReservationStatus]
    BY <1>1, <1>3, <1>6, <2>1 DEF TxTyped, TxOK, Put
  <2>4. u.rows \subseteq ResvIds \X MoveType
    BY <1>1, <1>3, <1>6 DEF TxTyped, TxOK, v
  <2>5. \A i \in DOMAIN u.stock : ChecksHold(u.stock[i])
    BY <1>1, <1>6, <2>1 DEF TxTyped, Put
  <2>6. DOMAIN u.stock \subseteq Items /\ DOMAIN u.resv \subseteq ResvIds
    BY <1>1, <1>4, <2>1 DEF TxTyped, TxOK, v
  <2>7. DOMAIN u.order \subseteq Orders /\ u.order \in [DOMAIN u.order -> OrderStatus] /\ u.trail \in TrailType
    BY <1>1, <1>6 DEF TxTyped, TxOK
  <2> QED BY <1>5, <1>6, <2>2, <2>3, <2>4, <2>5, <2>6, <2>7 DEF TxTyped, TxOK
<1>8. 1..((n + 1) - 1) = (1..(n - 1)) \cup {n}
  BY <1>1, PlansFit DEF PlanFits
<1>9. StockWritten(a, n + 1, u)
  <2> SUFFICES ASSUME NEW w \in ResvIds
               PROVE  /\ w \in DOMAIN u.resv <=>
                             \E m \in 1..((n + 1) - 1) : Plan(a)[m].act = act /\ Plan(a)[m].v = w
                      /\ w \in DOMAIN u.resv => u.resv[w] = After[act]
                      /\ \A y \in MoveType :
                             <<w, y>> \in u.rows <=> w \in DOMAIN u.resv /\ y = RowType[act]
    BY DEF StockWritten, act
  <2>1. /\ w \in DOMAIN t.resv <=> \E m \in 1..(n - 1) : Plan(a)[m].act = act /\ Plan(a)[m].v = w
        /\ w \in DOMAIN t.resv => t.resv[w] = After[act]
        /\ \A y \in MoveType : <<w, y>> \in t.rows <=> w \in DOMAIN t.resv /\ y = RowType[act]
    BY <1>1 DEF StockWritten, act
  <2>2. DOMAIN u.resv = DOMAIN t.resv \cup {v} /\ u.resv[v] = After[act]
    BY <1>6 DEF Put
  <2>3. w \in DOMAIN u.resv => u.resv[w] = After[act]
    BY <1>6, <2>1, <2>2 DEF Put
  <2>4. w \in DOMAIN u.resv <=>
            \E m \in 1..((n + 1) - 1) : Plan(a)[m].act = act /\ Plan(a)[m].v = w
    BY <1>1, <1>8, <2>1, <2>2 DEF v
  <2>5. \A y \in MoveType : <<w, y>> \in u.rows <=> w \in DOMAIN u.resv /\ y = RowType[act]
    BY <1>6, <2>1, <2>2
  <2> QED BY <2>3, <2>4, <2>5
<1>10. OrderWritten(a, n + 1, u)
  BY <1>1, <1>2, <1>6, <1>8 DEF OrderWritten
<1>11. Label(a, n + 1) \in Open /\ StepFits(Label(a, n + 1), a, n + 1)
  BY <1>1, LabelFits
<1>12. HeldBy(u) = HeldBy(t) \cup {ItemOf(v)}
  BY <1>6 DEF HeldBy, Put
<1> QED BY <1>7, <1>9, <1>10, <1>11, <1>12 DEF TxFits, v

\* updateStatusInTx and createInTx, with their history row.
LEMMA OrderStepFits ==
    ASSUME NEW a, Asked(a), NEW n, NEW t, TxFits("write", a, n, t),
           Plan(a)[n].act \notin Settling, NEW w \in OrderStatus \cup {None},
           NEW u, u = [stock |-> t.stock, resv |-> t.resv,
                       order |-> Put(t.order, a.order, Target(a)), rows |-> t.rows,
                       trail |-> Entered(t.trail, Target(a), w)]
    PROVE  /\ TxFits(Label(a, n + 1), a, n + 1, u)
           /\ HeldBy(u) = HeldBy(t) \cup {a.order}
<1>1. /\ n \in 1..Len(Plan(a)) /\ n + 1 \in 1..(Len(Plan(a)) + 1)
      /\ TxTyped(t) /\ StockWritten(a, n, t) /\ OrderWritten(a, n, t)
      /\ Plan(a)[n].act = OrderAct(a)
  BY StepFound
<1>2. StockAct(a) # OrderAct(a) /\ StockAct(a) \in Settling
  BY TouchedFits
<1>3. a.op # "release" /\ a.order \in Orders /\ Target(a) \in OrderStatus
  BY <1>1, <1>2, TouchedFits, PlansFit DEF PlanFits
<1>4. u = [stock |-> u.stock, resv |-> u.resv, order |-> u.order,
           rows |-> u.rows, trail |-> u.trail]
  OBVIOUS
<1>5. /\ u.stock = t.stock /\ u.resv = t.resv /\ u.rows = t.rows
      /\ u.order = Put(t.order, a.order, Target(a))
      /\ u.trail = Append(t.trail, [status |-> Target(a), previous |-> w])
  BY DEF Entered
<1> DEFINE Rec == [status : OrderStatus, previous : OrderStatus \cup {None}]
           e == [status |-> Target(a), previous |-> w]
<1>6. t.trail \in Seq(Rec) /\ e \in Rec /\ e.status = Target(a)
  BY <1>1, <1>3 DEF TxTyped, TxOK, TrailType
<1> HIDE DEF Rec, e
<1>7. u.trail \in Seq(Rec) /\ Len(u.trail) = Len(t.trail) + 1
      /\ \A k \in 1..Len(u.trail) : (k \in 1..Len(t.trail) /\ u.trail[k] = t.trail[k]) \/ u.trail[k] = e
  BY <1>5, <1>6 DEF e
<1>8. TxTyped(u)
  <2>1. DOMAIN u.order = DOMAIN t.order \cup {a.order}
    BY <1>5 DEF Put
  <2>2. u.order \in [DOMAIN u.order -> OrderStatus] /\ DOMAIN u.order \subseteq Orders
    BY <1>1, <1>3, <1>5, <2>1 DEF TxTyped, TxOK, Put
  <2>3. u.trail \in TrailType
    BY <1>7 DEF TrailType, Rec
  <2> QED BY <1>1, <1>4, <1>5, <2>2, <2>3 DEF TxTyped, TxOK
<1>9. 1..((n + 1) - 1) = (1..(n - 1)) \cup {n}
  BY <1>1, PlansFit DEF PlanFits
<1>10. StockWritten(a, n + 1, u)
  BY <1>1, <1>2, <1>5, <1>9 DEF StockWritten
<1>11. OrderWritten(a, n + 1, u)
  <2>1. \E m \in 1..((n + 1) - 1) : Plan(a)[m].act = OrderAct(a)
    BY <1>1, <1>9
  <2>2. DOMAIN t.order \subseteq {a.order} /\ \A k \in 1..Len(t.trail) : t.trail[k].status = Target(a)
    BY <1>1 DEF OrderWritten
  <2>3. DOMAIN u.order = {a.order} /\ u.order[a.order] = Target(a)
    BY <1>5, <2>2 DEF Put
  <2>4. Len(u.trail) > 0 /\ \A k \in 1..Len(u.trail) : u.trail[k].status = Target(a)
    BY <1>6, <1>7, <2>2
  <2> QED BY <2>1, <2>3, <2>4 DEF OrderWritten
<1>12. Label(a, n + 1) \in Open /\ StepFits(Label(a, n + 1), a, n + 1)
  BY <1>1, LabelFits
<1>13. HeldBy(u) = HeldBy(t) \cup {a.order}
  BY <1>5 DEF HeldBy, Put
<1> QED BY <1>8, <1>10, <1>11, <1>12, <1>13 DEF TxFits

LEMMA ArgRefers ==
    ASSUME NEW p, NEW a, NEW O \in SUBSET Orders, NEW V \in SUBSET ResvIds,
           ArgFits(p, a, O, V), p # "idle"
    PROVE  /\ a.op \in {"create", "change", "cancel", "release"}
           /\ a.op = "create" => a.order \in Orders /\ (p \in Pending => a.order \notin O)
           /\ a.op \in {"change", "cancel"} => a.order \in O
           /\ a.op = "release" => a.v \in V
<1>1. CASE \E o \in Orders : Creates(a, o) /\ (p \in Pending => o \notin O)
  BY <1>1 DEF Creates
<1>2. CASE \E o \in O : \E s \in OrderStatus \ {"DRAFT", "CANCELLED"} : Changes(a, o, s)
  BY <1>2 DEF Changes
<1>3. CASE \E o \in O : Cancels(a, o)
  BY <1>3 DEF Cancels
<1>4. CASE \E v \in V : Releases(a, v)
  BY <1>4 DEF Releases
<1> QED BY <1>1, <1>2, <1>3, <1>4 DEF ArgFits

-----------------------------------------------------------------------------
(* Steps that leave the tables as they are.                                *)

OnlyRequest(r) ==
    /\ PerRequest'
    /\ \A s \in Requests \ {r} :
           /\ pc'[s] = pc[s] /\ arg'[s] = arg[s] /\ seen'[s] = seen[s]
           /\ at'[s] = at[s] /\ tries'[s] = tries[s] /\ tx'[s] = tx[s]

RowsFreeOf(r, rows) == \A s \in Requests \ {r} : rows \cap HeldBy(tx[s]) = {}

LEMMA QuietStep ==
    ASSUME Inv, NEW r \in Requests, UNCHANGED tables, OnlyRequest(r), RequestFits(r)',
           \A s \in Requests \ {r} : ~Clash(arg'[r], arg[s]),
           RowsFreeOf(r, HeldBy(tx'[r])),
           \A o \in Orders :
               Completes(arg'[r], o) /\ Looked(pc'[r], at'[r]) => ~EverHad(o, "COMPLETED")
    PROVE  Inv'
<1>1. TablesFit'
  BY DEF tables, TablesFit, Inv
<1>2. ShippedExactlyOnce' /\ OrdersHoldTheirStock'
  BY DEF tables, Inv, ShippedExactlyOnce, OrdersHoldTheirStock, EverHad
<1>3. RequestsFit'
  <2> SUFFICES ASSUME NEW s \in Requests PROVE RequestFits(s)'
    BY DEF RequestsFit
  <2>1. CASE s # r
    BY <2>1 DEF OnlyRequest, RequestFits, RequestsFit, Inv, tables
  <2> QED BY <2>1
<1>4. RequestsApart'
  <2>1. \A s, t \in Requests : s # t => Apart(arg[s], arg[t], tx[s], tx[t])
    BY DEF Inv, RequestsApart
  <2>2. \A s, t \in Requests : s # t => Apart(arg'[s], arg'[t], tx'[s], tx'[t])
    BY <2>1 DEF OnlyRequest, Apart, Clash, RowsFreeOf
  <2> QED BY <2>2 DEF RequestsApart
<1>5. CompletesAlone'
  <2> SUFFICES ASSUME NEW s \in Requests, NEW o \in Orders,
                      Completes(arg'[s], o), Looked(pc'[s], at'[s])
               PROVE  ~EverHad(o, "COMPLETED")'
    BY DEF CompletesAlone
  <2>1. ~EverHad(o, "COMPLETED")
    BY DEF OnlyRequest, CompletesAlone, Inv
  <2> QED BY <2>1 DEF EverHad, tables
<1> QED BY <1>1, <1>2, <1>3, <1>4, <1>5 DEF Inv, OnlyRequest

\* What is known of any request.
LEMMA Known ==
    ASSUME Inv, NEW r \in Requests
    PROVE  /\ RequestFits(r) /\ PerRequest
           /\ DOMAIN order \in SUBSET Orders /\ DOMAIN resv \in SUBSET ResvIds
           /\ pc[r] # "idle" => Asked(arg[r])
           /\ RowsFreeOf(r, HeldBy(tx[r]))
           /\ \A s \in Requests \ {r} : ~Clash(arg[r], arg[s])
<1>1. RequestFits(r) /\ PerRequest /\ DOMAIN order \in SUBSET Orders /\ DOMAIN resv \in SUBSET ResvIds
  BY DEF Inv, RequestsFit, TablesFit
<1>2. pc[r] # "idle" => Asked(arg[r])
  BY <1>1, ArgsAsked DEF RequestFits
<1> QED BY <1>1, <1>2 DEF Inv, RequestsApart, Apart, RowsFreeOf

LEMMA ArriveKeeps ==
    ASSUME Inv, NEW r \in Requests, NEW a, NEW s \in OrderStatus \cup {None},
           NEW q \in {"begin", "rejected"}, Arrive(r, a, s, q),
           ArgFits(q, a, DOMAIN order, DOMAIN resv),
           \A p \in Requests : ~Clash(a, arg[p])
    PROVE  Inv'
<1>1. RequestFits(r) /\ PerRequest /\ RowsFreeOf(r, HeldBy(tx[r]))
  BY Known
<1>2. /\ pc' = [pc EXCEPT ![r] = q] /\ arg' = [arg EXCEPT ![r] = a]
      /\ seen' = [seen EXCEPT ![r] = s] /\ UNCHANGED <<at, tries, tx>>
      /\ pc[r] = "idle" /\ UNCHANGED <<order, resv>> /\ UNCHANGED tables
  BY DEF Arrive, Goto, tables
<1>3. /\ OnlyRequest(r) /\ pc'[r] = q /\ arg'[r] = a /\ seen'[r] = s
      /\ at'[r] = at[r] /\ tries'[r] = tries[r] /\ tx'[r] = tx[r]
  BY <1>1, <1>2 DEF PerRequest, OnlyRequest
<1>4. at[r] = 1 /\ tx[r] = NoTx /\ q \notin Open
  BY <1>1, <1>2 DEF RequestFits, TxFits, Open
<1>5. TxFits(q, a, 1, NoTx)
  BY <1>4, ClosedFits
<1>6. RequestFits(r)'
  BY <1>1, <1>2, <1>3, <1>4, <1>5 DEF RequestFits
<1> QED BY <1>1, <1>2, <1>3, <1>4, <1>6, QuietStep DEF Looked

LEMMA RollbackKeeps ==
    ASSUME Inv, NEW r \in Requests, pc[r] \in Pending,
           NEW q \in {"begin"} \cup Finished, Rollback(r, q),
           \/ UNCHANGED tries
           \/ tries[r] < MaxAttempts /\ tries' = [tries EXCEPT ![r] = @ + 1]
    PROVE  Inv'
<1>1. /\ RequestFits(r) /\ PerRequest
      /\ DOMAIN order \in SUBSET Orders /\ DOMAIN resv \in SUBSET ResvIds
      /\ \A s \in Requests \ {r} : ~Clash(arg[r], arg[s])
  BY Known
<1>2. /\ pc' = [pc EXCEPT ![r] = q] /\ tx' = [tx EXCEPT ![r] = NoTx]
      /\ at' = [at EXCEPT ![r] = 1]
      /\ UNCHANGED <<arg, seen>> /\ UNCHANGED <<order, resv>> /\ UNCHANGED tables
  BY DEF Rollback, Goto, tables
<1>3. /\ OnlyRequest(r) /\ pc'[r] = q /\ arg'[r] = arg[r] /\ seen'[r] = seen[r]
      /\ at'[r] = 1 /\ tx'[r] = NoTx
  BY <1>1, <1>2 DEF PerRequest, OnlyRequest
<1>4. tries'[r] \in 1..MaxAttempts
  BY <1>1, OrdersAssumption DEF RequestFits, PerRequest
<1>5. ArgFits(q, arg[r], DOMAIN order, DOMAIN resv) /\ TxFits(q, arg[r], 1, NoTx)
  BY <1>1, RollbackFits DEF RequestFits
<1>6. RequestFits(r)'
  BY <1>1, <1>2, <1>3, <1>4, <1>5 DEF RequestFits
<1>7. RowsFreeOf(r, HeldBy(tx'[r]))
  BY <1>3, NoTxFits DEF RowsFreeOf
<1>8. q \notin Open
  BY DEF Open
<1> QED BY <1>1, <1>2, <1>3, <1>6, <1>7, <1>8, QuietStep DEF Looked

\* A request moves on inside its transaction, and holds the rows it wrote.
LEMMA MoveKeeps ==
    ASSUME Inv, NEW r \in Requests, pc[r] \in Pending, OnlyRequest(r),
           UNCHANGED tables, UNCHANGED <<arg, seen, tries>>,
           NEW q \in Open, pc'[r] = q, NEW n, at'[r] = n, NEW t, tx'[r] = t,
           TxFits(q, arg[r], n, t), RowsFreeOf(r, HeldBy(t)),
           \A o \in Orders :
               Completes(arg[r], o) /\ Looked(q, n) => ~EverHad(o, "COMPLETED")
    PROVE  Inv'
<1>1. RequestFits(r) /\ PerRequest /\ \A s \in Requests \ {r} : ~Clash(arg[r], arg[s])
  BY Known
<1>2. arg'[r] = arg[r] /\ seen'[r] = seen[r] /\ tries'[r] = tries[r]
  OBVIOUS
<1>3. q \in Pending /\ UNCHANGED <<order, resv>>
  BY DEF Open, tables
<1>4. ArgFits(q, arg[r], DOMAIN order, DOMAIN resv)
  BY <1>1, <1>3 DEF RequestFits, ArgFits
<1>5. RequestFits(r)'
  BY <1>1, <1>2, <1>3, <1>4 DEF RequestFits
<1> QED BY <1>1, <1>2, <1>5, QuietStep

-----------------------------------------------------------------------------
(* The steps of a transaction before its COMMIT.                           *)

\* Where a request with an open transaction is.
LEMMA InPlan ==
    ASSUME Inv, NEW r \in Requests, pc[r] \in {"read", "write"}
    PROVE  /\ Asked(arg[r]) /\ TxTyped(tx[r]) /\ TxFits(pc[r], arg[r], at[r], tx[r])
           /\ at[r] \in 1..Len(Plan(arg[r])) /\ at[r] + 1 \in 1..(Len(Plan(arg[r])) + 1)
           /\ StockWritten(arg[r], at[r], tx[r])
           /\ \/ /\ Current(r).act \in Settling /\ Current(r).act = StockAct(arg[r])
                 /\ Current(r).v \in Touched(arg[r]) /\ Current(r).v \in ResvIds
              \/ Current(r).act \notin Settling /\ Current(r).act = OrderAct(arg[r])
<1>1. RequestFits(r) /\ Asked(arg[r])
  BY Known
<1> QED BY <1>1, StepFound DEF RequestFits, Current

LEMMA BeginKeeps ==
    ASSUME Inv, NEW r \in Requests, Begin(r) PROVE Inv'
<1>1. RequestFits(r) /\ PerRequest /\ Asked(arg[r]) /\ pc[r] = "begin"
  BY Known DEF Begin
<1>2. TxFits(Label(arg[r], 1), arg[r], at[r], tx[r]) /\ at[r] = 1 /\ tx[r] = NoTx
  BY <1>1, BeginFits DEF RequestFits
<1>3. Label(arg[r], 1) \in Open
  BY <1>1, PlansFit, LabelFits DEF PlanFits
<1>4. /\ OnlyRequest(r) /\ UNCHANGED tables /\ UNCHANGED <<arg, seen, tries>>
      /\ pc'[r] = Label(arg[r], 1) /\ at'[r] = at[r] /\ tx'[r] = tx[r]
  BY <1>1 DEF Begin, Goto, tables, PerRequest, OnlyRequest
<1>5. RowsFreeOf(r, HeldBy(tx[r])) /\ ~Looked(Label(arg[r], 1), at[r])
  BY <1>2, NoTxFits DEF RowsFreeOf, Looked
<1> QED BY <1>1, <1>2, <1>3, <1>4, <1>5, MoveKeeps

\* Either check of a reservation step passes.
LEMMA LookKeeps ==
    ASSUME Inv, NEW r \in Requests, pc[r] = "read",
           Goto(r, "write"),
           UNCHANGED <<stock, resv, moves, order, history, arg, seen, at, tries, tx>>,
           \A o \in Orders : Completes(arg[r], o) => ~EverHad(o, "COMPLETED")
    PROVE  Inv'
<1>1. /\ TxFits("write", arg[r], at[r], tx[r]) /\ PerRequest
      /\ RowsFreeOf(r, HeldBy(tx[r]))
  BY InPlan, LookFits, Known
<1>2. /\ OnlyRequest(r) /\ UNCHANGED tables /\ UNCHANGED <<arg, seen, tries>>
      /\ pc'[r] = "write" /\ at'[r] = at[r] /\ tx'[r] = tx[r]
  BY <1>1 DEF Goto, tables, PerRequest, OnlyRequest
<1>3. "write" \in Open
  BY DEF Open
<1> QED BY <1>1, <1>2, <1>3, MoveKeeps

LEMMA CheckAvailabilityKeeps ==
    ASSUME Inv, NEW r \in Requests, CheckAvailability(r) PROVE Inv'
<1>1. pc[r] = "read" /\ Current(r).act = "reserve"
  BY DEF CheckAvailability, NeedsSecondConnection
<1>2. StockAct(arg[r]) = "reserve"
  BY <1>1, InPlan DEF Settling
<1>3. \A o \in Orders : ~Completes(arg[r], o)
  BY <1>2 DEF StockAct, Completes, Changes
<1>4. CASE Rollback(r, "rejected") /\ UNCHANGED tries
  BY <1>1, <1>4, RollbackKeeps
<1>5. CASE /\ Goto(r, "write")
           /\ UNCHANGED <<stock, resv, moves, order, history, arg, seen, at, tries, tx>>
  BY <1>1, <1>3, <1>5, LookKeeps
<1> QED BY <1>4, <1>5 DEF CheckAvailability

LEMMA FindActiveKeeps ==
    ASSUME Inv, NEW r \in Requests, FindActive(r) PROVE Inv'
<1> DEFINE v == Current(r).v
<1>1. pc[r] = "read" /\ Current(r).act \in {"release", "consume"}
  BY DEF FindActive
<1>2. CASE Rollback(r, "rejected") /\ UNCHANGED tries
  BY <1>1, <1>2, RollbackKeeps
<1>3. CASE /\ v \in DOMAIN Over(resv, tx[r].resv) /\ Over(resv, tx[r].resv)[v] = "ACTIVE"
           /\ Goto(r, "write")
           /\ UNCHANGED <<stock, resv, moves, order, history, arg, seen, at, tries, tx>>
  <2>1. ASSUME NEW o \in Orders, Completes(arg[r], o) PROVE ~EverHad(o, "COMPLETED")
    <3>1. arg[r].op = "change" /\ arg[r].order = o /\ arg[r].status = "COMPLETED"
      BY <2>1, CompletionPlan
    <3>2. v \in ResvIds /\ v \in LinesOf(o) /\ StockAct(arg[r]) = "consume"
      BY <1>1, <3>1, InPlan DEF Settling, Touched, StockAct
    <3>3. v[1] = o
      BY <3>2, LinesFit DEF LinesOf
    <3>4. v \in DOMAIN tx[r].resv => tx[r].resv[v] = "CONSUMED"
      BY <1>1, <3>2, InPlan DEF StockWritten, After
    <3> HIDE DEF v
    <3>5. v \in DOMAIN resv /\ resv[v] = "ACTIVE"
      BY <1>3, <3>4 DEF Over
    <3> QED BY <3>3, <3>5 DEF Inv, OrdersHoldTheirStock
  <2> QED BY <1>1, <1>3, <2>1, LookKeeps
<1> QED BY <1>2, <1>3 DEF FindActive

LEMMA WriteStockKeeps ==
    ASSUME Inv, NEW r \in Requests, WriteStock(r) PROVE Inv'
<1> DEFINE a == arg[r]
           v == Current(r).v
           act == Current(r).act
           row == Incremented(Over(stock, tx[r].stock)[ItemOf(v)],
                              OnHandDelta(act, v), ReservedDelta(act, v))
           rows == tx[r].rows \cup {<<v, RowType[act]>>}
           u == [tx[r] EXCEPT !.stock = Put(@, ItemOf(v), row),
                              !.resv  = Put(@, v, After[act]),
                              !.rows  = rows]
<1>1. pc[r] = "write" /\ act \in Settling /\ ~Blocked(r)
  BY DEF WriteStock, After, Settling
<1>2. /\ Asked(a) /\ TxTyped(tx[r]) /\ TxFits("write", a, at[r], tx[r])
      /\ at[r] \in 1..Len(Plan(a)) /\ at[r] + 1 \in 1..(Len(Plan(a)) + 1)
      /\ v \in ResvIds /\ Len(Plan(a)) \in Nat
  BY <1>1, InPlan, PlansFit DEF PlanFits
<1>3. ItemOf(v) \in Items /\ QtyOf(v) \in Nat
  BY <1>2, LineRows
<1>4. RequestFits(r) /\ PerRequest /\ RowsFreeOf(r, HeldBy(tx[r]))
  BY Known
<1>5. CASE Rollback(r, IF act = "reserve" THEN "rejected" ELSE "failed") /\ UNCHANGED tries
  <2>1. (IF act = "reserve" THEN "rejected" ELSE "failed") \in {"begin"} \cup Finished
    OBVIOUS
  <2> QED BY <1>1, <1>5, <2>1, RollbackKeeps
<1>6. CASE ChecksHold(row) /\ Advance(r, u) /\ UNCHANGED tries
  <2>1. Over(stock, tx[r].stock)[ItemOf(v)] \in StockRow
    BY <1>2, <1>3 DEF Over, TxTyped, TxOK, Inv, TablesFit
  <2>2. row \in StockRow
    <3> DEFINE base == Over(stock, tx[r].stock)[ItemOf(v)]
    <3>1. base.onHand \in Int /\ base.reserved \in Int
      BY <2>1 DEF StockRow
    <3>2. OnHandDelta(act, v) \in Int /\ ReservedDelta(act, v) \in Int
      BY <1>3 DEF OnHandDelta, ReservedDelta
    <3> HIDE DEF base
    <3>3. row = [onHand |-> base.onHand + OnHandDelta(act, v),
                 reserved |-> base.reserved + ReservedDelta(act, v)]
      BY DEF Incremented, base
    <3> HIDE DEF row
    <3>4. row.onHand \in Nat /\ row.reserved \in Nat
      BY <1>6, <3>1, <3>2, <3>3 DEF ChecksHold
    <3> QED BY <3>3, <3>4 DEF StockRow
  <2> HIDE DEF row
  <2>3. u = [stock |-> Put(tx[r].stock, ItemOf(v), row),
             resv |-> Put(tx[r].resv, v, After[act]), order |-> tx[r].order,
             rows |-> rows, trail |-> tx[r].trail]
    <3>1. u = WithStock(tx[r], Put(tx[r].stock, ItemOf(v), row),
                        Put(tx[r].resv, v, After[act]),
                        rows)
      BY DEF WithStock
    <3> HIDE DEF u, v, act, rows
    <3> QED BY <1>2, <3>1, TxWrites
  <2> HIDE DEF u
  <2>4. /\ TxFits(Label(a, at[r] + 1), a, at[r] + 1, u)
        /\ HeldBy(u) = HeldBy(tx[r]) \cup {ItemOf(v)}
    <3> HIDE DEF a
    <3>1. /\ Plan(a)[at[r]].act \in Settling
          /\ u = [stock |-> Put(tx[r].stock, ItemOf(Plan(a)[at[r]].v), row),
                  resv |-> Put(tx[r].resv, Plan(a)[at[r]].v, After[Plan(a)[at[r]].act]),
                  order |-> tx[r].order,
                  rows |-> rows, trail |-> tx[r].trail]
          /\ v = Plan(a)[at[r]].v
          /\ rows = Logged(tx[r].rows, Plan(a)[at[r]].v, RowType[Plan(a)[at[r]].act])
      BY <1>1, <2>3 DEF Current, a, Logged
    <3> HIDE DEF rows, v, act
    <3> QED BY <1>2, <1>6, <2>2, <3>1, StockStepFits
  <2>5. \A s \in Requests \ {r} : ItemOf(v) \notin HeldBy(tx[s])
    <3>1. ItemOf(v) \in Wants(r)
      BY <1>1 DEF Wants, Settling
    <3> QED BY <1>1, <3>1 DEF Blocked, Free, Holds, HeldBy
  <2>6. RowsFreeOf(r, HeldBy(u))
    BY <1>4, <2>4, <2>5 DEF RowsFreeOf
  <2>7. ASSUME NEW o \in Orders, Completes(a, o) PROVE ~EverHad(o, "COMPLETED")
    <3>1. at[r] # 1
      BY <1>1, <2>7, CompletionPlan DEF Current, Settling
    <3>2. Looked(pc[r], at[r])
      BY <1>1, <1>2, <3>1 DEF Looked, Open
    <3> QED BY <2>7, <3>2 DEF Inv, CompletesAlone
  <2>8. /\ OnlyRequest(r) /\ UNCHANGED tables /\ UNCHANGED <<arg, seen, tries>>
        /\ pc'[r] = Label(a, at[r] + 1) /\ at'[r] = at[r] + 1 /\ tx'[r] = u
    BY <1>4, <1>6 DEF Advance, Goto, tables, PerRequest, OnlyRequest
  <2>9. Label(a, at[r] + 1) \in Open
    BY <1>2, LabelFits
  <2> QED BY <1>1, <2>4, <2>6, <2>7, <2>8, <2>9, MoveKeeps
<1> QED BY <1>5, <1>6 DEF WriteStock

\* The writes of either statement for the order's row.
LEMMA OrderWritesKeep ==
    ASSUME Inv, NEW r \in Requests, pc[r] = "write", Current(r).act \notin Settling,
           NEW w \in OrderStatus \cup {None},
           NEW u, u = WithOrder(tx[r], Put(tx[r].order, arg[r].order, Target(arg[r])),
                        Entered(tx[r].trail, Target(arg[r]), w)),
           Advance(r, u), UNCHANGED tries,
           \A s \in Requests \ {r} : arg[r].order \notin HeldBy(tx[s])
    PROVE  Inv'
<1> DEFINE a == arg[r]
<1>1. /\ Asked(a) /\ TxTyped(tx[r]) /\ TxFits("write", a, at[r], tx[r])
      /\ at[r] \in 1..Len(Plan(a)) /\ at[r] + 1 \in 1..(Len(Plan(a)) + 1)
      /\ Len(Plan(a)) \in Nat
  BY InPlan, PlansFit DEF PlanFits
<1>2. PerRequest /\ RowsFreeOf(r, HeldBy(tx[r]))
  BY Known
<1>3. u = [stock |-> tx[r].stock, resv |-> tx[r].resv,
           order |-> Put(tx[r].order, a.order, Target(a)), rows |-> tx[r].rows,
           trail |-> Entered(tx[r].trail, Target(a), w)]
  BY <1>1, TxWrites
<1>4. Plan(a)[at[r]].act \notin Settling
  BY DEF Current
<1>5. ASSUME NEW o \in Orders, Completes(a, o) PROVE ~Looked(Label(a, at[r] + 1), at[r] + 1)
  <2>1. /\ Len(Plan(a)) > 1 /\ \A m \in 2..Len(Plan(a)) : Plan(a)[m].act = "consume"
    BY <1>5, CompletionPlan
  <2>2. at[r] = 1
    BY <1>1, <1>4, <2>1 DEF Settling
  <2>3. Plan(a)[2].act = "consume"
    BY <1>1, <2>1
  <2>4. Label(a, 2) = "read"
    BY <1>1, <2>1, <2>3 DEF Label
  <2> QED BY <2>2, <2>4 DEF Looked
<1>6. /\ OnlyRequest(r) /\ UNCHANGED tables /\ UNCHANGED <<arg, seen, tries>>
      /\ pc'[r] = Label(a, at[r] + 1) /\ at'[r] = at[r] + 1 /\ tx'[r] = u
  BY <1>2 DEF Advance, Goto, tables, PerRequest, OnlyRequest
<1> HIDE DEF a
<1>7. /\ TxFits(Label(a, at[r] + 1), a, at[r] + 1, u)
      /\ HeldBy(u) = HeldBy(tx[r]) \cup {a.order}
  <2> DEFINE n == at[r]
             t == tx[r]
  <2>1. /\ Asked(a) /\ TxFits("write", a, n, t) /\ Plan(a)[n].act \notin Settling
        /\ u = [stock |-> t.stock, resv |-> t.resv,
                order |-> Put(t.order, a.order, Target(a)), rows |-> t.rows,
                trail |-> Entered(t.trail, Target(a), w)]
    BY <1>1, <1>3, <1>4
  <2> HIDE DEF n, t
  <2>2. TxFits(Label(a, n + 1), a, n + 1, u) /\ HeldBy(u) = HeldBy(t) \cup {a.order}
    BY <2>1, OrderStepFits
  <2> QED BY <2>2 DEF n, t
<1>8. RowsFreeOf(r, HeldBy(u))
  BY <1>2, <1>7 DEF RowsFreeOf, a
<1>9. Label(a, at[r] + 1) \in Open
  BY <1>1, LabelFits
<1> QED BY <1>5, <1>6, <1>7, <1>8, <1>9, MoveKeeps DEF a

LEMMA WriteStatusKeeps ==
    ASSUME Inv, NEW r \in Requests, WriteStatus(r) PROVE Inv'
<1>1. pc[r] = "write" /\ Current(r).act = "status" /\ ~Blocked(r) /\ UNCHANGED tries
  BY DEF WriteStatus
<1>2. OrderAct(arg[r]) = "status" /\ Current(r).act \notin Settling
  BY <1>1, InPlan DEF Settling
<1>3. Target(arg[r]) = arg[r].status
  BY <1>2 DEF OrderAct, Target
<1>4. seen[r] \in OrderStatus \cup {None}
  BY Known DEF RequestFits
<1>5. \A s \in Requests \ {r} : arg[r].order \notin HeldBy(tx[s])
  BY <1>1 DEF Wants, Blocked, Free, Holds, HeldBy
<1> DEFINE u == [tx[r] EXCEPT
                    !.order = Put(@, arg[r].order, arg[r].status),
                    !.trail = Append(@, [status |-> arg[r].status, previous |-> seen[r]])]
<1>6. Advance(r, u)
  BY DEF WriteStatus
<1>7. u = WithOrder(tx[r], Put(tx[r].order, arg[r].order, Target(arg[r])),
                Entered(tx[r].trail, Target(arg[r]), seen[r]))
  BY <1>3 DEF WithOrder, Entered
<1> HIDE DEF u
<1> QED BY <1>1, <1>2, <1>4, <1>5, <1>6, <1>7, OrderWritesKeep

\* The order's row a transaction wrote: one that exists, or one it creates.
LEMMA OrderHeld ==
    ASSUME Inv, NEW s \in Requests, NEW o \in DOMAIN tx[s].order
    PROVE  /\ pc[s] \in Open /\ o = arg[s].order
           /\ arg[s].op = "create" \/ (arg[s].op \in {"change", "cancel"} /\ o \in DOMAIN order)
<1>1. RequestFits(s) /\ (pc[s] # "idle" => Asked(arg[s]))
  BY Known
<1>2. pc[s] \in Open
  BY <1>1 DEF RequestFits, TxFits, NoTx
<1>3. Asked(arg[s]) /\ OrderWritten(arg[s], at[s], tx[s]) /\ StepFits(pc[s], arg[s], at[s])
  BY <1>1, <1>2 DEF RequestFits, TxFits, Open
<1>4. PICK m \in 1..(at[s] - 1) : Plan(arg[s])[m].act = OrderAct(arg[s])
  BY <1>3 DEF OrderWritten
<1>5. o = arg[s].order
  BY <1>3 DEF OrderWritten
<1>6. m \in 1..Len(Plan(arg[s]))
  BY <1>3, <1>4, PlansFit DEF StepFits, PlanFits
<1>7. arg[s].op # "release"
  BY <1>3, <1>4, <1>6, PlansFit, TouchedFits DEF PlanFits
<1>8. arg[s].op = "create" \/ (arg[s].op \in {"change", "cancel"} /\ arg[s].order \in DOMAIN order)
  BY <1>1, <1>2, <1>7, Known, ArgRefers DEF RequestFits, Open
<1> QED BY <1>2, <1>5, <1>8

LEMMA InsertOrderKeeps ==
    ASSUME Inv, NEW r \in Requests, InsertOrder(r) PROVE Inv'
<1>1. pc[r] = "write" /\ Current(r).act = "insert" /\ UNCHANGED tries
  BY DEF InsertOrder
<1>2. OrderAct(arg[r]) = "insert" /\ Current(r).act \notin Settling
  BY <1>1, InPlan DEF Settling
<1>3. arg[r].op = "create" /\ Target(arg[r]) = "DRAFT"
  BY <1>2 DEF OrderAct, Target
<1>4. arg[r].order \in Orders /\ arg[r].order \notin DOMAIN order
  BY <1>1, <1>3, Known, ArgRefers DEF RequestFits
<1>5. ASSUME NEW s \in Requests \ {r} PROVE arg[r].order \notin HeldBy(tx[s])
  <2>1. DOMAIN tx[s].stock \subseteq Items
    BY Known DEF RequestFits, TxFits, TxTyped, TxOK
  <2>2. ~Clash(arg[r], arg[s])
    BY Known
  <2> QED BY <1>3, <1>4, <2>1, <2>2, OrderHeld, OrdersAssumption DEF HeldBy, Clash
<1> DEFINE u == [tx[r] EXCEPT
                    !.order = Put(@, arg[r].order, "DRAFT"),
                    !.trail = Append(@, [status |-> "DRAFT", previous |-> None])]
<1>6. Advance(r, u)
  BY DEF InsertOrder
<1>7. u = WithOrder(tx[r], Put(tx[r].order, arg[r].order, Target(arg[r])),
                Entered(tx[r].trail, Target(arg[r]), None))
  BY <1>3 DEF WithOrder, Entered
<1> HIDE DEF u
<1> QED BY <1>1, <1>2, <1>5, <1>6, <1>7, OrderWritesKeep

-----------------------------------------------------------------------------
(* COMMIT.                                                                 *)

LEMMA Targets ==
    ASSUME NEW a, Asked(a)
    PROVE  /\ a.op = "create" => Target(a) = "DRAFT"
           /\ a.op = "cancel" => Target(a) = "CANCELLED"
           /\ a.op = "change" => Target(a) \notin {"DRAFT", "CANCELLED"} /\ Target(a) = a.status
           /\ a.op = "change" /\ a.status = "COMPLETED" => Completes(a, a.order)
<1>1. CASE \E o \in Orders : Creates(a, o)
  BY <1>1 DEF Creates, Target
<1>2. CASE \E o \in Orders, s \in OrderStatus \ {"DRAFT", "CANCELLED"} : Changes(a, o, s)
  BY <1>2 DEF Changes, Target, Completes
<1>3. CASE \E o \in Orders : Cancels(a, o)
  BY <1>3 DEF Cancels, Target
<1>4. CASE \E v \in ResvIds : Releases(a, v)
  BY <1>4 DEF Releases
<1> QED BY <1>1, <1>2, <1>3, <1>4 DEF Asked

\* A transaction that reaches COMMIT wrote every row of its plan.
LEMMA Whole ==
    ASSUME NEW a, Asked(a), NEW n, NEW t, TxFits("commit", a, n, t)
    PROVE  /\ TxTyped(t) /\ n = Len(Plan(a)) + 1
           /\ \A v \in ResvIds :
                  /\ v \in DOMAIN t.resv <=> v \in Touched(a)
                  /\ v \in Touched(a) => t.resv[v] = After[StockAct(a)]
                  /\ \A y \in MoveType :
                         <<v, y>> \in t.rows <=> v \in Touched(a) /\ y = RowType[StockAct(a)]
           /\ a.op # "release" =>
                  /\ DOMAIN t.order = {a.order} /\ t.order[a.order] = Target(a)
                  /\ Len(t.trail) > 0
                  /\ \A k \in 1..Len(t.trail) : t.trail[k].status = Target(a)
           /\ a.op = "release" => DOMAIN t.order = {}
<1>1. /\ TxTyped(t) /\ n = Len(Plan(a)) + 1 /\ StockWritten(a, n, t) /\ OrderWritten(a, n, t)
  BY DEF TxFits, Open, StepFits
<1>2. Len(Plan(a)) \in Nat
  BY PlansFit DEF PlanFits
<1>3. 1..(n - 1) = 1..Len(Plan(a))
  BY <1>1, <1>2
<1>4. StockAct(a) # OrderAct(a)
  BY TouchedFits
<1>5. \A v \in ResvIds :
          (\E m \in 1..Len(Plan(a)) : Plan(a)[m].act = StockAct(a) /\ Plan(a)[m].v = v)
              <=> v \in Touched(a)
  BY <1>4, PlansFit DEF PlanFits
<1>6. \A v \in ResvIds : v \in DOMAIN t.resv <=> v \in Touched(a)
  BY <1>1, <1>3, <1>5 DEF StockWritten
<1>7. a.op # "release" => \E m \in 1..Len(Plan(a)) : Plan(a)[m].act = OrderAct(a)
  BY PlansFit DEF PlanFits
<1>8. a.op = "release" => \A m \in 1..Len(Plan(a)) : Plan(a)[m].act # OrderAct(a)
  BY <1>4, PlansFit DEF PlanFits
<1>9. a.op # "release" =>
          /\ DOMAIN t.order = {a.order} /\ t.order[a.order] = Target(a)
          /\ Len(t.trail) > 0
          /\ \A k \in 1..Len(t.trail) : t.trail[k].status = Target(a)
  BY <1>1, <1>3, <1>7 DEF OrderWritten
<1>10. a.op = "release" => DOMAIN t.order = {}
  BY <1>1, <1>3, <1>8 DEF OrderWritten
<1>11. \A v \in ResvIds :
           /\ v \in Touched(a) => t.resv[v] = After[StockAct(a)]
           /\ \A y \in MoveType :
                  <<v, y>> \in t.rows <=> v \in Touched(a) /\ y = RowType[StockAct(a)]
  BY <1>1, <1>6 DEF StockWritten
<1> QED BY <1>1, <1>6, <1>9, <1>10, <1>11

\* What the tables are after it.
LEMMA CommitTables ==
    ASSUME Inv, NEW r \in Requests, Commit(r),
           NEW a, a = arg[r]
    PROVE  /\ TablesFit' /\ Asked(a) /\ Touched(a) \subseteq ResvIds
           /\ DOMAIN resv' = DOMAIN resv \cup Touched(a)
           /\ \A v \in Touched(a) : resv'[v] = After[StockAct(a)]
           /\ \A v \in DOMAIN resv \ Touched(a) : resv'[v] = resv[v]
           /\ \A v \in ResvIds, y \in MoveType :
                  moves'[v][y] = moves[v][y] +
                      IF v \in Touched(a) /\ y = RowType[StockAct(a)] THEN 1 ELSE 0
           /\ DOMAIN order' = DOMAIN order \cup (IF a.op = "release" THEN {} ELSE {a.order})
           /\ \A o \in Orders, s \in OrderStatus :
                  EverHad(o, s)' <=>
                      EverHad(o, s) \/ (a.op # "release" /\ o = a.order /\ s = Target(a))
<1> DEFINE t == tx[r]
<1>1. pc[r] = "commit" /\ RequestFits(r) /\ Asked(a)
  BY Known DEF Commit
<1>2. TxFits("commit", a, at[r], t)
  BY <1>1 DEF RequestFits
<1>3. /\ TxTyped(t) /\ at[r] = Len(Plan(a)) + 1
      /\ \A v \in ResvIds :
             /\ v \in DOMAIN t.resv <=> v \in Touched(a)
             /\ v \in Touched(a) => t.resv[v] = After[StockAct(a)]
             /\ \A y \in MoveType :
                    <<v, y>> \in t.rows <=> v \in Touched(a) /\ y = RowType[StockAct(a)]
      /\ a.op # "release" =>
             /\ DOMAIN t.order = {a.order} /\ t.order[a.order] = Target(a)
             /\ Len(t.trail) > 0
             /\ \A k \in 1..Len(t.trail) : t.trail[k].status = Target(a)
      /\ a.op = "release" => DOMAIN t.order = {}
  BY <1>1, <1>2, Whole
<1>4. Touched(a) \subseteq ResvIds /\ (a.op # "release" => a.order \in Orders)
  BY <1>1, TouchedFits
<1>5. /\ stock' = Over(stock, t.stock) /\ resv' = Over(resv, t.resv)
      /\ order' = Over(order, t.order)
      /\ moves' = [v \in ResvIds |->
                      [y \in MoveType |-> moves[v][y] + IF <<v, y>> \in t.rows THEN 1 ELSE 0]]
      /\ history' = [o \in Orders |->
                        IF o \in DOMAIN t.order THEN history[o] \o t.trail ELSE history[o]]
  BY DEF Commit
<1>6. TxOK(t) /\ \A i \in DOMAIN t.stock : ChecksHold(t.stock[i])
  BY <1>3 DEF TxTyped
<1>7. TablesFit
  BY DEF Inv
<1> HIDE DEF t
<1>8. DOMAIN t.resv = Touched(a)
  BY <1>3, <1>4, <1>6 DEF TxOK
<1>9. DOMAIN resv' = DOMAIN resv \cup Touched(a)
  BY <1>5, <1>8 DEF Over
<1>10. \A v \in Touched(a) : resv'[v] = After[StockAct(a)]
  BY <1>3, <1>4, <1>5, <1>8 DEF Over
<1>11. \A v \in DOMAIN resv \ Touched(a) : resv'[v] = resv[v]
  BY <1>5, <1>8 DEF Over
<1>12. \A v \in ResvIds, y \in MoveType :
           moves'[v][y] = moves[v][y] +
               IF v \in Touched(a) /\ y = RowType[StockAct(a)] THEN 1 ELSE 0
  BY <1>3, <1>5
<1>13. DOMAIN order' = DOMAIN order \cup (IF a.op = "release" THEN {} ELSE {a.order})
  BY <1>3, <1>5 DEF Over
<1> DEFINE Rec == [status : OrderStatus, previous : OrderStatus \cup {None}]
<1>14. /\ \A o \in Orders : history[o] \in Seq(Rec)
       /\ t.trail \in Seq(Rec)
  BY <1>6, <1>7 DEF TablesFit, TxOK, TrailType
<1> HIDE DEF Rec
<1>15. ASSUME NEW o \in Orders, NEW s \in OrderStatus
       PROVE  EverHad(o, s)' <=>
                  EverHad(o, s) \/ (a.op # "release" /\ o = a.order /\ s = Target(a))
  <2>1. CASE o \in DOMAIN t.order
    <3>1. a.op # "release" /\ o = a.order
      BY <1>3, <2>1
    <3>2. history'[o] = history[o] \o t.trail
      BY <1>5, <2>1
    <3>3. /\ Len(history'[o]) = Len(history[o]) + Len(t.trail)
          /\ \A k \in 1..Len(history[o]) : history'[o][k] = history[o][k]
          /\ \A k \in 1..Len(t.trail) : history'[o][Len(history[o]) + k] = t.trail[k]
          /\ Len(history[o]) \in Nat /\ Len(t.trail) \in Nat
      <4> DEFINE before == history[o]
                 added == t.trail
                 after == history'[o]
      <4>1. before \in Seq(Rec) /\ added \in Seq(Rec) /\ after = before \o added
        BY <1>14, <3>2
      <4> HIDE DEF before, added, after
      <4>2. /\ Len(before) \in Nat /\ Len(added) \in Nat
            /\ Len(after) = Len(before) + Len(added)
            /\ \A k \in 1..Len(before) : after[k] = before[k]
            /\ \A k \in 1..Len(added) : after[Len(before) + k] = added[k]
        BY <4>1
      <4> QED BY <4>2 DEF before, added, after
    <3> DEFINE m == Len(history[o])
               n == Len(t.trail)
               p == Len(history'[o])
    <3>7. m \in Nat /\ n \in Nat /\ p = m + n /\ n > 0
      BY <1>3, <3>1, <3>3
    <3>8. /\ \A k \in 1..m : history'[o][k] = history[o][k]
          /\ \A k \in 1..n : history'[o][m + k].status = Target(a)
      BY <1>3, <3>1, <3>3
    <3>9. /\ EverHad(o, s) <=> \E k \in 1..m : history[o][k].status = s
          /\ EverHad(o, s)' <=> \E k \in 1..p : history'[o][k].status = s
      BY DEF EverHad
    <3> HIDE DEF m, n, p
    <3>4. EverHad(o, s) => EverHad(o, s)'
      <4>1. 1..m \subseteq 1..p
        BY <3>7
      <4> QED BY <3>8, <3>9, <4>1
    <3>5. s = Target(a) => EverHad(o, s)'
      <4>1. m + 1 \in 1..p /\ 1 \in 1..n
        BY <3>7
      <4> QED BY <3>8, <3>9, <4>1
    <3>6. EverHad(o, s)' => EverHad(o, s) \/ s = Target(a)
      <4> SUFFICES ASSUME NEW k \in 1..p, history'[o][k].status = s
                   PROVE  EverHad(o, s) \/ s = Target(a)
        BY <3>9
      <4>1. CASE k \in 1..m
        BY <3>8, <3>9, <4>1
      <4>2. CASE k \notin 1..m
        <5>1. k - m \in 1..n /\ k = m + (k - m)
          BY <3>7, <4>2
        <5>2. PICK j \in 1..n : k = m + j
          BY <5>1
        <5> QED BY <3>8, <5>2
      <4> QED BY <4>1, <4>2
    <3> QED BY <3>1, <3>4, <3>5, <3>6
  <2>2. CASE o \notin DOMAIN t.order
    BY <1>3, <1>5, <2>2 DEF EverHad
  <2> QED BY <2>1, <2>2
<1>16. TablesFit'
  <2>1. stock' \in [Items -> StockRow] /\ \A i \in Items : ChecksHold(stock'[i])
    BY <1>5, <1>6, <1>7 DEF Over, TxOK, TablesFit
  <2>2. DOMAIN resv' \subseteq ResvIds /\ resv' \in [DOMAIN resv' -> ReservationStatus]
    BY <1>5, <1>6, <1>7 DEF Over, TxOK, TablesFit
  <2>3. moves' \in [ResvIds -> [MoveType -> Nat]]
    BY <1>5, <1>7 DEF TablesFit
  <2>4. DOMAIN order' \subseteq Orders /\ order' \in [DOMAIN order' -> OrderStatus]
    BY <1>5, <1>6, <1>7 DEF Over, TxOK, TablesFit
  <2>5. history' \in [Orders -> Seq(Rec)]
    BY <1>5, <1>14
  <2>6. \A o \in Orders \ DOMAIN order' : history'[o] = <<>>
    BY <1>3, <1>5, <1>7, <1>13 DEF TablesFit
  <2> QED BY <2>1, <2>2, <2>3, <2>4, <2>5, <2>6 DEF TablesFit, TrailType, Rec
<1> QED BY <1>1, <1>4, <1>9, <1>10, <1>11, <1>12, <1>13, <1>15, <1>16

\* A completion past its first statement holds the order's row.
LEMMA CompletionHolds ==
    ASSUME Inv, NEW r \in Requests, NEW o \in Orders, Completes(arg[r], o),
           Looked(pc[r], at[r])
    PROVE  o \in HeldBy(tx[r])
<1>1. pc[r] \in Open /\ RequestFits(r)
  BY Known DEF Looked
<1>2. StepFits(pc[r], arg[r], at[r]) /\ OrderWritten(arg[r], at[r], tx[r])
  BY <1>1 DEF RequestFits, TxFits
<1>3. /\ arg[r].op = "change" /\ arg[r].order = o /\ Plan(arg[r])[1].act = "status"
      /\ Asked(arg[r])
  BY CompletionPlan
<1>4. Len(Plan(arg[r])) \in Nat
  BY <1>3, PlansFit DEF PlanFits
<1>5. 1 \in 1..(at[r] - 1)
  BY <1>2, <1>4 DEF Looked, StepFits
<1>6. Plan(arg[r])[1].act = OrderAct(arg[r])
  BY <1>3 DEF OrderAct
<1> QED BY <1>2, <1>3, <1>5, <1>6 DEF OrderWritten, HeldBy

LEMMA ArgFitsGrows ==
    ASSUME NEW p, NEW a, NEW O, NEW V, ArgFits(p, a, O, V),
           NEW O2, O \subseteq O2, NEW V2, V \subseteq V2,
           a.op = "create" /\ p \in Pending => a.order \notin O2 \ O
    PROVE  ArgFits(p, a, O2, V2)
<1>1. CASE \E o \in Orders : Creates(a, o) /\ (p \in Pending => o \notin O)
  BY <1>1 DEF ArgFits, Creates
<1> QED BY <1>1 DEF ArgFits

LEMMA CommitKeeps ==
    ASSUME Inv, NEW r \in Requests, Commit(r) PROVE Inv'
<1> DEFINE a == arg[r]
           gained == IF a.op = "release" THEN {} ELSE {a.order}
<1>1. /\ TablesFit' /\ Asked(a) /\ Touched(a) \subseteq ResvIds
      /\ DOMAIN resv' = DOMAIN resv \cup Touched(a)
      /\ \A v \in Touched(a) : resv'[v] = After[StockAct(a)]
      /\ \A v \in DOMAIN resv \ Touched(a) : resv'[v] = resv[v]
      /\ \A v \in ResvIds, y \in MoveType :
             moves'[v][y] = moves[v][y] +
                 IF v \in Touched(a) /\ y = RowType[StockAct(a)] THEN 1 ELSE 0
      /\ DOMAIN order' = DOMAIN order \cup gained
      /\ \A o \in Orders, s \in OrderStatus :
             EverHad(o, s)' <=>
                 EverHad(o, s) \/ (a.op # "release" /\ o = a.order /\ s = Target(a))
  BY CommitTables
<1>2. /\ pc[r] = "commit" /\ RequestFits(r) /\ PerRequest
      /\ DOMAIN order \in SUBSET Orders /\ DOMAIN resv \in SUBSET ResvIds
      /\ \A s \in Requests \ {r} : ~Clash(a, arg[s])
      /\ RowsFreeOf(r, HeldBy(tx[r]))
  BY Known DEF Commit
<1>3. TxFits("commit", a, at[r], tx[r]) /\ ArgFits("commit", a, DOMAIN order, DOMAIN resv)
  BY <1>2 DEF RequestFits
<1>4. /\ a.op \in {"create", "change", "cancel", "release"}
      /\ a.op = "create" => a.order \in Orders /\ a.order \notin DOMAIN order
      /\ a.op \in {"change", "cancel"} => a.order \in DOMAIN order /\ a.order \in Orders
      /\ a.op = "release" => a.v \in DOMAIN resv
  BY <1>2, <1>3, ArgRefers
<1>5. /\ a.op = "create" => Target(a) = "DRAFT"
      /\ a.op = "cancel" => Target(a) = "CANCELLED"
      /\ a.op = "change" => Target(a) \notin {"DRAFT", "CANCELLED"} /\ Target(a) = a.status
      /\ a.op = "change" /\ a.status = "COMPLETED" => Completes(a, a.order)
  BY <1>1, Targets
<1>6. Completes(a, a.order) => Looked(pc[r], at[r])
  <2>1. at[r] = Len(Plan(a)) + 1 /\ Len(Plan(a)) \in Nat
    BY <1>1, <1>3, Whole, PlansFit DEF PlanFits
  <2>2. Completes(a, a.order) => a.order \in Orders
    BY <1>4 DEF Completes, Changes
  <2>3. Completes(a, a.order) => Len(Plan(a)) > 1
    BY <2>2, CompletionPlan
  <2> QED BY <1>2, <2>1, <2>3 DEF Looked, Open
<1>7. \A v \in ResvIds : v[1] \in Orders
  BY LineRows
<1>8. \A v \in ResvIds : \A o \in Orders : v \in LinesOf(o) <=> v[1] = o
  BY LinesFit DEF LinesOf
<1>9. {"COMPLETED", "CANCELLED"} \subseteq OrderStatus
  BY DEF OrderStatus, Lifecycle!OrderStatus
<1>10. /\ pc' = [pc EXCEPT ![r] = "done"] /\ tx' = [tx EXCEPT ![r] = NoTx]
       /\ at' = [at EXCEPT ![r] = 1] /\ UNCHANGED <<arg, seen, tries>>
  BY DEF Commit, Goto
<1>11. /\ OnlyRequest(r) /\ pc'[r] = "done" /\ at'[r] = 1 /\ tx'[r] = NoTx
       /\ arg'[r] = a /\ seen'[r] = seen[r] /\ tries'[r] = tries[r]
  BY <1>2, <1>10 DEF OnlyRequest, PerRequest
<1> HIDE DEF a
<1>20. ShippedExactlyOnce'
  <2> SUFFICES ASSUME NEW v \in ResvIds
               PROVE  moves'[v]["CONSUMPTION"] = IF EverHad(v[1], "COMPLETED")' THEN 1 ELSE 0
    BY DEF ShippedExactlyOnce, EverHad
  <2>1. moves[v]["CONSUMPTION"] = IF EverHad(v[1], "COMPLETED") THEN 1 ELSE 0
    BY DEF Inv, ShippedExactlyOnce
  <2>2. moves'[v]["CONSUMPTION"] = moves[v]["CONSUMPTION"] +
            IF v \in Touched(a) /\ a.op = "change" THEN 1 ELSE 0
    BY <1>1, <1>4 DEF MoveType, RowType, StockAct
  <2>3. EverHad(v[1], "COMPLETED")' <=>
            EverHad(v[1], "COMPLETED") \/
                (a.op # "release" /\ v[1] = a.order /\ "COMPLETED" = Target(a))
    BY <1>1, <1>7, <1>9
  <2>4. CASE a.op = "change" /\ a.status = "COMPLETED" /\ v[1] = a.order
    <3>1. v \in Touched(a)
      BY <1>4, <1>8, <2>4 DEF Touched
    <3>2. ~EverHad(v[1], "COMPLETED")
      BY <1>4, <1>5, <1>6, <2>4 DEF Inv, CompletesAlone, a
    <3> QED BY <1>5, <2>1, <2>2, <2>3, <2>4, <3>1, <3>2
  <2>5. CASE ~(a.op = "change" /\ a.status = "COMPLETED" /\ v[1] = a.order)
    <3>1. ~(v \in Touched(a) /\ a.op = "change")
      BY <1>4, <1>8, <2>5 DEF Touched
    <3>2. ~(a.op # "release" /\ v[1] = a.order /\ "COMPLETED" = Target(a))
      BY <1>4, <1>5, <2>5
    <3> QED BY <2>1, <2>2, <2>3, <3>1, <3>2
  <2> QED BY <2>4, <2>5
<1>21. OrdersHoldTheirStock'
  <2>1. /\ \A v \in ResvIds : moves[v]["RESERVATION"] = IF v[1] \in DOMAIN order THEN 1 ELSE 0
        /\ DOMAIN resv = {v \in ResvIds : v[1] \in DOMAIN order}
        /\ \A v \in DOMAIN resv :
               EverHad(v[1], "COMPLETED") \/ EverHad(v[1], "CANCELLED") => resv[v] # "ACTIVE"
    BY DEF Inv, OrdersHoldTheirStock
  <2>2. \A v \in ResvIds : a.op = "create" => (v \in Touched(a) <=> v[1] = a.order)
    BY <1>4, <1>8 DEF Touched
  <2>3. a.op # "create" => Touched(a) \subseteq DOMAIN resv /\ DOMAIN order' = DOMAIN order
    <3>1. a.op = "release" => Touched(a) \subseteq DOMAIN resv
      BY <1>4 DEF Touched
    <3>2. a.op \in {"change", "cancel"} => Touched(a) \subseteq LinesOf(a.order)
      BY DEF Touched
    <3>3. ASSUME a.op \in {"change", "cancel"}, NEW v \in Touched(a) PROVE v \in DOMAIN resv
      <4>1. v \in ResvIds /\ v[1] = a.order /\ a.order \in DOMAIN order
        BY <1>1, <1>4, <1>8, <3>2, <3>3
      <4> QED BY <2>1, <4>1
    <3>4. a.op # "create" => DOMAIN order' = DOMAIN order
      BY <1>1, <1>4
    <3> QED BY <1>4, <3>1, <3>3, <3>4
  <2>4. ASSUME NEW v \in ResvIds
        PROVE  moves'[v]["RESERVATION"] = IF v[1] \in DOMAIN order' THEN 1 ELSE 0
    <3>1. moves'[v]["RESERVATION"] = moves[v]["RESERVATION"] +
              IF v \in Touched(a) /\ a.op = "create" THEN 1 ELSE 0
      BY <1>1, <1>4 DEF MoveType, RowType, StockAct
    <3>2. moves[v]["RESERVATION"] = IF v[1] \in DOMAIN order THEN 1 ELSE 0
      BY <2>1
    <3>3. CASE a.op = "create"
      BY <1>1, <1>4, <2>2, <3>1, <3>2, <3>3
    <3>4. CASE a.op # "create"
      BY <2>3, <3>1, <3>2, <3>4
    <3> QED BY <3>3, <3>4
  <2>5. DOMAIN resv' = {v \in ResvIds : v[1] \in DOMAIN order'}
    <3>1. CASE a.op = "create"
      BY <1>1, <2>1, <2>2, <3>1
    <3>2. CASE a.op # "create"
      BY <1>1, <2>1, <2>3, <3>2
    <3> QED BY <3>1, <3>2
  <2>6. ASSUME NEW v \in DOMAIN resv', NEW s \in {"COMPLETED", "CANCELLED"}, EverHad(v[1], s)'
        PROVE  resv'[v] # "ACTIVE"
    <3>1. v \in ResvIds /\ v[1] \in Orders /\ s \in OrderStatus
      BY <1>1, <1>2, <1>7, <1>9
    <3>2. EverHad(v[1], s) \/ (a.op # "release" /\ v[1] = a.order /\ s = Target(a))
      BY <1>1, <2>6, <3>1
    <3>3. CASE v \in Touched(a)
      <4>1. a.op # "create"
        <5>1. SUFFICES ASSUME a.op = "create" PROVE FALSE
          OBVIOUS
        <5>2. v[1] = a.order /\ a.order \notin DOMAIN order
          BY <1>4, <2>2, <3>1, <3>3, <5>1
        <5>3. history[v[1]] = <<>>
          BY <3>1, <5>2 DEF Inv, TablesFit
        <5>4. ~EverHad(v[1], s)
          BY <5>3 DEF EverHad
        <5> QED BY <1>5, <3>2, <5>1, <5>4
      <4>2. resv'[v] = After[StockAct(a)] /\ StockAct(a) \in {"consume", "release"}
        BY <1>1, <1>4, <3>3, <4>1 DEF StockAct
      <4> QED BY <4>2 DEF After
    <3>4. CASE v \notin Touched(a)
      <4>1. v \in DOMAIN resv /\ resv'[v] = resv[v]
        BY <1>1, <3>4
      <4>2. ~(a.op # "release" /\ v[1] = a.order /\ s = Target(a))
        BY <1>4, <1>5, <1>8, <3>1, <3>4 DEF Touched
      <4> QED BY <2>1, <3>2, <4>1, <4>2
    <3> QED BY <3>3, <3>4
  <2> QED BY <2>4, <2>5, <2>6 DEF OrdersHoldTheirStock, EverHad
<1>22. RequestsFit'
  <2> SUFFICES ASSUME NEW s \in Requests PROVE RequestFits(s)'
    BY DEF RequestsFit
  <2>1. DOMAIN order \subseteq DOMAIN order' /\ DOMAIN resv \subseteq DOMAIN resv'
    BY <1>1
  <2>2. CASE s = r
    <3>1. ArgFits("done", a, DOMAIN order, DOMAIN resv) /\ TxFits("done", a, 1, NoTx)
      BY <1>2, <1>3, RollbackFits
    <3>2. ArgFits("done", a, DOMAIN order', DOMAIN resv')
      BY <2>1, <3>1, ArgFitsGrows
    <3> QED BY <1>2, <1>11, <2>2, <3>1, <3>2 DEF RequestFits
  <2>3. CASE s # r
    <3>1. RequestFits(s)
      BY Known
    <3>2. ~Clash(a, arg[s])
      BY <1>2, <2>3
    <3>3. arg[s].op = "create" => arg[s].order \notin DOMAIN order' \ DOMAIN order
      BY <1>1, <1>4, <3>2 DEF Clash
    <3>4. ArgFits(pc[s], arg[s], DOMAIN order', DOMAIN resv')
      BY <2>1, <3>1, <3>3, ArgFitsGrows DEF RequestFits
    <3> QED BY <1>11, <2>3, <3>1, <3>4 DEF RequestFits, OnlyRequest
  <2> QED BY <2>2, <2>3
<1>23. RequestsApart'
  <2>1. \A s, t \in Requests : s # t => Apart(arg[s], arg[t], tx[s], tx[t])
    BY DEF Inv, RequestsApart
  <2>2. HeldBy(NoTx) = {}
    BY NoTxFits
  <2>3. \A s, t \in Requests : s # t => Apart(arg'[s], arg'[t], tx'[s], tx'[t])
    BY <1>11, <2>1, <2>2 DEF OnlyRequest, Apart, Clash, a
  <2> QED BY <2>3 DEF RequestsApart
<1>24. CompletesAlone'
  <2> SUFFICES ASSUME NEW s \in Requests, NEW o \in Orders,
                      Completes(arg'[s], o), Looked(pc'[s], at'[s])
               PROVE  ~EverHad(o, "COMPLETED")'
    BY DEF CompletesAlone
  <2>1. s # r
    BY <1>11 DEF Looked, Open
  <2>2. Completes(arg[s], o) /\ Looked(pc[s], at[s])
    BY <1>11, <2>1 DEF OnlyRequest
  <2>3. ~EverHad(o, "COMPLETED")
    BY <2>2 DEF Inv, CompletesAlone
  <2>4. ~(a.op # "release" /\ o = a.order /\ "COMPLETED" = Target(a))
    <3>1. SUFFICES ASSUME a.op # "release", o = a.order, "COMPLETED" = Target(a) PROVE FALSE
      OBVIOUS
    <3>2. Completes(a, o)
      BY <1>4, <1>5, <3>1
    <3>3. o \in HeldBy(tx[r]) /\ o \in HeldBy(tx[s])
      BY <1>6, <2>2, <3>1, <3>2, CompletionHolds DEF a
    <3> QED BY <1>2, <2>1, <3>3 DEF RowsFreeOf
  <2> QED BY <1>1, <1>9, <2>3, <2>4
<1> QED BY <1>1, <1>11, <1>20, <1>21, <1>22, <1>23, <1>24 DEF Inv, OnlyRequest

-----------------------------------------------------------------------------
(* The invariant holds at the start and along every step.                  *)

\* An order that exists at the start was moved forward, and no further than
\* where it can still be cancelled.
LEMMA EarlierTrail ==
    ASSUME NEW s \in Cancellable
    PROVE  /\ Lifecycle!TrailTo(s) \in TrailType
           /\ \A k \in 1..Len(Lifecycle!TrailTo(s)) :
                  Lifecycle!TrailTo(s)[k].status \notin {"COMPLETED", "CANCELLED"}
<1> DEFINE path == Lifecycle!ForwardPath
           rank == CHOOSE n \in 1..Len(path) : path[n] = s
           trail == [k \in 1..rank |->
                        [status |-> path[k],
                         previous |-> IF k = 1 THEN "none" ELSE path[k - 1]]]
<1>1. /\ Len(path) = 5 /\ path[1] = "DRAFT" /\ path[2] = "PENDING"
      /\ path[3] = "CONFIRMED" /\ path[4] = "PROCESSING" /\ path[5] = "COMPLETED"
  BY DEF Lifecycle!ForwardPath
<1>2. s \in {"DRAFT", "PENDING", "CONFIRMED", "PROCESSING"}
  BY DEF Cancellable, Lifecycle!Cancellable
<1> HIDE DEF path
<1>3. \E n \in 1..Len(path) : path[n] = s
  BY <1>1, <1>2
<1>4. rank \in 1..Len(path) /\ path[rank] = s
  BY <1>3
<1> HIDE DEF rank
<1>5. rank \in 1..4
  BY <1>1, <1>2, <1>4
<1>6. \A k \in 1..4 : path[k] \in {"DRAFT", "PENDING", "CONFIRMED", "PROCESSING"}
  BY <1>1
<1> DEFINE Rec == [status : OrderStatus, previous : OrderStatus \cup {None}]
<1>7. {"DRAFT", "PENDING", "CONFIRMED", "PROCESSING"} \subseteq OrderStatus
  BY DEF OrderStatus, Lifecycle!OrderStatus
<1>8. ASSUME NEW k \in 1..rank
      PROVE  /\ path[k] \in {"DRAFT", "PENDING", "CONFIRMED", "PROCESSING"}
             /\ [status |-> path[k],
                 previous |-> IF k = 1 THEN "none" ELSE path[k - 1]] \in Rec
  <2>1. k \in 1..4 /\ (k # 1 => k - 1 \in 1..4)
    BY <1>5
  <2>2. path[k] \in OrderStatus /\ (k # 1 => path[k - 1] \in OrderStatus)
    BY <1>6, <1>7, <2>1
  <2> QED BY <1>6, <2>1, <2>2
<1> HIDE DEF Rec
<1>9. trail \in Seq(Rec) /\ Len(trail) = rank
  BY <1>5, <1>8
<1>10. \A k \in 1..rank : trail[k].status \notin {"COMPLETED", "CANCELLED"}
  BY <1>8
<1>11. Lifecycle!TrailTo(s) = trail
  BY DEF Lifecycle!TrailTo, path, rank
<1> QED BY <1>9, <1>10, <1>11 DEF TrailType, Rec

LEMMA InitFits == Init => Inv
<1> SUFFICES ASSUME Init PROVE Inv
  OBVIOUS
<1>1. /\ order = InitialStatus /\ DOMAIN order \subseteq Orders
      /\ order \in [DOMAIN order -> Cancellable] /\ Cancellable \subseteq OrderStatus
  BY OrdersAssumption DEF Init, Cancellable, OrderStatus, Lifecycle!Cancellable,
                          Lifecycle!OrderStatus
<1>2. /\ DOMAIN resv = InitialResv /\ \A v \in InitialResv : resv[v] = "ACTIVE"
      /\ resv \in [InitialResv -> ReservationStatus]
      /\ InitialResv = {v \in ResvIds : v[1] \in DOMAIN order}
  BY <1>1 DEF Init, InitialResv, ReservationStatus
<1>3. /\ moves \in [ResvIds -> [MoveType -> Nat]]
      /\ \A v \in ResvIds :
             /\ moves[v]["RESERVATION"] = IF v \in InitialResv THEN 1 ELSE 0
             /\ moves[v]["CONSUMPTION"] = 0
  BY DEF Init, MoveType
<1>4. stock \in [Items -> StockRow] /\ \A i \in Items : ChecksHold(stock[i])
  <2> SUFFICES ASSUME NEW i \in Items
               PROVE  /\ [onHand |-> InitialStock[i], reserved |-> InitialReserved(i)] \in StockRow
                      /\ ChecksHold([onHand |-> InitialStock[i], reserved |-> InitialReserved(i)])
    BY DEF Init
  <2>1. InitialStock[i] \in Nat /\ InitialReserved(i) \in 0..InitialStock[i]
    BY OrdersAssumption
  <2> QED BY <2>1 DEF StockRow, ChecksHold
<1>5. ASSUME NEW o \in Orders
      PROVE  /\ history[o] \in TrailType
             /\ o \notin DOMAIN order => history[o] = <<>>
             /\ ~EverHad(o, "COMPLETED") /\ ~EverHad(o, "CANCELLED")
  <2>1. CASE o \in DOMAIN order
    <3>1. history[o] = Lifecycle!TrailTo(order[o]) /\ order[o] \in Cancellable
      BY <1>1, <2>1 DEF Init
    <3> QED BY <2>1, <3>1, EarlierTrail DEF EverHad
  <2>2. CASE o \notin DOMAIN order
    <3>1. history[o] = <<>>
      BY <1>1, <2>2 DEF Init
    <3> QED BY <3>1 DEF EverHad, TrailType
  <2> QED BY <2>1, <2>2
<1>6. history \in [Orders -> TrailType]
  BY <1>5 DEF Init
<1>7. TablesFit
  BY <1>1, <1>2, <1>3, <1>4, <1>5, <1>6 DEF TablesFit
<1>8. /\ PerRequest
      /\ \A r \in Requests : /\ pc[r] = "idle" /\ arg[r] = [op |-> "none"] /\ seen[r] = None
                             /\ at[r] = 1 /\ tries[r] = 1 /\ tx[r] = NoTx
  BY DEF Init, PerRequest
<1>9. RequestsFit
  <2> SUFFICES ASSUME NEW r \in Requests PROVE RequestFits(r)
    BY DEF RequestsFit
  <2>1. TxFits("idle", arg[r], 1, NoTx)
    BY ClosedFits DEF Open
  <2>2. 1 \in 1..MaxAttempts
    BY OrdersAssumption
  <2> QED BY <1>8, <2>1, <2>2 DEF RequestFits, ArgFits
<1>10. RequestsApart
  BY <1>8, NoTxFits DEF RequestsApart, Apart, Clash
<1>11. CompletesAlone
  BY <1>8 DEF CompletesAlone, Looked, Open
<1>12. ShippedExactlyOnce /\ OrdersHoldTheirStock
  BY <1>2, <1>3, <1>5, LineRows DEF ShippedExactlyOnce, OrdersHoldTheirStock
<1> QED BY <1>7, <1>8, <1>9, <1>10, <1>11, <1>12 DEF Inv

LEMMA FailuresKeep ==
    ASSUME Inv, NEW r \in Requests,
           Deadlock(r) \/ TransientError(r) \/ TimeOut(r) \/ Crash(r)
    PROVE  Inv'
<1>1. Deadlock(r) \/ TimeOut(r) => pc[r] \in Pending
  BY DEF Deadlock, WaitsFor, TimeOut, Waiting, Blocked, NeedsSecondConnection, Wants
<1>2. pc[r] \in Pending
  BY <1>1 DEF TransientError, Crash
<1>3. CASE Retry(r)
  <2>1. tries[r] \in 1..MaxAttempts
    BY Known DEF RequestFits
  <2> QED BY <1>2, <1>3, RollbackKeeps DEF Retry
<1>4. CASE Rollback(r, "failed") /\ UNCHANGED tries
  BY <1>2, <1>4, RollbackKeeps
<1> QED BY <1>3, <1>4 DEF Deadlock, TransientError, TimeOut, Crash

LEMMA ArrivalsKeep ==
    ASSUME Inv, NEW r \in Requests,
           \/ \E o \in Orders : Create(r, o) \/ Cancel(r, o)
           \/ \E o \in Orders, s \in OrderStatus \ {"DRAFT", "CANCELLED"} : ChangeStatus(r, o, s)
           \/ \E v \in ResvIds : Release(r, v)
    PROVE  Inv'
<1>1. ASSUME NEW o \in Orders, Create(r, o) PROVE Inv'
  <2> DEFINE a == [op |-> "create", order |-> o]
  <2>1. ArgFits("begin", a, DOMAIN order, DOMAIN resv) /\ a.op = "create" /\ a.order = o
    BY <1>1 DEF Create, ArgFits, Creates
  <2>2. Arrive(r, a, None, "begin") /\ \A p \in Requests : arg[p].op = "create" => arg[p].order # o
    BY <1>1 DEF Create
  <2> HIDE DEF a
  <2> QED BY <2>1, <2>2, ArriveKeeps DEF Clash
<1>2. ASSUME NEW o \in Orders, Cancel(r, o) PROVE Inv'
  <2> DEFINE a == [op |-> "cancel", order |-> o, status |-> "CANCELLED"]
             q == IF order[o] \in Cancellable THEN "begin" ELSE "rejected"
  <2>1. o \in DOMAIN order /\ Arrive(r, a, order[o], q) /\ a.op = "cancel"
    BY <1>2 DEF Cancel
  <2>2. ArgFits(q, a, DOMAIN order, DOMAIN resv)
    BY <2>1 DEF ArgFits, Cancels
  <2>3. order[o] \in OrderStatus \cup {None} /\ q \in {"begin", "rejected"}
    BY <2>1 DEF Inv, TablesFit
  <2> HIDE DEF a, q
  <2> QED BY <2>1, <2>2, <2>3, ArriveKeeps DEF Clash
<1>3. ASSUME NEW o \in Orders, NEW s \in OrderStatus \ {"DRAFT", "CANCELLED"},
             ChangeStatus(r, o, s)
      PROVE  Inv'
  <2> DEFINE a == [op |-> "change", order |-> o, status |-> s]
             q == IF order[o] \in DOMAIN Forward /\ Forward[order[o]] = s
                  THEN "begin" ELSE "rejected"
  <2>1. o \in DOMAIN order /\ Arrive(r, a, order[o], q) /\ a.op = "change"
    BY <1>3 DEF ChangeStatus
  <2>2. ArgFits(q, a, DOMAIN order, DOMAIN resv)
    BY <2>1 DEF ArgFits, Changes
  <2>3. order[o] \in OrderStatus \cup {None} /\ q \in {"begin", "rejected"}
    BY <2>1 DEF Inv, TablesFit
  <2> HIDE DEF a, q
  <2> QED BY <2>1, <2>2, <2>3, ArriveKeeps DEF Clash
<1>4. ASSUME NEW v \in ResvIds, Release(r, v) PROVE Inv'
  <2> DEFINE a == [op |-> "release", v |-> v]
  <2>1. v \in DOMAIN resv /\ Arrive(r, a, None, "begin") /\ a.op = "release"
    BY <1>4 DEF Release
  <2>2. ArgFits("begin", a, DOMAIN order, DOMAIN resv)
    BY <2>1 DEF ArgFits, Releases
  <2> HIDE DEF a
  <2> QED BY <2>1, <2>2, ArriveKeeps DEF Clash
<1> QED BY <1>1, <1>2, <1>3, <1>4

LEMMA NextKeeps == Inv /\ [Next]_vars => Inv'
<1> SUFFICES ASSUME Inv, [Next]_vars PROVE Inv'
  OBVIOUS
<1>1. CASE UNCHANGED vars
  <2>1. UNCHANGED tables /\ UNCHANGED <<pc, arg, seen, at, tries, tx>>
    BY <1>1 DEF vars, tables
  <2>2. TablesFit' /\ ShippedExactlyOnce' /\ OrdersHoldTheirStock'
    BY <2>1 DEF tables, TablesFit, ShippedExactlyOnce, OrdersHoldTheirStock, EverHad, Inv
  <2>3. PerRequest' /\ RequestsFit' /\ RequestsApart'
    BY <2>1 DEF tables, PerRequest, RequestsFit, RequestFits, RequestsApart, Inv
  <2>4. CompletesAlone'
    BY <2>1 DEF tables, CompletesAlone, EverHad, Inv
  <2> QED BY <2>2, <2>3, <2>4 DEF Inv
<1>2. ASSUME NEW r \in Requests, Handle(r) PROVE Inv'
  BY <1>2, BeginKeeps, CheckAvailabilityKeeps, FindActiveKeeps, WriteStockKeeps,
     WriteStatusKeeps, InsertOrderKeeps, CommitKeeps DEF Handle
<1>3. CASE AllAnswered
  BY <1>1, <1>3 DEF AllAnswered
<1> QED BY <1>1, <1>2, <1>3, ArrivalsKeep, FailuresKeep DEF Next

\* The inductive invariant: the types of everything, what a transaction has written
\* after each step of its plan, rows that are held apart, and completions that are
\* alone with what they complete (order.service.ts, inventory.repository.ts).
THEOREM InvHolds == Spec => []Inv
<1> QED BY InitFits, NextKeeps, PTL DEF Spec

-----------------------------------------------------------------------------
(* The theorems.                                                           *)

\* The tables keep their types and their CHECKs, no request is anywhere its
\* handler does not put it, a request without an open transaction has written
\* nothing, and no row is locked by two transactions (order.service.ts,
\* inventory.repository.ts).
THEOREM TypeCorrect == Spec => []TypeOK
<1>1. ASSUME Inv PROVE TypeOK
  <2>1. TablesFit /\ PerRequest /\ RequestsFit /\ RequestsApart
    BY <1>1 DEF Inv
  <2>2. /\ pc \in [Requests -> {"idle"} \cup Pending \cup Finished]
        /\ seen \in [Requests -> OrderStatus \cup {None}]
        /\ tries \in [Requests -> 1..MaxAttempts]
    BY <2>1 DEF PerRequest, RequestsFit, RequestFits
  <2>3. \A r \in Requests : TxOK(tx[r]) /\ (tx[r] # NoTx => pc[r] \in Pending)
    BY <2>1 DEF RequestsFit, RequestFits, TxFits, TxTyped, Open
  <2>4. \A r, s \in Requests : r # s => Holds(r) \cap Holds(s) = {}
    BY <2>1 DEF RequestsApart, Apart, HeldBy, Holds
  <2> QED BY <2>1, <2>2, <2>3, <2>4 DEF TypeOK, TablesFit
<1> QED BY <1>1, InvHolds, PTL

\* However many requests complete, cancel or release an order at the same time,
\* each of its reservations is consumed once if the order was ever completed
\* and never otherwise (order.service.ts, changeStatus).
THEOREM ShippedOnce == Spec => []ShippedExactlyOnce
<1>1. Inv => ShippedExactlyOnce
  BY DEF Inv
<1> QED BY <1>1, InvHolds, PTL

\* An order and its reservations are committed together, and an order that was
\* ever completed or cancelled holds no stock (order.service.ts).
THEOREM StockHeld == Spec => []OrdersHoldTheirStock
<1>1. Inv => OrdersHoldTheirStock
  BY DEF Inv
<1> QED BY <1>1, InvHolds, PTL

-----------------------------------------------------------------------------
(* The counters and what they add up to.                                   *)

OnItem(i) == {v \in ResvIds : ItemOf(v) = i}
Ledger    == [ResvIds -> [MoveType -> Nat]]

\* What rows m, counted per reservation, take from the stock of an item, and
\* what they leave reserved.
Consumptions(m, i) == [v \in OnItem(i) |-> QtyOf(v) * m[v]["CONSUMPTION"]]
Holdings(m, i) ==
    [v \in OnItem(i) |->
        QtyOf(v) * (m[v]["RESERVATION"] - m[v]["RELEASE"] - m[v]["CONSUMPTION"])]

Explained(row, m, i) ==
    /\ row.onHand = InitialStock[i] - SumOf(Consumptions(m, i))
    /\ row.reserved = SumOf(Holdings(m, i))

\* The ledger m with the rows of a transaction.
Counting(m, rows) ==
    [v \in ResvIds |-> [y \in MoveType |-> m[v][y] + IF <<v, y>> \in rows THEN 1 ELSE 0]]

\* The counters a transaction has written are what the ledger will add up to if
\* it commits, and it has written those of every item its rows are about.
TxExplained(t, m) ==
    /\ \A i \in DOMAIN t.stock : Explained(t.stock[i], Counting(m, t.rows), i)
    /\ \A v \in ResvIds, y \in MoveType : <<v, y>> \in t.rows => ItemOf(v) \in DOMAIN t.stock

CountersFit ==
    /\ \A i \in Items : Explained(stock[i], moves, i)
    /\ \A r \in Requests : TxExplained(tx[r], moves)

LEMMA OnItemFinite ==
    ASSUME IsFiniteSet(Orders), NEW i
    PROVE  IsFiniteSet(OnItem(i)) /\ OnItem(i) \subseteq ResvIds
<1> DEFINE f == [o \in Orders |-> {o} \X LineIds(o)]
           S == {{o} \X LineIds(o) : o \in Orders}
<1>1. f \in Surjection(Orders, S)
  BY DEF Surjection
<1>2. IsFiniteSet(S)
  <2> HIDE DEF f, S
  <2> QED BY <1>1, FS_Surjection
<1>3. ASSUME NEW o \in Orders PROVE IsFiniteSet({o} \X LineIds(o))
  <2>1. LineIds(o) = 1..Len(Lines[o]) /\ Len(Lines[o]) \in Int
    BY LinesFit
  <2>2. IsFiniteSet({o})
    BY FS_Singleton
  <2>3. \A k \in Int : IsFiniteSet(1..k)
    BY FS_Interval
  <2> QED BY <2>1, <2>2, <2>3, FS_Product
<1>4. \A T \in S : IsFiniteSet(T)
  BY <1>3
<1> HIDE DEF S
<1>5. IsFiniteSet(UNION S)
  BY <1>2, <1>4, FS_UNION
<1>6. OnItem(i) \in SUBSET ResvIds /\ ResvIds = UNION S
  BY DEF OnItem, ResvIds, S
<1> QED BY <1>5, <1>6, FS_Subset

LEMMA TermsTyped ==
    ASSUME NEW m \in Ledger, NEW i
    PROVE  /\ Consumptions(m, i) \in [OnItem(i) -> Int]
           /\ Holdings(m, i) \in [OnItem(i) -> Int]
<1>1. \A v \in OnItem(i) :
          /\ QtyOf(v) \in Nat /\ m[v]["CONSUMPTION"] \in Nat
          /\ m[v]["RESERVATION"] \in Nat /\ m[v]["RELEASE"] \in Nat
  BY LineRows DEF OnItem, Ledger, MoveType
<1> QED BY <1>1 DEF Consumptions, Holdings

LEMMA CountingTyped ==
    ASSUME NEW m \in Ledger, NEW rows PROVE Counting(m, rows) \in Ledger
BY DEF Ledger, Counting

\* Rows about other items do not matter.
LEMMA SameRows ==
    ASSUME NEW m, NEW n, NEW i, \A v \in OnItem(i) : n[v] = m[v], NEW row
    PROVE  Explained(row, n, i) <=> Explained(row, m, i)
<1>1. Consumptions(n, i) = Consumptions(m, i) /\ Holdings(n, i) = Holdings(m, i)
  BY DEF Consumptions, Holdings
<1> QED BY <1>1 DEF Explained

\* One more row, with the increments written beside it.
LEMMA OneMoreRow ==
    ASSUME IsFiniteSet(Orders), NEW i \in Items, NEW m \in Ledger, NEW n \in Ledger,
           NEW w \in OnItem(i), \A v \in OnItem(i) \ {w} : n[v] = m[v],
           NEW act \in Settling,
           \A y \in MoveType : n[w][y] = m[w][y] + IF y = RowType[act] THEN 1 ELSE 0,
           NEW row, Explained(row, m, i)
    PROVE  Explained(Incremented(row, OnHandDelta(act, w), ReservedDelta(act, w)), n, i)
<1> DEFINE c == Consumptions(m, i)
           d == Consumptions(n, i)
           h == Holdings(m, i)
           k == Holdings(n, i)
           q == QtyOf(w)
<1>1. /\ IsFiniteSet(OnItem(i)) /\ w \in ResvIds /\ q \in Nat /\ InitialStock[i] \in Nat
      /\ c \in [OnItem(i) -> Int] /\ d \in [OnItem(i) -> Int]
      /\ h \in [OnItem(i) -> Int] /\ k \in [OnItem(i) -> Int]
  BY OnItemFinite, TermsTyped, LineRows, OrdersAssumption
<1>2. \A v \in OnItem(i) \ {w} : d[v] = c[v] /\ k[v] = h[v]
  BY DEF Consumptions, Holdings
<1>3. PICK x, y, z \in Nat : /\ x = m[w]["CONSUMPTION"] /\ y = m[w]["RESERVATION"]
                             /\ z = m[w]["RELEASE"]
  BY <1>1 DEF Ledger, MoveType
<1>4. c[w] = q * x /\ h[w] = q * (y - z - x)
  BY <1>3 DEF Consumptions, Holdings
<1>5. d[w] - c[w] = -OnHandDelta(act, w) /\ k[w] - h[w] = ReservedDelta(act, w)
  <2>1. \A p \in Nat, e \in Int : p * (e + 1) = p * e + p /\ p * (e - 1) = p * e - p
    OBVIOUS
  <2>2. d[w] = q * n[w]["CONSUMPTION"]
        /\ k[w] = q * (n[w]["RESERVATION"] - n[w]["RELEASE"] - n[w]["CONSUMPTION"])
    BY DEF Consumptions, Holdings
  <2>3. q * x \in Int /\ q * (y - z - x) \in Int
    BY <1>1
  <2>4. CASE act = "consume"
    <3>1. n[w]["CONSUMPTION"] = x + 1 /\ n[w]["RESERVATION"] = y /\ n[w]["RELEASE"] = z
      BY <1>3, <2>4 DEF MoveType, RowType
    <3>2. y - z - (x + 1) = (y - z - x) - 1 /\ y - z - x \in Int
      OBVIOUS
    <3>3. d[w] = q * x + q /\ k[w] = q * (y - z - x) - q
      BY <1>1, <2>1, <2>2, <3>1, <3>2
    <3>4. OnHandDelta(act, w) = -q /\ ReservedDelta(act, w) = -q
      BY <2>4 DEF OnHandDelta, ReservedDelta
    <3> HIDE DEF c, d, h, k, q
    <3> QED BY <1>1, <1>4, <2>3, <3>3, <3>4
  <2>5. CASE act = "release"
    <3>1. n[w]["CONSUMPTION"] = x /\ n[w]["RESERVATION"] = y /\ n[w]["RELEASE"] = z + 1
      BY <1>3, <2>5 DEF MoveType, RowType
    <3>2. y - (z + 1) - x = (y - z - x) - 1 /\ y - z - x \in Int
      OBVIOUS
    <3>3. d[w] = q * x /\ k[w] = q * (y - z - x) - q
      BY <1>1, <2>1, <2>2, <3>1, <3>2
    <3>4. OnHandDelta(act, w) = 0 /\ ReservedDelta(act, w) = -q
      BY <2>5 DEF OnHandDelta, ReservedDelta
    <3> HIDE DEF c, d, h, k, q
    <3> QED BY <1>1, <1>4, <2>3, <3>3, <3>4
  <2>6. CASE act = "reserve"
    <3>1. n[w]["CONSUMPTION"] = x /\ n[w]["RESERVATION"] = y + 1 /\ n[w]["RELEASE"] = z
      BY <1>3, <2>6 DEF MoveType, RowType
    <3>2. (y + 1) - z - x = (y - z - x) + 1 /\ y - z - x \in Int
      OBVIOUS
    <3>3. d[w] = q * x /\ k[w] = q * (y - z - x) + q
      BY <1>1, <2>1, <2>2, <3>1, <3>2
    <3>4. OnHandDelta(act, w) = 0 /\ ReservedDelta(act, w) = q
      BY <2>6 DEF OnHandDelta, ReservedDelta
    <3> HIDE DEF c, d, h, k, q
    <3> QED BY <1>1, <1>4, <2>3, <3>3, <3>4
  <2> QED BY <2>4, <2>5, <2>6 DEF Settling
<1> HIDE DEF c, d, h, k, q
<1>6. SumOf(d) = SumOf(c) + (d[w] - c[w]) /\ SumOf(k) = SumOf(h) + (k[w] - h[w])
  BY <1>1, <1>2, SumOfUpdated
<1>7. PICK sc, sh \in Int : sc = SumOf(c) /\ sh = SumOf(h)
  BY <1>1, SumOfType
<1>8. PICK u \in Int : u = OnHandDelta(act, w)
  BY <1>1 DEF OnHandDelta, q
<1>9. SumOf(d) = sc + (-u) /\ SumOf(k) = sh + ReservedDelta(act, w)
  BY <1>5, <1>6, <1>7, <1>8
<1>10. row.onHand = InitialStock[i] - sc /\ row.reserved = sh
  BY <1>7 DEF Explained, c, h
<1>11. row.onHand + u = InitialStock[i] - SumOf(d) /\ row.reserved + ReservedDelta(act, w) = SumOf(k)
  BY <1>1, <1>9, <1>10
<1> QED BY <1>8, <1>11 DEF Explained, Incremented, d, k

\* A plan is about a reservation once.
LEMMA PlanOnce ==
    ASSUME NEW a, Asked(a), NEW m \in 1..Len(Plan(a)), NEW n \in 1..Len(Plan(a)),
           Plan(a)[m].act = StockAct(a), Plan(a)[n].act = StockAct(a),
           Plan(a)[m].v = Plan(a)[n].v
    PROVE  m = n
<1>1. ASSUME NEW o \in Orders, Creates(a, o) PROVE m = n
  <2>1. /\ a.op = "create" /\ StockAct(a) = "reserve"
        /\ Plan(a) = EachLine("reserve", o) \o <<Step("insert", None)>>
    BY <1>1 DEF Creates, Plan, StockAct
  <2>2. /\ Len(Lines[o]) \in Nat /\ Len(Plan(a)) = Len(Lines[o]) + 1
        /\ \A k \in 1..Len(Lines[o]) : Plan(a)[k].v = <<o, k>>
        /\ Plan(a)[Len(Lines[o]) + 1].act = "insert"
    BY <2>1, LinesThenOrder, LinesFit
  <2>3. m \in 1..Len(Lines[o]) /\ n \in 1..Len(Lines[o])
    BY <2>1, <2>2
  <2>4. <<o, m>> = <<o, n>>
    BY <2>2, <2>3
  <2> QED BY <2>4
<1>2. ASSUME NEW o \in Orders, NEW s, Changes(a, o, s) PROVE m = n
  <2>1. a.op = "change" /\ a.order = o /\ a.status = s /\ StockAct(a) = "consume"
    BY <1>2 DEF Changes, StockAct
  <2>2. CASE s = "COMPLETED"
    <3>1. Plan(a) = <<Step("status", None)>> \o EachLine("consume", o)
      BY <2>1, <2>2 DEF Plan
    <3>2. /\ Len(Lines[o]) \in Nat /\ Len(Plan(a)) = Len(Lines[o]) + 1
          /\ Plan(a)[1].act = "status"
          /\ \A k \in 1..Len(Lines[o]) : Plan(a)[k + 1].v = <<o, k>>
      BY <3>1, OrderThenLines, LinesFit
    <3>3. m # 1 /\ n # 1
      BY <2>1, <3>2
    <3>4. PICK k, l \in 1..Len(Lines[o]) : m = k + 1 /\ n = l + 1
      <4>1. /\ m - 1 \in 1..Len(Lines[o]) /\ m = (m - 1) + 1
            /\ n - 1 \in 1..Len(Lines[o]) /\ n = (n - 1) + 1
        BY <3>2, <3>3
      <4> QED BY <4>1
    <3>5. <<o, k>> = <<o, l>>
      BY <3>2, <3>4
    <3> QED BY <3>4, <3>5
  <2>3. CASE s # "COMPLETED"
    <3>1. Plan(a) = <<Step("status", None)>> \o <<>>
      BY <2>1, <2>3 DEF Plan
    <3>2. Len(Plan(a)) = 1
      BY <3>1
    <3> QED BY <3>2
  <2> QED BY <2>2, <2>3
<1>3. ASSUME NEW o \in Orders, Cancels(a, o) PROVE m = n
  <2>1. /\ a.op = "cancel" /\ StockAct(a) = "release"
        /\ Plan(a) = EachLine("release", o) \o <<Step("status", None)>>
    BY <1>3 DEF Cancels, Plan, StockAct
  <2>2. /\ Len(Lines[o]) \in Nat /\ Len(Plan(a)) = Len(Lines[o]) + 1
        /\ \A k \in 1..Len(Lines[o]) : Plan(a)[k].v = <<o, k>>
        /\ Plan(a)[Len(Lines[o]) + 1].act = "status"
    BY <2>1, LinesThenOrder, LinesFit
  <2>3. m \in 1..Len(Lines[o]) /\ n \in 1..Len(Lines[o])
    BY <2>1, <2>2
  <2>4. <<o, m>> = <<o, n>>
    BY <2>2, <2>3
  <2> QED BY <2>4
<1>4. ASSUME NEW v, Releases(a, v) PROVE m = n
  <2>1. Plan(a) = <<Step("release", v)>>
    BY <1>4 DEF Releases, Plan
  <2> QED BY <2>1
<1> QED BY <1>1, <1>2, <1>3, <1>4 DEF Asked

-----------------------------------------------------------------------------
(* Every step keeps them.                                                  *)

\* Nothing is committed, and what r has written, if anything new, is explained.
LEMMA QuietCounters ==
    ASSUME Inv, CountersFit, NEW r \in Requests, UNCHANGED <<stock, moves>>,
           \A s \in Requests \ {r} : tx'[s] = tx[s], TxExplained(tx'[r], moves)
    PROVE  CountersFit'
<1>1. \A s \in Requests : TxExplained(tx'[s], moves)
  BY DEF CountersFit
<1> QED BY <1>1 DEF CountersFit

LEMMA NothingExplained == ASSUME NEW m PROVE TxExplained(NoTx, m)
<1>1. DOMAIN NoTx.stock = {} /\ NoTx.rows = {}
  BY DEF NoTx
<1> QED BY <1>1 DEF TxExplained

LEMMA RollbackCounts ==
    ASSUME Inv, CountersFit, NEW r \in Requests, NEW q, Rollback(r, q)
    PROVE  CountersFit'
<1>1. tx' = [tx EXCEPT ![r] = NoTx] /\ UNCHANGED <<stock, moves>>
  BY DEF Rollback
<1>2. tx'[r] = NoTx /\ \A s \in Requests \ {r} : tx'[s] = tx[s]
  BY <1>1, Known DEF PerRequest
<1> QED BY <1>1, <1>2, NothingExplained, QuietCounters

\* The order's row and its history say nothing about stock.
LEMMA OrderWritesCount ==
    ASSUME Inv, CountersFit, NEW r \in Requests, NEW u, Advance(r, u),
           u.stock = tx[r].stock, u.rows = tx[r].rows
    PROVE  CountersFit'
<1>1. tx' = [tx EXCEPT ![r] = u] /\ UNCHANGED <<stock, moves>>
  BY DEF Advance
<1>2. tx'[r] = u /\ \A s \in Requests \ {r} : tx'[s] = tx[s]
  BY <1>1, Known DEF PerRequest
<1>3. TxExplained(u, moves)
  BY DEF CountersFit, TxExplained
<1> QED BY <1>1, <1>2, <1>3, QuietCounters

\* The UPDATE applies to what explains the item so far, and logs a row for a
\* reservation the transaction has no row for yet.
LEMMA WriteStockCounts ==
    ASSUME IsFiniteSet(Orders), Inv, CountersFit, NEW r \in Requests, WriteStock(r)
    PROVE  CountersFit'
<1> DEFINE a == arg[r]
           v == Current(r).v
           i == ItemOf(v)
           act == Current(r).act
           t == tx[r]
           base == Over(stock, t.stock)[i]
           row == Incremented(base, OnHandDelta(act, v), ReservedDelta(act, v))
           rows == t.rows \cup {<<v, RowType[act]>>}
           u == [t EXCEPT !.stock = Put(@, i, row), !.resv = Put(@, v, After[act]),
                          !.rows = rows]
<1>1. pc[r] = "write" /\ act \in Settling
  BY DEF WriteStock, After, Settling
<1>2. /\ Asked(a) /\ TxTyped(t) /\ v \in ResvIds /\ act = StockAct(a)
      /\ at[r] \in 1..Len(Plan(a)) /\ StockWritten(a, at[r], t)
  BY <1>1, InPlan
<1>3. i \in Items /\ moves \in Ledger /\ PerRequest
  BY <1>2, LineRows, Known DEF Inv, TablesFit, Ledger
<1>4. \A y \in MoveType : <<v, y>> \notin t.rows
  <2>1. ASSUME NEW m \in 1..(at[r] - 1), Plan(a)[m].act = StockAct(a), Plan(a)[m].v = v
        PROVE  FALSE
    <3>1. m \in 1..Len(Plan(a)) /\ m # at[r]
      BY <1>2, PlansFit DEF PlanFits
    <3>2. Plan(a)[at[r]].act = StockAct(a) /\ Plan(a)[at[r]].v = v
      BY <1>2 DEF Current
    <3> QED BY <1>2, <2>1, <3>1, <3>2, PlanOnce
  <2>2. v \notin DOMAIN t.resv
    BY <1>2, <2>1 DEF StockWritten
  <2> QED BY <1>2, <2>2 DEF StockWritten
<1>5. CASE Rollback(r, IF act = "reserve" THEN "rejected" ELSE "failed")
  BY <1>5, RollbackCounts
<1>6. CASE ChecksHold(row) /\ Advance(r, u)
  <2> DEFINE m == Counting(moves, t.rows)
             n == Counting(moves, rows)
  <2>1. m \in Ledger /\ n \in Ledger
    BY <1>3, CountingTyped
  <2>2. /\ \A w \in ResvIds \ {v} : n[w] = m[w]
        /\ \A y \in MoveType : n[v][y] = m[v][y] + IF y = RowType[act] THEN 1 ELSE 0
    <3> HIDE DEF v, act, t
    <3>1. \A w \in ResvIds \ {v} : \A y \in MoveType : <<w, y>> \in rows <=> <<w, y>> \in t.rows
      OBVIOUS
    <3>2. \A y \in MoveType :
              /\ <<v, y>> \in rows <=> y = RowType[act]
              /\ moves[v][y] \in Nat
      BY <1>2, <1>3, <1>4 DEF Ledger
    <3>3. \A w \in ResvIds \ {v} : n[w] = m[w]
      BY <3>1 DEF Counting
    <3>4. \A y \in MoveType : /\ n[v][y] = moves[v][y] + IF y = RowType[act] THEN 1 ELSE 0
                              /\ m[v][y] = moves[v][y] + 0
      BY <1>2, <1>4, <3>2 DEF Counting
    <3>5. \A y \in MoveType : n[v][y] = m[v][y] + IF y = RowType[act] THEN 1 ELSE 0
      <4> TAKE y \in MoveType
      <4>1. PICK k \in Nat : k = moves[v][y]
        BY <3>2
      <4>2. m[v][y] = k
        BY <3>4, <4>1
      <4> QED BY <3>4, <4>1, <4>2
    <3> QED BY <3>3, <3>5
  <2>3. TxExplained(t, moves)
    BY DEF CountersFit
  <2>4. Explained(base, m, i)
    <3>1. CASE i \in DOMAIN t.stock
      <4>1. base = t.stock[i]
        BY <3>1 DEF Over
      <4> HIDE DEF base, t, i
      <4> QED BY <2>3, <3>1, <4>1 DEF TxExplained
    <3>2. CASE i \notin DOMAIN t.stock
      <4>1. base = stock[i]
        BY <1>3, <3>2 DEF Over, Inv, TablesFit
      <4>2. \A w \in OnItem(i) : \A y \in MoveType : <<w, y>> \notin t.rows
        BY <2>3, <3>2 DEF TxExplained, OnItem
      <4> HIDE DEF base, t, i
      <4>3. ASSUME NEW w \in OnItem(i) PROVE m[w] = moves[w]
        <5>1. w \in ResvIds
          BY DEF OnItem
        <5>2. moves[w] \in [MoveType -> Nat]
          BY <1>3, <5>1 DEF Ledger
        <5>3. m[w] = [y \in MoveType |-> moves[w][y] + 0]
          BY <4>2, <5>1 DEF Counting
        <5> QED BY <5>2, <5>3
      <4>4. Explained(stock[i], moves, i)
        BY <1>3 DEF CountersFit
      <4> HIDE DEF m
      <4> QED BY <4>1, <4>3, <4>4, SameRows
    <3> QED BY <3>1, <3>2
  <2>5. Explained(row, n, i)
    <3>1. v \in OnItem(i) /\ \A w \in OnItem(i) \ {v} : w \in ResvIds \ {v}
      BY <1>2 DEF OnItem
    <3> HIDE DEF m, n, base, v, i, act
    <3> QED BY <1>1, <1>3, <2>1, <2>2, <2>4, <3>1, OneMoreRow
  <2>6. u.stock = Put(t.stock, i, row) /\ u.rows = rows
    <3>1. u = WithStock(t, Put(t.stock, i, row), Put(t.resv, v, After[act]), rows)
      BY DEF WithStock
    <3> HIDE DEF u, v, act, rows, i, row, t
    <3>2. u = [stock |-> Put(t.stock, i, row), resv |-> Put(t.resv, v, After[act]),
               order |-> t.order, rows |-> rows, trail |-> t.trail]
      BY <1>2, <3>1, TxWrites
    <3> QED BY <3>2
  <2> HIDE DEF u
  <2>7. ASSUME NEW j \in DOMAIN u.stock PROVE Explained(u.stock[j], n, j)
    <3>1. CASE j = i
      BY <2>5, <2>6, <3>1 DEF Put
    <3>2. CASE j # i
      <4>1. j \in DOMAIN t.stock /\ u.stock[j] = t.stock[j]
        BY <2>6, <2>7, <3>2 DEF Put
      <4>2. Explained(t.stock[j], m, j)
        BY <2>3, <4>1 DEF TxExplained
      <4>3. \A w \in OnItem(j) : n[w] = m[w]
        BY <2>2, <3>2 DEF OnItem
      <4> HIDE DEF m, n, t, i
      <4> QED BY <4>1, <4>2, <4>3, SameRows
    <3> QED BY <3>1, <3>2
  <2>8. ASSUME NEW w \in ResvIds, NEW y \in MoveType, <<w, y>> \in u.rows
        PROVE  ItemOf(w) \in DOMAIN u.stock
    <3>1. DOMAIN u.stock = DOMAIN t.stock \cup {i}
      BY <2>6 DEF Put
    <3>2. CASE w = v
      BY <3>1, <3>2
    <3>3. CASE w # v
      <4>1. <<w, y>> \in t.rows
        BY <2>6, <2>8, <3>3
      <4> QED BY <2>3, <3>1, <4>1 DEF TxExplained
    <3> QED BY <3>2, <3>3
  <2>9. TxExplained(u, moves)
    BY <2>6, <2>7, <2>8 DEF TxExplained
  <2>10. tx' = [tx EXCEPT ![r] = u] /\ UNCHANGED <<stock, moves>>
    BY <1>6 DEF Advance
  <2>11. tx'[r] = u /\ \A s \in Requests \ {r} : tx'[s] = tx[s]
    BY <1>3, <2>10 DEF PerRequest
  <2> QED BY <2>9, <2>10, <2>11, QuietCounters
<1> QED BY <1>5, <1>6 DEF WriteStock

\* What the transaction wrote was explained by the ledger it leaves; the items it
\* did not write have no new rows, and those the others hold are not among them.
LEMMA CommitCounts ==
    ASSUME IsFiniteSet(Orders), Inv, CountersFit, NEW r \in Requests, Commit(r)
    PROVE  CountersFit'
<1> DEFINE t == tx[r]
<1>1. /\ stock' = Over(stock, t.stock) /\ moves' = Counting(moves, t.rows)
      /\ tx' = [tx EXCEPT ![r] = NoTx]
  BY DEF Commit, Counting
<1>2. PerRequest /\ moves \in Ledger /\ stock \in [Items -> StockRow] /\ TxExplained(t, moves)
  BY Known DEF Inv, TablesFit, Ledger, CountersFit
<1>3. tx'[r] = NoTx /\ \A s \in Requests \ {r} : tx'[s] = tx[s]
  BY <1>1, <1>2 DEF PerRequest
<1>4. ASSUME NEW v \in ResvIds, \A y \in MoveType : <<v, y>> \notin t.rows
      PROVE  moves'[v] = moves[v]
  <2>1. moves[v] \in [MoveType -> Nat]
    BY <1>2 DEF Ledger
  <2>2. moves'[v] = [y \in MoveType |-> moves[v][y] + 0]
    BY <1>1, <1>4 DEF Counting
  <2> QED BY <2>1, <2>2
<1>5. ASSUME NEW i \in Items, i \notin DOMAIN t.stock
      PROVE  \A v \in OnItem(i) : v \in ResvIds /\ moves'[v] = moves[v]
  BY <1>2, <1>4, <1>5 DEF TxExplained, OnItem
<1>6. ASSUME NEW i \in Items PROVE Explained(stock'[i], moves', i)
  <2>1. CASE i \in DOMAIN t.stock
    <3>1. stock'[i] = t.stock[i]
      BY <1>1, <2>1 DEF Over
    <3> HIDE DEF t
    <3> QED BY <1>1, <1>2, <2>1, <3>1 DEF TxExplained
  <2>2. CASE i \notin DOMAIN t.stock
    <3>1. stock'[i] = stock[i]
      BY <1>1, <1>2, <2>2 DEF Over
    <3>2. Explained(stock[i], moves, i)
      BY DEF CountersFit
    <3> HIDE DEF t
    <3> QED BY <1>5, <2>2, <3>1, <3>2, SameRows
  <2> QED BY <2>1, <2>2
<1>7. ASSUME NEW s \in Requests PROVE TxExplained(tx'[s], moves')
  <2>1. CASE s = r
    BY <1>3, <2>1, NothingExplained
  <2>2. CASE s # r
    <3> DEFINE w == tx[s]
    <3>1. tx'[s] = w /\ TxExplained(w, moves) /\ DOMAIN w.stock \subseteq Items
      BY <1>3, <2>2, Known DEF CountersFit, RequestFits, TxFits, TxTyped, TxOK
    <3>2. DOMAIN w.stock \cap DOMAIN t.stock = {}
      BY <2>2, Known DEF RowsFreeOf, HeldBy
    <3> HIDE DEF w
    <3>3. ASSUME NEW i \in DOMAIN w.stock
          PROVE  Explained(w.stock[i], Counting(moves', w.rows), i)
      <4>1. Explained(w.stock[i], Counting(moves, w.rows), i)
        BY <3>1 DEF TxExplained
      <4>2. \A v \in OnItem(i) : Counting(moves', w.rows)[v] = Counting(moves, w.rows)[v]
        <5>1. i \in Items /\ i \notin DOMAIN t.stock
          BY <3>1, <3>2
        <5>2. \A v \in OnItem(i) : v \in ResvIds /\ moves'[v] = moves[v]
          BY <1>5, <5>1
        <5> QED BY <5>2 DEF Counting
      <4> QED BY <4>1, <4>2, SameRows
    <3> QED BY <3>1, <3>3 DEF TxExplained
  <2> QED BY <2>1, <2>2
<1> QED BY <1>6, <1>7 DEF CountersFit

LEMMA StepsCount ==
    ASSUME IsFiniteSet(Orders), Inv, CountersFit, [Next]_vars
    PROVE  CountersFit'
<1>1. CASE UNCHANGED <<stock, moves, tx>>
  BY <1>1 DEF CountersFit
<1>2. ASSUME NEW r \in Requests, NEW a, NEW s, NEW q, Arrive(r, a, s, q)
      PROVE  UNCHANGED <<stock, moves, tx>>
  BY <1>2 DEF Arrive
<1>3. ASSUME NEW r \in Requests,
             \/ \E o \in Orders : Create(r, o) \/ Cancel(r, o)
             \/ \E o \in Orders, s \in OrderStatus \ {"DRAFT", "CANCELLED"} : ChangeStatus(r, o, s)
             \/ \E v \in ResvIds : Release(r, v)
      PROVE  UNCHANGED <<stock, moves, tx>>
  BY <1>2, <1>3 DEF Create, Cancel, ChangeStatus, Release
<1>4. ASSUME NEW r \in Requests, NEW q, Rollback(r, q) PROVE CountersFit'
  BY <1>4, RollbackCounts
<1>5. ASSUME NEW r \in Requests, Deadlock(r) \/ TransientError(r) \/ TimeOut(r) \/ Crash(r)
      PROVE  CountersFit'
  BY <1>4, <1>5 DEF Deadlock, TransientError, TimeOut, Crash, Retry
<1>6. ASSUME NEW r \in Requests, CheckAvailability(r) \/ FindActive(r) PROVE CountersFit'
  BY <1>1, <1>4, <1>6 DEF CheckAvailability, FindActive
<1>7. ASSUME NEW r \in Requests, WriteStatus(r) \/ InsertOrder(r) PROVE CountersFit'
  <2>1. TxTyped(tx[r])
    BY Known DEF RequestFits, TxFits
  <2>2. PICK u, x, y : Advance(r, u) /\ u = WithOrder(tx[r], x, y)
    <3>1. WriteStatus(r) =>
              Advance(r, WithOrder(tx[r], Put(tx[r].order, arg[r].order, arg[r].status),
                             Entered(tx[r].trail, arg[r].status, seen[r])))
      BY DEF WriteStatus, WithOrder, Entered
    <3>2. InsertOrder(r) =>
              Advance(r, WithOrder(tx[r], Put(tx[r].order, arg[r].order, "DRAFT"),
                             Entered(tx[r].trail, "DRAFT", None)))
      BY DEF InsertOrder, WithOrder, Entered
    <3> QED BY <1>7, <3>1, <3>2
  <2>3. u = [stock |-> tx[r].stock, resv |-> tx[r].resv, order |-> x,
             rows |-> tx[r].rows, trail |-> y]
    BY <2>1, <2>2, TxWrites
  <2>4. u.stock = tx[r].stock /\ u.rows = tx[r].rows
    BY <2>3
  <2> QED BY <2>2, <2>4, OrderWritesCount
<1>8. ASSUME NEW r \in Requests, Handle(r) PROVE CountersFit'
  BY <1>1, <1>6, <1>7, <1>8, WriteStockCounts, CommitCounts DEF Handle, Begin
<1>9. UNCHANGED vars \/ AllAnswered => UNCHANGED <<stock, moves, tx>>
  BY DEF AllAnswered, vars
<1> QED BY <1>1, <1>3, <1>5, <1>8, <1>9 DEF Next

-----------------------------------------------------------------------------
(* The sums of CountersAddUp and of Init are these sums.                   *)

LEMMA ConsumedSum ==
    ASSUME NEW m, NEW S, IsFiniteSet(S)
    PROVE  MapThenSumSet(LAMBDA v : QtyOf(v) * m[v]["CONSUMPTION"], S) =
               SumOf([v \in S |-> QtyOf(v) * m[v]["CONSUMPTION"]])
<1> DEFINE f == [v \in S |-> QtyOf(v) * m[v]["CONSUMPTION"]]
           Sums(g) == g = [s \in SUBSET S |->
                              IF s = {} THEN 0
                              ELSE QtyOf(Picked(s)) * m[Picked(s)]["CONSUMPTION"]
                                       + g[s \ {Picked(s)}]]
           iter == CHOOSE g : Sums(g)
<1>1. \A s \in SUBSET S : s # {} =>
          f[Picked(s)] = QtyOf(Picked(s)) * m[Picked(s)]["CONSUMPTION"]
  BY PickedIsIn
<1>2. DOMAIN f = S /\ MapThenSumSet(LAMBDA v : QtyOf(v) * m[v]["CONSUMPTION"], S) = iter[S]
  BY DEF MapThenSumSet, MapThenFoldSet, Picked
<1> HIDE DEF f
<1>3. \A g : Sums(g) <=> SumsUp(g, f, S)
  BY <1>1 DEF SumsUp
<1> HIDE DEF Sums
<1>4. SumsUp(iter, f, S)
  BY <1>3, SumsExist
<1> HIDE DEF iter
<1>5. SumOf(f) = iter[S]
  BY <1>2, <1>4, SumIs
<1> QED BY <1>2, <1>5 DEF f

LEMMA HeldSum ==
    ASSUME NEW m, NEW S, IsFiniteSet(S)
    PROVE  MapThenSumSet(LAMBDA v : QtyOf(v) *
                   (m[v]["RESERVATION"] - m[v]["RELEASE"] - m[v]["CONSUMPTION"]), S) =
               SumOf([v \in S |-> QtyOf(v) *
                   (m[v]["RESERVATION"] - m[v]["RELEASE"] - m[v]["CONSUMPTION"])])
<1> DEFINE E(v) == QtyOf(v) * (m[v]["RESERVATION"] - m[v]["RELEASE"] - m[v]["CONSUMPTION"])
           f == [v \in S |-> E(v)]
           Sums(g) == g = [s \in SUBSET S |->
                              IF s = {} THEN 0 ELSE E(Picked(s)) + g[s \ {Picked(s)}]]
           iter == CHOOSE g : Sums(g)
<1>1. \A s \in SUBSET S : s # {} => f[Picked(s)] = E(Picked(s))
  BY PickedIsIn
<1>2. /\ DOMAIN f = S
      /\ MapThenSumSet(LAMBDA v : QtyOf(v) *
             (m[v]["RESERVATION"] - m[v]["RELEASE"] - m[v]["CONSUMPTION"]), S) = iter[S]
  BY DEF MapThenSumSet, MapThenFoldSet, Picked
<1> HIDE DEF f
<1>3. \A g : Sums(g) <=> SumsUp(g, f, S)
  BY <1>1 DEF SumsUp
<1> HIDE DEF Sums
<1>4. SumsUp(iter, f, S)
  BY <1>3, SumsExist
<1> HIDE DEF iter
<1>5. SumOf(f) = iter[S]
  BY <1>2, <1>4, SumIs
<1> QED BY <1>2, <1>5 DEF f

LEMMA QuantitySum ==
    ASSUME NEW S, IsFiniteSet(S)
    PROVE  MapThenSumSet(QtyOf, S) = SumOf([v \in S |-> QtyOf(v)])
<1> DEFINE f == [v \in S |-> QtyOf(v)]
           Sums(g) == g = [s \in SUBSET S |->
                              IF s = {} THEN 0 ELSE QtyOf(Picked(s)) + g[s \ {Picked(s)}]]
           iter == CHOOSE g : Sums(g)
<1>1. \A s \in SUBSET S : s # {} => f[Picked(s)] = QtyOf(Picked(s))
  BY PickedIsIn
<1>2. DOMAIN f = S /\ MapThenSumSet(QtyOf, S) = iter[S]
  BY DEF MapThenSumSet, MapThenFoldSet, Picked
<1> HIDE DEF f
<1>3. \A g : Sums(g) <=> SumsUp(g, f, S)
  BY <1>1 DEF SumsUp
<1> HIDE DEF Sums
<1>4. SumsUp(iter, f, S)
  BY <1>3, SumsExist
<1> HIDE DEF iter
<1>5. SumOf(f) = iter[S]
  BY <1>2, <1>4, SumIs
<1> QED BY <1>2, <1>5 DEF f

\* What the orders that exist at the start have reserved is all there is.
LEMMA InitCounts == ASSUME IsFiniteSet(Orders), Init PROVE CountersFit
<1>1. moves = [v \in ResvIds |->
                  [y \in MoveType |->
                      IF y = "RESERVATION" /\ v \in InitialResv THEN 1 ELSE 0]]
  BY DEF Init
<1>2. /\ \A i \in Items : stock[i].onHand = InitialStock[i] /\ stock[i].reserved = InitialReserved(i)
      /\ \A r \in Requests : tx[r] = NoTx
  BY DEF Init
<1>3. ASSUME NEW i \in Items PROVE Explained(stock[i], moves, i)
  <2> DEFINE S == OnItem(i)
             T == {v \in InitialResv : ItemOf(v) = i}
             c == Consumptions(moves, i)
             h == Holdings(moves, i)
  <2>1. IsFiniteSet(S) /\ T \in SUBSET S /\ S \subseteq ResvIds
    BY OnItemFinite DEF OnItem, InitialResv
  <2>2. ASSUME NEW v \in S
        PROVE  c[v] = 0 /\ h[v] = IF v \in T THEN QtyOf(v) ELSE 0
    <3>1. v \in ResvIds /\ QtyOf(v) \in Nat /\ (v \in InitialResv <=> v \in T)
      BY LineRows DEF OnItem
    <3>2. /\ moves[v]["CONSUMPTION"] = 0 /\ moves[v]["RELEASE"] = 0
          /\ moves[v]["RESERVATION"] = IF v \in T THEN 1 ELSE 0
      BY <1>1, <3>1 DEF MoveType
    <3>3. /\ c[v] = QtyOf(v) * 0
          /\ h[v] = QtyOf(v) * ((IF v \in T THEN 1 ELSE 0) - 0 - 0)
      BY <3>2 DEF Consumptions, Holdings
    <3> HIDE DEF c, h, S, T
    <3>4. CASE v \in T
      <4>1. h[v] = QtyOf(v) * (1 - 0 - 0)
        BY <3>3, <3>4
      <4> QED BY <3>1, <3>3, <3>4, <4>1
    <3>5. CASE v \notin T
      <4>1. h[v] = QtyOf(v) * (0 - 0 - 0)
        BY <3>3, <3>5
      <4> QED BY <3>1, <3>3, <3>5, <4>1
    <3> QED BY <3>4, <3>5
  <2>3. c = [v \in S |-> c[v]] /\ h = [v \in S |-> h[v]]
    BY DEF Consumptions, Holdings
  <2>4. \A v \in S : QtyOf(v) \in Int
    BY <2>1, LineRows
  <2> HIDE DEF c, h, S
  <2>5. SumOf(c) = 0
    <3>1. c = [v \in S |-> 0]
      BY <2>2, <2>3
    <3> QED BY <2>1, <3>1, SumOfZero
  <2>6. SumOf(h) = SumOf([v \in T |-> QtyOf(v)])
    <3>1. h \in [S -> Int] /\ \A v \in S \ T : h[v] = 0
      BY <2>2, <2>3, <2>4
    <3>2. SumOf(h) = SumOf([v \in T |-> h[v]])
      <4> HIDE DEF T
      <4> QED BY <2>1, <3>1, SumOfPart
    <3>3. [v \in T |-> h[v]] = [v \in T |-> QtyOf(v)]
      BY <2>1, <2>2
    <3> QED BY <3>2, <3>3
  <2>7. InitialReserved(i) = SumOf([v \in T |-> QtyOf(v)])
    <3>1. IsFiniteSet(T) /\ InitialReserved(i) = MapThenSumSet(QtyOf, T)
      BY <2>1, FS_Subset DEF InitialReserved
    <3> HIDE DEF T
    <3> QED BY <3>1, QuantitySum
  <2>8. stock[i].onHand = InitialStock[i] - 0 /\ stock[i].reserved = InitialReserved(i)
    <3>1. InitialStock[i] \in Nat
      BY OrdersAssumption
    <3>2. InitialStock[i] = InitialStock[i] - 0
      BY <3>1
    <3> QED BY <1>2, <3>2
  <2> QED BY <2>5, <2>6, <2>7, <2>8 DEF Explained, c, h
<1>4. \A r \in Requests : TxExplained(tx[r], moves)
  BY <1>2, NothingExplained
<1> QED BY <1>3, <1>4 DEF CountersFit

\* However many transactions overlap on an item, and whichever of them roll
\* back, its counters are what the committed ledger rows add up to
\* (inventory.repository.ts, the UPDATEs by increments).
THEOREM CountersCorrect == IsFiniteSet(Orders) => (Spec => []CountersAddUp)
<1> SUFFICES ASSUME IsFiniteSet(Orders) PROVE Spec => []CountersAddUp
  OBVIOUS
<1>1. Init => CountersFit
  BY InitCounts
<1>2. Inv /\ CountersFit /\ [Next]_vars => CountersFit'
  BY StepsCount
<1>3. CountersFit => CountersAddUp
  <2> SUFFICES ASSUME CountersFit, NEW i \in Items
               PROVE  LET on == {v \in ResvIds : ItemOf(v) = i}
                      IN  /\ stock[i].onHand = InitialStock[i]
                               - MapThenSumSet(LAMBDA v : QtyOf(v) * moves[v]["CONSUMPTION"], on)
                          /\ stock[i].reserved =
                               MapThenSumSet(LAMBDA v : QtyOf(v) *
                                   (moves[v]["RESERVATION"] - moves[v]["RELEASE"]
                                                            - moves[v]["CONSUMPTION"]), on)
    BY DEF CountersAddUp
  <2>1. IsFiniteSet(OnItem(i))
    BY OnItemFinite
  <2>2. Explained(stock[i], moves, i)
    BY DEF CountersFit
  <2> QED BY <2>1, <2>2, ConsumedSum, HeldSum DEF Explained, Consumptions, Holdings, OnItem
<1> QED BY <1>1, <1>2, <1>3, InvHolds, PTL DEF Spec

-----------------------------------------------------------------------------
(* One request at a time: each change of an order is the one that was due. *)

\* The entry of its history a request asked a makes, having read the status s.
Entry(a, s) == [status |-> Target(a), previous |-> IF a.op = "create" THEN None ELSE s]

\* What it read is still so and allows what it was asked.
StillDue(a, s, now) ==
    /\ a.op \in {"change", "cancel"} => now[a.order] = s
    /\ a.op = "change" => s \in DOMAIN Forward /\ Forward[s] = a.status
    /\ a.op = "cancel" => s \in Cancellable

EntryDue(a, s, t) == a.op # "release" => t.trail \in {<<>>, <<Entry(a, s)>>}

OneAtATime == \A r, s \in Requests : pc[r] \in Pending /\ pc[s] \in Pending => r = s

InTurn ==
    /\ OneAtATime
    /\ \A r \in Requests :
           pc[r] \in Pending =>
               StillDue(arg[r], seen[r], order) /\ EntryDue(arg[r], seen[r], tx[r])

TurnInv == handling = "in turn" => Inv /\ InTurn

\* A plan writes the order's row once.
LEMMA OneOrderStep ==
    ASSUME NEW a, Asked(a), a.op # "release",
           NEW m \in 1..Len(Plan(a)), NEW n \in 1..Len(Plan(a)),
           Plan(a)[m].act = OrderAct(a), Plan(a)[n].act = OrderAct(a)
    PROVE  m = n
<1>1. CASE \E o \in Orders : Creates(a, o)
  <2>1. PICK o \in Orders : Creates(a, o)
    BY <1>1
  <2>2. OrderAct(a) = "insert" /\ Plan(a) = EachLine("reserve", o) \o <<Step("insert", None)>>
    BY <2>1 DEF Creates, Plan, OrderAct
  <2>3. /\ Len(Plan(a)) = Len(Lines[o]) + 1 /\ Len(Lines[o]) \in Nat
        /\ \A k \in 1..Len(Lines[o]) : Plan(a)[k].act = "reserve"
    BY <2>2, LinesThenOrder, LinesFit
  <2> QED BY <2>2, <2>3
<1>2. CASE \E o \in Orders, s \in OrderStatus \ {"DRAFT", "CANCELLED"} : Changes(a, o, s)
  <2>1. PICK o \in Orders, s \in OrderStatus : Changes(a, o, s)
    BY <1>2
  <2>2. OrderAct(a) = "status"
    BY <2>1 DEF Changes, OrderAct
  <2>3. CASE s = "COMPLETED"
    <3>1. /\ Len(Plan(a)) \in Nat
          /\ \A k \in 2..Len(Plan(a)) : Plan(a)[k].act = "consume"
      BY <2>1, <2>3, CompletionPlan, PlansFit DEF Completes, PlanFits
    <3>2. m \notin 2..Len(Plan(a)) /\ n \notin 2..Len(Plan(a))
      BY <2>2, <3>1
    <3> QED BY <3>1, <3>2
  <2>4. CASE s # "COMPLETED"
    <3>1. Plan(a) = <<Step("status", None)>> \o <<>>
      BY <2>1, <2>4 DEF Changes, Plan
    <3>2. Len(Plan(a)) = 1
      BY <3>1
    <3> QED BY <3>2
  <2> QED BY <2>3, <2>4
<1>3. CASE \E o \in Orders : Cancels(a, o)
  <2>1. PICK o \in Orders : Cancels(a, o)
    BY <1>3
  <2>2. OrderAct(a) = "status" /\ Plan(a) = EachLine("release", o) \o <<Step("status", None)>>
    BY <2>1 DEF Cancels, Plan, OrderAct
  <2>3. /\ Len(Plan(a)) = Len(Lines[o]) + 1 /\ Len(Lines[o]) \in Nat
        /\ \A k \in 1..Len(Lines[o]) : Plan(a)[k].act = "release"
    BY <2>2, LinesThenOrder, LinesFit
  <2> QED BY <2>2, <2>3
<1>4. CASE \E v \in ResvIds : Releases(a, v)
  BY <1>4 DEF Releases
<1> QED BY <1>1, <1>2, <1>3, <1>4 DEF Asked

\* Before it, the transaction has written no entry.
LEMMA NoEntryYet ==
    ASSUME Inv, NEW r \in Requests, pc[r] = "write", Current(r).act = OrderAct(arg[r]),
           arg[r].op # "release"
    PROVE  tx[r].trail = <<>>
<1>1. /\ Asked(arg[r]) /\ TxFits(pc[r], arg[r], at[r], tx[r])
      /\ at[r] \in 1..Len(Plan(arg[r]))
  BY InPlan
<1>2. OrderWritten(arg[r], at[r], tx[r]) /\ Len(Plan(arg[r])) \in Nat
  BY <1>1, PlansFit DEF TxFits, Open, PlanFits
<1>3. \A m \in 1..(at[r] - 1) : m \in 1..Len(Plan(arg[r])) /\ m # at[r]
  BY <1>1, <1>2
<1>4. \A m \in 1..(at[r] - 1) : Plan(arg[r])[m].act # OrderAct(arg[r])
  BY <1>1, <1>3, OneOrderStep DEF Current
<1> QED BY <1>2, <1>4 DEF OrderWritten

\* With one request in progress at most, none is when another arrives.
LEMMA NobodyElse ==
    ASSUME MaxInFlight = 1, OneAtATime, Cardinality(InFlight) < MaxInFlight
    PROVE  InFlight = {}
<1> SUFFICES ASSUME NEW r \in InFlight PROVE FALSE
  OBVIOUS
<1>1. InFlight = {r}
  BY DEF InFlight, OneAtATime
<1>2. Cardinality(InFlight) = 1
  BY <1>1, FS_Singleton
<1> QED BY <1>2

LEMMA ArriveInTurn ==
    ASSUME MaxInFlight = 1, Inv, InTurn, NEW r \in Requests, NEW a, NEW s, NEW q,
           Arrive(r, a, s, q), q \in Pending => StillDue(a, s, order)
    PROVE  InTurn'
<1>1. InFlight = {}
  BY NobodyElse DEF InTurn, Arrive
<1>2. /\ PerRequest /\ TxFits(pc[r], arg[r], at[r], tx[r]) /\ pc[r] = "idle"
  BY Known DEF RequestFits, Arrive
<1>3. tx[r].trail = <<>>
  BY <1>2 DEF TxFits, Open, NoTx
<1>4. /\ pc'[r] = q /\ arg'[r] = a /\ seen'[r] = s
      /\ \A x \in Requests \ {r} : pc'[x] = pc[x]
      /\ order' = order /\ tx' = tx
  BY <1>2 DEF Arrive, Goto, PerRequest
<1>5. \A x \in Requests : pc[x] \notin Pending
  BY <1>1 DEF InFlight
<1>6. \A x \in Requests : pc'[x] \in Pending => x = r
  BY <1>4, <1>5
<1>7. EntryDue(a, s, tx[r])
  BY <1>3 DEF EntryDue
<1> QED BY <1>4, <1>6, <1>7 DEF InTurn, OneAtATime

\* A step of the request in progress that leaves the orders as they are.
LEMMA StepInTurn ==
    ASSUME Inv, InTurn, NEW r \in Requests, pc[r] \in Pending, UNCHANGED <<order, arg, seen>>,
           NEW q, Goto(r, q), NEW t, tx' = [tx EXCEPT ![r] = t], EntryDue(arg[r], seen[r], t)
    PROVE  InTurn'
<1>1. PerRequest
  BY DEF Inv
<1>2. /\ pc'[r] = q /\ tx'[r] = t
      /\ \A x \in Requests \ {r} : pc'[x] = pc[x] /\ tx'[x] = tx[x]
  BY <1>1 DEF Goto, PerRequest
<1>3. \A x \in Requests : pc'[x] \in Pending => x = r
  BY <1>2 DEF InTurn, OneAtATime
<1>4. StillDue(arg[r], seen[r], order)
  BY DEF InTurn
<1> QED BY <1>2, <1>3, <1>4 DEF InTurn, OneAtATime

LEMMA MoveInTurn ==
    ASSUME Inv, InTurn, NEW r \in Requests, pc[r] \in Pending,
           UNCHANGED <<order, arg, seen, tx>>, NEW q, Goto(r, q)
    PROVE  InTurn'
<1>1. tx' = [tx EXCEPT ![r] = tx[r]]
  BY DEF Inv, PerRequest
<1>2. EntryDue(arg[r], seen[r], tx[r])
  BY DEF InTurn
<1> QED BY <1>1, <1>2, StepInTurn

LEMMA RollbackInTurn ==
    ASSUME Inv, InTurn, NEW r \in Requests, pc[r] \in Pending, NEW q, Rollback(r, q)
    PROVE  InTurn'
<1>1. EntryDue(arg[r], seen[r], NoTx)
  BY DEF EntryDue, NoTx
<1> QED BY <1>1, StepInTurn DEF Rollback

LEMMA AdvanceInTurn ==
    ASSUME Inv, InTurn, NEW r \in Requests, pc[r] = "write", NEW u, Advance(r, u),
           EntryDue(arg[r], seen[r], u)
    PROVE  InTurn'
<1>1. /\ UNCHANGED <<order, arg, seen>> /\ tx' = [tx EXCEPT ![r] = u]
      /\ Goto(r, Label(arg[r], at[r] + 1))
  BY DEF Advance
<1> DEFINE q == Label(arg[r], at[r] + 1)
<1>2. Goto(r, q)
  BY <1>1
<1> HIDE DEF q
<1> QED BY <1>1, <1>2, StepInTurn

LEMMA WriteStockInTurn ==
    ASSUME Inv, InTurn, NEW r \in Requests, WriteStock(r)
    PROVE  InTurn'
<1> DEFINE v == Current(r).v
           act == Current(r).act
           row == Incremented(Over(stock, tx[r].stock)[ItemOf(v)],
                              OnHandDelta(act, v), ReservedDelta(act, v))
           rows == tx[r].rows \cup {<<v, RowType[act]>>}
           u == [tx[r] EXCEPT !.stock = Put(@, ItemOf(v), row),
                              !.resv  = Put(@, v, After[act]),
                              !.rows  = @ \cup {<<v, RowType[act]>>}]
<1>1. pc[r] = "write"
  BY DEF WriteStock
<1>2. Advance(r, u) \/ Rollback(r, IF act = "reserve" THEN "rejected" ELSE "failed")
  BY DEF WriteStock
<1>3. CASE Advance(r, u)
  <2>1. TxTyped(tx[r])
    BY <1>1, InPlan
  <2>2. u = WithStock(tx[r], Put(tx[r].stock, ItemOf(v), row), Put(tx[r].resv, v, After[act]), rows)
    BY DEF WithStock
  <2>3. u.trail = tx[r].trail
    BY <2>1, <2>2, TxWrites
  <2> HIDE DEF u
  <2>4. EntryDue(arg[r], seen[r], u)
    BY <1>1, <2>3 DEF InTurn, EntryDue
  <2> QED BY <1>1, <1>3, <2>4, AdvanceInTurn
<1>4. CASE Rollback(r, IF act = "reserve" THEN "rejected" ELSE "failed")
  BY <1>1, <1>4, RollbackInTurn
<1> QED BY <1>2, <1>3, <1>4

\* The one statement for the order's row makes the entry that is due.
LEMMA OrderWriteInTurn ==
    ASSUME Inv, InTurn, NEW r \in Requests, pc[r] = "write",
           Current(r).act = OrderAct(arg[r]), arg[r].op # "release",
           NEW x, NEW u,
           u = WithOrder(tx[r], x, Append(tx[r].trail, Entry(arg[r], seen[r]))),
           Advance(r, u)
    PROVE  InTurn'
<1>1. TxTyped(tx[r]) /\ tx[r].trail = <<>>
  BY InPlan, NoEntryYet
<1>2. u.trail = Append(<<>>, Entry(arg[r], seen[r]))
  BY <1>1, TxWrites
<1>3. u.trail = <<Entry(arg[r], seen[r])>>
  BY <1>2
<1>4. EntryDue(arg[r], seen[r], u)
  BY <1>3 DEF EntryDue
<1> QED BY <1>4, AdvanceInTurn

LEMMA WriteStatusInTurn ==
    ASSUME Inv, InTurn, NEW r \in Requests, WriteStatus(r) PROVE InTurn'
<1>1. pc[r] = "write" /\ Current(r).act = "status"
  BY DEF WriteStatus
<1>2. OrderAct(arg[r]) = "status"
  BY <1>1, InPlan DEF Settling
<1>3. arg[r].op \notin {"release", "create"} /\ Entry(arg[r], seen[r]) =
          [status |-> arg[r].status, previous |-> seen[r]]
  BY <1>2 DEF OrderAct, Target, Entry
<1> DEFINE u == [tx[r] EXCEPT
                    !.order = Put(@, arg[r].order, arg[r].status),
                    !.trail = Append(@, [status |-> arg[r].status, previous |-> seen[r]])]
<1>4. Advance(r, u)
  BY DEF WriteStatus
<1>5. u = WithOrder(tx[r], Put(tx[r].order, arg[r].order, arg[r].status),
                Append(tx[r].trail, Entry(arg[r], seen[r])))
  BY <1>3 DEF WithOrder
<1> HIDE DEF u
<1> QED BY <1>1, <1>2, <1>3, <1>4, <1>5, OrderWriteInTurn

LEMMA InsertOrderInTurn ==
    ASSUME Inv, InTurn, NEW r \in Requests, InsertOrder(r) PROVE InTurn'
<1>1. pc[r] = "write" /\ Current(r).act = "insert"
  BY DEF InsertOrder
<1>2. OrderAct(arg[r]) = "insert"
  BY <1>1, InPlan DEF Settling
<1>3. arg[r].op = "create" /\ Entry(arg[r], seen[r]) = [status |-> "DRAFT", previous |-> None]
  BY <1>2 DEF OrderAct, Target, Entry
<1> DEFINE u == [tx[r] EXCEPT
                    !.order = Put(@, arg[r].order, "DRAFT"),
                    !.trail = Append(@, [status |-> "DRAFT", previous |-> None])]
<1>4. Advance(r, u)
  BY DEF InsertOrder
<1>5. u = WithOrder(tx[r], Put(tx[r].order, arg[r].order, "DRAFT"),
                Append(tx[r].trail, Entry(arg[r], seen[r])))
  BY <1>3 DEF WithOrder
<1> HIDE DEF u
<1> QED BY <1>1, <1>2, <1>3, <1>4, <1>5, OrderWriteInTurn

-----------------------------------------------------------------------------
(* The orders after COMMIT.                                                *)

\* The order's new status and the entry of its history.
LEMMA CommitWrites ==
    ASSUME Inv, InTurn, NEW r \in Requests, Commit(r), NEW a, a = arg[r],
           a.op # "release"
    PROVE  /\ a.order \in Orders
           /\ order' = [x \in DOMAIN order \cup {a.order} |->
                           IF x = a.order THEN Target(a) ELSE order[x]]
           /\ history' = [history EXCEPT ![a.order] = Append(@, Entry(a, seen[r]))]
<1> DEFINE t == tx[r]
<1>1. /\ pc[r] = "commit" /\ Asked(a) /\ TxFits("commit", a, at[r], t)
  BY Known DEF Commit, RequestFits
<1>2. /\ DOMAIN t.order = {a.order} /\ t.order[a.order] = Target(a) /\ Len(t.trail) > 0
  BY <1>1, Whole
<1>3. EntryDue(a, seen[r], t)
  BY <1>1 DEF InTurn
<1>4. t.trail = <<Entry(a, seen[r])>>
  BY <1>2, <1>3 DEF EntryDue
<1>5. /\ order' = Over(order, t.order)
      /\ history' = [o \in Orders |->
                        IF o \in DOMAIN t.order THEN history[o] \o t.trail ELSE history[o]]
  BY DEF Commit
<1> HIDE DEF t
<1>6. a.order \in Orders /\ Target(a) \in OrderStatus
  BY <1>1, TouchedFits
<1>7. history \in [Orders -> TrailType]
  BY DEF Inv, TablesFit
<1>8. seen[r] \in OrderStatus \cup {None}
  BY Known DEF RequestFits
<1> DEFINE Rec == [status : OrderStatus, previous : OrderStatus \cup {None}]
           e == Entry(a, seen[r])
<1>9. e \in Rec
  BY <1>6, <1>8 DEF Entry
<1>10. history[a.order] \in Seq(Rec)
  BY <1>6, <1>7 DEF TrailType
<1> HIDE DEF Rec, e
<1>11. history[a.order] \o <<e>> = Append(history[a.order], e)
  BY <1>9, <1>10, AppendIsConcat
<1>12. history' = [history EXCEPT ![a.order] = Append(@, e)]
  BY <1>2, <1>4, <1>5, <1>6, <1>7, <1>11 DEF e
<1>13. order' = [x \in DOMAIN order \cup {a.order} |->
                     IF x = a.order THEN Target(a) ELSE order[x]]
  BY <1>2, <1>5 DEF Over
<1> QED BY <1>6, <1>12, <1>13 DEF e

LEMMA CommitFollows ==
    ASSUME Inv, InTurn, NEW r \in Requests, Commit(r)
    PROVE  Lifecycle!Next \/ UNCHANGED <<order, history>>
<1> DEFINE a == arg[r]
           s == seen[r]
<1>1. /\ pc[r] = "commit" /\ RequestFits(r) /\ Asked(a)
      /\ ArgFits("commit", a, DOMAIN order, DOMAIN resv)
      /\ TxFits("commit", a, at[r], tx[r])
      /\ DOMAIN order \in SUBSET Orders /\ DOMAIN resv \in SUBSET ResvIds
  BY Known DEF Commit, RequestFits
<1>2. StillDue(a, s, order) /\ TablesFit
  BY <1>1 DEF InTurn, Inv
<1>3. /\ a.op \in {"create", "change", "cancel", "release"}
      /\ a.op = "create" => a.order \in Orders /\ a.order \notin DOMAIN order
      /\ a.op \in {"change", "cancel"} => a.order \in DOMAIN order
  BY <1>1, ArgRefers
<1>4. /\ a.op = "create" => Target(a) = "DRAFT"
      /\ a.op = "cancel" => Target(a) = "CANCELLED"
      /\ a.op = "change" => Target(a) = a.status
  BY <1>1, Targets
<1>5. a.op # "release" =>
          /\ a.order \in Orders
          /\ order' = [x \in DOMAIN order \cup {a.order} |->
                          IF x = a.order THEN Target(a) ELSE order[x]]
          /\ history' = [history EXCEPT ![a.order] = Append(@, Entry(a, s))]
  BY CommitWrites
<1>6. CASE a.op = "create"
  <2>1. history[a.order] = <<>>
    BY <1>2, <1>3, <1>6 DEF TablesFit
  <2>2. Entry(a, s) = [status |-> "DRAFT", previous |-> "none"]
    BY <1>4, <1>6 DEF Entry
  <2>3. Append(<<>>, Entry(a, s)) = <<Entry(a, s)>>
    OBVIOUS
  <2>4. history' = [history EXCEPT ![a.order] = <<[status |-> "DRAFT", previous |-> "none"]>>]
    BY <1>5, <1>6, <2>1, <2>2, <2>3
  <2>5. Lifecycle!Place(a.order)
    BY <1>3, <1>4, <1>5, <1>6, <2>4 DEF Lifecycle!Place
  <2> QED BY <1>3, <1>6, <2>5 DEF Lifecycle!Next
<1>7. CASE a.op \in {"change", "cancel"}
  <2>1. order[a.order] = s /\ a.order \in DOMAIN order
    BY <1>2, <1>3, <1>7 DEF StillDue
  <2>2. order' = [order EXCEPT ![a.order] = Target(a)]
    <3>1. DOMAIN order \cup {a.order} = DOMAIN order
      BY <2>1
    <3>2. order = [x \in DOMAIN order |-> order[x]]
      BY <1>2 DEF TablesFit
    <3> QED BY <1>5, <1>7, <2>1, <3>1, <3>2
  <2>3. Entry(a, s) = [status |-> Target(a), previous |-> order[a.order]]
    BY <1>7, <2>1 DEF Entry
  <2>4. Lifecycle!Become(a.order, Target(a))
    BY <1>5, <1>7, <2>2, <2>3 DEF Lifecycle!Become
  <2>5. CASE a.op = "change"
    <3>1. s \in DOMAIN Forward /\ Forward[s] = Target(a)
      BY <1>2, <1>4, <2>5 DEF StillDue
    <3>2. Lifecycle!Advance(a.order)
      BY <2>1, <2>4, <3>1 DEF Lifecycle!Advance, Forward
    <3> QED BY <1>5, <1>7, <3>2 DEF Lifecycle!Next
  <2>6. CASE a.op = "cancel"
    <3>1. s \in Cancellable /\ Target(a) = "CANCELLED"
      BY <1>2, <1>4, <2>6 DEF StillDue
    <3>2. Lifecycle!Cancel(a.order)
      BY <2>1, <2>4, <3>1 DEF Lifecycle!Cancel, Cancellable
    <3> QED BY <1>5, <1>7, <3>2 DEF Lifecycle!Next
  <2> QED BY <1>7, <2>5, <2>6
<1>8. CASE a.op = "release"
  <2>1. DOMAIN tx[r].order = {}
    BY <1>1, <1>8, Whole
  <2>2. order = [x \in DOMAIN order |-> order[x]] /\ history \in [Orders -> TrailType]
    BY <1>2 DEF TablesFit
  <2>3. order' = order
    BY <2>1, <2>2 DEF Commit, Over
  <2>4. history' = history
    BY <2>1, <2>2 DEF Commit
  <2> QED BY <2>3, <2>4
<1> QED BY <1>3, <1>6, <1>7, <1>8

LEMMA CommitInTurn ==
    ASSUME Inv, InTurn, NEW r \in Requests, Commit(r) PROVE InTurn'
<1>1. PerRequest /\ pc[r] = "commit"
  BY DEF Inv, Commit
<1>2. pc'[r] = "done" /\ \A x \in Requests \ {r} : pc'[x] = pc[x]
  BY <1>1 DEF Commit, Goto, PerRequest
<1>3. \A x \in Requests : pc'[x] \notin Pending
  BY <1>1, <1>2 DEF InTurn, OneAtATime
<1> QED BY <1>3 DEF InTurn, OneAtATime

-----------------------------------------------------------------------------
(* Every step.                                                             *)

LEMMA ArrivalsInTurn ==
    ASSUME MaxInFlight = 1, Inv, InTurn, NEW r \in Requests,
           \/ \E o \in Orders : Create(r, o) \/ Cancel(r, o)
           \/ \E o \in Orders, s \in OrderStatus \ {"DRAFT", "CANCELLED"} : ChangeStatus(r, o, s)
           \/ \E v \in ResvIds : Release(r, v)
    PROVE  InTurn' /\ UNCHANGED <<order, history>>
<1>1. ASSUME NEW o \in Orders, Create(r, o) PROVE InTurn'
  <2> DEFINE a == [op |-> "create", order |-> o]
  <2>1. Arrive(r, a, None, "begin") /\ StillDue(a, None, order)
    BY <1>1 DEF Create, StillDue
  <2> HIDE DEF a
  <2> QED BY <2>1, ArriveInTurn
<1>2. ASSUME NEW o \in Orders, Cancel(r, o) PROVE InTurn'
  <2> DEFINE a == [op |-> "cancel", order |-> o, status |-> "CANCELLED"]
             q == IF order[o] \in Cancellable THEN "begin" ELSE "rejected"
  <2>1. Arrive(r, a, order[o], q)
    BY <1>2 DEF Cancel
  <2>2. q \in Pending => StillDue(a, order[o], order)
    BY DEF StillDue
  <2> HIDE DEF a, q
  <2> QED BY <2>1, <2>2, ArriveInTurn
<1>3. ASSUME NEW o \in Orders, NEW s \in OrderStatus \ {"DRAFT", "CANCELLED"},
             ChangeStatus(r, o, s)
      PROVE  InTurn'
  <2> DEFINE a == [op |-> "change", order |-> o, status |-> s]
             q == IF order[o] \in DOMAIN Forward /\ Forward[order[o]] = s
                  THEN "begin" ELSE "rejected"
  <2>1. Arrive(r, a, order[o], q)
    BY <1>3 DEF ChangeStatus
  <2>2. q \in Pending => StillDue(a, order[o], order)
    BY DEF StillDue
  <2> HIDE DEF a, q
  <2> QED BY <2>1, <2>2, ArriveInTurn
<1>4. ASSUME NEW v \in ResvIds, Release(r, v) PROVE InTurn'
  <2> DEFINE a == [op |-> "release", v |-> v]
  <2>1. Arrive(r, a, None, "begin") /\ StillDue(a, None, order)
    BY <1>4 DEF Release, StillDue
  <2> HIDE DEF a
  <2> QED BY <2>1, ArriveInTurn
<1>5. UNCHANGED <<order, history>>
  BY DEF Create, Cancel, ChangeStatus, Release, Arrive
<1> QED BY <1>1, <1>2, <1>3, <1>4, <1>5

LEMMA FailuresInTurn ==
    ASSUME Inv, InTurn, NEW r \in Requests,
           Deadlock(r) \/ TransientError(r) \/ TimeOut(r) \/ Crash(r)
    PROVE  InTurn' /\ UNCHANGED <<order, history>>
<1>1. Deadlock(r) \/ TimeOut(r) => pc[r] \in Pending
  BY DEF Deadlock, WaitsFor, TimeOut, Waiting, Blocked, NeedsSecondConnection, Wants
<1>2. pc[r] \in Pending
  BY <1>1 DEF TransientError, Crash
<1>3. Rollback(r, "begin") \/ Rollback(r, "failed")
  BY DEF Deadlock, TransientError, TimeOut, Crash, Retry
<1>4. UNCHANGED <<order, history>>
  BY <1>3 DEF Rollback
<1> QED BY <1>2, <1>3, <1>4, RollbackInTurn

LEMMA HandleInTurn ==
    ASSUME Inv, InTurn, NEW r \in Requests, Handle(r)
    PROVE  InTurn' /\ (Lifecycle!Next \/ UNCHANGED <<order, history>>)
<1>1. CASE Begin(r)
  BY <1>1, MoveInTurn DEF Begin
<1>2. CASE CheckAvailability(r)
  <2>1. pc[r] \in Pending
    BY <1>2 DEF CheckAvailability, NeedsSecondConnection
  <2>2. \/ Goto(r, "write") /\ UNCHANGED <<stock, resv, moves, order, history, arg, seen, at, tx>>
        \/ Rollback(r, "rejected")
    BY <1>2 DEF CheckAvailability
  <2> QED BY <2>1, <2>2, MoveInTurn, RollbackInTurn DEF Rollback
<1>3. CASE FindActive(r)
  <2>1. pc[r] \in Pending
    BY <1>3 DEF FindActive
  <2>2. \/ Goto(r, "write") /\ UNCHANGED <<stock, resv, moves, order, history, arg, seen, at, tx>>
        \/ Rollback(r, "rejected")
    BY <1>3 DEF FindActive
  <2> QED BY <2>1, <2>2, MoveInTurn, RollbackInTurn DEF Rollback
<1>4. CASE WriteStock(r)
  BY <1>4, WriteStockInTurn DEF WriteStock, Advance, Rollback
<1>5. CASE WriteStatus(r)
  BY <1>5, WriteStatusInTurn DEF WriteStatus, Advance
<1>6. CASE InsertOrder(r)
  BY <1>6, InsertOrderInTurn DEF InsertOrder, Advance
<1>7. CASE Commit(r)
  BY <1>7, CommitInTurn, CommitFollows
<1> QED BY <1>1, <1>2, <1>3, <1>4, <1>5, <1>6, <1>7 DEF Handle

LEMMA NextInTurn ==
    ASSUME MaxInFlight = 1, Inv, InTurn, [Next]_vars
    PROVE  InTurn' /\ (Lifecycle!Next \/ UNCHANGED <<order, history>>)
<1>1. CASE UNCHANGED vars
  BY <1>1 DEF vars, InTurn, OneAtATime
<1>2. CASE AllAnswered
  BY <1>1, <1>2 DEF AllAnswered
<1> QED BY <1>1, <1>2, ArrivalsInTurn, HandleInTurn, FailuresInTurn DEF Next

LEMMA TurnInvInit == MCInit => TurnInv /\ (handling = "in turn" => Lifecycle!Init)
<1> SUFFICES ASSUME MCInit, handling = "in turn" PROVE Inv /\ InTurn /\ Lifecycle!Init
  BY DEF TurnInv
<1>1. Init
  BY DEF MCInit
<1>2. Lifecycle!Init
  BY <1>1 DEF Init, Lifecycle!Init
<1>3. InTurn
  BY <1>1 DEF Init, InTurn, OneAtATime
<1> QED BY <1>1, <1>2, <1>3, InitFits

LEMMA TurnInvNext ==
    ASSUME MaxInFlight = 1, TurnInv, [MCNext]_<<vars, handling>>
    PROVE  /\ TurnInv'
           /\ [handling = "in turn" => Lifecycle!Next]_<<order, history>>
<1>1. handling' = handling /\ (handling = "in turn" => [Next]_vars)
  BY DEF MCNext
<1>2. CASE handling = "in turn"
  <2>1. Inv /\ InTurn /\ [Next]_vars
    BY <1>1, <1>2 DEF TurnInv
  <2>2. Inv'
    BY <2>1, NextKeeps
  <2>3. InTurn' /\ (Lifecycle!Next \/ UNCHANGED <<order, history>>)
    BY <2>1, NextInTurn
  <2> QED BY <2>2, <2>3 DEF TurnInv
<1>3. CASE handling # "in turn"
  BY <1>1, <1>3 DEF TurnInv
<1> QED BY <1>2, <1>3

\* Handled one at a time, requests move every order as OrderLifecycle says, and
\* each entry of its history names the status that change really left
\* (order.service.ts), for any orders, lines and stock, whatever is refused,
\* retried or crashes.
THEOREM LifecycleInTurn == MaxInFlight = 1 => (MCSpec => FollowsLifecycleInTurn)
<1> SUFFICES ASSUME MaxInFlight = 1 PROVE MCSpec => FollowsLifecycleInTurn OBVIOUS
<1>1. MCInit => TurnInv /\ (handling = "in turn" => Lifecycle!Init)
  BY TurnInvInit
<1>2. TurnInv /\ [MCNext]_<<vars, handling>>
          => TurnInv' /\ [handling = "in turn" => Lifecycle!Next]_<<order, history>>
  BY TurnInvNext
<1> QED BY <1>1, <1>2, PTL DEF MCSpec, FollowsLifecycleInTurn
=============================================================================
