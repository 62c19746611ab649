--------------------------- MODULE BillingProofs ---------------------------
(***************************************************************************)
(* Theorems about Billing for any invoices, payments, requests, prices,    *)
(* amounts and attempts.                                                   *)
(***************************************************************************)
EXTENDS MCBilling, FiniteSetTheorems, TLAPS

USE DEF Pending, Finished, MoneyOps

SeenRow == [number : InvoiceNumber, attempt : 1..NumberAttempts, total : Nat, paid : Nat,
            begun : Nat]
ArgRow  == {NoArg} \cup CreateArg \cup EditArg \cup RecordArg \cup AllocateArg

LEMMA TaxIsNatural ==
    ASSUME NEW s \in Nat, NEW t \in 0..100
    PROVE  TaxOf(s, t) \in Nat
<1>1. s * t \in Nat
  OBVIOUS
<1> DEFINE p == s * t
<1> HIDE DEF p
<1>2. (p + 50) \div 100 \in Nat
  BY <1>1 DEF p
<1> QED BY <1>2 DEF TaxOf, p

\* The invoices of a year can be counted.
LEMMA CountIsNatural ==
    ASSUME TypeOK, NEW y
    PROVE  IsFiniteSet(CreatedIn(y)) /\ Cardinality(CreatedIn(y)) \in Nat
BY FS_Subset, FS_CardinalityType DEF TypeOK, CreatedIn

\* Arriving changes nothing but the request's own state.
LEMMA TypeArrive ==
    ASSUME TypeOK, NEW r \in Requests,
           NEW a \in ArgRow, NEW view \in SeenRow, NEW label \in Pending \cup Finished,
           Arrive(r, a, view, label),
           label \in Pending =>
               \/ /\ a \in CreateArg
                  /\ label \in {"number", "insert"}
                  /\ a.invoice \notin DOMAIN invoice
               \/ /\ a \in EditArg
                  /\ label = "write"
                  /\ a.invoice \in DOMAIN invoice
               \/ /\ a \in RecordArg
                  /\ label = "write"
                  /\ a.payment \notin DOMAIN payment
                  /\ a.invoice \in DOMAIN invoice \cup {None}
               \/ /\ a \in AllocateArg
                  /\ label \in {"sum", "write"}
                  /\ a.payment \in DOMAIN payment
                  /\ a.invoice \in DOMAIN invoice,
           \A x \in Requests :
               /\ a.op = "create" /\ arg[x].op = "create" => arg[x].invoice # a.invoice
               /\ a.op = "record" /\ arg[x].op = "record" => arg[x].payment # a.payment
    PROVE  TypeOK'
<1>1. /\ arg' \in [Requests -> ArgRow]
      /\ arg'[r] = a
      /\ \A x \in Requests : x # r => arg'[x] = arg[x]
  BY DEF Arrive, TypeOK, ArgRow
<1>2. /\ pc' \in [Requests -> {"idle"} \cup Pending \cup Finished]
      /\ pc'[r] = label
      /\ \A x \in Requests : x # r => pc'[x] = pc[x]
  BY DEF Arrive, Goto, TypeOK
<1>3. /\ seen' \in [Requests -> SeenRow]
      /\ UNCHANGED <<invoice, payment, spent, received, tries, year>>
  BY DEF Arrive, Goto, TypeOK, SeenRow
<1>4. ASSUME NEW x \in Requests, pc'[x] \in Pending PROVE ArgumentFits(x)'
  <2>1. CASE x = r
    BY <2>1, <1>1, <1>2, <1>3, <1>4 DEF ArgumentFits
  <2>2. CASE x # r
    <3>1. ArgumentFits(x)
      BY <2>2, <1>2, <1>4 DEF TypeOK
    <3> QED BY <3>1, <2>2, <1>1, <1>2, <1>3 DEF ArgumentFits
  <2> QED BY <2>1, <2>2
<1>5. IdsAreOwn'
  BY <1>1 DEF IdsAreOwn, TypeOK
<1> QED BY <1>1, <1>2, <1>3, <1>4, <1>5 DEF TypeOK, SeenRow, ArgRow

\* A step that moves one request and touches no table.
LEMMA TypeMove ==
    ASSUME TypeOK, NEW r \in Requests, pc[r] \in Pending,
           NEW label \in Pending \cup Finished, Goto(r, label),
           label \in Pending =>
               \/ label \in {"number", "insert"} /\ pc[r] \in {"number", "insert"}
               \/ label = pc[r]
               \/ label \in {"sum", "write"} /\ arg[r].op = "allocate",
           UNCHANGED <<invoice, payment, spent, received, arg>>,
           seen' \in [Requests -> SeenRow],
           tries' \in [Requests -> 1..MaxAttempts]
    PROVE  TypeOK'
<1>1. /\ pc' \in [Requests -> {"idle"} \cup Pending \cup Finished]
      /\ pc'[r] = label
      /\ \A x \in Requests : x # r => pc'[x] = pc[x]
      /\ UNCHANGED year
  BY DEF Goto, TypeOK
<1>2. ASSUME NEW x \in Requests, pc'[x] \in Pending PROVE ArgumentFits(x)'
  <2>1. ArgumentFits(x)
    BY <1>1, <1>2 DEF TypeOK
  <2>2. CASE x # r
    BY <2>1, <2>2, <1>1 DEF ArgumentFits
  <2>3. CASE x = r
    BY <2>1, <2>3, <1>1, <1>2
       DEF ArgumentFits, CreateArg, EditArg, RecordArg, AllocateArg
  <2> QED BY <2>2, <2>3
<1> QED BY <1>1, <1>2 DEF TypeOK, SeenRow, IdsAreOwn

LEMMA TypeInit == Init => TypeOK
<1> SUFFICES ASSUME Init PROVE TypeOK OBVIOUS
<1> USE BillingAssumption
<1>1. /\ DOMAIN invoice = {} /\ invoice \in [DOMAIN invoice -> InvoiceRow]
      /\ DOMAIN payment = {} /\ payment \in [DOMAIN payment -> Amounts]
      /\ spent \in [Payments -> Nat]
      /\ received \in [Invoices -> Nat]
  BY DEF Init
<1>2. /\ pc \in [Requests -> {"idle"} \cup Pending \cup Finished]
      /\ \A r \in Requests : pc[r] \notin Pending
      /\ seen \in [Requests -> SeenRow]
      /\ tries \in [Requests -> 1..MaxAttempts]
      /\ year \in Nat
  BY DEF Init, SeenRow, NothingSeen, Seeing, NoNumber, InvoiceNumber
<1>3. /\ arg \in [Requests -> ArgRow]
      /\ \A r \in Requests : arg[r].op = "none"
  BY DEF Init, ArgRow, NoArg
<1>4. IdsAreOwn
  BY <1>3 DEF IdsAreOwn
<1> QED BY FS_EmptySet, <1>1, <1>2, <1>3, <1>4 DEF TypeOK, SeenRow, ArgRow

\* What the handlers find when they arrive.
LEMMA TypeArrivals ==
    ASSUME TypeOK, NEW r \in Requests
    PROVE  /\ \A i \in Invoices, s \in Subtotals, t \in Rates :
                  CreateFromOrder(r, i, s, t) => TypeOK'
           /\ \A i \in DOMAIN invoice :
                  /\ \A t \in Rates : UpdateTax(r, i, t) => TypeOK'
                  /\ UpdateDueDate(r, i) \/ Issue(r, i) \/ Void(r, i) => TypeOK'
           /\ \A p \in Payments, i \in Invoices \cup {None}, q \in Amounts :
                  Record(r, p, i, q) \/ Allocate(r, p, i, q) => TypeOK'
<1> USE BillingAssumption
<1>0. NothingSeen \in SeenRow /\ NothingButCount \in SeenRow
  <2>1. NothingSeen \in SeenRow
    BY DEF NothingSeen, Seeing, NoNumber, InvoiceNumber, SeenRow
  <2>2. Cardinality(DOMAIN invoice) \in Nat
    BY FS_CardinalityType DEF TypeOK
  <2> QED BY <2>1, <2>2 DEF NothingButCount, NothingSeen, SeenRow
<1>1. ASSUME NEW i \in Invoices, NEW s \in Subtotals, NEW t \in Rates,
             CreateFromOrder(r, i, s, t)
      PROVE  TypeOK'
  <2> DEFINE a == [op |-> "create", invoice |-> i, subtotal |-> s, rate |-> t]
  <2>1. Arrive(r, a, NothingButCount, "number")
    BY <1>1 DEF CreateFromOrder
  <2>2. a \in CreateArg /\ a \in ArgRow /\ a.op = "create" /\ a.invoice = i
    BY DEF CreateArg, ArgRow
  <2>3. i \notin DOMAIN invoice /\ \A x \in Requests : arg[x].op = "create" => arg[x].invoice # i
    BY <1>1 DEF CreateFromOrder
  <2> HIDE DEF a
  <2> QED BY <1>0, <2>1, <2>2, <2>3, TypeArrive
<1>2. ASSUME NEW i \in DOMAIN invoice, NEW op \in {"update", "issue", "void"},
             NEW view \in SeenRow, NEW label \in {"write", "rejected"},
             Arrive(r, [op |-> op, invoice |-> i], view, label)
      PROVE  TypeOK'
  <2> DEFINE a == [op |-> op, invoice |-> i]
  <2>1. Arrive(r, a, view, label)
    BY <1>2
  <2>2. a \in EditArg /\ a \in ArgRow /\ a.op \notin {"create", "record"} /\ a.invoice = i
    BY DEF EditArg, ArgRow, TypeOK
  <2> HIDE DEF a
  <2> QED BY <2>1, <2>2, TypeArrive
<1>3. ASSUME NEW i \in DOMAIN invoice, NEW total \in Nat, Update(r, i, total) PROVE TypeOK'
  <2> DEFINE view == Seeing(total, 0)
             label == IF invoice[i].status \in Editable THEN "write" ELSE "rejected"
  <2>1. Arrive(r, [op |-> "update", invoice |-> i], view, label)
    BY <1>3 DEF Update
  <2>2. view \in SeenRow /\ label \in {"write", "rejected"}
    BY DEF SeenRow, NoNumber, InvoiceNumber, Seeing
  <2> HIDE DEF view, label
  <2> QED BY <2>1, <2>2, <1>2
<1>4. ASSUME NEW i \in DOMAIN invoice, NEW t \in Rates, UpdateTax(r, i, t) PROVE TypeOK'
  <2>1. invoice[i].subtotal \in Nat
    BY DEF TypeOK, InvoiceRow
  <2>2. invoice[i].subtotal + TaxOf(invoice[i].subtotal, t) \in Nat
    <3>1. t \in 0..100
      OBVIOUS
    <3>2. TaxOf(invoice[i].subtotal, t) \in Nat
      BY <2>1, <3>1, TaxIsNatural
    <3> QED BY <2>1, <3>2
  <2> QED BY <1>3, <1>4, <2>2 DEF UpdateTax
<1>5. ASSUME NEW i \in DOMAIN invoice, UpdateDueDate(r, i) \/ Issue(r, i) \/ Void(r, i)
      PROVE  TypeOK'
  <2>1. invoice[i].total \in Nat
    BY DEF TypeOK, InvoiceRow
  <2>2. CASE UpdateDueDate(r, i)
    BY <2>1, <2>2, <1>3 DEF UpdateDueDate
  <2>3. CASE Issue(r, i)
    <3> DEFINE label == IF invoice[i].status = "DRAFT" THEN "write" ELSE "rejected"
    <3>1. Arrive(r, [op |-> "issue", invoice |-> i], NothingSeen, label)
      BY <2>3 DEF Issue
    <3>2. label \in {"write", "rejected"}
      OBVIOUS
    <3> HIDE DEF label
    <3> QED BY <3>1, <3>2, <1>0, <1>2
  <2>4. CASE Void(r, i)
    <3> DEFINE label == IF invoice[i].status \in Voidable THEN "write" ELSE "rejected"
    <3>1. Arrive(r, [op |-> "void", invoice |-> i], NothingSeen, label)
      BY <2>4 DEF Void
    <3>2. label \in {"write", "rejected"}
      OBVIOUS
    <3> HIDE DEF label
    <3> QED BY <3>1, <3>2, <1>0, <1>2
  <2> QED BY <1>5, <2>2, <2>3, <2>4
<1>6. \A i \in DOMAIN invoice : View(i) \in SeenRow
  BY DEF View, SeenRow, NoNumber, InvoiceNumber, Seeing, TypeOK, InvoiceRow
<1>7. ASSUME NEW p \in Payments, NEW i \in Invoices \cup {None}, NEW q \in Amounts,
             Record(r, p, i, q)
      PROVE  TypeOK'
  <2> DEFINE a == [op |-> "record", payment |-> p, invoice |-> i, amount |-> q]
  <2>1. PICK view \in SeenRow, label \in {"write", "rejected"} :
            /\ Arrive(r, a, view, label)
            /\ i \in DOMAIN invoice \cup {None}
    <3>1. CASE i = None /\ Arrive(r, a, NothingSeen, "write")
      BY <1>0, <3>1
    <3>2. CASE /\ i \in DOMAIN invoice
               /\ Arrive(r, a, View(i), IF AcceptsPayment(i, q) THEN "write" ELSE "rejected")
      BY <1>6, <3>2
    <3> QED BY <1>7, <3>1, <3>2 DEF Record
  <2>2. /\ a \in RecordArg /\ a \in ArgRow
        /\ a.op = "record" /\ a.payment = p /\ a.invoice = i
    BY DEF RecordArg, ArgRow
  <2>3. /\ p \notin DOMAIN payment
        /\ \A x \in Requests : arg[x].op = "record" => arg[x].payment # p
    BY <1>7 DEF Record
  <2> HIDE DEF a
  <2> QED BY <2>1, <2>2, <2>3, TypeArrive
<1>8. ASSUME NEW p \in Payments, NEW i \in Invoices \cup {None}, NEW q \in Amounts,
             Allocate(r, p, i, q)
      PROVE  TypeOK'
  <2> DEFINE a == [op |-> "allocate", payment |-> p, invoice |-> i, amount |-> q]
             label == IF AcceptsPayment(i, q) THEN "sum" ELSE "rejected"
  <2>1. Arrive(r, a, View(i), label) /\ p \in DOMAIN payment /\ i \in DOMAIN invoice
    BY <1>8 DEF Allocate
  <2>2. /\ a \in AllocateArg /\ a \in ArgRow /\ a.op = "allocate"
        /\ a.payment = p /\ a.invoice = i
    BY <2>1 DEF AllocateArg, ArgRow, TypeOK
  <2>3. View(i) \in SeenRow /\ label \in {"sum", "rejected"}
    BY <2>1, <1>6
  <2> HIDE DEF a, label
  <2> QED BY <2>1, <2>2, <2>3, TypeArrive
<1> QED BY <1>1, <1>4, <1>5, <1>7, <1>8

\* The transactions, and the steps that lead to them.
LEMMA TypeHandle ==
    ASSUME TypeOK, NEW r \in Requests, Handle(r)
    PROVE  TypeOK'
<1> USE BillingAssumption
<1>0. seen[r] \in SeenRow /\ seen \in [Requests -> SeenRow] /\ tries \in [Requests -> 1..MaxAttempts]
  BY DEF TypeOK, SeenRow
<1>1. CASE TakeNumber(r)
  <2>1. NextNumber \in InvoiceNumber
    <3>1. Cardinality(CreatedIn(year)) \in Nat
      BY CountIsNatural
    <3> QED BY <3>1 DEF NextNumber, InvoiceNumber, TypeOK
  <2>2. seen' \in [Requests -> SeenRow]
    BY <1>0, <1>1, <2>1 DEF TakeNumber, SeenRow
  <2> QED BY <1>0, <1>1, <2>2, TypeMove DEF TakeNumber
<1>2. CASE InsertInvoice(r)
  <2> DEFINE i == arg[r].invoice
             row == [number   |-> seen[r].number,
                     created  |-> year,
                     subtotal |-> arg[r].subtotal,
                     total    |-> arg[r].subtotal + TaxOf(arg[r].subtotal, arg[r].rate),
                     paid     |-> 0,
                     status   |-> "DRAFT"]
  <2>1. arg[r] \in CreateArg /\ i \notin DOMAIN invoice /\ i \in Invoices
    BY <1>2 DEF InsertInvoice, TypeOK, ArgumentFits, CreateArg, EditArg, RecordArg, AllocateArg
  <2>2. row \in InvoiceRow /\ row.paid <= row.total
    <3>1. arg[r].subtotal \in Nat /\ arg[r].rate \in 0..100
      BY <2>1 DEF CreateArg
    <3>2. TaxOf(arg[r].subtotal, arg[r].rate) \in Nat
      BY <3>1, TaxIsNatural
    <3> QED BY <1>0, <3>1, <3>2 DEF InvoiceRow, InvoiceStatus, SeenRow, TypeOK
  <2>3. invoice' = Put(invoice, i, row)
    BY <1>2 DEF InsertInvoice
  <2>4. /\ DOMAIN invoice' = DOMAIN invoice \cup {i}
        /\ DOMAIN invoice' \subseteq Invoices
        /\ IsFiniteSet(DOMAIN invoice')
    BY <2>1, <2>3, FS_AddElement DEF Put, TypeOK
  <2>5. \A x \in DOMAIN invoice' : /\ invoice'[x] \in InvoiceRow
                                   /\ invoice'[x].paid <= invoice'[x].total
    <3> HIDE DEF row, i
    <3> QED BY <2>2, <2>3 DEF Put, TypeOK
  <2>6. invoice' \in [DOMAIN invoice' -> InvoiceRow]
    <3> HIDE DEF row, i
    <3> QED BY <2>3, <2>5 DEF Put
  <2>7. /\ pc' \in [Requests -> {"idle"} \cup Pending \cup Finished]
        /\ pc'[r] = "done"
        /\ \A x \in Requests : x # r => pc'[x] = pc[x]
        /\ UNCHANGED <<payment, spent, received, arg, seen, tries, year>>
    BY <1>2 DEF InsertInvoice, Goto, TypeOK
  <2>8. ASSUME NEW x \in Requests, pc'[x] \in Pending PROVE ArgumentFits(x)'
    <3>1. x # r /\ ArgumentFits(x)
      BY <2>7, <2>8 DEF TypeOK
    <3>2. arg[x] \in CreateArg => arg[x].invoice # i
      BY <2>1, <3>1 DEF TypeOK, IdsAreOwn, CreateArg
    <3> QED BY <2>4, <2>7, <3>1, <3>2 DEF ArgumentFits
  <2> QED BY <2>4, <2>5, <2>6, <2>7, <2>8 DEF TypeOK, IdsAreOwn
<1>3. CASE NumberTaken(r)
  <2>1. /\ seen' \in [Requests -> SeenRow]
        /\ tries' \in [Requests -> 1..MaxAttempts]
    BY <1>0, <1>3 DEF NumberTaken, SeenRow
  <2> QED BY <1>3, <2>1, TypeMove DEF NumberTaken
<1>4. CASE ReadAllocations(r)
  <2>1. arg[r].op = "allocate"
    BY <1>4 DEF ReadAllocations, TypeOK, ArgumentFits, AllocateArg
  <2> DEFINE label == IF arg[r].amount <= payment[arg[r].payment] - spent[arg[r].payment]
                      THEN "write" ELSE "rejected"
  <2>2. Goto(r, label) /\ label \in {"write", "rejected"}
    BY <1>4 DEF ReadAllocations
  <2> HIDE DEF label
  <2> QED BY <1>0, <1>4, <2>1, <2>2, TypeMove DEF ReadAllocations
<1>5. CASE CommitMoney(r)
  <2>1. /\ arg[r] \in RecordArg \cup AllocateArg
        /\ arg[r].amount \in Amounts /\ arg[r].amount \in Nat
        /\ arg[r].payment \in Payments
        /\ arg[r].op # "record" => arg[r].payment \in DOMAIN payment
        /\ arg[r].invoice \in DOMAIN invoice \cup {None}
    BY <1>5 DEF CommitMoney, TypeOK, ArgumentFits, CreateArg, EditArg, RecordArg, AllocateArg
  <2>2. /\ pc' \in [Requests -> {"idle"} \cup Pending \cup Finished]
        /\ pc'[r] = "done"
        /\ \A x \in Requests : x # r => pc'[x] = pc[x]
        /\ UNCHANGED <<arg, seen, tries, year>>
    BY <1>5 DEF CommitMoney, Goto, TypeOK
  <2>3. /\ payment' \in [DOMAIN payment' -> Amounts]
        /\ DOMAIN payment' \subseteq Payments
        /\ DOMAIN payment \subseteq DOMAIN payment'
        /\ DOMAIN payment' \subseteq DOMAIN payment \cup {arg[r].payment}
        /\ arg[r].op # "record" => DOMAIN payment' = DOMAIN payment
    BY <1>5, <2>1 DEF CommitMoney, Put, TypeOK
  <2>4. /\ DOMAIN invoice' = DOMAIN invoice
        /\ invoice' \in [DOMAIN invoice -> InvoiceRow]
        /\ \A i \in DOMAIN invoice : invoice'[i].paid <= invoice'[i].total
        /\ spent' \in [Payments -> Nat]
        /\ received' \in [Invoices -> Nat]
    <3>1. CASE arg[r].invoice = None
      BY <1>5, <3>1 DEF CommitMoney, TypeOK
    <3>2. CASE arg[r].invoice # None
      <4>1. arg[r].invoice \in DOMAIN invoice /\ arg[r].invoice \in Invoices
        BY <2>1, <3>2 DEF TypeOK
      <4>2. Credited(r) \in InvoiceRow
        <5>1. seen[r].paid + arg[r].amount \in Nat
          BY <1>0, <2>1 DEF SeenRow
        <5>2. PICK row \in InvoiceRow : row = invoice[arg[r].invoice]
          BY <4>1 DEF TypeOK
        <5>3. PICK paid \in InvoiceRow : paid = [row EXCEPT !.paid = PaidAfter(r)]
          BY <5>1 DEF PaidAfter, InvoiceRow
        <5>4. PICK status \in InvoiceStatus :
                  status = IF PaidAfter(r) >= seen[r].total THEN "PAID" ELSE row.status
          BY DEF InvoiceRow, InvoiceStatus
        <5>5. Credited(r) = [paid EXCEPT !.status = status]
          BY <5>2, <5>3, <5>4 DEF Credited
        <5>6. [paid EXCEPT !.status = status] \in InvoiceRow
          BY DEF InvoiceRow
        <5> QED BY <5>5, <5>6
      <4>3. /\ Credited(r).paid <= Credited(r).total
            /\ invoice' = [invoice EXCEPT ![arg[r].invoice] = Credited(r)]
            /\ spent' = [spent EXCEPT ![arg[r].payment] = @ + arg[r].amount]
            /\ received' = [received EXCEPT ![arg[r].invoice] = @ + arg[r].amount]
        BY <1>5, <3>2 DEF CommitMoney, PaidCheckHolds
      <4>4. /\ spent' \in [Payments -> Nat]
            /\ received' \in [Invoices -> Nat]
        BY <4>1, <4>3, <2>1 DEF TypeOK
      <4> QED BY <4>1, <4>2, <4>3, <4>4 DEF TypeOK
    <3> QED BY <3>1, <3>2
  <2>5. ASSUME NEW x \in Requests, pc'[x] \in Pending PROVE ArgumentFits(x)'
    <3>1. x # r /\ ArgumentFits(x)
      BY <2>2, <2>5 DEF TypeOK
    <3>2. arg[x] \in RecordArg /\ arg[r].op = "record" => arg[x].payment # arg[r].payment
      BY <3>1 DEF TypeOK, IdsAreOwn, RecordArg
    <3> QED BY <2>2, <2>3, <2>4, <3>1, <3>2 DEF ArgumentFits
  <2> QED BY <2>2, <2>3, <2>4, <2>5 DEF TypeOK, IdsAreOwn
<1>6. CASE CommitEdit(r)
  <2>1. arg[r].invoice \in DOMAIN invoice
    BY <1>6 DEF CommitEdit, TypeOK, ArgumentFits, CreateArg, EditArg, RecordArg, AllocateArg
  <2>2. Edited(r) \in InvoiceRow /\ Edited(r).paid <= Edited(r).total
    <3>1. PICK row \in InvoiceRow : row = invoice[arg[r].invoice]
      BY <2>1 DEF TypeOK
    <3>2. PICK t \in Nat : t = seen[r].total
      BY <1>0 DEF SeenRow
    <3>3. PICK s \in InvoiceStatus : s = IF arg[r].op = "issue" THEN "SENT" ELSE "VOID"
      BY DEF InvoiceStatus
    <3>4. [row EXCEPT !.total = t] \in InvoiceRow /\ [row EXCEPT !.status = s] \in InvoiceRow
      BY DEF InvoiceRow
    <3>5. Edited(r) = IF arg[r].op = "update" THEN [row EXCEPT !.total = t]
                      ELSE [row EXCEPT !.status = s]
      BY <3>1, <3>2, <3>3 DEF Edited
    <3> QED BY <1>6, <3>4, <3>5 DEF CommitEdit, PaidCheckHolds
  <2>3. /\ DOMAIN invoice' = DOMAIN invoice
        /\ invoice' \in [DOMAIN invoice -> InvoiceRow]
        /\ \A i \in DOMAIN invoice : invoice'[i].paid <= invoice'[i].total
    BY <1>6, <2>1, <2>2 DEF CommitEdit, TypeOK
  <2>4. /\ pc' \in [Requests -> {"idle"} \cup Pending \cup Finished]
        /\ pc'[r] = "done"
        /\ \A x \in Requests : x # r => pc'[x] = pc[x]
        /\ UNCHANGED <<payment, spent, received, arg, seen, tries, year>>
    BY <1>6 DEF CommitEdit, Goto, TypeOK
  <2>5. ASSUME NEW x \in Requests, pc'[x] \in Pending PROVE ArgumentFits(x)'
    <3>1. ArgumentFits(x)
      BY <2>4, <2>5 DEF TypeOK
    <3> QED BY <2>3, <2>4, <2>5, <3>1 DEF ArgumentFits
  <2> QED BY <2>3, <2>4, <2>5 DEF TypeOK, IdsAreOwn
<1>7. CASE CheckViolation(r)
  BY <1>0, <1>7, TypeMove DEF CheckViolation
<1> QED BY <1>1, <1>2, <1>3, <1>4, <1>5, <1>6, <1>7 DEF Handle

LEMMA TypeNext == TypeOK /\ [Next]_vars => TypeOK'
<1> SUFFICES ASSUME TypeOK, [Next]_vars PROVE TypeOK' OBVIOUS
<1> USE BillingAssumption
<1>1. ASSUME NEW r \in Requests, TransientError(r) PROVE TypeOK'
  <2>1. /\ seen' \in [Requests -> SeenRow]
        /\ tries' \in [Requests -> 1..MaxAttempts]
    BY <1>1 DEF TransientError, TypeOK, SeenRow
  <2>2. PICK label \in {"insert", "sum", "write", "failed"} :
            /\ Goto(r, label)
            /\ label \in Pending => label = pc[r] \/ (label = "sum" /\ arg[r].op = "allocate")
    BY <1>1 DEF TransientError
  <2> QED BY <1>1, <2>1, <2>2, TypeMove DEF TransientError
<1>2. ASSUME NEW r \in Requests, Crash(r) PROVE TypeOK'
  <2>1. /\ seen' \in [Requests -> SeenRow]
        /\ tries' \in [Requests -> 1..MaxAttempts]
    BY <1>2 DEF Crash, TypeOK, SeenRow
  <2> QED BY <1>2, <2>1, TypeMove DEF Crash
<1>3. CASE UNCHANGED vars
  BY <1>3 DEF vars, TypeOK, ArgumentFits, IdsAreOwn
<1>4. CASE NextYear
  BY <1>4 DEF NextYear, TypeOK, ArgumentFits, IdsAreOwn
<1> QED BY <1>1, <1>2, <1>3, <1>4, TypeArrivals, TypeHandle DEF Next, Quiet

\* The tables keep their types and amount_paid never passes total_amount; a
\* request in progress refers to rows that exist or that it alone will create.
THEOREM TypeCorrect == Spec => []TypeOK
<1>1. Init => TypeOK
  BY TypeInit
<1>2. TypeOK /\ [Next]_vars => TypeOK'
  BY TypeNext
<1> QED BY <1>1, <1>2, PTL DEF Spec

-----------------------------------------------------------------------------
(* Numbers.                                                                *)

\* No number is ahead of the count of its year, while the year lasts; a number
\* of a year to come is not known.
NumbersInReach ==
    \A i \in DOMAIN invoice :
        /\ invoice[i].number.year <= year
        /\ invoice[i].number.year = year
               => invoice[i].number.place <= Cardinality(CreatedIn(year))

\* Neither is a number in hand, by more than one.
HandsInReach ==
    \A r \in Requests : pc[r] = "insert" =>
        /\ seen[r].number.year <= year
        /\ seen[r].number.year = year
               => seen[r].number.place <= Cardinality(CreatedIn(year)) + 1

\* Each attempt that failed left an invoice behind that was not there when the
\* request arrived, and so does the attempt that is going to fail.
Overtaken ==
    \A r \in Requests :
        /\ pc[r] \in {"number", "insert"}
               => Cardinality(DOMAIN invoice) >= seen[r].begun + seen[r].attempt - 1
        /\ pc[r] = "insert" /\ seen[r].number \in Numbers
               => Cardinality(DOMAIN invoice) >= seen[r].begun + seen[r].attempt

NumbersDiffer ==
    \A i, j \in DOMAIN invoice : invoice[i].number = invoice[j].number => i = j

NumbersInv ==
    /\ NumbersInReach /\ HandsInReach /\ NumbersDiffer
    /\ Overtaken /\ RefusedOnlyWhenOvertaken

\* What the count gives is past every number of the year.
LEMMA NextIsFree ==
    ASSUME TypeOK, NumbersInReach
    PROVE  NextNumber \notin Numbers
<1> SUFFICES ASSUME NEW i \in DOMAIN invoice, invoice[i].number = NextNumber PROVE FALSE
  BY DEF Numbers
<1>1. Cardinality(CreatedIn(year)) \in Nat
  BY CountIsNatural
<1>2. invoice[i].number.year = year /\ invoice[i].number.place = Cardinality(CreatedIn(year)) + 1
  BY DEF NextNumber
<1> QED BY <1>1, <1>2 DEF NumbersInReach

\* An insertion adds one invoice to those there are and to those of the year.
LEMMA InsertAddsOne ==
    ASSUME TypeOK, NEW r \in Requests, InsertInvoice(r)
    PROVE  /\ DOMAIN invoice' = DOMAIN invoice \cup {arg[r].invoice}
           /\ arg[r].invoice \notin DOMAIN invoice
           /\ invoice'[arg[r].invoice].number = seen[r].number
           /\ \A i \in DOMAIN invoice : invoice'[i] = invoice[i]
           /\ Cardinality(DOMAIN invoice') = Cardinality(DOMAIN invoice) + 1
           /\ Cardinality(CreatedIn(year)') = Cardinality(CreatedIn(year)) + 1
           /\ year' = year
<1>1. arg[r].invoice \notin DOMAIN invoice
  BY DEF InsertInvoice, TypeOK, ArgumentFits, CreateArg, EditArg, RecordArg, AllocateArg
<1>2. /\ DOMAIN invoice' = DOMAIN invoice \cup {arg[r].invoice}
      /\ invoice'[arg[r].invoice].number = seen[r].number
      /\ invoice'[arg[r].invoice].created = year
      /\ \A i \in DOMAIN invoice : invoice'[i] = invoice[i]
      /\ year' = year
  BY <1>1 DEF InsertInvoice, Put, Goto
<1>3. Cardinality(DOMAIN invoice') = Cardinality(DOMAIN invoice) + 1
  BY <1>1, <1>2, FS_AddElement DEF TypeOK
<1>4. CreatedIn(year)' = CreatedIn(year) \cup {arg[r].invoice}
  BY <1>1, <1>2 DEF CreatedIn
<1>5. Cardinality(CreatedIn(year)') = Cardinality(CreatedIn(year)) + 1
  <2>1. arg[r].invoice \notin CreatedIn(year)
    BY <1>1 DEF CreatedIn
  <2> QED BY <1>4, <2>1, CountIsNatural, FS_AddElement
<1> QED BY <1>1, <1>2, <1>3, <1>5

LEMMA NumbersInit == Init => NumbersInv
<1> SUFFICES ASSUME Init PROVE NumbersInv OBVIOUS
<1>1. DOMAIN invoice = {} /\ \A r \in Requests : pc[r] = "idle"
  BY DEF Init
<1> QED BY <1>1 DEF NumbersInv, NumbersInReach, HandsInReach, NumbersDiffer, Overtaken,
                    RefusedOnlyWhenOvertaken

\* The rows that payments and edits leave keep their number and their year.
LEMMA RowsLeft ==
    ASSUME TypeOK, NEW r \in Requests, arg[r].invoice \in DOMAIN invoice
    PROVE  /\ Credited(r).number = invoice[arg[r].invoice].number
           /\ Credited(r).paid = PaidAfter(r)
           /\ Credited(r).created = invoice[arg[r].invoice].created
           /\ Edited(r).number = invoice[arg[r].invoice].number
           /\ Edited(r).created = invoice[arg[r].invoice].created
           /\ Edited(r).paid = invoice[arg[r].invoice].paid
<1>1. PICK row \in InvoiceRow : row = invoice[arg[r].invoice]
  BY DEF TypeOK
<1>2. ASSUME NEW k, NEW s PROVE LET new == [row EXCEPT !.paid = k, !.status = s]
                                IN  /\ new.number = row.number /\ new.paid = k
                                    /\ new.created = row.created
  BY DEF InvoiceRow
<1>3. ASSUME NEW k PROVE /\ [row EXCEPT !.total = k].number = row.number
                         /\ [row EXCEPT !.total = k].created = row.created
                         /\ [row EXCEPT !.total = k].paid = row.paid
                         /\ [row EXCEPT !.status = k].number = row.number
                         /\ [row EXCEPT !.status = k].created = row.created
                         /\ [row EXCEPT !.status = k].paid = row.paid
  BY DEF InvoiceRow
<1>4. /\ Credited(r).number = row.number /\ Credited(r).paid = PaidAfter(r)
      /\ Credited(r).created = row.created
  BY <1>1, <1>2 DEF Credited
<1>5. /\ Edited(r).number = row.number /\ Edited(r).paid = row.paid
      /\ Edited(r).created = row.created
  BY <1>1, <1>3 DEF Edited
<1> QED BY <1>1, <1>4, <1>5

\* A request that writes names an invoice that exists, or none.
LEMMA WriteTarget ==
    ASSUME TypeOK, NEW r \in Requests, pc[r] = "write"
    PROVE  /\ arg[r].invoice # None => arg[r].invoice \in DOMAIN invoice
           /\ arg[r].op \in {"update", "issue", "void"} => arg[r].invoice \in DOMAIN invoice
           /\ arg[r].op \in MoneyOps => /\ arg[r].amount \in Amounts
                                        /\ arg[r].payment \in Payments
BY DEF TypeOK, ArgumentFits, CreateArg, EditArg, RecordArg, AllocateArg

\* A request that goes on at label has read what it was asked about as it is.
ReadsNow(a, view, label) ==
    LET i == a.invoice
    IN  /\ a.op = "update" => invoice[i].status \in Editable
        /\ a.op = "issue" => invoice[i].status = "DRAFT"
        /\ a.op = "void" => invoice[i].status \in Voidable
        /\ a.op \in MoneyOps /\ i # None
               => /\ AcceptsPayment(i, a.amount)
                  /\ view.total = invoice[i].total /\ view.paid = invoice[i].paid
        /\ a.op = "allocate" /\ label = "write"
               => a.amount <= payment[a.payment] - spent[a.payment]

\* All but the year.
Elsewhere == <<invoice, payment, spent, received, pc, arg, seen, tries>>

\* A step is the arrival of a request, a step of its handler, or none of them.
Arrival(r, a, view, label) ==
    /\ Arrive(r, a, view, label)
    /\ label \in {"number", "insert"} => label = "number" /\ view = NothingButCount
    /\ label = "rejected" => a.op # "create"
    /\ label \in {"sum", "write"} /\ a.op \in MoneyOps /\ a.invoice # None
           => view = View(a.invoice) /\ a.invoice \in DOMAIN invoice
    /\ label # "rejected" => ReadsNow(a, view, label)

LEMMA StepCases ==
    ASSUME [Next]_vars
    PROVE  \/ \E r \in Requests : \E a, view, label : Arrival(r, a, view, label)
           \/ \E r \in Requests : Handle(r) \/ TransientError(r) \/ Crash(r)
           \/ UNCHANGED Elsewhere
<1> DEFINE Arrives(r) == \E a, view, label : Arrival(r, a, view, label)
<1>1. ASSUME NEW r \in Requests, NEW i, NEW s, NEW t, CreateFromOrder(r, i, s, t)
      PROVE  Arrives(r)
  <2> DEFINE a == [op |-> "create", invoice |-> i, subtotal |-> s, rate |-> t]
  <2>1. a.op = "create" /\ Arrive(r, a, NothingButCount, "number")
    BY <1>1 DEF CreateFromOrder
  <2> HIDE DEF a
  <2>2. Arrival(r, a, NothingButCount, "number")
    BY <2>1 DEF Arrival, ReadsNow, MoneyOps
  <2> QED BY <2>2
<1>2. ASSUME NEW r \in Requests, NEW i, NEW op \in {"update", "issue", "void"}, NEW view,
             NEW label \in {"write", "rejected"},
             label = "write" => /\ op = "update" => invoice[i].status \in Editable
                                /\ op = "issue" => invoice[i].status = "DRAFT"
                                /\ op = "void" => invoice[i].status \in Voidable,
             Arrive(r, [op |-> op, invoice |-> i], view, label)
      PROVE  Arrives(r)
  <2> DEFINE a == [op |-> op, invoice |-> i]
  <2>1. a.op = op /\ a.invoice = i /\ Arrive(r, a, view, label)
    BY <1>2
  <2> HIDE DEF a
  <2>2. label # "rejected" => ReadsNow(a, view, label)
    BY <1>2, <2>1 DEF ReadsNow, MoneyOps
  <2>3. Arrival(r, a, view, label)
    BY <2>1, <2>2 DEF Arrival, MoneyOps
  <2> QED BY <2>3
<1>3. ASSUME NEW r \in Requests, NEW i, NEW total, Update(r, i, total) PROVE Arrives(r)
  <2>1. PICK label \in {"write", "rejected"} :
            label = IF invoice[i].status \in Editable THEN "write" ELSE "rejected"
    OBVIOUS
  <2>2. Arrive(r, [op |-> "update", invoice |-> i], Seeing(total, 0), label)
    BY <1>3, <2>1 DEF Update
  <2> QED BY <1>2, <2>1, <2>2
<1>4. ASSUME NEW r \in Requests, NEW i, Issue(r, i) PROVE Arrives(r)
  <2>1. PICK label \in {"write", "rejected"} :
            label = IF invoice[i].status = "DRAFT" THEN "write" ELSE "rejected"
    OBVIOUS
  <2>2. Arrive(r, [op |-> "issue", invoice |-> i], NothingSeen, label)
    BY <1>4, <2>1 DEF Issue
  <2> QED BY <1>2, <2>1, <2>2
<1>5. ASSUME NEW r \in Requests, NEW i, Void(r, i) PROVE Arrives(r)
  <2>1. PICK label \in {"write", "rejected"} :
            label = IF invoice[i].status \in Voidable THEN "write" ELSE "rejected"
    OBVIOUS
  <2>2. Arrive(r, [op |-> "void", invoice |-> i], NothingSeen, label)
    BY <1>5, <2>1 DEF Void
  <2> QED BY <1>2, <2>1, <2>2
<1>6. ASSUME NEW r \in Requests, NEW p, NEW i, NEW q, Record(r, p, i, q) PROVE Arrives(r)
  <2> DEFINE a == [op |-> "record", payment |-> p, invoice |-> i, amount |-> q]
  <2>1. a.op = "record" /\ a.invoice = i /\ a.amount = q
    OBVIOUS
  <2>2. CASE i = None /\ Arrive(r, a, NothingSeen, "write")
    <3> HIDE DEF a
    <3>1. Arrival(r, a, NothingSeen, "write")
      BY <2>1, <2>2 DEF Arrival, ReadsNow
    <3> QED BY <3>1
  <2>3. CASE /\ i \in DOMAIN invoice
             /\ Arrive(r, a, View(i), IF AcceptsPayment(i, q) THEN "write" ELSE "rejected")
    <3>1. PICK label \in {"write", "rejected"} :
              label = IF AcceptsPayment(i, q) THEN "write" ELSE "rejected"
      OBVIOUS
    <3> HIDE DEF a
    <3>2. Arrival(r, a, View(i), label)
      BY <2>1, <2>3, <3>1 DEF Arrival, ReadsNow, View, Seeing
    <3> QED BY <3>2
  <2> HIDE DEF Arrives
  <2> QED BY <1>6, <2>2, <2>3 DEF Record
<1>7. ASSUME NEW r \in Requests, NEW p, NEW i, NEW q, Allocate(r, p, i, q) PROVE Arrives(r)
  <2> DEFINE a == [op |-> "allocate", payment |-> p, invoice |-> i, amount |-> q]
  <2>1. a.op = "allocate" /\ a.invoice = i /\ a.amount = q
    OBVIOUS
  <2>2. PICK label \in {"sum", "rejected"} :
            label = IF AcceptsPayment(i, q) THEN "sum" ELSE "rejected"
    OBVIOUS
  <2>3. Arrive(r, a, View(i), label) /\ i \in DOMAIN invoice
    BY <1>7, <2>2 DEF Allocate
  <2> HIDE DEF a
  <2>4. Arrival(r, a, View(i), label)
    BY <2>1, <2>2, <2>3 DEF Arrival, ReadsNow, View, Seeing
  <2> QED BY <2>4
<1> HIDE DEF Arrives
<1>8. \/ \E r \in Requests : Arrives(r)
      \/ \E r \in Requests : Handle(r) \/ TransientError(r) \/ Crash(r)
      \/ UNCHANGED Elsewhere
  BY <1>1, <1>3, <1>4, <1>5, <1>6, <1>7
     DEF Next, Quiet, NextYear, vars, Elsewhere, UpdateTax, UpdateDueDate
<1> QED BY <1>8 DEF Arrives

\* Every other step leaves the numbers alone.
LEMMA NumbersStay ==
    ASSUME TypeOK, [Next]_vars, \A r \in Requests : ~InsertInvoice(r)
    PROVE  /\ DOMAIN invoice' = DOMAIN invoice
           /\ \A i \in DOMAIN invoice : /\ invoice'[i].number = invoice[i].number
                                        /\ invoice'[i].created = invoice[i].created
<1> DEFINE Stay == /\ DOMAIN invoice' = DOMAIN invoice
                   /\ \A i \in DOMAIN invoice : /\ invoice'[i].number = invoice[i].number
                                                /\ invoice'[i].created = invoice[i].created
<1>1. ASSUME NEW r \in Requests, CommitMoney(r), arg[r].invoice # None PROVE Stay
  <2>1. arg[r].invoice \in DOMAIN invoice
    BY <1>1, WriteTarget DEF CommitMoney
  <2>2. invoice' = [invoice EXCEPT ![arg[r].invoice] = Credited(r)]
    BY <1>1 DEF CommitMoney
  <2> QED BY <2>1, <2>2, RowsLeft
<1>2. ASSUME NEW r \in Requests, CommitEdit(r) PROVE Stay
  <2>1. arg[r].invoice \in DOMAIN invoice
    BY <1>2, WriteTarget DEF CommitEdit
  <2>2. invoice' = [invoice EXCEPT ![arg[r].invoice] = Edited(r)]
    BY <1>2 DEF CommitEdit
  <2> QED BY <2>1, <2>2, RowsLeft
<1>3. ASSUME NEW r \in Requests,
             \/ CommitMoney(r) /\ arg[r].invoice = None
             \/ TakeNumber(r) \/ NumberTaken(r) \/ ReadAllocations(r) \/ CheckViolation(r)
             \/ TransientError(r) \/ Crash(r)
      PROVE  UNCHANGED invoice
  BY <1>3 DEF CommitMoney, TakeNumber, NumberTaken, ReadAllocations, CheckViolation,
              TransientError, Crash
<1>4. ASSUME NEW r \in Requests, NEW a, NEW view, NEW label, Arrival(r, a, view, label)
      PROVE  UNCHANGED invoice
  BY <1>4 DEF Arrival, Arrive
<1>5. UNCHANGED Elsewhere => UNCHANGED invoice
  BY DEF Elsewhere
<1>6. UNCHANGED invoice => Stay
  OBVIOUS
<1> HIDE DEF Stay
<1>7. ASSUME NEW r \in Requests, Handle(r) \/ TransientError(r) \/ Crash(r) PROVE Stay
  BY <1>1, <1>2, <1>3, <1>6, <1>7 DEF Handle
<1>8. ASSUME NEW r \in Requests, \E a, view, label : Arrival(r, a, view, label) PROVE Stay
  BY <1>4, <1>6, <1>8
<1>9. ASSUME UNCHANGED Elsewhere PROVE Stay
  BY <1>5, <1>6, <1>9
<1>10. Stay
  BY <1>7, <1>8, <1>9, StepCases
<1> QED BY <1>10 DEF Stay

\* Years pass one by one, and in steps of their own.
LEMMA YearStep ==
    ASSUME [Next]_vars
    PROVE  \/ year' = year
           \/ year' = year + 1 /\ UNCHANGED Elsewhere
<1>1. \A r \in Requests : \A a, view, label : Arrive(r, a, view, label) => year' = year
  BY DEF Arrive, Goto
<1>2. ASSUME NEW r \in Requests, Handle(r) \/ TransientError(r) \/ Crash(r)
      PROVE  year' = year
  BY <1>2 DEF Handle, TakeNumber, InsertInvoice, NumberTaken, ReadAllocations, CommitMoney,
              CommitEdit, CheckViolation, TransientError, Crash, Goto
<1>3. CASE NextYear
  BY <1>3 DEF NextYear, Elsewhere
<1>4. CASE UNCHANGED vars
  BY <1>4 DEF vars
<1>5. ASSUME NEW r \in Requests
      PROVE  /\ \A i, s, t : CreateFromOrder(r, i, s, t) => year' = year
             /\ \A i, t : Update(r, i, t) => year' = year
             /\ \A i : Issue(r, i) \/ Void(r, i) => year' = year
  BY <1>1 DEF CreateFromOrder, Update, Issue, Void
<1>6. ASSUME NEW r \in Requests, NEW p, NEW i, NEW q, Record(r, p, i, q)
      PROVE  year' = year
  BY <1>1, <1>6 DEF Record
<1>7. ASSUME NEW r \in Requests, NEW p, NEW i, NEW q, Allocate(r, p, i, q)
      PROVE  year' = year
  BY <1>1, <1>7 DEF Allocate
<1> QED BY <1>2, <1>3, <1>4, <1>5, <1>6, <1>7 DEF Next, Quiet, UpdateTax, UpdateDueDate

\* How a request comes to hold a number, to want one, or to be refused one.
LEMMA NumberSteps ==
    ASSUME TypeOK, [Next]_vars, NEW x \in Requests
    PROVE  /\ pc'[x] = "number" =>
                  \/ pc[x] = "idle" /\ seen'[x] = NothingButCount
                  \/ pc[x] = "number" /\ seen'[x] = seen[x]
                  \/ /\ pc[x] = "insert" /\ seen[x].number \in Numbers
                     /\ seen'[x].attempt = seen[x].attempt + 1
                     /\ seen'[x].begun = seen[x].begun
           /\ pc'[x] = "insert" =>
                  \/ pc[x] = "insert" /\ seen'[x] = seen[x]
                  \/ /\ pc[x] = "number" /\ UNCHANGED <<invoice, year>>
                     /\ seen'[x].attempt = seen[x].attempt
                     /\ seen'[x].begun = seen[x].begun
                     /\ seen'[x].number = NextNumber
           /\ pc'[x] = "rejected" /\ arg'[x].op = "create" =>
                  \/ pc[x] = "rejected" /\ arg'[x] = arg[x] /\ seen'[x] = seen[x]
                  \/ /\ pc[x] = "insert" /\ seen[x].number \in Numbers
                     /\ seen[x].attempt = NumberAttempts /\ seen'[x] = seen[x]
<1> DEFINE Holds ==
           /\ pc'[x] = "number" =>
                  \/ pc[x] = "idle" /\ seen'[x] = NothingButCount
                  \/ pc[x] = "number" /\ seen'[x] = seen[x]
                  \/ /\ pc[x] = "insert" /\ seen[x].number \in Numbers
                     /\ seen'[x].attempt = seen[x].attempt + 1
                     /\ seen'[x].begun = seen[x].begun
           /\ pc'[x] = "insert" =>
                  \/ pc[x] = "insert" /\ seen'[x] = seen[x]
                  \/ /\ pc[x] = "number" /\ UNCHANGED <<invoice, year>>
                     /\ seen'[x].attempt = seen[x].attempt
                     /\ seen'[x].begun = seen[x].begun
                     /\ seen'[x].number = NextNumber
           /\ pc'[x] = "rejected" /\ arg'[x].op = "create" =>
                  \/ pc[x] = "rejected" /\ arg'[x] = arg[x] /\ seen'[x] = seen[x]
                  \/ /\ pc[x] = "insert" /\ seen[x].number \in Numbers
                     /\ seen[x].attempt = NumberAttempts /\ seen'[x] = seen[x]
<1> SUFFICES Holds OBVIOUS
<1>0. ASSUME pc'[x] = pc[x], arg'[x] = arg[x], seen'[x] = seen[x] PROVE Holds
  BY <1>0
<1>1. ASSUME NEW r \in Requests, NEW a, NEW view, NEW label, Arrive(r, a, view, label),
             label \notin {"number", "insert"} \/ (label = "number" /\ view = NothingButCount),
             label = "rejected" => a.op # "create"
      PROVE  Holds
  <2>1. CASE x = r
    BY <1>1, <2>1 DEF Arrive, Goto, TypeOK
  <2>2. CASE x # r
    BY <1>0, <1>1, <2>2 DEF Arrive, Goto, TypeOK
  <2> QED BY <2>1, <2>2
<1>2. ASSUME NEW r \in Requests, Handle(r) \/ TransientError(r) \/ Crash(r), x # r
      PROVE  Holds
  <2>1. pc'[x] = pc[x] /\ arg'[x] = arg[x] /\ seen'[x] = seen[x]
    BY <1>2 DEF Handle, TransientError, Crash, TakeNumber, InsertInvoice, NumberTaken,
                ReadAllocations, CommitMoney, CommitEdit, CheckViolation, Goto, TypeOK
  <2> QED BY <1>0, <2>1
<1>3. CASE TakeNumber(x)
  <2>1. /\ pc[x] = "number" /\ pc'[x] = "insert"
        /\ seen' = [seen EXCEPT ![x].number = NextNumber]
        /\ UNCHANGED <<invoice, year>>
    BY <1>3 DEF TakeNumber, Goto, TypeOK
  <2>2. PICK row \in SeenRow : row = seen[x]
    BY DEF TypeOK, SeenRow
  <2>3. PICK new : new = [row EXCEPT !.number = NextNumber]
    OBVIOUS
  <2>4. new.attempt = row.attempt /\ new.begun = row.begun /\ new.number = NextNumber
    BY <2>3 DEF SeenRow
  <2>5. seen'[x] = new
    BY <2>1, <2>2, <2>3 DEF TypeOK
  <2> QED BY <2>1, <2>2, <2>4, <2>5
<1>4. CASE NumberTaken(x)
  <2>1. CASE seen[x].attempt = NumberAttempts /\ Goto(x, "rejected") /\ UNCHANGED seen
    BY <1>4, <2>1 DEF NumberTaken, Goto, TypeOK
  <2>2. CASE seen' = [seen EXCEPT ![x].attempt = @ + 1] /\ Goto(x, "number")
    <3>1. PICK row \in SeenRow : row = seen[x]
      BY DEF TypeOK, SeenRow
    <3>2. /\ [row EXCEPT !.attempt = row.attempt + 1].attempt = row.attempt + 1
          /\ [row EXCEPT !.attempt = row.attempt + 1].begun = row.begun
      BY DEF SeenRow
    <3>3. seen'[x] = [row EXCEPT !.attempt = row.attempt + 1]
      BY <2>2, <3>1 DEF TypeOK
    <3>4. pc'[x] = "number"
      BY <2>2 DEF Goto, TypeOK
    <3> QED BY <1>4, <3>1, <3>2, <3>3, <3>4 DEF NumberTaken
  <2> QED BY <1>4, <2>1, <2>2 DEF NumberTaken
<1>5. CASE \/ InsertInvoice(x) \/ CommitMoney(x) \/ CommitEdit(x) \/ CheckViolation(x)
           \/ ReadAllocations(x) \/ TransientError(x) \/ Crash(x)
  <2>1. /\ pc'[x] \in {"done", "failed", "write", "sum", "rejected", "insert"}
        /\ pc'[x] = "insert" => pc[x] = "insert" /\ seen'[x] = seen[x]
        /\ pc'[x] = "rejected" => arg[x].op = "allocate" /\ arg'[x] = arg[x]
    BY <1>5 DEF TransientError, Crash, InsertInvoice, ReadAllocations, CommitMoney, CommitEdit,
                CheckViolation, Goto, TypeOK, ArgumentFits, AllocateArg
  <2> QED BY <2>1
<1>6. CASE UNCHANGED Elsewhere
  BY <1>0, <1>6 DEF Elsewhere
<1>7. ASSUME NEW r \in Requests, Handle(r) \/ TransientError(r) \/ Crash(r)
      PROVE  Holds
  <2> HIDE DEF Holds
  <2>1. CASE r = x
    BY <1>3, <1>4, <1>5, <1>7, <2>1 DEF Handle
  <2>2. CASE r # x
    BY <1>2, <1>7, <2>2
  <2> QED BY <2>1, <2>2
<1> HIDE DEF Holds
<1>8. ASSUME NEW r \in Requests, NEW a, NEW view, NEW label, Arrival(r, a, view, label)
      PROVE  Holds
  BY <1>1, <1>8 DEF Arrival
<1> QED BY <1>6, <1>7, <1>8, StepCases

\* A step from n invoices, k of them of this year, to one more of each, with the
\* number its request held; or to no more, and maybe another year.
OneMore(r, n, k) ==
    /\ pc[r] = "insert" /\ seen[r].number \notin Numbers /\ year' = year
    /\ Cardinality(DOMAIN invoice)' = n + 1
    /\ Cardinality(CreatedIn(year))' = k + 1
    /\ arg[r].invoice \notin DOMAIN invoice
    /\ DOMAIN invoice' = DOMAIN invoice \cup {arg[r].invoice}
    /\ invoice'[arg[r].invoice].number = seen[r].number
    /\ \A i \in DOMAIN invoice : invoice'[i].number = invoice[i].number

NoMore(n, k) ==
    /\ \/ year' = year /\ Cardinality(CreatedIn(year))' = k
       \/ year' = year + 1 /\ UNCHANGED Elsewhere
    /\ Cardinality(DOMAIN invoice)' = n
    /\ DOMAIN invoice' = DOMAIN invoice
    /\ \A i \in DOMAIN invoice : invoice'[i].number = invoice[i].number

LEMMA CountSteps ==
    ASSUME TypeOK, [Next]_vars,
           NEW n, n = Cardinality(DOMAIN invoice),
           NEW k, k = Cardinality(CreatedIn(year))
    PROVE  /\ n \in Nat /\ k \in Nat
           /\ (\E r \in Requests : OneMore(r, n, k)) \/ NoMore(n, k)
<1>1. n \in Nat /\ k \in Nat
  BY CountIsNatural, FS_CardinalityType DEF TypeOK
<1>2. ASSUME NEW r \in Requests, InsertInvoice(r) PROVE OneMore(r, n, k)
  BY <1>2, InsertAddsOne DEF InsertInvoice, OneMore
<1>3. ASSUME \A r \in Requests : ~InsertInvoice(r) PROVE NoMore(n, k)
  <2>1. /\ DOMAIN invoice' = DOMAIN invoice
        /\ \A i \in DOMAIN invoice : /\ invoice'[i].number = invoice[i].number
                                     /\ invoice'[i].created = invoice[i].created
    BY <1>3, NumbersStay
  <2>2. year' = year => CreatedIn(year)' = CreatedIn(year)
    BY <2>1 DEF CreatedIn
  <2> QED BY <2>1, <2>2, YearStep DEF NoMore
<1> QED BY <1>1, <1>2, <1>3

\* One more invoice for every attempt that failed, as none is ever removed.
LEMMA OvertakenNext ==
    ASSUME TypeOK, NumbersInv, [Next]_vars
    PROVE  Overtaken' /\ RefusedOnlyWhenOvertaken'
<1> USE BillingAssumption
<1>1. PICK n : n = Cardinality(DOMAIN invoice)
  OBVIOUS
<1>2. PICK k : k = Cardinality(CreatedIn(year))
  OBVIOUS
<1>3. PICK m \in Nat : /\ m = Cardinality(DOMAIN invoice)' /\ n \in Nat
                       /\ \/ m = n + 1
                          \/ m = n /\ Numbers' = Numbers
  <2>1. /\ n \in Nat
        /\ \/ Cardinality(DOMAIN invoice)' = n + 1
           \/ /\ Cardinality(DOMAIN invoice)' = n
              /\ DOMAIN invoice' = DOMAIN invoice
              /\ \A i \in DOMAIN invoice : invoice'[i].number = invoice[i].number
    BY <1>1, <1>2, CountSteps DEF OneMore, NoMore
  <2>2. ASSUME DOMAIN invoice' = DOMAIN invoice,
               \A i \in DOMAIN invoice : invoice'[i].number = invoice[i].number
        PROVE  Numbers' = Numbers
    BY <2>2 DEF Numbers
  <2> QED BY <2>1, <2>2
<1>4. \A x \in Requests : seen[x].attempt \in 1..NumberAttempts /\ seen[x].begun \in Nat
  BY DEF TypeOK
<1>5. \A x \in Requests :
          /\ pc[x] \in {"number", "insert"} => n >= seen[x].begun + seen[x].attempt - 1
          /\ pc[x] = "insert" /\ seen[x].number \in Numbers
                 => n >= seen[x].begun + seen[x].attempt
          /\ arg[x].op = "create" /\ pc[x] = "rejected" => n >= seen[x].begun + NumberAttempts
  BY <1>1 DEF NumbersInv, Overtaken, RefusedOnlyWhenOvertaken
<1>6. NothingButCount.attempt = 1 /\ NothingButCount.begun = n
  BY <1>1 DEF NothingButCount, Seeing
<1>7. ASSUME NEW x \in Requests, pc'[x] = "number"
      PROVE  m >= seen'[x].begun + seen'[x].attempt - 1
  BY <1>3, <1>4, <1>5, <1>6, <1>7, NumberSteps
<1>8. ASSUME NEW x \in Requests, pc'[x] = "insert"
      PROVE  /\ m >= seen'[x].begun + seen'[x].attempt - 1
             /\ seen'[x].number \in Numbers' => m >= seen'[x].begun + seen'[x].attempt
  <2>1. CASE pc[x] = "insert" /\ seen'[x] = seen[x]
    BY <1>3, <1>4, <1>5, <2>1
  <2>2. CASE /\ pc[x] = "number" /\ UNCHANGED <<invoice, year>>
             /\ seen'[x].attempt = seen[x].attempt
             /\ seen'[x].begun = seen[x].begun
             /\ seen'[x].number = NextNumber
    <3>1. seen'[x].number \notin Numbers'
      BY <2>2, NextIsFree DEF NumbersInv, Numbers
    <3> QED BY <1>3, <1>4, <1>5, <2>2, <3>1
  <2> QED BY <1>8, <2>1, <2>2, NumberSteps
<1>9. ASSUME NEW x \in Requests, arg'[x].op = "create", pc'[x] = "rejected"
      PROVE  m >= seen'[x].begun + NumberAttempts
  BY <1>3, <1>4, <1>5, <1>9, NumberSteps
<1> QED BY <1>3, <1>7, <1>8, <1>9 DEF Overtaken, RefusedOnlyWhenOvertaken

LEMMA NumbersNext == TypeOK /\ NumbersInv /\ [Next]_vars => NumbersInv'
<1> SUFFICES ASSUME TypeOK, NumbersInv, [Next]_vars PROVE NumbersInv' OBVIOUS
<1>1. PICK n : n = Cardinality(DOMAIN invoice)
  OBVIOUS
<1>2. PICK k : k = Cardinality(CreatedIn(year))
  OBVIOUS
<1>3. /\ year \in Nat
      /\ \A x \in Requests : seen[x].number \in InvoiceNumber
      /\ \A i \in DOMAIN invoice : invoice[i].number \in InvoiceNumber
  BY DEF TypeOK, InvoiceRow
<1>4. /\ \A i \in DOMAIN invoice :
             /\ invoice[i].number.year <= year
             /\ invoice[i].number.year = year => invoice[i].number.place <= k
      /\ \A x \in Requests : pc[x] = "insert" =>
             /\ seen[x].number.year <= year
             /\ seen[x].number.year = year => seen[x].number.place <= k + 1
      /\ NumbersDiffer
  BY <1>2 DEF NumbersInv, NumbersInReach, HandsInReach
<1>5. NextNumber.year = year /\ NextNumber.place = k + 1
  BY <1>2 DEF NextNumber
<1>6. ASSUME NEW r \in Requests, OneMore(r, n, k), k \in Nat
      PROVE  NumbersInReach' /\ HandsInReach' /\ NumbersDiffer'
  <2>1. NumbersInReach'
    <3> SUFFICES ASSUME NEW i \in DOMAIN invoice'
                 PROVE  /\ invoice'[i].number.year <= year
                        /\ invoice'[i].number.year = year
                               => invoice'[i].number.place <= k + 1
      BY <1>6 DEF OneMore, NumbersInReach
    <3> QED BY <1>3, <1>4, <1>6 DEF OneMore, InvoiceNumber
  <2>2. HandsInReach'
    <3> SUFFICES ASSUME NEW x \in Requests, pc'[x] = "insert"
                 PROVE  /\ seen'[x].number.year <= year
                        /\ seen'[x].number.year = year
                               => seen'[x].number.place <= k + 2
      BY <1>6 DEF OneMore, HandsInReach
    <3> QED BY <1>3, <1>4, <1>5, <1>6, NumberSteps DEF OneMore, InvoiceNumber
  <2>3. NumbersDiffer'
    BY <1>4, <1>6 DEF OneMore, NumbersDiffer, Numbers
  <2> QED BY <2>1, <2>2, <2>3
<1>7. ASSUME NoMore(n, k), k \in Nat, year' = year, Cardinality(CreatedIn(year))' = k
      PROVE  NumbersInReach' /\ HandsInReach' /\ NumbersDiffer'
  <2>1. NumbersInReach' /\ NumbersDiffer'
    BY <1>4, <1>7 DEF NoMore, NumbersInReach, NumbersDiffer
  <2>2. HandsInReach'
    <3> SUFFICES ASSUME NEW x \in Requests, pc'[x] = "insert"
                 PROVE  /\ seen'[x].number.year <= year
                        /\ seen'[x].number.year = year
                               => seen'[x].number.place <= k + 1
      BY <1>7 DEF HandsInReach
    <3>1. CASE pc[x] = "insert" /\ seen'[x] = seen[x]
      BY <1>4, <1>7, <3>1
    <3>2. CASE seen'[x].number = NextNumber
      BY <1>3, <1>5, <1>7, <3>2
    <3> QED BY <3>1, <3>2, NumberSteps
  <2> QED BY <2>1, <2>2
<1>8. ASSUME year' = year + 1, UNCHANGED Elsewhere
      PROVE  NumbersInReach' /\ HandsInReach' /\ NumbersDiffer'
  <2>1. invoice' = invoice /\ pc' = pc /\ seen' = seen
    BY <1>8 DEF Elsewhere
  <2>2. /\ \A i \in DOMAIN invoice : /\ invoice[i].number.year <= year + 1
                                     /\ invoice[i].number.year # year + 1
        /\ \A x \in Requests : pc[x] = "insert" =>
               seen[x].number.year <= year + 1 /\ seen[x].number.year # year + 1
    BY <1>3, <1>4 DEF InvoiceNumber
  <2> QED BY <1>4, <1>8, <2>1, <2>2 DEF NumbersInReach, HandsInReach, NumbersDiffer
<1>9. NumbersInReach' /\ HandsInReach' /\ NumbersDiffer'
  <2>1. k \in Nat /\ ((\E r \in Requests : OneMore(r, n, k)) \/ NoMore(n, k))
    BY <1>1, <1>2, CountSteps
  <2>2. NoMore(n, k) => \/ year' = year /\ Cardinality(CreatedIn(year))' = k
                        \/ year' = year + 1 /\ UNCHANGED Elsewhere
    BY DEF NoMore
  <2> QED BY <1>6, <1>7, <1>8, <2>1, <2>2
<1> QED BY <1>9, OvertakenNext DEF NumbersInv

\* However many requests compete for invoice numbers, fail, crash or are
\* overtaken by the new year, the number the count gives next is free, and none
\* is given out twice.
THEOREM NumbersAreFree == Spec => []NextNumberIsFree
<1>1. Init => TypeOK /\ NumbersInv
  BY TypeInit, NumbersInit
<1>2. TypeOK /\ NumbersInv /\ [Next]_vars => (TypeOK /\ NumbersInv)'
  BY TypeNext, NumbersNext
<1>3. TypeOK /\ NumbersInv => NextNumberIsFree
  BY NextIsFree DEF NumbersInv, NumbersDiffer, NextNumberIsFree
<1> QED BY <1>1, <1>2, <1>3, PTL DEF Spec

\* An invoice is refused for want of a number only after NumberAttempts others
\* were created since the request for it arrived.
THEOREM RefusalsWereOvertaken == Spec => []RefusedOnlyWhenOvertaken
<1>1. Init => TypeOK /\ NumbersInv
  BY TypeInit, NumbersInit
<1>2. TypeOK /\ NumbersInv /\ [Next]_vars => (TypeOK /\ NumbersInv)'
  BY TypeNext, NumbersNext
<1>3. TypeOK /\ NumbersInv => RefusedOnlyWhenOvertaken
  BY DEF NumbersInv
<1> QED BY <1>1, <1>2, <1>3, PTL DEF Spec

-----------------------------------------------------------------------------
(* Money.                                                                  *)

\* What a request read as paid has been received by then, and stays received.
SeenIsPast ==
    \A r \in Requests :
        /\ pc[r] \in {"sum", "write"}
        /\ arg[r].op \in MoneyOps
        /\ arg[r].invoice # None
        => seen[r].paid <= received[arg[r].invoice]

MoneyInv == PaidIsCovered /\ SeenIsPast

LEMMA MoneyInit == Init => MoneyInv
BY DEF Init, MoneyInv, PaidIsCovered, SeenIsPast

LEMMA MoneyNext == TypeOK /\ MoneyInv /\ [Next]_vars => MoneyInv'
<1> SUFFICES ASSUME TypeOK, MoneyInv, [Next]_vars PROVE MoneyInv' OBVIOUS
<1> USE BillingAssumption
<1>0. /\ \A i \in DOMAIN invoice : /\ invoice[i].paid \in Nat /\ i \in Invoices
                                  /\ invoice[i].paid <= received[i]
      /\ received \in [Invoices -> Nat]
      /\ pc \in [Requests -> {"idle"} \cup Pending \cup Finished]
      /\ DOMAIN arg = Requests /\ DOMAIN seen = Requests
      /\ \A x \in Requests : seen[x].paid \in Nat
  BY DEF TypeOK, MoneyInv, PaidIsCovered, InvoiceRow
<1>1. ASSUME NEW r \in Requests, NEW a, NEW view, NEW label, Arrival(r, a, view, label)
      PROVE  MoneyInv'
  <2>1. UNCHANGED <<invoice, received>>
    BY <1>1 DEF Arrival, Arrive
  <2>2. /\ pc'[r] = label /\ arg'[r] = a /\ seen'[r] = view
        /\ \A x \in Requests : x # r => pc'[x] = pc[x] /\ arg'[x] = arg[x] /\ seen'[x] = seen[x]
    BY <1>0, <1>1 DEF Arrival, Arrive, Goto
  <2>3. ASSUME label \in {"sum", "write"}, a.op \in MoneyOps, a.invoice # None
        PROVE  view.paid <= received[a.invoice]
    BY <1>0, <1>1, <2>3 DEF Arrival, View, Seeing
  <2> QED BY <2>1, <2>2, <2>3 DEF MoneyInv, PaidIsCovered, SeenIsPast
\* Nothing but a payment moves what is paid or received.
<1>2. ASSUME NEW r \in Requests, UNCHANGED <<arg, received>>,
             DOMAIN invoice \subseteq DOMAIN invoice',
             \A i \in DOMAIN invoice' :
                 IF i \in DOMAIN invoice THEN invoice'[i].paid = invoice[i].paid
                 ELSE invoice'[i].paid = 0 /\ i \in Invoices,
             \A x \in Requests : /\ pc'[x] \in {"sum", "write"} /\ arg[x].op \in MoneyOps
                                 => /\ pc[x] \in {"sum", "write"}
                                    /\ seen'[x] = seen[x]
      PROVE  MoneyInv'
  BY <1>0, <1>2 DEF MoneyInv, PaidIsCovered, SeenIsPast
<1>3. ASSUME NEW r \in Requests, InsertInvoice(r) PROVE MoneyInv'
  <2> DEFINE i == arg[r].invoice
  <2>1. i \in Invoices /\ i \notin DOMAIN invoice
    BY <1>3 DEF InsertInvoice, TypeOK, ArgumentFits, CreateArg, EditArg, RecordArg, AllocateArg
  <2>2. /\ DOMAIN invoice' = DOMAIN invoice \cup {i}
        /\ invoice'[i].paid = 0
        /\ \A x \in DOMAIN invoice : invoice'[x] = invoice[x]
    BY <1>3, <2>1 DEF InsertInvoice, Put
  <2>3. /\ UNCHANGED <<arg, received, seen>>
        /\ \A x \in Requests : pc'[x] \in {"sum", "write"} => pc[x] = pc'[x]
    BY <1>0, <1>3 DEF InsertInvoice, Goto
  <2> QED BY <1>2, <2>1, <2>2, <2>3
<1>4. ASSUME NEW r \in Requests, CommitMoney(r), arg[r].invoice # None PROVE MoneyInv'
  <2> DEFINE i == arg[r].invoice
  <2>1. /\ i \in DOMAIN invoice /\ i \in Invoices
        /\ arg[r].amount \in Nat
        /\ seen[r].paid <= received[i]
    BY <1>0, <1>4, WriteTarget DEF CommitMoney, MoneyInv, SeenIsPast
  <2>2. /\ invoice' = [invoice EXCEPT ![i] = Credited(r)]
        /\ received' = [received EXCEPT ![i] = @ + arg[r].amount]
        /\ UNCHANGED <<arg, seen>>
        /\ \A x \in Requests : pc'[x] \in {"sum", "write"} => pc[x] = pc'[x]
    BY <1>0, <1>4 DEF CommitMoney, Goto
  <2>3. Credited(r).paid = seen[r].paid + arg[r].amount
    BY <2>1, RowsLeft DEF PaidAfter
  <2>4. /\ received'[i] = received[i] + arg[r].amount
        /\ \A x \in Invoices : x # i => received'[x] = received[x]
    BY <1>0, <2>1, <2>2
  <2>5. /\ DOMAIN invoice' = DOMAIN invoice
        /\ invoice'[i].paid = seen[r].paid + arg[r].amount
        /\ \A x \in DOMAIN invoice : x # i => invoice'[x] = invoice[x]
    BY <2>1, <2>2, <2>3
  <2>6. PaidIsCovered'
    BY <1>0, <2>1, <2>4, <2>5 DEF PaidIsCovered
  <2>7. ASSUME NEW x \in Requests, pc'[x] \in {"sum", "write"}, arg[x].op \in MoneyOps,
               arg[x].invoice # None
        PROVE  seen[x].paid <= received'[arg[x].invoice]
    <3>1. pc[x] \in {"sum", "write"} /\ seen[x].paid <= received[arg[x].invoice]
      BY <2>2, <2>7 DEF MoneyInv, SeenIsPast
    <3>2. arg[x].invoice \in Invoices
      BY <2>7, <3>1 DEF TypeOK, ArgumentFits, CreateArg, EditArg, RecordArg, AllocateArg
    <3> HIDE DEF i
    <3>3. CASE arg[x].invoice = i
      BY <1>0, <2>1, <2>4, <3>1, <3>3
    <3>4. CASE arg[x].invoice # i
      BY <1>0, <2>4, <3>1, <3>2, <3>4
    <3> QED BY <3>3, <3>4
  <2> QED BY <2>2, <2>6, <2>7 DEF MoneyInv, SeenIsPast
<1>5. ASSUME NEW r \in Requests, CommitEdit(r) PROVE MoneyInv'
  <2>1. arg[r].invoice \in DOMAIN invoice
    BY <1>5, WriteTarget DEF CommitEdit
  <2>2. /\ invoice' = [invoice EXCEPT ![arg[r].invoice] = Edited(r)]
        /\ UNCHANGED <<arg, received, seen>>
        /\ \A x \in Requests : pc'[x] \in {"sum", "write"} => pc[x] = pc'[x]
    BY <1>0, <1>5 DEF CommitEdit, Goto
  <2>3. \A x \in DOMAIN invoice : invoice'[x].paid = invoice[x].paid
    BY <2>1, <2>2, RowsLeft
  <2> QED BY <1>2, <2>2, <2>3
<1>6. ASSUME NEW r \in Requests,
             \/ CommitMoney(r) /\ arg[r].invoice = None
             \/ ReadAllocations(r) \/ CheckViolation(r) \/ TransientError(r) \/ Crash(r)
      PROVE  MoneyInv'
  <2>1. /\ UNCHANGED <<invoice, arg, received, seen>>
        /\ \A x \in Requests : pc'[x] \in {"sum", "write"} => pc[x] \in {"sum", "write"}
                                                           \/ arg[x].op = "create"
    BY <1>0, <1>6 DEF CommitMoney, ReadAllocations, CheckViolation, TransientError, Crash, Goto,
                      TypeOK, ArgumentFits, CreateArg, EditArg, RecordArg, AllocateArg
  <2> QED BY <1>2, <2>1
<1>7. ASSUME NEW r \in Requests, TakeNumber(r) \/ NumberTaken(r) PROVE MoneyInv'
  <2>1. /\ UNCHANGED <<invoice, arg, received>>
        /\ \A x \in Requests : pc'[x] \in {"sum", "write"} => pc[x] = pc'[x] /\ seen'[x] = seen[x]
    BY <1>0, <1>7 DEF TakeNumber, NumberTaken, Goto
  <2> QED BY <1>2, <2>1
<1>8. CASE UNCHANGED Elsewhere
  BY <1>8 DEF Elsewhere, MoneyInv, PaidIsCovered, SeenIsPast
<1>9. ASSUME NEW r \in Requests, Handle(r) PROVE MoneyInv'
  BY <1>3, <1>4, <1>5, <1>6, <1>7, <1>9 DEF Handle
<1> QED BY <1>1, <1>6, <1>8, <1>9, StepCases

\* However requests overlap, are retried or crash, no invoice shows more paid
\* than has been allocated to it.
THEOREM PaidCovered == Spec => []PaidIsCovered
<1>1. Init => MoneyInv
  BY MoneyInit
<1>2. TypeOK /\ MoneyInv /\ [Next]_vars => MoneyInv'
  BY MoneyNext
<1>3. MoneyInv => PaidIsCovered
  BY DEF MoneyInv
<1> QED BY <1>1, <1>2, <1>3, TypeCorrect, PTL DEF Spec

-----------------------------------------------------------------------------
(* Requests handled one at a time.                                         *)

Balanced ==
    /\ PaidIsRunningTotal /\ \A i \in Invoices \ DOMAIN invoice : received[i] = 0
    /\ AllocationsWithinPayment /\ \A p \in Payments \ DOMAIN payment : spent[p] = 0

\* What the request in progress has read is as it was: there is no other.
InTurn ==
    /\ \A x, y \in Requests : pc[x] \in Pending /\ pc[y] \in Pending => x = y
    /\ Balanced
    /\ \A r \in Requests : pc[r] \in Pending => ReadsNow(arg[r], seen[r], pc[r])

LEMMA NobodyElse ==
    ASSUME InTurn, NEW r \in Requests, pc[r] \in Pending \/ InFlight = {},
           \A x \in Requests \ {r} : pc'[x] = pc[x],
           Balanced', pc'[r] \in Pending => ReadsNow(arg[r], seen[r], pc[r])'
    PROVE  InTurn'
<1>1. ASSUME NEW x \in Requests, pc'[x] \in Pending PROVE x = r
  <2>1. pc[r] \in Pending => pc[x] \notin Pending \/ x = r
    BY DEF InTurn
  <2>2. InFlight = {} => pc[x] \notin Pending
    BY DEF InFlight
  <2> QED BY <1>1, <2>1, <2>2
<1> QED BY <1>1 DEF InTurn

\* A request is accepted when there is no other.
LEMMA AloneInside ==
    ASSUME MaxInFlight = 1, InTurn, Cardinality(InFlight) < MaxInFlight
    PROVE  InFlight = {}
<1>1. ASSUME NEW x \in InFlight PROVE FALSE
  <2>1. InFlight = {x}
    BY <1>1 DEF InTurn, InFlight
  <2>2. Cardinality(InFlight) = 1
    BY <2>1, FS_Singleton
  <2> QED BY <2>2
<1> QED BY <1>1

LEMMA TurnArrives ==
    ASSUME MaxInFlight = 1, TypeOK, InTurn, NEW r \in Requests, NEW a, NEW view, NEW label,
           Arrival(r, a, view, label)
    PROVE  InTurn' /\ Sheet' = Sheet
<1>1. InFlight = {}
  BY AloneInside DEF Arrival, Arrive
<1>2. UNCHANGED <<invoice, payment, spent, received>>
  BY DEF Arrival, Arrive
<1>3. /\ pc'[r] = label /\ arg'[r] = a /\ seen'[r] = view
      /\ \A x \in Requests \ {r} : pc'[x] = pc[x]
  BY DEF Arrival, Arrive, Goto, TypeOK
<1>4. Balanced' /\ Sheet' = Sheet
  BY <1>2 DEF InTurn, Balanced, PaidIsRunningTotal, AllocationsWithinPayment, Sheet
<1>5. label \in Pending => ReadsNow(a, view, label)
  BY DEF Arrival, Pending
<1>6. pc'[r] \in Pending => ReadsNow(arg[r], seen[r], pc[r])'
  BY <1>2, <1>3, <1>5 DEF ReadsNow, AcceptsPayment
<1> QED BY <1>1, <1>3, <1>4, <1>6, NobodyElse

\* A step that leaves the tables alone, and its request with what it read.
LEMMA TurnWaits ==
    ASSUME TypeOK, InTurn, NEW r \in Requests, pc[r] \in Pending,
           UNCHANGED <<invoice, payment, spent, received, arg>>,
           \A x \in Requests \ {r} : pc'[x] = pc[x],
           pc'[r] \in Pending => ReadsNow(arg[r], seen'[r], pc'[r])
    PROVE  InTurn' /\ Sheet' = Sheet
<1>1. Balanced' /\ Sheet' = Sheet
  BY DEF InTurn, Balanced, PaidIsRunningTotal, AllocationsWithinPayment, Sheet
<1>2. pc'[r] \in Pending => ReadsNow(arg[r], seen[r], pc[r])'
  BY DEF ReadsNow, AcceptsPayment
<1> QED BY <1>1, <1>2, NobodyElse

LEMMA TurnHandles ==
    ASSUME TypeOK, InTurn, NEW r \in Requests,
           \/ TakeNumber(r) \/ NumberTaken(r) \/ ReadAllocations(r) \/ CheckViolation(r)
           \/ TransientError(r) \/ Crash(r)
    PROVE  InTurn' /\ Sheet' = Sheet
<1>1. /\ pc[r] \in Pending /\ ReadsNow(arg[r], seen[r], pc[r])
      /\ UNCHANGED <<invoice, payment, spent, received, arg>>
  BY DEF TakeNumber, NumberTaken, ReadAllocations, CheckViolation, TransientError, Crash,
         InTurn, Pending
<1>2. /\ DOMAIN pc = Requests /\ DOMAIN seen = Requests
      /\ arg[r].op \in MoneyOps => pc[r] \in {"sum", "write"}
      /\ pc[r] \in {"number", "insert"} => arg[r].op = "create"
      /\ pc[r] = "sum" => arg[r].op = "allocate"
  BY <1>1 DEF TypeOK, ArgumentFits, CreateArg, EditArg, RecordArg, AllocateArg, MoneyOps
<1>3. \A x \in Requests \ {r} : pc'[x] = pc[x]
  BY <1>2 DEF TakeNumber, NumberTaken, ReadAllocations, CheckViolation, TransientError, Crash,
              Goto
<1>4. CASE pc[r] \in {"number", "insert"}
  <2>1. ReadsNow(arg[r], seen'[r], pc'[r])
    BY <1>2, <1>4 DEF ReadsNow, MoneyOps
  <2> QED BY <1>1, <1>3, <2>1, TurnWaits
<1>5. CASE ReadAllocations(r)
  <2>1. seen' = seen
    BY <1>5 DEF ReadAllocations
  <2>2. pc'[r] \in Pending => /\ pc'[r] = "write"
                              /\ arg[r].amount <= payment[arg[r].payment] - spent[arg[r].payment]
    BY <1>2, <1>5 DEF ReadAllocations, Goto, Pending
  <2>3. pc'[r] \in Pending => ReadsNow(arg[r], seen'[r], pc'[r])
    BY <1>1, <2>1, <2>2 DEF ReadsNow
  <2> QED BY <1>1, <1>3, <2>3, TurnWaits
<1>6. CASE CheckViolation(r) \/ Crash(r)
  <2>1. pc'[r] = "failed"
    BY <1>2, <1>6 DEF CheckViolation, Crash, Goto
  <2> QED BY <1>1, <1>3, <2>1, TurnWaits DEF Pending
<1>7. CASE TransientError(r) /\ pc[r] \notin {"number", "insert"}
  <2>1. seen' = seen
    BY <1>7 DEF TransientError
  <2>2. pc'[r] \in Pending => pc'[r] = IF arg[r].op = "allocate" THEN "sum" ELSE pc[r]
    BY <1>2, <1>7 DEF TransientError, Goto, Pending
  <2>3. pc'[r] \in Pending => ReadsNow(arg[r], seen'[r], pc'[r])
    BY <1>1, <2>1, <2>2 DEF ReadsNow
  <2> QED BY <1>1, <1>3, <2>3, TurnWaits
<1> QED BY <1>4, <1>5, <1>6, <1>7 DEF TakeNumber, NumberTaken

SheetRow == [total : Nat, paid : Nat, status : InvoiceStatus]

\* What the lifecycle sees of a row.
Shown(row) == [total |-> row.total, paid |-> row.paid, status |-> row.status]

LEMMA SheetShows ==
    ASSUME TypeOK
    PROVE  /\ DOMAIN Sheet = DOMAIN invoice
           /\ Sheet \in [DOMAIN invoice -> SheetRow]
           /\ \A i \in DOMAIN invoice : Sheet[i] = Shown(invoice[i])
<1>1. \A i \in DOMAIN invoice : Shown(invoice[i]) \in SheetRow
  BY DEF TypeOK, InvoiceRow, SheetRow, Shown
<1> QED BY <1>1 DEF Sheet, Shown

\* A row written is a row of the sheet written.
LEMMA SheetMoves ==
    ASSUME TypeOK, NEW i \in DOMAIN invoice, NEW row,
           invoice' = [invoice EXCEPT ![i] = row]
    PROVE  /\ Sheet' = [Sheet EXCEPT ![i] = Shown(row)]
           /\ DOMAIN invoice' = DOMAIN invoice
           /\ invoice'[i] = row
           /\ \A x \in DOMAIN invoice : x # i => invoice'[x] = invoice[x]
<1>1. /\ DOMAIN invoice' = DOMAIN invoice
      /\ invoice'[i] = row
      /\ \A x \in DOMAIN invoice : x # i => invoice'[x] = invoice[x]
  OBVIOUS
<1>2. Sheet' = [x \in DOMAIN invoice |-> Shown(invoice'[x])]
  BY <1>1 DEF Sheet, Shown
<1>3. Sheet = [x \in DOMAIN invoice |-> Shown(invoice[x])]
  BY DEF Sheet, Shown
<1>4. [Sheet EXCEPT ![i] = Shown(row)]
          = [x \in DOMAIN invoice |-> IF x = i THEN Shown(row) ELSE Shown(invoice[x])]
  BY <1>3
<1> QED BY <1>1, <1>2, <1>4

LEMMA TurnInserts ==
    ASSUME TypeOK, InTurn, NEW r \in Requests, InsertInvoice(r)
    PROVE  InTurn' /\ \E i \in Invoices : Lifecycle!Draft(i)
<1> DEFINE i == arg[r].invoice
           row == [number   |-> seen[r].number,
                   created  |-> year,
                   subtotal |-> arg[r].subtotal,
                   total    |-> arg[r].subtotal + TaxOf(arg[r].subtotal, arg[r].rate),
                   paid     |-> 0,
                   status   |-> "DRAFT"]
<1>1. pc[r] \in Pending /\ arg[r] \in CreateArg /\ i \in Invoices /\ i \notin DOMAIN invoice
  BY DEF InsertInvoice, TypeOK, ArgumentFits, CreateArg, EditArg, RecordArg, AllocateArg
<1>2. Shown(row) \in SheetRow /\ row.paid = 0 /\ row.status = "DRAFT"
  <2>1. arg[r].subtotal \in Nat /\ arg[r].rate \in 0..100
    BY <1>1, BillingAssumption DEF CreateArg
  <2>2. TaxOf(arg[r].subtotal, arg[r].rate) \in Nat
    BY <2>1, TaxIsNatural
  <2> QED BY <2>1, <2>2 DEF Shown, SheetRow, InvoiceStatus
<1>3. invoice' = Put(invoice, i, row) /\ UNCHANGED <<payment, spent, received>>
  BY DEF InsertInvoice
<1> HIDE DEF row, i
<1>4. /\ DOMAIN invoice' = DOMAIN invoice \cup {i}
      /\ invoice'[i] = row
      /\ \A x \in DOMAIN invoice : invoice'[x] = invoice[x]
  BY <1>1, <1>3 DEF Put
<1>5. Balanced'
  BY <1>1, <1>2, <1>3, <1>4
     DEF InTurn, Balanced, PaidIsRunningTotal, AllocationsWithinPayment
<1>6. pc'[r] = "done" /\ \A x \in Requests \ {r} : pc'[x] = pc[x]
  BY DEF InsertInvoice, Goto, TypeOK
<1>7. InTurn'
  BY <1>1, <1>5, <1>6, NobodyElse
<1>8. /\ DOMAIN Sheet = DOMAIN invoice
      /\ DOMAIN Sheet' = DOMAIN invoice \cup {i}
      /\ Sheet'[i] = Shown(row)
      /\ \A x \in DOMAIN invoice : Sheet'[x] = Sheet[x]
  BY <1>4 DEF Sheet, Shown
<1>9. Shown(row) \in [total : Nat, paid : {0}, status : {"DRAFT"}]
  BY <1>2 DEF SheetRow, Shown
<1>10. Lifecycle!Draft(i)
  BY <1>1, <1>8, <1>9 DEF Lifecycle!Draft, Lifecycle!Known, Lifecycle!Others
<1> QED BY <1>1, <1>7, <1>10

\* An edit writes what its request found allowed, on a row nobody else touches.
LEMMA TurnEdits ==
    ASSUME TypeOK, InTurn, NEW r \in Requests, CommitEdit(r)
    PROVE  InTurn' /\ Lifecycle!Next
<1>1. PICK i \in DOMAIN invoice : i = arg[r].invoice
  BY WriteTarget DEF CommitEdit
<1>2. PICK old \in InvoiceRow : old = invoice[i]
  BY DEF TypeOK
<1>3. PICK t \in Nat : t = seen[r].total
  BY DEF TypeOK
<1>4. pc[r] \in Pending /\ arg[r].op \in {"update", "issue", "void"} /\ i \in Invoices
  BY <1>1 DEF CommitEdit, TypeOK
<1>5. /\ arg[r].op = "update" => old.status \in Editable
      /\ arg[r].op = "issue" => old.status = "DRAFT"
      /\ arg[r].op = "void" => old.status \in Voidable
  BY <1>1, <1>2, <1>4 DEF InTurn, ReadsNow
<1>6. /\ Edited(r).paid = old.paid
      /\ arg[r].op = "update" => Edited(r).total = t /\ Edited(r).status = old.status
      /\ arg[r].op # "update" => Edited(r).total = old.total
      /\ arg[r].op = "issue" => Edited(r).status = "SENT"
      /\ arg[r].op = "void" => Edited(r).status = "VOID"
  <2>1. Edited(r) = IF arg[r].op = "update" THEN [old EXCEPT !.total = t]
                    ELSE [old EXCEPT !.status = IF arg[r].op = "issue" THEN "SENT" ELSE "VOID"]
    BY <1>1, <1>2, <1>3 DEF Edited
  <2>2. CASE arg[r].op = "update"
    <3>1. Edited(r) = [old EXCEPT !.total = t]
      BY <2>1, <2>2
    <3> QED BY <2>2, <3>1 DEF InvoiceRow
  <2>3. CASE arg[r].op = "issue"
    <3>1. Edited(r) = [old EXCEPT !.status = "SENT"]
      BY <2>1, <2>3
    <3> QED BY <2>3, <3>1 DEF InvoiceRow
  <2>4. CASE arg[r].op = "void"
    <3>1. Edited(r) = [old EXCEPT !.status = "VOID"]
      BY <2>1, <2>4
    <3> QED BY <2>4, <3>1 DEF InvoiceRow
  <2> QED BY <1>4, <2>2, <2>3, <2>4
<1>7. PICK row : row = Edited(r)
  OBVIOUS
<1>8. invoice' = [invoice EXCEPT ![i] = row] /\ row.paid <= row.total
  BY <1>1, <1>7 DEF CommitEdit, PaidCheckHolds
<1>9. /\ Sheet' = [Sheet EXCEPT ![i] = Shown(row)]
      /\ DOMAIN invoice' = DOMAIN invoice
      /\ \A x \in DOMAIN invoice : invoice'[x].paid = invoice[x].paid
  <2>1. invoice'[i].paid = invoice[i].paid
    BY <1>2, <1>6, <1>7, <1>8
  <2> QED BY <1>8, <2>1, SheetMoves
<1>10. InTurn'
  <2>1. UNCHANGED <<payment, spent, received>>
    BY DEF CommitEdit
  <2>2. Balanced'
    BY <1>9, <2>1 DEF InTurn, Balanced, PaidIsRunningTotal, AllocationsWithinPayment
  <2>3. pc'[r] = "done" /\ \A x \in Requests \ {r} : pc'[x] = pc[x]
    BY DEF CommitEdit, Goto, TypeOK
  <2> QED BY <1>4, <2>2, <2>3, NobodyElse
<1>11. PICK cell \in SheetRow : cell = Sheet[i]
  BY <1>1, SheetShows
<1>12. /\ cell = Shown(old) /\ Shown(old) \in SheetRow
       /\ DOMAIN Sheet = DOMAIN invoice
  BY <1>2, <1>11, SheetShows
<1>13. Sheet'[i] = Shown(row) /\ DOMAIN Sheet' = DOMAIN Sheet
       /\ \A x \in DOMAIN Sheet \ {i} : Sheet'[x] = Sheet[x]
  BY <1>9, <1>12
<1>14. CASE arg[r].op = "update"
  <2>1. Shown(row) = [cell EXCEPT !.total = t] /\ Shown(row).total = t /\ cell.paid <= t
    BY <1>6, <1>7, <1>8, <1>12, <1>14 DEF Shown, SheetRow
  <2>2. cell.status \in Editable
    BY <1>5, <1>12, <1>14 DEF Shown
  <2>3. Lifecycle!Recompute(i)
    BY <1>8, <1>11, <1>12, <1>13, <2>1, <2>2
       DEF Lifecycle!Recompute, Lifecycle!Known, Lifecycle!Others, Lifecycle!Editable, Editable,
           SheetRow
  <2> QED BY <1>4, <1>10, <2>3 DEF Lifecycle!Next
<1>15. CASE arg[r].op = "issue"
  <2>1. Shown(row) = [cell EXCEPT !.status = "SENT"]
    BY <1>6, <1>7, <1>12, <1>15 DEF Shown, SheetRow
  <2>2. cell.status = "DRAFT"
    BY <1>5, <1>12, <1>15 DEF Shown
  <2>3. Sheet' = [Sheet EXCEPT ![i].status = "SENT"]
    BY <1>9, <1>11, <2>1
  <2>4. Lifecycle!Issue(i)
    BY <1>11, <1>12, <2>2, <2>3 DEF Lifecycle!Issue, Lifecycle!Known
  <2> QED BY <1>4, <1>10, <2>4 DEF Lifecycle!Next
<1>16. CASE arg[r].op = "void"
  <2>1. Shown(row) = [cell EXCEPT !.status = "VOID"]
    BY <1>6, <1>7, <1>12, <1>16 DEF Shown, SheetRow
  <2>2. cell.status \in Voidable
    BY <1>5, <1>12, <1>16 DEF Shown
  <2>3. Sheet' = [Sheet EXCEPT ![i].status = "VOID"]
    BY <1>9, <1>11, <2>1
  <2>4. Lifecycle!Void(i)
    BY <1>11, <1>12, <2>2, <2>3
       DEF Lifecycle!Void, Lifecycle!Known, Lifecycle!Voidable, Voidable
  <2> QED BY <1>4, <1>10, <2>4 DEF Lifecycle!Next
<1> QED BY <1>4, <1>10, <1>14, <1>15, <1>16

LEMMA CellPaid ==
    ASSUME NEW cell \in SheetRow, NEW k \in Nat, NEW s \in InvoiceStatus
    PROVE  [cell EXCEPT !.paid = k, !.status = s] = [total |-> cell.total, paid |-> k, status |-> s]
<1> DEFINE new == [cell EXCEPT !.paid = k, !.status = s]
<1>1. new \in SheetRow /\ new.total = cell.total /\ new.paid = k /\ new.status = s
  BY DEF SheetRow
<1>2. [total |-> cell.total, paid |-> k, status |-> s] \in SheetRow
  BY DEF SheetRow
<1> HIDE DEF new
<1>3. new = [total |-> new.total, paid |-> new.paid, status |-> new.status]
  BY <1>1 DEF SheetRow
<1>4. new = [total |-> cell.total, paid |-> k, status |-> s]
  BY <1>1, <1>3
<1> QED BY <1>4 DEF new

\* The sums a payment is part of, when its transaction commits.
LEMMA TurnPays ==
    ASSUME TypeOK, InTurn, NEW r \in Requests, CommitMoney(r)
    PROVE  InTurn' /\ (Lifecycle!Next \/ Sheet' = Sheet)
<1> USE BillingAssumption
<1>1. PICK p \in Payments, q \in Amounts : p = arg[r].payment /\ q = arg[r].amount
  BY WriteTarget DEF CommitMoney
<1>2. /\ q \in Nat /\ q >= 1 /\ pc[r] = "write" /\ pc[r] \in Pending
      /\ arg[r].op \in MoneyOps /\ ReadsNow(arg[r], seen[r], pc[r])
      /\ pc'[r] = "done" /\ \A x \in Requests \ {r} : pc'[x] = pc[x]
      /\ arg[r].op = "record" => p \notin DOMAIN payment
      /\ arg[r].op = "allocate" => p \in DOMAIN payment
  <2>1. pc[r] = "write" /\ arg[r].op \in MoneyOps
    BY DEF CommitMoney
  <2>2. ReadsNow(arg[r], seen[r], pc[r])
    BY <2>1 DEF InTurn
  <2>3. pc'[r] = "done" /\ \A x \in Requests \ {r} : pc'[x] = pc[x]
    BY DEF CommitMoney, Goto, TypeOK
  <2>4. /\ arg[r].op = "record" => p \notin DOMAIN payment
        /\ arg[r].op = "allocate" => p \in DOMAIN payment
    BY <1>1, <2>1 DEF TypeOK, ArgumentFits, CreateArg, EditArg, RecordArg, AllocateArg
  <2> QED BY <1>1, <2>1, <2>2, <2>3, <2>4
<1>3. /\ arg[r].op = "record" => DOMAIN payment' = DOMAIN payment \cup {p} /\ payment'[p] = q
      /\ arg[r].op # "record" => payment' = payment
      /\ \A x \in DOMAIN payment : x # p => x \in DOMAIN payment' /\ payment'[x] = payment[x]
  BY <1>1 DEF CommitMoney, Put
<1>4. CASE arg[r].invoice = None
  <2>1. UNCHANGED <<invoice, spent, received>>
    BY <1>4 DEF CommitMoney
  <2>2. arg[r].op = "record" => spent[p] = 0 /\ 0 <= q
    BY <1>2 DEF InTurn, Balanced
  <2>3. Balanced'
    BY <1>2, <1>3, <2>1, <2>2
       DEF InTurn, Balanced, PaidIsRunningTotal, AllocationsWithinPayment
  <2>4. Sheet' = Sheet
    BY <2>1 DEF Sheet
  <2> QED BY <1>2, <2>3, <2>4, NobodyElse
<1>5. CASE arg[r].invoice # None
  <2>1. PICK i \in DOMAIN invoice : i = arg[r].invoice /\ i \in Invoices
    BY <1>2, <1>5, WriteTarget DEF TypeOK
  <2>2. PICK old \in InvoiceRow : old = invoice[i] /\ old.paid = received[i]
    BY DEF TypeOK, InTurn, Balanced, PaidIsRunningTotal
  <2>3. old.status # "VOID" /\ q <= old.total - old.paid
        /\ seen[r].total = old.total /\ seen[r].paid = old.paid
    BY <1>1, <1>2, <1>5, <2>1, <2>2 DEF ReadsNow, AcceptsPayment
  <2>4. PICK row : row = Credited(r)
    OBVIOUS
  <2>5. /\ row.total = old.total /\ row.paid = old.paid + q
        /\ row.status = IF old.paid + q = old.total THEN "PAID" ELSE old.status
    <3>1. row = [old EXCEPT !.paid = old.paid + q,
                            !.status = IF old.paid + q >= old.total THEN "PAID" ELSE @]
      BY <1>1, <2>1, <2>2, <2>3, <2>4 DEF Credited, PaidAfter
    <3>2. old.total \in Nat /\ old.paid \in Nat
      BY DEF InvoiceRow
    <3>3. old.paid + q >= old.total <=> old.paid + q = old.total
      BY <1>2, <2>3, <3>2
    <3> QED BY <3>1, <3>3 DEF InvoiceRow
  <2>6. /\ invoice' = [invoice EXCEPT ![i] = row]
        /\ spent' = [spent EXCEPT ![p] = @ + q]
        /\ received' = [received EXCEPT ![i] = @ + q]
    BY <1>1, <1>5, <2>1, <2>4 DEF CommitMoney
  <2>7. /\ Sheet' = [Sheet EXCEPT ![i] = Shown(row)]
        /\ DOMAIN invoice' = DOMAIN invoice
        /\ invoice'[i] = row
        /\ \A x \in DOMAIN invoice : x # i => invoice'[x] = invoice[x]
    BY <2>6, SheetMoves
  <2>8. /\ received'[i] = received[i] + q
        /\ \A x \in Invoices : x # i => received'[x] = received[x]
        /\ spent'[p] = spent[p] + q /\ spent[p] \in Nat
        /\ \A x \in Payments : x # p => spent'[x] = spent[x]
    BY <2>1, <2>6 DEF TypeOK
  <2>9. spent'[p] <= payment'[p] /\ p \in DOMAIN payment'
    <3>1. CASE arg[r].op = "record"
      <4>1. spent[p] = 0
        BY <1>2, <3>1 DEF InTurn, Balanced
      <4> QED BY <1>2, <1>3, <2>8, <3>1, <4>1
    <3>2. CASE arg[r].op = "allocate"
      <4>1. q <= payment[p] - spent[p] /\ payment[p] \in Nat
        BY <1>1, <1>2, <3>2 DEF ReadsNow, TypeOK
      <4> QED BY <1>2, <1>3, <2>8, <3>2, <4>1
    <3> QED BY <1>2, <3>1, <3>2 DEF MoneyOps
  <2>10. Balanced'
    <3>1. /\ \A x \in DOMAIN invoice' : invoice'[x].paid = received'[x]
          /\ \A x \in Invoices \ DOMAIN invoice' : received'[x] = 0
      BY <2>1, <2>2, <2>5, <2>7, <2>8 DEF InTurn, Balanced, PaidIsRunningTotal, TypeOK
    <3>2. /\ \A x \in DOMAIN payment' : spent'[x] <= payment'[x]
          /\ \A x \in Payments \ DOMAIN payment' : spent'[x] = 0
      <4>1. \A x \in DOMAIN payment' : x # p => x \in DOMAIN payment /\ x \in Payments
        BY <1>2, <1>3 DEF TypeOK
      <4> QED BY <1>3, <2>8, <2>9, <4>1 DEF InTurn, Balanced, AllocationsWithinPayment
    <3> QED BY <3>1, <3>2 DEF Balanced, PaidIsRunningTotal, AllocationsWithinPayment
  <2>11. InTurn'
    BY <1>2, <2>10, NobodyElse
  <2>12. PICK cell \in SheetRow : cell = Sheet[i] /\ cell = Shown(old)
    BY <2>2, SheetShows
  <2>13. PICK k, s : /\ k = cell.paid + q
                     /\ s = IF cell.paid + q = cell.total THEN "PAID" ELSE cell.status
    OBVIOUS
  <2>14. cell.status # "VOID" /\ q \in 1..(cell.total - cell.paid)
    BY <1>2, <2>3, <2>12 DEF Shown, SheetRow
  <2>15. Shown(row) = [cell EXCEPT !.paid = k, !.status = s]
    <3>1. Shown(row) = [total |-> cell.total, paid |-> k, status |-> s]
      BY <2>5, <2>12, <2>13 DEF Shown
    <3>2. [cell EXCEPT !.paid = k, !.status = s] = [total |-> cell.total, paid |-> k, status |-> s]
      <4>1. k \in Nat /\ s \in InvoiceStatus
        BY <1>2, <2>12, <2>13 DEF SheetRow, InvoiceStatus
      <4> QED BY <4>1, CellPaid
    <3> QED BY <3>1, <3>2
  <2>16. Sheet' = [Sheet EXCEPT ![i].paid = @ + q,
                                ![i].status = IF Sheet[i].paid + q = Sheet[i].total
                                              THEN "PAID" ELSE @]
    BY <2>1, <2>7, <2>12, <2>13, <2>15, SheetShows
  <2>17. Lifecycle!Receive(i)
    BY <2>1, <2>12, <2>14, <2>16, SheetShows DEF Lifecycle!Receive, Lifecycle!Known
  <2> QED BY <2>1, <2>11, <2>17 DEF Lifecycle!Next
<1> QED BY <1>4, <1>5

LEMMA TurnInit == Init => InTurn /\ Lifecycle!Init
<1> SUFFICES ASSUME Init PROVE InTurn /\ Lifecycle!Init OBVIOUS
<1>1. /\ DOMAIN invoice = {} /\ DOMAIN payment = {}
      /\ \A p \in Payments : spent[p] = 0
      /\ \A i \in Invoices : received[i] = 0
      /\ \A r \in Requests : pc[r] \notin Pending
  BY DEF Init
<1>2. InTurn
  BY <1>1 DEF InTurn, Balanced, PaidIsRunningTotal, AllocationsWithinPayment
<1>3. Lifecycle!Init
  BY <1>1 DEF Lifecycle!Init, Sheet
<1> QED BY <1>2, <1>3

LEMMA TurnNext ==
    ASSUME MaxInFlight = 1, TypeOK, InTurn, [Next]_vars
    PROVE  InTurn' /\ (Lifecycle!Next \/ Sheet' = Sheet)
<1>1. CASE UNCHANGED Elsewhere
  <2>1. InTurn'
    BY <1>1 DEF Elsewhere, InTurn, Balanced, PaidIsRunningTotal, AllocationsWithinPayment,
                ReadsNow, AcceptsPayment
  <2>2. Sheet' = Sheet
    BY <1>1 DEF Elsewhere, Sheet
  <2> QED BY <2>1, <2>2
<1>2. ASSUME NEW r \in Requests, InsertInvoice(r)
      PROVE  InTurn' /\ (Lifecycle!Next \/ Sheet' = Sheet)
  BY <1>2, TurnInserts DEF Lifecycle!Next
<1>3. ASSUME NEW r \in Requests, Handle(r) \/ TransientError(r) \/ Crash(r)
      PROVE  InTurn' /\ (Lifecycle!Next \/ Sheet' = Sheet)
  BY <1>2, <1>3, TurnEdits, TurnPays, TurnHandles DEF Handle
<1>4. ASSUME NEW r \in Requests, NEW a, NEW view, NEW label, Arrival(r, a, view, label)
      PROVE  InTurn' /\ (Lifecycle!Next \/ Sheet' = Sheet)
  BY <1>4, TurnArrives
<1> QED BY <1>1, <1>3, <1>4, StepCases

\* In the behaviours whose requests are handled in turn.
TurnInv == handling = "in turn" => TypeOK /\ InTurn

LEMMA TurnInvInit == MCInit => TurnInv /\ Lifecycle!Init
BY TypeInit, TurnInit DEF MCInit, TurnInv

LEMMA TurnInvNext ==
    ASSUME MaxInFlight = 1, TurnInv, [MCNext]_<<vars, handling>>
    PROVE  TurnInv' /\ [handling = "in turn" => Lifecycle!Next]_Sheet
<1>1. handling' = handling /\ (handling = "in turn" => [Next]_vars)
  BY DEF MCNext
<1>2. CASE handling = "in turn"
  <2>1. TypeOK /\ InTurn /\ [Next]_vars
    BY <1>1, <1>2 DEF TurnInv
  <2>2. TypeOK'
    BY <2>1, TypeNext
  <2>3. InTurn' /\ (Lifecycle!Next \/ Sheet' = Sheet)
    BY <2>1, TurnNext
  <2> QED BY <2>2, <2>3 DEF TurnInv
<1>3. CASE handling # "in turn"
  BY <1>1, <1>3 DEF TurnInv
<1> QED BY <1>2, <1>3

\* "a denormalized running total maintained by the application whenever a
\* Payment succeeds" (schema.prisma, Invoice): so it is, whatever requests are
\* retried, refused or crash, as long as they are handled one at a time.
THEOREM RunningTotalInTurn == MaxInFlight = 1 => (MCSpec => []PaidIsRunningTotalInTurn)
<1> SUFFICES ASSUME MaxInFlight = 1 PROVE MCSpec => []PaidIsRunningTotalInTurn OBVIOUS
<1>1. MCInit => TurnInv
  BY TurnInvInit
<1>2. TurnInv /\ [MCNext]_<<vars, handling>> => TurnInv'
  BY TurnInvNext
<1>3. TurnInv => PaidIsRunningTotalInTurn
  BY DEF TurnInv, InTurn, Balanced, PaidIsRunningTotalInTurn
<1> QED BY <1>1, <1>2, <1>3, PTL DEF MCSpec

\* "Payment allocations cannot exceed payment amount" (payment.service.ts): they
\* do not, as long as requests are handled one at a time.
THEOREM AllocationsFitInTurn == MaxInFlight = 1 => (MCSpec => []AllocationsWithinPaymentInTurn)
<1> SUFFICES ASSUME MaxInFlight = 1 PROVE MCSpec => []AllocationsWithinPaymentInTurn OBVIOUS
<1>1. MCInit => TurnInv
  BY TurnInvInit
<1>2. TurnInv /\ [MCNext]_<<vars, handling>> => TurnInv'
  BY TurnInvNext
<1>3. TurnInv => AllocationsWithinPaymentInTurn
  BY DEF TurnInv, InTurn, Balanced, AllocationsWithinPaymentInTurn
<1> QED BY <1>1, <1>2, <1>3, PTL DEF MCSpec

\* Handled one at a time, requests move every invoice as InvoiceLifecycle says
\* (invoice.service.ts, payment.service.ts): a draft is recomputed, issued once,
\* paid up to its total and never beyond, voided until it is paid, and then final.
THEOREM LifecycleInTurn == MaxInFlight = 1 => (MCSpec => FollowsLifecycleInTurn)
<1> SUFFICES ASSUME MaxInFlight = 1 PROVE MCSpec => FollowsLifecycleInTurn OBVIOUS
<1>1. MCInit => TurnInv /\ Lifecycle!Init
  BY TurnInvInit
<1>2. TurnInv /\ [MCNext]_<<vars, handling>>
          => TurnInv' /\ [handling = "in turn" => Lifecycle!Next]_Sheet
  BY TurnInvNext
<1> QED BY <1>1, <1>2, PTL DEF MCSpec, FollowsLifecycleInTurn
=============================================================================
