------------------------------ MODULE Billing ------------------------------
(***************************************************************************)
(* InvoiceService and PaymentService over the tables invoices, payments    *)
(* and payment_allocations, under concurrent HTTP requests.                *)
(*                                                                         *)
(* Every handler reads the invoice (and the payment) first and writes      *)
(* later, by id, values computed from what it read.  The rows of           *)
(* payment_allocations are kept as the two sums taken of them: by payment  *)
(* (sumAllocationsInTx) and by invoice.  A transaction that only writes    *)
(* after its reads is one step from its first write to its COMMIT.         *)
(* Amounts are in the currency's smallest unit.  One tenant.               *)
(***************************************************************************)
EXTENDS Integers, FiniteSets

CONSTANTS
    Invoices,       \* ids available to new invoices
    Payments,       \* ids available to new payments
    Requests,       \* HTTP requests, each handled once
    Subtotals,      \* what the items of an order may add up to
    Rates,          \* percentages of the tax rates
    Amounts,        \* amounts paid or allocated
    NumberAttempts, \* INVOICE_NUMBER_GENERATION_MAX_ATTEMPTS
    MaxAttempts,    \* DB_TRANSACTION_RETRY_POLICY.maxAttempts
    MaxInFlight,    \* bound: requests handled at the same time
    LastYear        \* bound: years, the first is 1

ASSUME BillingAssumption ==
    /\ Subtotals \subseteq Nat
    /\ Rates \subseteq 0..100
    /\ Amounts \subseteq Nat \ {0}
    /\ NumberAttempts \in Nat \ {0}
    /\ MaxAttempts \in Nat \ {0}
    /\ MaxInFlight \in Nat
    /\ LastYear \in Nat

VARIABLES
    invoice,        \* invoices: id -> row
    payment,        \* payments: id -> amount
    spent,          \* sum of the allocations of each payment
    received,       \* sum of the allocations to each invoice
    pc,             \* where each request is
    arg,            \* what each request was asked to do
    seen,           \* what it has read, and its attempts at a number
    tries,          \* attempts of its transaction
    year            \* the calendar year, in UTC

vars == <<invoice, payment, spent, received, pc, arg, seen, tries, year>>

None == "none"

InvoiceStatus == {"DRAFT", "SENT", "PAID", "OVERDUE", "VOID"}
Editable      == {"DRAFT"}
Voidable      == {"DRAFT", "SENT", "OVERDUE"}

\* An invoice number names a year and a place in it.
InvoiceNumber == [year : Nat, place : Nat]

\* `created' is the year of createdAt.
InvoiceRow == [number : InvoiceNumber, created : Nat, subtotal : Nat, total : Nat,
               paid : Nat, status : InvoiceStatus]

\* TaxService.calculateTax: a percentage, rounded half up to the smallest unit.
TaxOf(subtotal, rate) == (subtotal * rate + 50) \div 100

\* Mutant: the CHECK bounds amount_paid only from below.
PaidCheckFromBelow(row) == row.paid >= 0

\* invoices_amount_paid_check.
PaidCheckHolds(row) == row.paid <= row.total

Pending  == {"number", "insert", "sum", "write"}
Finished == {"done", "rejected", "failed"}
InFlight == {r \in Requests : pc[r] \in Pending}

MoneyOps == {"record", "allocate"}
\* What a request has read; `begun' is history: how many invoices there were
\* when it arrived.
NoNumber == [year |-> 0, place |-> 0]
Seeing(total, paid) == [number |-> NoNumber, attempt |-> 1, total |-> total, paid |-> paid,
                        begun |-> 0]
NothingSeen         == Seeing(0, 0)
NothingButCount     == [Seeing(0, 0) EXCEPT !.begun = Cardinality(DOMAIN invoice)]

Init ==
    /\ invoice = [i \in {} |-> {}]
    /\ payment = [p \in {} |-> 0]
    /\ spent = [p \in Payments |-> 0]
    /\ received = [i \in Invoices |-> 0]
    /\ pc = [r \in Requests |-> "idle"]
    /\ arg = [r \in Requests |-> [op |-> "none"]]
    /\ seen = [r \in Requests |-> NothingSeen]
    /\ tries = [r \in Requests |-> 1]
    /\ year = 1

Put(table, id, row) ==
    [x \in DOMAIN table \cup {id} |-> IF x = id THEN row ELSE table[x]]

\* A step of r, within a year.
Goto(r, label) ==
    /\ pc' = [pc EXCEPT ![r] = label]
    /\ UNCHANGED year

Arrive(r, a, view, label) ==
    /\ pc[r] = "idle"
    /\ Cardinality(InFlight) < MaxInFlight
    /\ arg' = [arg EXCEPT ![r] = a]
    /\ seen' = [seen EXCEPT ![r] = view]
    /\ Goto(r, label)
    /\ UNCHANGED <<invoice, payment, spent, received, tries>>

-----------------------------------------------------------------------------
(* What each handler reads and checks before it writes.                    *)

\* createFromOrder: the order's subtotal and the tax rate are read first.
CreateFromOrder(r, i, subtotal, rate) ==
    /\ i \notin DOMAIN invoice
    /\ \A s \in Requests : arg[s].op = "create" => arg[s].invoice # i
    /\ Arrive(r, [op |-> "create", invoice |-> i, subtotal |-> subtotal, rate |-> rate],
              NothingButCount, "number")

\* update: 400 unless the row read is a draft.  A new tax rate gives a new
\* total; without one (a new due date) the total read is written back.
Update(r, i, total) ==
    /\ i \in DOMAIN invoice
    /\ Arrive(r, [op |-> "update", invoice |-> i], Seeing(total, 0),
              IF invoice[i].status \in Editable THEN "write" ELSE "rejected")

UpdateTax(r, i, rate) ==
    Update(r, i, invoice[i].subtotal + TaxOf(invoice[i].subtotal, rate))

UpdateDueDate(r, i) == Update(r, i, invoice[i].total)

Issue(r, i) ==
    /\ i \in DOMAIN invoice
    /\ Arrive(r, [op |-> "issue", invoice |-> i], NothingSeen,
              IF invoice[i].status = "DRAFT" THEN "write" ELSE "rejected")

Void(r, i) ==
    /\ i \in DOMAIN invoice
    /\ Arrive(r, [op |-> "void", invoice |-> i], NothingSeen,
              IF invoice[i].status \in Voidable THEN "write" ELSE "rejected")

\* Mutant: a payment is checked against the balance, but not the status.
WithinBalance(i, amount) == amount <= invoice[i].total - invoice[i].paid

\* assertInvoiceAcceptsPayments and assertWithinRemainingInvoiceBalance.
AcceptsPayment(i, amount) ==
    /\ invoice[i].status # "VOID"
    /\ amount <= invoice[i].total - invoice[i].paid

View(i) == Seeing(invoice[i].total, invoice[i].paid)

\* record, for an invoice or for a later allocation.
Record(r, p, i, amount) ==
    /\ p \notin DOMAIN payment
    /\ \A s \in Requests : arg[s].op = "record" => arg[s].payment # p
    /\ \/ /\ i = None
          /\ Arrive(r, [op |-> "record", payment |-> p, invoice |-> None, amount |-> amount],
                    NothingSeen, "write")
       \/ /\ i \in DOMAIN invoice
          /\ Arrive(r, [op |-> "record", payment |-> p, invoice |-> i, amount |-> amount],
                    View(i), IF AcceptsPayment(i, amount) THEN "write" ELSE "rejected")

Allocate(r, p, i, amount) ==
    /\ p \in DOMAIN payment
    /\ i \in DOMAIN invoice
    /\ Arrive(r, [op |-> "allocate", payment |-> p, invoice |-> i, amount |-> amount],
              View(i), IF AcceptsPayment(i, amount) THEN "sum" ELSE "rejected")

-----------------------------------------------------------------------------
(* createFromOrder: a number is taken from a count and tried.              *)

Numbers == {invoice[i].number : i \in DOMAIN invoice}

\* countForTenantAndYear: whatever their status and their number.
CreatedIn(y) == {i \in DOMAIN invoice : invoice[i].created = y}

\* Mutant: a void invoice is not counted.
NextNumberPastValid ==
    [year  |-> year,
     place |-> Cardinality({i \in CreatedIn(year) : invoice[i].status # "VOID"}) + 1]

NextNumber == [year |-> year, place |-> Cardinality(CreatedIn(year)) + 1]

\* generateInvoiceNumber.
TakeNumber(r) ==
    /\ pc[r] = "number"
    /\ seen' = [seen EXCEPT ![r].number = NextNumber]
    /\ Goto(r, "insert")
    /\ UNCHANGED <<invoice, payment, spent, received, arg, tries>>

\* The transaction that inserts the invoice and its items.
InsertInvoice(r) ==
    /\ pc[r] = "insert"
    /\ seen[r].number \notin Numbers
    /\ invoice' = Put(invoice, arg[r].invoice,
                      [number   |-> seen[r].number,
                       created  |-> year,
                       subtotal |-> arg[r].subtotal,
                       total    |-> arg[r].subtotal + TaxOf(arg[r].subtotal, arg[r].rate),
                       paid     |-> 0,
                       status   |-> "DRAFT"])
    /\ Goto(r, "done")
    /\ UNCHANGED <<payment, spent, received, arg, seen, tries>>

\* Mutant: the same number is tried again.
NumberTakenTryAgain(r) ==
    /\ pc[r] = "insert"
    /\ seen[r].number \in Numbers
    /\ \/ /\ seen[r].attempt < NumberAttempts
          /\ seen' = [seen EXCEPT ![r].attempt = @ + 1]
          /\ tries' = [tries EXCEPT ![r] = 1]
          /\ Goto(r, "insert")
       \/ /\ seen[r].attempt = NumberAttempts
          /\ Goto(r, "rejected")
          /\ UNCHANGED <<seen, tries>>
    /\ UNCHANGED <<invoice, payment, spent, received, arg>>

\* The unique index refuses the number: count again, or 409.
NumberTaken(r) ==
    /\ pc[r] = "insert"
    /\ seen[r].number \in Numbers
    /\ \/ /\ seen[r].attempt < NumberAttempts
          /\ seen' = [seen EXCEPT ![r].attempt = @ + 1]
          /\ tries' = [tries EXCEPT ![r] = 1]
          /\ Goto(r, "number")
       \/ /\ seen[r].attempt = NumberAttempts
          /\ Goto(r, "rejected")
          /\ UNCHANGED <<seen, tries>>
    /\ UNCHANGED <<invoice, payment, spent, received, arg>>

-----------------------------------------------------------------------------
(* The other writes, each by id alone.                                     *)

\* Mutant: the balance of the payment is not looked at.
ReadAllocationsUnchecked(r) ==
    /\ pc[r] = "sum"
    /\ Goto(r, "write")
    /\ UNCHANGED <<invoice, payment, spent, received, arg, seen, tries>>

\* allocate: the payment's balance, read inside the transaction, no lock.
ReadAllocations(r) ==
    /\ pc[r] = "sum"
    /\ Goto(r, IF arg[r].amount <= payment[arg[r].payment] - spent[arg[r].payment]
               THEN "write" ELSE "rejected")
    /\ UNCHANGED <<invoice, payment, spent, received, arg, seen, tries>>

\* Mutant: amountPaid becomes the amount of the last allocation.
PaidAfterLast(r) == arg[r].amount

\* Mutant: any payment marks the invoice as paid in full.
PaidInFull(r) == seen[r].total

\* applyAllocationToInvoiceInTx: from the amountPaid read before.
PaidAfter(r) == seen[r].paid + arg[r].amount

\* The row applyAllocationToInvoiceInTx leaves, columns it does not mention
\* as they are by now.
Credited(r) ==
    [invoice[arg[r].invoice] EXCEPT
        !.paid   = PaidAfter(r),
        !.status = IF PaidAfter(r) >= seen[r].total THEN "PAID" ELSE @]

\* The transaction of record or allocate.
CommitMoney(r) ==
    /\ pc[r] = "write"
    /\ arg[r].op \in MoneyOps
    /\ payment' = IF arg[r].op = "record" THEN Put(payment, arg[r].payment, arg[r].amount)
                  ELSE payment
    /\ IF arg[r].invoice = None
       THEN UNCHANGED <<invoice, spent, received>>
       ELSE /\ PaidCheckHolds(Credited(r))
            /\ invoice' = [invoice EXCEPT ![arg[r].invoice] = Credited(r)]
            /\ spent' = [spent EXCEPT ![arg[r].payment] = @ + arg[r].amount]
            /\ received' = [received EXCEPT ![arg[r].invoice] = @ + arg[r].amount]
    /\ Goto(r, "done")
    /\ UNCHANGED <<arg, seen, tries>>

\* The row an update, an issue or a voiding leaves.
Edited(r) ==
    LET row == invoice[arg[r].invoice]
    IN  IF arg[r].op = "update" THEN [row EXCEPT !.total = seen[r].total]
        ELSE [row EXCEPT !.status = IF arg[r].op = "issue" THEN "SENT" ELSE "VOID"]

CommitEdit(r) ==
    /\ pc[r] = "write"
    /\ arg[r].op \in {"update", "issue", "void"}
    /\ PaidCheckHolds(Edited(r))
    /\ invoice' = [invoice EXCEPT ![arg[r].invoice] = Edited(r)]
    /\ Goto(r, "done")
    /\ UNCHANGED <<payment, spent, received, arg, seen, tries>>

\* invoices_amount_paid_check refuses the row; nobody translates the error.
CheckViolation(r) ==
    /\ pc[r] = "write"
    /\ arg[r].invoice # None
    /\ ~PaidCheckHolds(IF arg[r].op \in MoneyOps THEN Credited(r) ELSE Edited(r))
    /\ Goto(r, "failed")
    /\ UNCHANGED <<invoice, payment, spent, received, arg, seen, tries>>

\* withTransactionRetry: the callback runs again; allocate sums again.
TransientError(r) ==
    /\ pc[r] \in {"insert", "sum", "write"}
    /\ \/ /\ tries[r] < MaxAttempts
          /\ tries' = [tries EXCEPT ![r] = @ + 1]
          /\ Goto(r, IF arg[r].op = "allocate" THEN "sum" ELSE pc[r])
       \/ /\ tries[r] = MaxAttempts
          /\ Goto(r, "failed")
          /\ UNCHANGED tries
    /\ UNCHANGED <<invoice, payment, spent, received, arg, seen>>

\* The pod dies, or the error is not retryable.
Crash(r) ==
    /\ pc[r] \in Pending
    /\ Goto(r, "failed")
    /\ UNCHANGED <<invoice, payment, spent, received, arg, seen, tries>>

-----------------------------------------------------------------------------
Handle(r) ==
    \/ TakeNumber(r)
    \/ InsertInvoice(r)
    \/ NumberTaken(r)
    \/ ReadAllocations(r)
    \/ CommitMoney(r)
    \/ CommitEdit(r)
    \/ CheckViolation(r)

\* New year, at any moment.
NextYear ==
    /\ year < LastYear
    /\ year' = year + 1
    /\ UNCHANGED <<invoice, payment, spent, received, pc, arg, seen, tries>>

\* Every request that arrived has been answered: the server waits.
Quiet ==
    /\ InFlight = {}
    /\ UNCHANGED vars

Next ==
    \/ \E r \in Requests :
           \/ \E i \in Invoices, s \in Subtotals, t \in Rates : CreateFromOrder(r, i, s, t)
           \/ \E i \in DOMAIN invoice :
                  \/ \E t \in Rates : UpdateTax(r, i, t)
                  \/ UpdateDueDate(r, i)
                  \/ Issue(r, i)
                  \/ Void(r, i)
           \/ \E p \in Payments, i \in Invoices \cup {None}, a \in Amounts :
                  Record(r, p, i, a) \/ Allocate(r, p, i, a)
           \/ Handle(r)
           \/ TransientError(r)
           \/ Crash(r)
    \/ NextYear
    \/ Quiet

Spec == Init /\ [][Next]_vars

-----------------------------------------------------------------------------
(* Properties.                                                             *)

\* What the requests are asked.
NoArg       == [op |-> "none"]
CreateArg   == [op : {"create"}, invoice : Invoices, subtotal : Subtotals, rate : Rates]
EditArg     == [op : {"update", "issue", "void"}, invoice : Invoices]
RecordArg   == [op : {"record"}, payment : Payments, invoice : Invoices \cup {None},
                amount : Amounts]
AllocateArg == [op : {"allocate"}, payment : Payments, invoice : Invoices, amount : Amounts]

\* What a request in progress was asked, and what it may rely on.
ArgumentFits(r) ==
    \/ /\ arg[r] \in CreateArg
       /\ pc[r] \in {"number", "insert"}
       /\ arg[r].invoice \notin DOMAIN invoice
    \/ /\ arg[r] \in EditArg
       /\ pc[r] = "write"
       /\ arg[r].invoice \in DOMAIN invoice
    \/ /\ arg[r] \in RecordArg
       /\ pc[r] = "write"
       /\ arg[r].payment \notin DOMAIN payment
       /\ arg[r].invoice \in DOMAIN invoice \cup {None}
    \/ /\ arg[r] \in AllocateArg
       /\ pc[r] \in {"sum", "write"}
       /\ arg[r].payment \in DOMAIN payment
       /\ arg[r].invoice \in DOMAIN invoice

\* No two requests are given the same new id.
IdsAreOwn ==
    \A x, y \in Requests :
        /\ x # y
        /\ arg[x].op = arg[y].op
        => /\ arg[x].op = "create" => arg[x].invoice # arg[y].invoice
           /\ arg[x].op = "record" => arg[x].payment # arg[y].payment

\* The tables keep their types and their CHECK, and a request in progress
\* refers to rows that exist, or that nobody else will create.
TypeOK ==
    /\ DOMAIN invoice \subseteq Invoices /\ IsFiniteSet(DOMAIN invoice)
    /\ invoice \in [DOMAIN invoice -> InvoiceRow]
    /\ \A i \in DOMAIN invoice : invoice[i].paid <= invoice[i].total
    /\ DOMAIN payment \subseteq Payments
    /\ payment \in [DOMAIN payment -> Amounts]
    /\ spent \in [Payments -> Nat]
    /\ received \in [Invoices -> Nat]
    /\ pc \in [Requests -> {"idle"} \cup Pending \cup Finished]
    /\ arg \in [Requests -> {NoArg} \cup CreateArg \cup EditArg \cup RecordArg \cup AllocateArg]
    /\ seen \in [Requests -> [number : InvoiceNumber, attempt : 1..NumberAttempts,
                              total : Nat, paid : Nat, begun : Nat]]
    /\ tries \in [Requests -> 1..MaxAttempts]
    /\ year \in Nat
    /\ \A r \in Requests : pc[r] \in Pending => ArgumentFits(r)
    /\ IdsAreOwn

\* "A plain count, not a real gap-free sequence" (invoice.repository.ts) is
\* enough to number invoices: the number the count gives is free whenever it is
\* taken, whatever requests compete, crash or are overtaken by the new year, so
\* that no invoice stands in the way of all that follow; and no number is given
\* out twice.
NextNumberIsFree ==
    /\ NextNumber \notin Numbers
    /\ \A i, j \in DOMAIN invoice : invoice[i].number = invoice[j].number => i = j

\* "a bounded retry-on-collision loop" (invoice.service.ts): an invoice is
\* refused for want of a number only if as many others were created since the
\* request arrived as it made attempts.
RefusedOnlyWhenOvertaken ==
    \A r \in Requests :
        arg[r].op = "create" /\ pc[r] = "rejected"
            => Cardinality(DOMAIN invoice) >= seen[r].begun + NumberAttempts

\* However requests overlap, an invoice never shows more paid than has been
\* allocated to it.
PaidIsCovered == \A i \in DOMAIN invoice : invoice[i].paid <= received[i]

\* "a denormalized running total maintained by the application whenever a
\* Payment succeeds" (schema.prisma, Invoice).
PaidIsRunningTotal == \A i \in DOMAIN invoice : invoice[i].paid = received[i]

\* "Payment allocations cannot exceed payment amount" (payment.service.ts).
AllocationsWithinPayment == \A p \in DOMAIN payment : spent[p] <= payment[p]

\* Handled one at a time, requests move every invoice as InvoiceLifecycle says.
Sheet == [i \in DOMAIN invoice |-> [total  |-> invoice[i].total,
                                    paid   |-> invoice[i].paid,
                                    status |-> invoice[i].status]]

Lifecycle == INSTANCE InvoiceLifecycle WITH sheet <- Sheet

FollowsLifecycle == Lifecycle!Spec
=============================================================================
