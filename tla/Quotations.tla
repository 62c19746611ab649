----------------------------- MODULE Quotations -----------------------------
(***************************************************************************)
(* QuotationService over QuotationRepository, the store of documents and   *)
(* the job runner, under concurrent HTTP requests.                         *)
(*                                                                         *)
(* Every handler reads the quotation first: its row, then its payment      *)
(* stages (and items), in statements of their own.  update then runs one   *)
(* transaction that deletes rows and inserts others; at READ COMMITTED a   *)
(* DELETE removes the rows that were there when the statement started and  *)
(* waits for whoever deletes them already.  send uploads the document and  *)
(* writes the row afterwards.  All writes are by id alone.                 *)
(*                                                                         *)
(* Rows inserted together are kept together, as a batch: items with what   *)
(* they add up to, stages with their percentages and what they add up to.  *)
(* Amounts are in the currency's smallest unit, percentages in thousandths *)
(* of a percent.  A quotation is named after the request that creates it.  *)
(* One tenant, one calendar year.                                          *)
(***************************************************************************)
EXTENDS Integers, Sequences, FiniteSetsExt

CONSTANTS
    Drafts,         \* quotations that exist at the start
    Requests,       \* HTTP requests, each handled once
    Contents,       \* what create and update may be given: each of subtotal (what
                    \* the items add up to), charges (tax less discount) and plan
                    \* (percentages of the payment stages), {} or {value}
    Opening,        \* subtotal of the quotations that exist at the start
    Default,        \* DEFAULT_PAYMENT_STAGES
    NumberAttempts, \* QUOTATION_NUMBER_GENERATION_MAX_ATTEMPTS
    MaxAttempts,    \* DB_TRANSACTION_RETRY_POLICY.maxAttempts
    MaxInFlight     \* bound: requests handled at the same time

\* What wrote the rows that exist at the start.
Nobody == "seed"

VARIABLES
    quotation,      \* quotations: id -> row
    items,          \* quotation_items of each quotation: batches
    stages,         \* quotation_payment_stages of each quotation: batches
    store,          \* the document stored under each quotation's key
    mailed,         \* quotations an email job was started for
    astray,         \* history: written by a request whose reading was outdated
    req             \* requests: where each is, what it was asked, what it read

tables == <<quotation, items, stages, store, mailed, astray>>
vars   == <<quotation, items, stages, store, mailed, astray, req>>

Quotations == Drafts \cup Requests

-----------------------------------------------------------------------------
(* Amounts.                                                                *)

SumOver(f) == MapThenSumSet(LAMBDA k : f[k], DOMAIN f)
Abs(n)     == IF n < 0 THEN -n ELSE n

\* Columns of type Decimal(5, 2): half up to the hundredth of a percent.
Stored(plan) == [k \in DOMAIN plan |-> ((plan[k] + 5) \div 10) * 10]

\* buildPaymentStageRows.  Sums that miss 100 by exactly the tolerance miss it
\* by a little more in floating point.
Accepted(plan) == Abs(SumOver(plan) - 100000) < 10

\* What the constants are: the modules that give them values assume it.
QuotationsAssumption ==
    /\ Drafts \cap Requests = {} /\ IsFiniteSet(Drafts) /\ Nobody \notin Requests
    /\ \A c \in Contents :
           /\ c.subtotal \subseteq Nat /\ c.charges \subseteq Int
           /\ c.plan \subseteq Seq(Nat) \ {<<>>}
    /\ Opening \in Nat
    /\ Default \in Seq(Nat) \ {<<>>} /\ Accepted(Default)
    /\ NumberAttempts \in Nat \ {0} /\ MaxAttempts \in Nat \ {0} /\ MaxInFlight \in Nat

\* The amounts of the stages, in a column of type Decimal(12, 2).
Due(plan, total) ==
    SumOver([k \in DOMAIN plan |-> (total * plan[k] + 50000) \div 100000])

StageBatch(r, plan, total) ==
    [by |-> r, plan |-> Stored(plan), due |-> Due(plan, total), total |-> total]

ItemBatch(r, subtotal) == [by |-> r, amount |-> subtotal]

\* An optional field of a request.
Given(option, default) == IF option = {} THEN default ELSE CHOOSE v \in option : TRUE

NoDoc    == [total |-> -1, due |-> 0, parts |-> 0]     \* no document shows a debt
NoRow    == [number |-> 0, status |-> "none", subtotal |-> 0, charges |-> 0, total |-> 0,
             pdf |-> FALSE]
NoView   == [row |-> NoRow, stages |-> {}]
NoRows   == [items |-> {}, stages |-> {}]

\* A request: its next step, what it was asked and what it has read, the rows
\* its DELETE statements found, its number and attempts at one, the attempts
\* of its transaction.
Request(label, a, view) ==
    [pc |-> label, arg |-> a, seen |-> view, doomed |-> NoRows, number |-> 0,
     draws |-> 1, tries |-> 1]

NoArg  == [op |-> "none"]
At(label) == Request(label, NoArg, NoView)

\* A quotation of the start, given its place among them.
Seeded(n) == [number |-> n, status |-> "DRAFT", subtotal |-> Opening, charges |-> 0,
              total |-> Opening, pdf |-> FALSE]

Init ==
    /\ quotation \in {f \in [Drafts -> {Seeded(n) : n \in 1..Cardinality(Drafts)}] :
                         \A x, y \in Drafts : f[x] = f[y] => x = y}
    /\ items = [q \in Quotations |-> IF q \in Drafts THEN {ItemBatch(Nobody, Opening)} ELSE {}]
    /\ stages = [q \in Quotations |->
                    IF q \in Drafts THEN {StageBatch(Nobody, Default, Opening)} ELSE {}]
    /\ store = [q \in Quotations |-> NoDoc]
    /\ mailed = {}
    /\ astray = {}
    /\ req = [r \in Requests |-> At("idle")]

Pending  == {"check", "read", "number", "insert", "items", "lockItems", "stages", "lockStages",
             "write", "upload", "mail"}
Finished == {"done", "rejected", "failed"}
InFlight == {r \in Requests : req[r].pc \in Pending}

Goto(r, label)     == req' = [req EXCEPT ![r].pc = label]
Answer(r, outcome) == req' = [req EXCEPT ![r] = At(outcome)]

Subject(r)  == req[r].arg.quotation
View(q)     == [row |-> quotation[q], stages |-> stages[q]]

\* A write that rests on a reading which is no longer true.
Judge(r) ==
    astray' = IF req[r].seen = View(Subject(r)) THEN astray ELSE astray \cup {Subject(r)}

-----------------------------------------------------------------------------
(* What each handler reads and checks first.                               *)

Arrive(r, a, view, label) ==
    /\ req[r].pc = "idle"
    /\ Cardinality(InFlight) < MaxInFlight
    /\ req' = [req EXCEPT ![r] = Request(label, a, view)]
    /\ UNCHANGED tables

\* create: percentages that do not sum to 100 are a 400.
Create(r, content) ==
    /\ content.subtotal # {}
    /\ Arrive(r, [op |-> "create", quotation |-> r, content |-> content], NoView, "check")

CheckPlan(r) ==
    /\ req[r].pc = "check"
    /\ IF Accepted(Given(req[r].arg.content.plan, Default)) THEN Goto(r, "number")
       ELSE Answer(r, "rejected")
    /\ UNCHANGED tables

\* findActiveById: the row first.
Open(r, q, a) ==
    /\ q \in DOMAIN quotation
    /\ Arrive(r, a, [NoView EXCEPT !.row = quotation[q]], "read")

Update(r, q, content) == Open(r, q, [op |-> "update", quotation |-> q, content |-> content])

Simple(r, q, op) == Open(r, q, [op |-> op, quotation |-> q])

\* The status each handler insists on, and where it goes on with it.
Requires == [update |-> "DRAFT", send |-> "DRAFT", accept |-> "SENT", reject |-> "SENT"]

\* Mutant: the status is written without a document.
FirstStepUndocumented(a) ==
    IF a.op # "update" THEN "write"
    ELSE IF a.content.subtotal = {} THEN "stages" ELSE "items"

FirstStep(a) ==
    IF a.op = "send" THEN "upload"
    ELSE IF a.op # "update" THEN "write"
    ELSE IF a.content.subtotal = {} THEN "stages" ELSE "items"

\* ... then its stages; 400 if the status is not the required one.
ReadStages(r) ==
    /\ req[r].pc = "read"
    /\ IF req[r].seen.row.status = Requires[req[r].arg.op]
       THEN req' = [req EXCEPT ![r].seen.stages = stages[Subject(r)],
                               ![r].pc = FirstStep(req[r].arg)]
       ELSE Answer(r, "rejected")
    /\ UNCHANGED tables

-----------------------------------------------------------------------------
(* create: a number is taken from a count and tried.                       *)

\* Mutant: no unique index on the number.
NumbersUnindexed == {}

Numbers == {quotation[q].number : q \in DOMAIN quotation}

\* generateQuotationNumber.
TakeNumber(r) ==
    /\ req[r].pc = "number"
    /\ req' = [req EXCEPT ![r].number = Cardinality(DOMAIN quotation) + 1, ![r].pc = "insert"]
    /\ UNCHANGED tables

NewRow(r) ==
    LET subtotal == Given(req[r].arg.content.subtotal, 0)
        charges  == Given(req[r].arg.content.charges, 0)
    IN  [number |-> req[r].number, status |-> "DRAFT", subtotal |-> subtotal,
         charges |-> charges, total |-> subtotal + charges, pdf |-> FALSE]

\* The transaction that inserts the quotation, its items and its stages; the
\* CHECK on total_amount ends it in a 500.
Insert(r) ==
    /\ req[r].pc = "insert"
    /\ req[r].number \notin Numbers
    /\ LET q == Subject(r)
       IN  IF NewRow(r).total < 0
           THEN Answer(r, "failed") /\ UNCHANGED tables
           ELSE /\ quotation' = [x \in DOMAIN quotation \cup {q} |->
                                    IF x = q THEN NewRow(r) ELSE quotation[x]]
                /\ items' = [items EXCEPT ![q] = {ItemBatch(r, NewRow(r).subtotal)}]
                /\ stages' = [stages EXCEPT ![q] =
                       {StageBatch(r, Given(req[r].arg.content.plan, Default), NewRow(r).total)}]
                /\ Answer(r, "done")
                /\ UNCHANGED <<store, mailed, astray>>

\* The unique index refuses the number: count again, or 409.
NumberTaken(r) ==
    /\ req[r].pc = "insert"
    /\ req[r].number \in Numbers
    /\ \/ /\ req[r].draws < NumberAttempts
          /\ req' = [req EXCEPT ![r].draws = @ + 1, ![r].tries = 1, ![r].pc = "number"]
       \/ /\ req[r].draws = NumberAttempts
          /\ Answer(r, "rejected")
    /\ UNCHANGED tables

-----------------------------------------------------------------------------
(* update: delete, compute from what was read, insert, all or nothing.     *)

\* The rows a transaction has deleted and not committed yet.
Deleted(r) ==
    [items  |-> IF req[r].pc = "lockItems" THEN {} ELSE req[r].doomed.items,
     stages |-> IF req[r].pc = "lockStages" THEN {} ELSE req[r].doomed.stages]

\* deleteItemsInTx, deletePaymentStagesInTx: the statement starts and finds rows.
FindItems(r) ==
    /\ req[r].pc = "items"
    /\ req' = [req EXCEPT ![r].doomed.items = items[Subject(r)], ![r].pc = "lockItems"]
    /\ UNCHANGED tables

FindStages(r) ==
    /\ req[r].pc = "stages"
    /\ req' = [req EXCEPT ![r].doomed.stages = stages[Subject(r)], ![r].pc = "lockStages"]
    /\ UNCHANGED tables

\* It waits for other transactions that delete some of them.
LockItems(r) ==
    /\ req[r].pc = "lockItems"
    /\ \A s \in Requests \ {r} : req[r].doomed.items \cap Deleted(s).items = {}
    /\ Goto(r, "stages")
    /\ UNCHANGED tables

\* The stages of a reading, in one list; their percentages as stored.
PlanRead(r) == FoldSet(LAMBDA b, plan : plan \o b.plan, <<>>, req[r].seen.stages)

PlanAfter(r) == Given(req[r].arg.content.plan, PlanRead(r))

LockStages(r) ==
    /\ req[r].pc = "lockStages"
    /\ \A s \in Requests \ {r} : req[r].doomed.stages \cap Deleted(s).stages = {}
    /\ IF Accepted(PlanAfter(r)) THEN Goto(r, "write") ELSE Answer(r, "rejected")
    /\ UNCHANGED tables

TotalAfter(r) ==
    LET row == req[r].seen.row
    IN  Given(req[r].arg.content.subtotal, row.subtotal) + Given(req[r].arg.content.charges, row.charges)

\* Mutant: the schedule of an update without items is left as it was.
ScheduleAfterKept(r) ==
    IF req[r].arg.content.subtotal = {} THEN stages[Subject(r)]
    ELSE (stages[Subject(r)] \ req[r].doomed.stages)
         \cup {StageBatch(r, PlanAfter(r), TotalAfter(r))}

\* Mutant: the schedule there was is not deleted.
ScheduleAfterAdded(r) ==
    stages[Subject(r)] \cup {StageBatch(r, PlanAfter(r), TotalAfter(r))}

ScheduleAfter(r) ==
    (stages[Subject(r)] \ req[r].doomed.stages)
    \cup {StageBatch(r, PlanAfter(r), TotalAfter(r))}

\* Mutant: the sum of the new items is not written.
RowAfterWithoutSubtotal(r) ==
    [quotation[Subject(r)] EXCEPT
        !.charges = Given(req[r].arg.content.charges, req[r].seen.row.charges),
        !.total = TotalAfter(r)]

\* The row updateInTx leaves, columns it does not mention as they are by now.
RowAfter(r) ==
    [quotation[Subject(r)] EXCEPT
        !.subtotal = Given(req[r].arg.content.subtotal, @),
        !.charges = Given(req[r].arg.content.charges, req[r].seen.row.charges),
        !.total = TotalAfter(r)]

CommitUpdate(r) ==
    /\ req[r].pc = "write"
    /\ req[r].arg.op = "update"
    /\ IF TotalAfter(r) < 0
       THEN Answer(r, "failed") /\ UNCHANGED tables
       ELSE LET q == Subject(r)
            IN  /\ quotation' = [quotation EXCEPT ![q] = RowAfter(r)]
                /\ items' = IF req[r].arg.content.subtotal = {} THEN items
                            ELSE [items EXCEPT ![q] =
                                     (@ \ req[r].doomed.items)
                                     \cup {ItemBatch(r, Given(req[r].arg.content.subtotal, 0))}]
                /\ stages' = [stages EXCEPT ![q] = ScheduleAfter(r)]
                /\ Judge(r)
                /\ Answer(r, "done")
                /\ UNCHANGED <<store, mailed>>

-----------------------------------------------------------------------------
(* send, accept and reject.                                                *)

\* What a document shows of a reading.
Rendered(view) ==
    [total |-> view.row.total,
     due   |-> MapThenSumSet(LAMBDA b : b.due, view.stages),
     parts |-> MapThenSumSet(LAMBDA b : Len(b.plan), view.stages)]

\* The key names the quotation: an upload replaces the one before.
UploadDocument(r) ==
    /\ req[r].pc = "upload"
    /\ store' = [store EXCEPT ![Subject(r)] = Rendered(req[r].seen)]
    /\ Judge(r)
    /\ Goto(r, "write")
    /\ UNCHANGED <<quotation, items, stages, mailed>>

Becomes == [send |-> "SENT", accept |-> "ACCEPTED", reject |-> "REJECTED"]

\* UPDATE ... WHERE id: whatever the status is by now.  After a send the
\* recipient is mailed, if it has an address.
CommitStatus(r) ==
    /\ req[r].pc = "write"
    /\ req[r].arg.op \in DOMAIN Becomes
    /\ quotation' = [quotation EXCEPT ![Subject(r)].status = Becomes[req[r].arg.op],
                                      ![Subject(r)].pdf = @ \/ req[r].arg.op = "send"]
    /\ Judge(r)
    /\ \/ req[r].arg.op = "send" /\ Goto(r, "mail")
       \/ Answer(r, "done")
    /\ UNCHANGED <<items, stages, store, mailed>>

StartMail(r) ==
    /\ req[r].pc = "mail"
    /\ mailed' = mailed \cup {Subject(r)}
    /\ Answer(r, "done")
    /\ UNCHANGED <<quotation, items, stages, store, astray>>

-----------------------------------------------------------------------------
(* Failures.                                                               *)

InTransaction(r) ==
    \/ req[r].pc = "insert"
    \/ req[r].arg.op = "update" /\ req[r].pc \in Pending \ {"read"}

\* withTransactionRetry: rolled back, and the callback runs again on what was
\* read before it.
TransientError(r) ==
    /\ InTransaction(r)
    /\ \/ /\ req[r].tries < MaxAttempts
          /\ req' = [req EXCEPT ![r].tries = @ + 1, ![r].doomed = NoRows,
                     ![r].pc = IF @ = "insert" THEN @ ELSE FirstStep(req[r].arg)]
       \/ /\ req[r].tries = MaxAttempts
          /\ Answer(r, "failed")
    /\ UNCHANGED tables

\* The pod dies, the store answers 503, or the error is not retryable.
Crash(r) ==
    /\ req[r].pc \in Pending
    /\ Answer(r, "failed")
    /\ UNCHANGED tables

-----------------------------------------------------------------------------
Handle(r) ==
    \/ CheckPlan(r)
    \/ ReadStages(r)
    \/ TakeNumber(r)
    \/ Insert(r)
    \/ NumberTaken(r)
    \/ FindItems(r)
    \/ FindStages(r)
    \/ LockItems(r)
    \/ LockStages(r)
    \/ CommitUpdate(r)
    \/ UploadDocument(r)
    \/ CommitStatus(r)
    \/ StartMail(r)

Quiet ==
    /\ InFlight = {}
    /\ UNCHANGED vars

Next ==
    \/ \E r \in Requests :
           \/ \E c \in Contents : Create(r, c)
           \/ \E q \in DOMAIN quotation :
                  \/ \E c \in Contents : Update(r, q, c)
                  \/ \E op \in {"send", "accept", "reject"} : Simple(r, q, op)
           \/ Handle(r)
           \/ TransientError(r)
           \/ Crash(r)
    \/ Quiet

Spec == Init /\ [][Next]_vars

-----------------------------------------------------------------------------
(* Properties.                                                             *)

QuotationRow == [number : Nat \ {0}, status : {"DRAFT", "SENT", "ACCEPTED", "REJECTED"},
                 subtotal : Nat, charges : Int, total : Nat, pdf : BOOLEAN]

\* The tables keep their types, the CHECK on totals and the unique index on
\* numbers, and nothing hangs on a quotation that does not exist.
TypeOK ==
    /\ DOMAIN quotation \subseteq Quotations
    /\ quotation \in [DOMAIN quotation -> QuotationRow]
    /\ \A x, y \in DOMAIN quotation : quotation[x].number = quotation[y].number => x = y
    /\ \A q \in Quotations \ DOMAIN quotation : items[q] = {} /\ stages[q] = {}
    /\ \A r \in Requests :
           /\ req[r].pc \in {"idle"} \cup Pending \cup Finished
           /\ req[r].tries \in 1..MaxAttempts
           /\ req[r].draws \in 1..NumberAttempts
    /\ mailed \cup astray \subseteq DOMAIN quotation

\* "re-deriving each existing stage's amount against the fresh total"
\* (quotation.service.ts, update): however updates overlap, some schedule of a
\* quotation was computed for the total the quotation has now.
TotalIsScheduled ==
    \A q \in DOMAIN quotation : \E b \in stages[q] : b.total = quotation[q].total

\* A quotation whose requests read it as it was shows the sum of its items.
ItemsAddUp ==
    \A q \in DOMAIN quotation \ astray :
        /\ quotation[q].subtotal = MapThenSumSet(LAMBDA b : b.amount, items[q])
        /\ quotation[q].total = quotation[q].subtotal + quotation[q].charges

\* "the PDF itself (the response's own pdfUrl) is already real"
\* (quotation.service.ts, send): whatever fails, a quotation that left DRAFT has
\* its document, and only such a quotation is mailed.
DocumentBeforeSent ==
    \A q \in DOMAIN quotation :
        /\ quotation[q].status # "DRAFT" => quotation[q].pdf
        /\ quotation[q].pdf => store[q] # NoDoc
        /\ q \in mailed => quotation[q].status # "DRAFT"

\* A quotation whose requests read it as it was lives as QuotationLifecycle says.
Sheet ==
    [q \in DOMAIN quotation \ astray |->
        [status |-> quotation[q].status,
         terms  |-> Rendered(View(q)),
         shown  |-> IF quotation[q].pdf THEN store[q] ELSE NoDoc]]

Lifecycle == INSTANCE QuotationLifecycle WITH sheet <- Sheet

FollowsLifecycle == Lifecycle!Spec

\* "omitted means "leave the existing schedule alone"" (update-quotation.dto.ts):
\* an update of a draft that gives no schedule is not refused for its schedule.
RefusedForSchedule(r) ==
    req[r].pc = "lockStages" /\ req[r].arg.content.plan = {} /\ req'[r].pc = "rejected"

OmittedScheduleIsKept == [][\A r \in Requests : ~RefusedForSchedule(r)]_vars
=============================================================================
