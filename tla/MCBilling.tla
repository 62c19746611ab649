----------------------------- MODULE MCBilling -----------------------------
(***************************************************************************)
(* Instances of Billing for TLC: in some behaviours requests overlap, in   *)
(* others they are handled one after the other, which allows for retries   *)
(* and makes stronger properties true.                                     *)
(***************************************************************************)
EXTENDS Billing, TLC

CONSTANTS Handlings, i1, i2, i3, i4     \* i1 to i4: ids of invoices

VARIABLE handling       \* "overlapping" or "in turn"

AlikeIds == Permutations(Requests) \cup Permutations(Payments)

\* The order of the invoices' ids.
Before == (i2 :> i1) @@ (i3 :> i2) @@ (i4 :> i3)

Overlapping == INSTANCE Billing WITH MaxAttempts <- 1, MaxInFlight <- 3, LastYear <- 2

MCInit == Init /\ handling \in Handlings

\* The ids of invoices are handed out in order, as which is which makes no
\* difference; invoices are created with the higher of two tax rates, which an
\* update may lower; and the year ends while somebody holds a number, which is
\* when it makes a difference to a request in progress.
Relevant ==
    /\ \A r \in Requests : arg'[r].op = "create" =>
           /\ arg'[r].invoice \in DOMAIN Before =>
                  \E x \in Requests : /\ arg'[x].op = "create"
                                     /\ arg'[x].invoice = Before[arg'[r].invoice]
           /\ \A t \in Rates : t <= arg'[r].rate
    /\ year' # year => \E r \in Requests : pc[r] = "insert"

MCNext ==
    \/ handling = "overlapping" /\ Overlapping!Next /\ Relevant /\ UNCHANGED handling
    \/ handling = "in turn" /\ Next /\ Relevant /\ UNCHANGED handling

MCSpec == MCInit /\ [][MCNext]_<<vars, handling>>

\* "a denormalized running total maintained by the application whenever a
\* Payment succeeds" (schema.prisma, Invoice), when requests do not overlap.
PaidIsRunningTotalInTurn == handling = "in turn" => PaidIsRunningTotal

\* "Payment allocations cannot exceed payment amount" (payment.service.ts), when
\* requests do not overlap.
AllocationsWithinPaymentInTurn == handling = "in turn" => AllocationsWithinPayment

\* Handled one at a time, requests move every invoice as InvoiceLifecycle says
\* (invoice.service.ts, payment.service.ts).
FollowsLifecycleInTurn ==
    Lifecycle!Init /\ [][handling = "in turn" => Lifecycle!Next]_Sheet
=============================================================================
