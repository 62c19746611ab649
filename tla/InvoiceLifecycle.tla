-------------------------- MODULE InvoiceLifecycle --------------------------
(***************************************************************************)
(* The life of an invoice as the billing module states it: it is computed  *)
(* and may be computed again while it is a draft, it is issued once, money *)
(* received against it adds up until it is paid in full, and it may be     *)
(* voided until then.  A paid or void invoice is final.                    *)
(***************************************************************************)
EXTENDS Naturals

CONSTANTS Invoices

VARIABLES
    sheet           \* invoice -> [total, paid, status], for those that exist

\* enum InvoiceStatus.
InvoiceStatus == {"DRAFT", "SENT", "PAID", "OVERDUE", "VOID"}

\* INVOICE_EDITABLE_STATUSES and INVOICE_VOIDABLE_STATUSES.
Editable == {"DRAFT"}
Voidable == {"DRAFT", "SENT", "OVERDUE"}

Known(i) == i \in DOMAIN sheet

Init == sheet = [i \in {} |-> {}]

Others(i) == \A x \in DOMAIN sheet \ {i} : sheet'[x] = sheet[x]

Draft(i) ==
    /\ ~Known(i)
    /\ DOMAIN sheet' = DOMAIN sheet \cup {i}
    /\ sheet'[i] \in [total : Nat, paid : {0}, status : {"DRAFT"}]
    /\ Others(i)

Recompute(i) ==
    /\ Known(i)
    /\ sheet[i].status \in Editable
    /\ DOMAIN sheet' = DOMAIN sheet
    /\ sheet'[i].total >= sheet[i].paid
    /\ sheet'[i] = [sheet[i] EXCEPT !.total = sheet'[i].total]
    /\ Others(i)

Issue(i) ==
    /\ Known(i)
    /\ sheet[i].status = "DRAFT"
    /\ sheet' = [sheet EXCEPT ![i].status = "SENT"]

Void(i) ==
    /\ Known(i)
    /\ sheet[i].status \in Voidable
    /\ sheet' = [sheet EXCEPT ![i].status = "VOID"]

Receive(i) ==
    /\ Known(i)
    /\ sheet[i].status # "VOID"
    /\ \E q \in 1..(sheet[i].total - sheet[i].paid) :
           sheet' = [sheet EXCEPT ![i].paid = @ + q,
                                  ![i].status = IF sheet[i].paid + q = sheet[i].total
                                                THEN "PAID" ELSE @]

Next == \E i \in Invoices :
            Draft(i) \/ Recompute(i) \/ Issue(i) \/ Void(i) \/ Receive(i)

Spec == Init /\ [][Next]_sheet
=============================================================================
