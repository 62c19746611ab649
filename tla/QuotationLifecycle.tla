------------------------- MODULE QuotationLifecycle -------------------------
(***************************************************************************)
(* The life of a quotation as the CRM module states it: its amounts may be *)
(* revised while it is a draft, always with a payment schedule that fits   *)
(* the total; it is sent once, with a document that shows what it says;    *)
(* and it is accepted or rejected once, for good.                          *)
(***************************************************************************)
EXTENDS Integers

CONSTANTS Quotations

VARIABLES
    sheet           \* quotation -> what it says, for those that are followed

\* enum QuotationStatus, as far as the program ever sets it.
QuotationStatus == {"DRAFT", "SENT", "ACCEPTED", "REJECTED"}

Terms  == [total : Nat, due : Nat, parts : Nat \ {0}]
Unseen == [total |-> -1, due |-> 0, parts |-> 0]     \* not among the Terms

Known(q)  == q \in DOMAIN sheet
Abs(n)    == IF n < 0 THEN -n ELSE n

\* Each part of the schedule is rounded to the smallest unit, and percentages
\* may miss 100 by 0.01.
Fits(t) == 100000 * Abs(t.due - t.total) <= 10 * t.total + 50000 * t.parts

Others(q) == \A x \in DOMAIN sheet \ {q} : x \in DOMAIN sheet' /\ sheet'[x] = sheet[x]

Draft(q) ==
    /\ ~Known(q)
    /\ DOMAIN sheet' = DOMAIN sheet \cup {q}
    /\ sheet'[q] = [status |-> "DRAFT", terms |-> sheet'[q].terms, shown |-> Unseen]
    /\ sheet'[q].terms \in Terms /\ Fits(sheet'[q].terms)
    /\ Others(q)

Revise(q) ==
    /\ Known(q)
    /\ sheet[q].status = "DRAFT"
    /\ DOMAIN sheet' = DOMAIN sheet
    /\ sheet'[q] = [sheet[q] EXCEPT !.terms = sheet'[q].terms]
    /\ sheet'[q].terms \in Terms /\ Fits(sheet'[q].terms)
    /\ Others(q)

Send(q) ==
    /\ Known(q)
    /\ sheet[q].status = "DRAFT"
    /\ sheet' = [sheet EXCEPT ![q].status = "SENT", ![q].shown = sheet[q].terms]

Decide(q, verdict) ==
    /\ Known(q)
    /\ sheet[q].status = "SENT"
    /\ sheet' = [sheet EXCEPT ![q].status = verdict]

\* A quotation that was written from an outdated reading is followed no more.
Disown(q) ==
    /\ Known(q)
    /\ sheet' = [x \in DOMAIN sheet \ {q} |-> sheet[x]]

Init ==
    \A q \in DOMAIN sheet :
        /\ sheet[q].status = "DRAFT"
        /\ sheet[q].terms \in Terms /\ Fits(sheet[q].terms)
        /\ sheet[q].shown = Unseen

Next ==
    \E q \in Quotations :
        \/ Draft(q) \/ Revise(q) \/ Send(q) \/ Disown(q)
        \/ \E verdict \in {"ACCEPTED", "REJECTED"} : Decide(q, verdict)

Spec == Init /\ [][Next]_sheet
=============================================================================
