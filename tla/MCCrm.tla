------------------------------- MODULE MCCrm -------------------------------
(***************************************************************************)
(* The CRM: quotations, leads and follow-up tasks share no table that any  *)
(* of their guards reads, so each behaviour picks one of them and leaves   *)
(* the others alone.  Leads has the constants and the variables that are   *)
(* not declared here.                                                      *)
(***************************************************************************)
EXTENDS Leads, Integers, TLC

CONSTANTS
    Drafts, Tasks,      \* what there is at the start
    Opening, Default, Contents, NumberAttempts, MaxOpenQuotations   \* Quotations

VARIABLES
    part,               \* which of the three
    quotation, items, stages, store, mailed, astray, quotationReq,
    task, entry, taskStrayed, taskReq

quotationVars == <<quotation, items, stages, store, mailed, astray, quotationReq>>
taskVars      == <<task, entry, taskStrayed, taskReq>>

\* DEFAULT_PAYMENT_STAGES, and six parts of 16.667 %, stored as 16.67 %.
Stages   == <<40000, 40000, 20000>>
SixParts == [k \in 1..6 |-> 16667]

Content(subtotal, charges, plan) == [subtotal |-> subtotal, charges |-> charges, plan |-> plan]

\* Nothing; new items; new items and a schedule; a discount; both.
Inputs == {Content({}, {}, {}), Content({104}, {}, {}), Content({60}, {}, {SixParts}),
           Content({}, {-80}, {}), Content({60}, {-80}, {})}

Quote == INSTANCE Quotations WITH
    MaxInFlight <- MaxOpenQuotations, req <- quotationReq

FollowUp == INSTANCE FollowUps WITH strayed <- taskStrayed, req <- taskReq

ASSUME PartsAssumption ==
    LeadsAssumption /\ Quote!QuotationsAssumption /\ FollowUp!FollowUpsAssumption

CrmInit ==
    /\ part \in {"quotations", "leads", "followups"}
    /\ Quote!Init /\ Init /\ FollowUp!Init

CrmNext ==
    \/ part = "quotations" /\ Quote!Next /\ UNCHANGED <<part, vars, taskVars>>
    \/ part = "leads" /\ Next /\ UNCHANGED <<part, quotationVars, taskVars>>
    \/ part = "followups" /\ FollowUp!Next /\ UNCHANGED <<part, vars, quotationVars>>

CrmSpec == CrmInit /\ [][CrmNext]_<<part, vars, quotationVars, taskVars>>

Alike == Permutations(Requests)

-----------------------------------------------------------------------------
(* Properties, as their modules state them, besides those of Leads.        *)

\* The tables of all three keep their types, checks and unique indexes.
TablesTyped == TypeOK /\ Quote!TypeOK /\ FollowUp!TypeOK

\* Some schedule of a quotation was computed for the total it has now
\* (quotation.service.ts, update).
TotalIsScheduled == Quote!TotalIsScheduled

\* A quotation shows the sum of its items (quotation.service.ts, create, update).
ItemsAddUp == Quote!ItemsAddUp

\* What left DRAFT has its document (quotation.service.ts, send).
DocumentBeforeSent == Quote!DocumentBeforeSent

\* Quotations implement QuotationLifecycle (quotation.service.ts).
QuotationsFollowLifecycle == Quote!FollowsLifecycle

\* An update without a schedule is not refused for its schedule
\* (update-quotation.dto.ts).
OmittedScheduleIsKept == Quote!OmittedScheduleIsKept

\* Tasks implement FollowUpLifecycle (follow-up.service.ts).
FollowUpsFollowLifecycle == FollowUp!FollowsLifecycle
=============================================================================
