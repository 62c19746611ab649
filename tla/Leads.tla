------------------------------- MODULE Leads -------------------------------
(***************************************************************************)
(* LeadService, ContactRequestService and the customers and clients they   *)
(* make, under concurrent HTTP requests.                                   *)
(*                                                                         *)
(* A handler reads the row it is about, checks its status, looks for       *)
(* another active lead with the same address, and then writes, by id or in *)
(* one transaction, whatever has changed since.  No index backs the search *)
(* for another lead; one backs the addresses of customers.                 *)
(*                                                                         *)
(* A row is named after the request that inserts it.  The statuses         *)
(* QUALIFIED and QUOTED of a lead, and CONTACTED, CLOSED and SPAM of a     *)
(* contact request, are never written by the program.  One tenant.         *)
(***************************************************************************)
EXTENDS Naturals, FiniteSets

CONSTANTS
    Requests,       \* HTTP requests, each handled once
    Emails,         \* addresses
    OpenLeads,      \* leads at the start, by their address
    Contacts,       \* contact requests at the start, by their address
    MaxAttempts,    \* DB_TRANSACTION_RETRY_POLICY.maxAttempts
    MaxInFlight     \* bound: requests handled at the same time

None == "none"

\* What the constants are: the modules that give them values assume it.
LeadsAssumption ==
    /\ OpenLeads \subseteq Emails /\ Contacts \subseteq Emails
    /\ Emails \cap Requests = {} /\ None \notin Emails \cup Requests
    /\ MaxAttempts \in Nat \ {0} /\ MaxInFlight \in Nat

VARIABLES
    lead,           \* leads: id -> row
    contact,        \* contact_requests: id -> row
    customer,       \* customers: id -> row
    client,         \* clients: id -> the lead it was made for
    activity,       \* customer_activities that concern leads
    strayed,        \* history: leads and contact requests that were written on the
                    \* strength of something no longer true
    req             \* requests

tables == <<lead, contact, customer, client, activity, strayed>>
vars   == <<lead, contact, customer, client, activity, strayed, req>>

\* Mutant: only archived leads are closed.
TerminalArchived == {"ARCHIVED"}

\* LEAD_TERMINAL_STATUSES; the rest are LEAD_ACTIVE_STATUSES.
Terminal == {"CONVERTED", "ARCHIVED"}

NewLead(e)    == [email |-> e, status |-> "NEW", customer |-> None, client |-> None]
NewContact(e) == [email |-> e, status |-> "NEW", lead |-> None]

Put(table, id, row) ==
    [x \in DOMAIN table \cup {id} |-> IF x = id THEN row ELSE table[x]]

Empty == [x \in {} |-> None]

\* A request: its next step, what it was asked, the row it read (if any), whether it
\* searched for duplicates, the customer it found, the attempts of its transaction.
Asked(label, op, id, email, seen) ==
    [pc |-> label, op |-> op, id |-> id, email |-> email, seen |-> seen,
     searched |-> FALSE, found |-> None, tries |-> 1]

At(label) == Asked(label, None, None, None, {})

Init ==
    /\ lead = [e \in OpenLeads |-> NewLead(e)]
    /\ contact = [e \in Contacts |-> NewContact(e)]
    /\ customer = Empty
    /\ client = Empty
    /\ activity = {}
    /\ strayed = [leads |-> {}, contacts |-> {}]
    /\ req = [r \in Requests |-> At("idle")]

Pending  == {"duplicate", "write", "customer"}
Finished == {"done", "rejected", "failed"}
InFlight == {r \in Requests : req[r].pc \in Pending}

Answer(r, outcome) == req' = [req EXCEPT ![r] = At(outcome)]

\* Live customers with an address.
Holders(e) == {c \in DOMAIN customer : customer[c].live /\ customer[c].email = e}

\* findActiveByEmail: active leads with the address; update excludes its own.
Duplicates(r) ==
    {l \in DOMAIN lead : /\ lead[l].email = req[r].email
                        /\ lead[l].status \notin Terminal
                        /\ ~(req[r].op = "update" /\ l = req[r].id)}

-----------------------------------------------------------------------------
(* What each handler reads and checks first.                               *)

Arrive(r, asked) ==
    /\ req[r].pc = "idle"
    /\ Cardinality(InFlight) < MaxInFlight
    /\ req' = [req EXCEPT ![r] = asked]
    /\ UNCHANGED tables

\* LeadService.create.
CreateLead(r, e) == Arrive(r, Asked("duplicate", "create", r, e, {}))

\* update, with a contactEmail: a new one is looked for.
UpdateLead(r, l, e) ==
    /\ lead[l].status \notin Terminal
    /\ Arrive(r, Asked(IF e = lead[l].email THEN "write" ELSE "duplicate",
                       "update", l, e, {lead[l]}))

ArchiveLead(r, l) ==
    /\ lead[l].status \notin Terminal
    /\ Arrive(r, Asked("write", "archive", l, None, {lead[l]}))

\* LeadService.convert: to a customer; convertToClient.
Convert(r, l) ==
    /\ lead[l].status \notin Terminal
    /\ Arrive(r, Asked("customer", "convert", l, lead[l].email, {lead[l]}))

ConvertToClient(r, l) ==
    /\ lead[l].status \notin Terminal
    /\ Arrive(r, Asked("write", "toClient", l, None, {lead[l]}))

\* ContactRequestService.convert.
ConvertContact(r, k) ==
    /\ contact[k].status # "CONVERTED"
    /\ Arrive(r, Asked("duplicate", "fromContact", k, contact[k].email, {contact[k]}))

\* CustomerService.update, with an email.
UpdateCustomer(r, c, e) ==
    /\ customer[c].live
    /\ Arrive(r, Asked("write", "customer", c, e, {}))

\* Mutant: whatever it finds, the handler goes on.
LookForNobody(r) ==
    /\ req[r].pc = "duplicate"
    /\ req' = [req EXCEPT ![r].pc = "write"]
    /\ UNCHANGED tables

\* assertNoDuplicateActiveLead: 409.
LookForDuplicate(r) ==
    /\ req[r].pc = "duplicate"
    /\ IF Duplicates(r) = {}
       THEN req' = [req EXCEPT ![r].pc = "write", ![r].searched = TRUE]
       ELSE Answer(r, "rejected")
    /\ UNCHANGED tables

-----------------------------------------------------------------------------
(* Judging a write.                                                        *)

\* What a request about a lead or an address relies on no longer holds.
LeadChanged(r)  == req[r].seen # {lead[req[r].id]}
AddressTaken(r) == req[r].searched /\ Duplicates(r) # {}

Stray(leads, contacts) ==
    strayed' = [leads |-> strayed.leads \cup leads, contacts |-> strayed.contacts \cup contacts]

Suspect(condition, id) == IF condition THEN {id} ELSE {}

Activity(type, l, r) == [type |-> type, lead |-> l, by |-> r]

-----------------------------------------------------------------------------
(* What each handler writes.                                               *)

\* create: the lead and LEAD_CREATED.
InsertLead(r) ==
    /\ req[r].pc = "write"
    /\ req[r].op = "create"
    /\ lead' = Put(lead, r, NewLead(req[r].email))
    /\ activity' = activity \cup {Activity("LEAD_CREATED", r, r)}
    /\ Stray(Suspect(AddressTaken(r), r), {})
    /\ Answer(r, "done")
    /\ UNCHANGED <<contact, customer, client>>

\* update and archive write their own columns, by id alone.
WriteLead(r) ==
    /\ req[r].pc = "write"
    /\ \/ req[r].op = "update" /\ lead' = [lead EXCEPT ![req[r].id].email = req[r].email]
       \/ req[r].op = "archive" /\ lead' = [lead EXCEPT ![req[r].id].status = "ARCHIVED"]
    /\ Stray(Suspect(LeadChanged(r) \/ AddressTaken(r), req[r].id), {})
    /\ Answer(r, "done")
    /\ UNCHANGED <<contact, customer, client, activity>>

\* convert, in its transaction: findActiveByEmailInTx.
FindCustomer(r) ==
    /\ req[r].pc = "customer"
    /\ \E c \in DOMAIN customer \cup {None} :
           /\ IF c = None
              THEN Holders(req[r].email) = {}
              ELSE c \in Holders(req[r].email)
           /\ req' = [req EXCEPT ![r].found = c, ![r].pc = "write"]
    /\ UNCHANGED tables

\* Mutant: the activity is left to a later statement of its own.
ConversionNotLogged(r) == {}

ConversionLogged(r) == {Activity("LEAD_CONVERTED", req[r].id, r)}

\* The unique index on the addresses of customers: 409.
CustomerConflict(r) == req[r].found = None /\ Holders(req[r].email) # {}

CommitConvert(r) ==
    /\ req[r].pc = "write"
    /\ req[r].op = "convert"
    /\ IF CustomerConflict(r)
       THEN Answer(r, "rejected") /\ UNCHANGED tables
       ELSE LET c == IF req[r].found = None THEN r ELSE req[r].found
            IN  /\ customer' = IF req[r].found = None
                               THEN Put(customer, r, [email |-> req[r].email, live |-> TRUE])
                               ELSE customer
                /\ lead' = [lead EXCEPT ![req[r].id].status = "CONVERTED",
                                        ![req[r].id].customer = c]
                /\ activity' = activity \cup ConversionLogged(r)
                /\ Stray(Suspect(LeadChanged(r), req[r].id), {})
                /\ Answer(r, "done")
                /\ UNCHANGED <<contact, client>>

\* convertToClient: always a new client.
CommitToClient(r) ==
    /\ req[r].pc = "write"
    /\ req[r].op = "toClient"
    /\ client' = Put(client, r, req[r].id)
    /\ lead' = [lead EXCEPT ![req[r].id].status = "CONVERTED", ![req[r].id].client = r]
    /\ activity' = activity \cup ConversionLogged(r)
    /\ Stray(Suspect(LeadChanged(r), req[r].id), {})
    /\ Answer(r, "done")
    /\ UNCHANGED <<contact, customer>>

\* ContactRequestService.convert: the lead, LEAD_CREATED, and the link.
CommitFromContact(r) ==
    /\ req[r].pc = "write"
    /\ req[r].op = "fromContact"
    /\ lead' = Put(lead, r, NewLead(req[r].email))
    /\ activity' = activity \cup {Activity("LEAD_CREATED", r, r)}
    /\ contact' = [contact EXCEPT ![req[r].id].status = "CONVERTED", ![req[r].id].lead = r]
    /\ Stray(Suspect(AddressTaken(r), r),
             Suspect(req[r].seen # {contact[req[r].id]}, req[r].id))
    /\ Answer(r, "done")
    /\ UNCHANGED <<customer, client>>

\* ContactRequestService.create: anyone may write to us.
CreateContact(r, e) ==
    /\ req[r].pc = "idle"
    /\ contact' = Put(contact, r, NewContact(e))
    /\ Answer(r, "done")
    /\ UNCHANGED <<lead, customer, client, activity, strayed>>

\* CustomerService.update writes by id, even a customer removed meanwhile; the index
\* refuses the address of another live customer: 409.
AddressRefused(r) ==
    customer[req[r].id].live /\ Holders(req[r].email) \ {req[r].id} # {}

WriteCustomer(r) ==
    /\ req[r].pc = "write"
    /\ req[r].op = "customer"
    /\ IF AddressRefused(r)
       THEN Answer(r, "rejected") /\ UNCHANGED tables
       ELSE /\ customer' = [customer EXCEPT ![req[r].id].email = req[r].email]
            /\ Answer(r, "done")
            /\ UNCHANGED <<lead, contact, client, activity, strayed>>

\* CustomerService.create and remove.
CreateCustomer(r, e) ==
    /\ req[r].pc = "idle"
    /\ Holders(e) = {}
    /\ customer' = Put(customer, r, [email |-> e, live |-> TRUE])
    /\ Answer(r, "done")
    /\ UNCHANGED <<lead, contact, client, activity, strayed>>

RemoveCustomer(r, c) ==
    /\ req[r].pc = "idle"
    /\ customer[c].live
    /\ customer' = [customer EXCEPT ![c].live = FALSE]
    /\ Answer(r, "done")
    /\ UNCHANGED <<lead, contact, client, activity, strayed>>

-----------------------------------------------------------------------------
(* Failures.                                                               *)

InTransaction(r) ==
    \/ req[r].pc = "customer"
    \/ req[r].pc = "write" /\ req[r].op \in {"create", "convert", "toClient", "fromContact"}

\* withTransactionRetry: convert looks for the customer again.
TransientError(r) ==
    /\ InTransaction(r)
    /\ \/ /\ req[r].tries < MaxAttempts
          /\ req' = [req EXCEPT ![r].tries = @ + 1, ![r].found = None,
                                ![r].pc = IF req[r].op = "convert" THEN "customer" ELSE @]
       \/ /\ req[r].tries = MaxAttempts
          /\ Answer(r, "failed")
    /\ UNCHANGED tables

Crash(r) ==
    /\ req[r].pc \in Pending
    /\ Answer(r, "failed")
    /\ UNCHANGED tables

-----------------------------------------------------------------------------
Handle(r) ==
    \/ LookForDuplicate(r)
    \/ InsertLead(r)
    \/ WriteLead(r)
    \/ FindCustomer(r)
    \/ CommitConvert(r)
    \/ CommitToClient(r)
    \/ CommitFromContact(r)
    \/ WriteCustomer(r)

Quiet ==
    /\ InFlight = {}
    /\ UNCHANGED vars

Next ==
    \/ \E r \in Requests :
           \/ \E e \in Emails : CreateLead(r, e) \/ CreateContact(r, e) \/ CreateCustomer(r, e)
           \/ \E l \in DOMAIN lead :
                  \/ \E e \in Emails : UpdateLead(r, l, e)
                  \/ ArchiveLead(r, l) \/ Convert(r, l) \/ ConvertToClient(r, l)
           \/ \E k \in DOMAIN contact : ConvertContact(r, k)
           \/ \E c \in DOMAIN customer :
                  RemoveCustomer(r, c) \/ \E e \in Emails : UpdateCustomer(r, c, e)
           \/ Handle(r)
           \/ TransientError(r)
           \/ Crash(r)
    \/ Quiet

Spec == Init /\ [][Next]_vars

-----------------------------------------------------------------------------
(* Properties.                                                             *)

\* The tables keep their types and the unique index on customers.
TypeOK ==
    /\ \A l \in DOMAIN lead :
           /\ lead[l].email \in Emails
           /\ lead[l].status \in {"NEW", "CONVERTED", "ARCHIVED"}
           /\ lead[l].customer \in DOMAIN customer \cup {None}
           /\ lead[l].client \in DOMAIN client \cup {None}
    /\ \A k \in DOMAIN contact :
           contact[k].email \in Emails /\ contact[k].lead \in DOMAIN lead \cup {None}
    /\ \A c, d \in DOMAIN customer :
           customer[c].live /\ customer[d].live /\ customer[c].email = customer[d].email => c = d
    /\ \A r \in Requests : req[r].pc \in {"idle"} \cup Pending \cup Finished
    /\ strayed.leads \subseteq DOMAIN lead /\ strayed.contacts \subseteq DOMAIN contact

\* "Prevent duplicate active leads" (crm.constant.ts): of the leads whose
\* requests relied on nothing outdated, one at most is active per address.
OneLeadPerAddress ==
    \A l, m \in DOMAIN lead \ strayed.leads :
        lead[l].email = lead[m].email /\ {lead[l].status, lead[m].status} \cap Terminal = {}
            => l = m

Conversions(l) == {a \in activity : a.type = "LEAD_CONVERTED" /\ a.lead = l}

\* "all inside ONE transaction" (lead.service.ts): whatever overlaps or fails, no
\* lead, client, customer link or converted contact request is without the
\* activity that tells of it, and no activity without its lead.
ConversionIsWhole ==
    /\ \A l \in DOMAIN lead \cap Requests : Activity("LEAD_CREATED", l, l) \in activity
    /\ \A c \in DOMAIN client : Activity("LEAD_CONVERTED", client[c], c) \in activity
    /\ \A a \in activity : a.lead \in DOMAIN lead
    /\ \A l \in DOMAIN lead :
           Conversions(l) # {} <=> lead[l].customer # None \/ lead[l].client # None
    /\ \A k \in DOMAIN contact : contact[k].status = "CONVERTED" <=> contact[k].lead # None

\* "archived/converted leads are immutable" (lead.service.ts): a lead whose
\* requests read it as it was is converted at most once, to a customer or to one
\* client, and never after it was archived.
ConvertedOnce ==
    \A l \in DOMAIN lead \ strayed.leads :
        /\ Cardinality(Conversions(l)) = (IF lead[l].status = "CONVERTED" THEN 1 ELSE 0)
        /\ lead[l].client = None \/ lead[l].customer = None
        /\ Cardinality({c \in DOMAIN client : client[c] = l})
               = (IF lead[l].client = None THEN 0 ELSE 1)
=============================================================================
