---------------------------- MODULE LeadsProofs ----------------------------
(***************************************************************************)
(* Theorems about Leads for any requests, any addresses, any rows at the   *)
(* start and any number of attempts.                                       *)
(***************************************************************************)
EXTENDS Leads, FiniteSetTheorems, TLAPS

Ids    == Emails \cup Requests \cup {None}
AboutLeads == {"update", "archive", "convert", "toClient"}
Makers == {"create", "fromContact"}
Ops    == AboutLeads \cup Makers \cup {"customer", None}
Labels == {"idle"} \cup Pending \cup Finished

LeadRow    == [email : Emails, status : {"NEW", "CONVERTED", "ARCHIVED"},
               customer : Ids, client : Ids]
ContactRow == [email : Emails, status : {"NEW", "CONVERTED"}, lead : Ids]
CustomerRow == [email : Emails, live : BOOLEAN]
ReqRow     == [pc : Labels, op : Ops, id : Ids, email : Ids,
               seen : SUBSET (LeadRow \cup ContactRow),
               searched : BOOLEAN, found : Ids, tries : Nat]

\* The tables hold whole rows, named after requests or addresses.
Rows ==
    /\ lead \in [DOMAIN lead -> LeadRow] /\ DOMAIN lead \subseteq Emails \cup Requests
    /\ contact \in [DOMAIN contact -> ContactRow] /\ DOMAIN contact \subseteq Emails \cup Requests
    /\ customer \in [DOMAIN customer -> CustomerRow] /\ DOMAIN customer \subseteq Requests
    /\ client \in [DOMAIN client -> DOMAIN lead] /\ DOMAIN client \subseteq Requests
    /\ req \in [Requests -> ReqRow]

\* A request not yet answered has made no row.
Unmade(r) == r \notin DOMAIN lead \cup DOMAIN contact \cup DOMAIN customer \cup DOMAIN client

\* A request refers to rows that exist, and what makes a lead has searched for
\* others with its address, or leaves the address of the lead it read as it is.
RequestFits(r) ==
    /\ req[r].pc \in {"idle"} \cup Pending => Unmade(r)
    /\ req[r].pc = "customer" => req[r].op = "convert"
    /\ req[r].pc = "duplicate" => req[r].op \in Makers \cup {"update"}
    /\ req[r].op \in AboutLeads => req[r].id \in DOMAIN lead
    /\ req[r].op = "fromContact" => req[r].id \in DOMAIN contact
    /\ req[r].op = "customer" => req[r].id \in DOMAIN customer
    /\ req[r].op \in Makers \cup {"update", "convert", "customer"} => req[r].email \in Emails
    /\ req[r].found \in DOMAIN customer \cup {None}
    /\ req[r].pc = "write" /\ req[r].op \in Makers => req[r].searched
    /\ req[r].pc = "write" /\ req[r].op = "update"
           => req[r].searched \/ \E s \in LeadRow : req[r].seen = {s} /\ s.email = req[r].email

Fits == Rows /\ \A r \in Requests : RequestFits(r)

\* Rows are never deleted, and a request adds none but its own.
Grow(r) ==
    /\ DOMAIN lead \subseteq DOMAIN lead' /\ DOMAIN lead' \subseteq DOMAIN lead \cup {r}
    /\ DOMAIN contact \subseteq DOMAIN contact' /\ DOMAIN contact' \subseteq DOMAIN contact \cup {r}
    /\ DOMAIN customer \subseteq DOMAIN customer'
    /\ DOMAIN customer' \subseteq DOMAIN customer \cup {r}
    /\ DOMAIN client \subseteq DOMAIN client' /\ DOMAIN client' \subseteq DOMAIN client \cup {r}

\* The steps of a request: those that write nothing, those that end a handler with
\* a write, and the handlers that are one statement.
Reads(r) ==
    \/ \E e \in Emails : CreateLead(r, e)
    \/ \E l \in DOMAIN lead :
           \/ \E e \in Emails : UpdateLead(r, l, e)
           \/ ArchiveLead(r, l) \/ Convert(r, l) \/ ConvertToClient(r, l)
    \/ \E k \in DOMAIN contact : ConvertContact(r, k)
    \/ \E c \in DOMAIN customer : \E e \in Emails : UpdateCustomer(r, c, e)
    \/ LookForDuplicate(r) \/ FindCustomer(r) \/ TransientError(r) \/ Crash(r)

Writes(r) ==
    \/ InsertLead(r) \/ WriteLead(r) \/ CommitConvert(r) \/ CommitToClient(r)
    \/ CommitFromContact(r) \/ WriteCustomer(r)

Direct(r) ==
    \/ \E e \in Emails : CreateContact(r, e) \/ CreateCustomer(r, e)
    \/ \E c \in DOMAIN customer : RemoveCustomer(r, c)

-----------------------------------------------------------------------------
(* Requests.                                                               *)

\* A step of one request, whatever rows of its own it adds, leaves the others fit.
LEMMA OthersFit ==
    ASSUME Fits, NEW r \in Requests, Grow(r), NEW row \in ReqRow,
           req' = [req EXCEPT ![r] = row], RequestFits(r)'
    PROVE  req' \in [Requests -> ReqRow] /\ \A x \in Requests : RequestFits(x)'
<1>1. req' \in [Requests -> ReqRow]
  BY DEF Fits, Rows
<1>2. ASSUME NEW x \in Requests, x # r PROVE RequestFits(x)'
  <2>1. req'[x] = req[x] /\ RequestFits(x)
    BY <1>2 DEF Fits, Rows
  <2> QED BY <1>2, <2>1 DEF RequestFits, Grow, Unmade
<1> QED BY <1>1, <1>2

LEMMA AnswerFits ==
    ASSUME Fits, NEW r \in Requests, Grow(r), NEW outcome \in Finished, Answer(r, outcome)
    PROVE  req' \in [Requests -> ReqRow] /\ \A x \in Requests : RequestFits(x)'
<1>1. At(outcome) \in ReqRow
  BY DEF At, Asked, ReqRow, Labels, Ops, Ids
<1>2. req' = [req EXCEPT ![r] = At(outcome)]
  BY DEF Answer
<1>3. RequestFits(r)'
  BY <1>2 DEF RequestFits, At, Asked, Fits, Rows, Finished, Pending, AboutLeads, Makers, None
<1> QED BY <1>1, <1>2, <1>3, OthersFit

\* The tables as they were.
LEMMA ReadersFit ==
    ASSUME Fits, UNCHANGED tables,
           req' \in [Requests -> ReqRow], \A x \in Requests : RequestFits(x)'
    PROVE  Fits'
  BY DEF Fits, Rows, tables

LEMMA NoGrowth == ASSUME UNCHANGED tables, NEW r PROVE Grow(r)
  BY DEF tables, Grow

LEMMA ArriveFits ==
    ASSUME Fits, NEW r \in Requests, NEW asked \in ReqRow, Arrive(r, asked),
           asked.pc \in Pending,
           asked.pc = "customer" => asked.op = "convert",
           asked.pc = "duplicate" => asked.op \in Makers \cup {"update"},
           asked.op \in AboutLeads => asked.id \in DOMAIN lead,
           asked.op = "fromContact" => asked.id \in DOMAIN contact,
           asked.op = "customer" => asked.id \in DOMAIN customer,
           asked.op \in Makers \cup {"update", "convert", "customer"} => asked.email \in Emails,
           asked.found = None,
           asked.pc = "write" => asked.op \notin Makers,
           asked.pc = "write" /\ asked.op = "update"
               => \E s \in LeadRow : asked.seen = {s} /\ s.email = asked.email
    PROVE  Fits'
<1>1. req' = [req EXCEPT ![r] = asked] /\ UNCHANGED tables /\ req[r].pc = "idle"
  BY DEF Arrive
<1>2. Unmade(r)'
  BY <1>1 DEF Fits, RequestFits, Unmade, tables
<1>3. RequestFits(r)'
  BY <1>1, <1>2 DEF RequestFits, Fits, Rows, tables
<1> QED BY <1>1, <1>3, OthersFit, ReadersFit, NoGrowth

\* What is asked of a handler.
LEMMA AskedFits ==
    ASSUME NEW label \in Pending, NEW op \in Ops, NEW id \in Ids, NEW email \in Ids,
           NEW seen \in SUBSET (LeadRow \cup ContactRow)
    PROVE  LET asked == Asked(label, op, id, email, seen)
           IN  /\ asked \in ReqRow
               /\ asked.pc = label /\ asked.op = op /\ asked.id = id /\ asked.email = email
               /\ asked.seen = seen /\ asked.found = None
  BY DEF Asked, ReqRow, Labels, Ids

LEMMA LeadRead ==
    ASSUME Fits, NEW l \in DOMAIN lead
    PROVE  /\ lead[l] \in LeadRow /\ lead[l].email \in Emails
           /\ l \in Ids /\ {lead[l]} \in SUBSET (LeadRow \cup ContactRow)
  BY DEF Fits, Rows, LeadRow, Ids

LEMMA CreateLeadFits ==
    ASSUME Fits, NEW r \in Requests, NEW e \in Emails, CreateLead(r, e) PROVE Fits'
<1>1. /\ "duplicate" \in Pending /\ "create" \in Ops /\ r \in Ids /\ e \in Ids
      /\ {} \in SUBSET (LeadRow \cup ContactRow)
  BY DEF Pending, Ops, Makers, Ids
<1> DEFINE asked == Asked("duplicate", "create", r, e, {})
<1>2. /\ asked \in ReqRow /\ asked.pc = "duplicate" /\ asked.op = "create"
      /\ asked.email = e /\ asked.found = None
  BY <1>1, AskedFits
<1>3. Arrive(r, asked)
  BY DEF CreateLead
<1> HIDE DEF asked
<1> QED BY <1>2, <1>3, ArriveFits DEF Pending, Makers, AboutLeads

LEMMA UpdateLeadFits ==
    ASSUME Fits, NEW r \in Requests, NEW l \in DOMAIN lead, NEW e \in Emails,
           UpdateLead(r, l, e)
    PROVE  Fits'
<1> DEFINE label == IF e = lead[l].email THEN "write" ELSE "duplicate"
           asked == Asked(label, "update", l, e, {lead[l]})
<1>1. label \in Pending /\ "update" \in Ops /\ e \in Ids
  BY DEF Pending, Ops, AboutLeads, Ids
<1>2. label \in {"write", "duplicate"} /\ (label = "write" => lead[l].email = e)
  OBVIOUS
<1>3. Arrive(r, asked)
  BY DEF UpdateLead
<1> HIDE DEF label
<1>4. /\ asked \in ReqRow /\ asked.pc = label /\ asked.op = "update" /\ asked.id = l
      /\ asked.email = e /\ asked.seen = {lead[l]} /\ asked.found = None
  BY <1>1, AskedFits, LeadRead
<1> HIDE DEF asked
<1>5. asked.pc = "write" => \E s \in LeadRow : asked.seen = {s} /\ s.email = asked.email
  BY <1>2, <1>4, LeadRead
<1>6. asked.pc # "customer" /\ asked.op \notin Makers /\ asked.op # "fromContact"
      /\ asked.op \in Makers \cup {"update"}
  BY <1>2, <1>4 DEF Makers
<1> QED BY <1>1, <1>3, <1>4, <1>5, <1>6, ArriveFits

LEMMA AboutLeadFits ==
    ASSUME Fits, NEW r \in Requests, NEW l \in DOMAIN lead,
           ArchiveLead(r, l) \/ Convert(r, l) \/ ConvertToClient(r, l)
    PROVE  Fits'
<1>1. ASSUME NEW label \in {"write", "customer"}, NEW op \in {"archive", "convert", "toClient"},
             NEW email \in Ids, label = "customer" => op = "convert",
             op = "convert" => email \in Emails,
             Arrive(r, Asked(label, op, l, email, {lead[l]}))
      PROVE  Fits'
  <2> DEFINE asked == Asked(label, op, l, email, {lead[l]})
  <2>1. label \in Pending /\ op \in Ops /\ op \in AboutLeads
    BY DEF Pending, Ops, AboutLeads
  <2>2. /\ asked \in ReqRow /\ asked.pc = label /\ asked.op = op /\ asked.id = l
        /\ asked.email = email /\ asked.found = None
    BY <2>1, AskedFits, LeadRead
  <2>3. Arrive(r, asked)
    BY <1>1
  <2> HIDE DEF asked
  <2>4. asked.op \notin Makers \cup {"update", "fromContact", "customer"} /\ asked.pc # "duplicate"
    BY <2>2 DEF Makers
  <2> QED BY <1>1, <2>1, <2>2, <2>3, <2>4, ArriveFits
<1>2. None \in Ids /\ lead[l].email \in Ids /\ lead[l].email \in Emails
  BY LeadRead DEF Ids
<1>3. CASE ArchiveLead(r, l)
  BY <1>1, <1>2, <1>3 DEF ArchiveLead
<1>4. CASE Convert(r, l)
  BY <1>1, <1>2, <1>4 DEF Convert
<1>5. CASE ConvertToClient(r, l)
  BY <1>1, <1>2, <1>5 DEF ConvertToClient
<1> QED BY <1>3, <1>4, <1>5

LEMMA ConvertContactFits ==
    ASSUME Fits, NEW r \in Requests, NEW k \in DOMAIN contact, ConvertContact(r, k)
    PROVE  Fits'
<1> DEFINE asked == Asked("duplicate", "fromContact", k, contact[k].email, {contact[k]})
<1>1. /\ "duplicate" \in Pending /\ "fromContact" \in Ops /\ k \in Ids
      /\ contact[k].email \in Emails /\ contact[k].email \in Ids
      /\ {contact[k]} \in SUBSET (LeadRow \cup ContactRow)
  BY DEF Pending, Ops, Makers, Ids, Fits, Rows, ContactRow
<1>2. /\ asked \in ReqRow /\ asked.pc = "duplicate" /\ asked.op = "fromContact"
      /\ asked.id = k /\ asked.email = contact[k].email /\ asked.found = None
  BY <1>1, AskedFits
<1>3. Arrive(r, asked)
  BY DEF ConvertContact
<1> HIDE DEF asked
<1> QED BY <1>1, <1>2, <1>3, ArriveFits DEF Pending, Makers, AboutLeads

LEMMA UpdateCustomerFits ==
    ASSUME Fits, NEW r \in Requests, NEW c \in DOMAIN customer, NEW e \in Emails,
           UpdateCustomer(r, c, e)
    PROVE  Fits'
<1> DEFINE asked == Asked("write", "customer", c, e, {})
<1>1. /\ "write" \in Pending /\ "customer" \in Ops /\ c \in Ids /\ e \in Ids
      /\ {} \in SUBSET (LeadRow \cup ContactRow)
  BY DEF Pending, Ops, Ids, Fits, Rows
<1>2. /\ asked \in ReqRow /\ asked.pc = "write" /\ asked.op = "customer"
      /\ asked.id = c /\ asked.email = e /\ asked.found = None
  BY <1>1, AskedFits
<1>3. Arrive(r, asked)
  BY DEF UpdateCustomer
<1> HIDE DEF asked
<1> QED BY <1>1, <1>2, <1>3, ArriveFits DEF Makers, AboutLeads

-----------------------------------------------------------------------------
(* Steps of a handler that write nothing.                                  *)

LEMMA LookForDuplicateFits ==
    ASSUME Fits, NEW r \in Requests, LookForDuplicate(r) PROVE Fits'
<1>1. CASE req' = [req EXCEPT ![r].pc = "write", ![r].searched = TRUE]
  <2>1. PICK row \in ReqRow : row = req[r]
    BY DEF Fits, Rows
  <2> DEFINE new == [row EXCEPT !.pc = "write", !.searched = TRUE]
  <2>2. new \in ReqRow
    BY Zenon DEF ReqRow, Labels, Pending
  <2>3. /\ new.pc = "write" /\ new.searched /\ new.op = row.op /\ new.id = row.id
        /\ new.email = row.email /\ new.found = row.found
    BY DEF ReqRow
  <2>4. req' = [req EXCEPT ![r] = new]
    BY <1>1, <2>1 DEF Fits, Rows
  <2> HIDE DEF new
  <2>5. req'[r] = new
    BY <2>4 DEF Fits, Rows
  <2>6. UNCHANGED tables /\ req[r].pc = "duplicate" /\ RequestFits(r)
    BY DEF LookForDuplicate, Fits
  <2>7. RequestFits(r)'
    BY <2>1, <2>3, <2>5, <2>6 DEF RequestFits, Unmade, tables, Pending
  <2> QED BY <2>2, <2>4, <2>6, <2>7, OthersFit, ReadersFit, NoGrowth
<1>2. CASE Answer(r, "rejected")
  BY <1>2, AnswerFits, ReadersFit, NoGrowth DEF LookForDuplicate, Finished
<1> QED BY <1>1, <1>2 DEF LookForDuplicate

LEMMA FindCustomerFits ==
    ASSUME Fits, NEW r \in Requests, FindCustomer(r) PROVE Fits'
<1>1. PICK c \in DOMAIN customer \cup {None} :
          req' = [req EXCEPT ![r].found = c, ![r].pc = "write"]
  BY DEF FindCustomer
<1>2. PICK row \in ReqRow : row = req[r]
  BY DEF Fits, Rows
<1> DEFINE new == [row EXCEPT !.found = c, !.pc = "write"]
<1>3. c \in Ids
  BY DEF Fits, Rows, Ids
<1>4. new \in ReqRow
  BY <1>3, Zenon DEF ReqRow, Labels, Pending
<1>5. /\ new.pc = "write" /\ new.found = c /\ new.op = row.op /\ new.id = row.id
      /\ new.email = row.email
  BY DEF ReqRow
<1>6. req' = [req EXCEPT ![r] = new]
  BY <1>1, <1>2 DEF Fits, Rows
<1> HIDE DEF new
<1>7. req'[r] = new
  BY <1>6 DEF Fits, Rows
<1>8. UNCHANGED tables /\ req[r].pc = "customer" /\ RequestFits(r)
  BY DEF FindCustomer, Fits
<1>9. RequestFits(r)'
  BY <1>2, <1>5, <1>7, <1>8 DEF RequestFits, Unmade, tables, Pending, Makers
<1> QED BY <1>4, <1>6, <1>8, <1>9, OthersFit, ReadersFit, NoGrowth

LEMMA FailureFits ==
    ASSUME Fits, NEW r \in Requests, TransientError(r) \/ Crash(r) PROVE Fits'
<1>1. CASE Answer(r, "failed")
  BY <1>1, AnswerFits, ReadersFit, NoGrowth DEF TransientError, Crash, Finished
<1>2. CASE TransientError(r) /\ ~Answer(r, "failed")
  <2>1. PICK row \in ReqRow : row = req[r]
    BY DEF Fits, Rows
  <2> DEFINE label == IF row.op = "convert" THEN "customer" ELSE row.pc
             new   == [row EXCEPT !.tries = row.tries + 1, !.found = None, !.pc = label]
  <2>2. row.tries + 1 \in Nat /\ None \in Ids
    BY DEF ReqRow, Ids
  <2>3. label \in Labels
    BY DEF ReqRow, Labels, Pending
  <2>4. new \in ReqRow
    <3> HIDE DEF label
    <3> QED BY <2>2, <2>3, Zenon DEF ReqRow
  <2>5. /\ new.pc = label /\ new.found = None /\ new.op = row.op /\ new.id = row.id
        /\ new.email = row.email /\ new.seen = row.seen /\ new.searched = row.searched
    <3> HIDE DEF label
    <3> QED BY DEF ReqRow
  <2>6. req' = [req EXCEPT ![r] = new]
    BY <1>2, <2>1 DEF TransientError, Fits, Rows
  <2>7. UNCHANGED tables /\ req[r].pc \in Pending /\ RequestFits(r)
    BY <1>2 DEF TransientError, InTransaction, Fits, Pending
  <2> HIDE DEF new
  <2>8. req'[r] = new
    BY <2>6 DEF Fits, Rows
  <2>9. RequestFits(r)'
    BY <2>1, <2>5, <2>7, <2>8 DEF RequestFits, Unmade, tables, Pending, Makers
  <2> QED BY <2>4, <2>6, <2>7, <2>9, OthersFit, ReadersFit, NoGrowth
<1> QED BY <1>1, <1>2 DEF Crash

-----------------------------------------------------------------------------
(* What the writes do to the tables.                                       *)

LEMMA PutLead ==
    ASSUME Fits, NEW r \in Requests, Unmade(r), NEW e \in Emails,
           lead' = Put(lead, r, NewLead(e))
    PROVE  /\ DOMAIN lead' = DOMAIN lead \cup {r}
           /\ lead' \in [DOMAIN lead' -> LeadRow] /\ DOMAIN lead' \subseteq Emails \cup Requests
           /\ lead'[r] = NewLead(e)
           /\ \A x \in DOMAIN lead : x # r /\ lead'[x] = lead[x]
<1>1. NewLead(e) \in LeadRow
  BY DEF NewLead, LeadRow, Ids
<1>2. r \notin DOMAIN lead
  BY DEF Unmade
<1> QED BY <1>1, <1>2 DEF Put, Fits, Rows

LEMMA PutCustomer ==
    ASSUME Fits, NEW r \in Requests, Unmade(r), NEW e \in Emails,
           customer' = Put(customer, r, [email |-> e, live |-> TRUE])
    PROVE  /\ DOMAIN customer' = DOMAIN customer \cup {r}
           /\ customer' \in [DOMAIN customer' -> CustomerRow]
           /\ DOMAIN customer' \subseteq Requests
           /\ customer'[r].email = e
           /\ \A x \in DOMAIN customer : x # r /\ customer'[x] = customer[x]
<1>1. [email |-> e, live |-> TRUE] \in CustomerRow
  BY DEF CustomerRow
<1>2. r \notin DOMAIN customer
  BY DEF Unmade
<1> QED BY <1>1, <1>2 DEF Put, Fits, Rows

\* One lead is edited, into this row.
LeadEdited(id, row) ==
    /\ DOMAIN lead' = DOMAIN lead
    /\ lead' \in [DOMAIN lead -> LeadRow]
    /\ lead'[id] = row
    /\ \A x \in DOMAIN lead : x # id => lead'[x] = lead[x]

LEMMA EditedFits ==
    ASSUME Fits, NEW id \in DOMAIN lead, NEW row \in LeadRow,
           lead' = [lead EXCEPT ![id] = row]
    PROVE  LeadEdited(id, row)
  BY DEF LeadEdited, Fits, Rows

LEMMA WriteLeadDoes ==
    ASSUME Fits, NEW r \in Requests, WriteLead(r)
    PROVE  LET id  == req[r].id
               new == lead'[id]
               old == lead[id]
           IN  /\ id \in DOMAIN lead
               /\ LeadEdited(id, new)
               /\ new.customer = old.customer /\ new.client = old.client
               /\ \/ req[r].op = "update" /\ new.email = req[r].email /\ new.status = old.status
                  \/ new.email = old.email /\ new.status = "ARCHIVED"
<1>1. RequestFits(r) /\ req[r].id \in DOMAIN lead
  BY DEF WriteLead, Fits, RequestFits, AboutLeads
<1>2. PICK id \in DOMAIN lead : id = req[r].id
  BY <1>1
<1>3. PICK old \in LeadRow : old = lead[id]
  BY DEF Fits, Rows
<1>4. CASE req[r].op = "update" /\ lead' = [lead EXCEPT ![req[r].id].email = req[r].email]
  <2>1. PICK e \in Emails : e = req[r].email
    BY <1>1, <1>4 DEF RequestFits
  <2> DEFINE new == [old EXCEPT !.email = e]
  <2>2. new \in LeadRow
    BY Zenon DEF LeadRow
  <2>3. /\ new.customer = old.customer /\ new.client = old.client /\ new.email = e
        /\ new.status = old.status
    BY DEF LeadRow
  <2>4. lead' = [lead EXCEPT ![id] = new]
    BY <1>2, <1>3, <1>4, <2>1 DEF Fits, Rows
  <2> HIDE DEF new
  <2>5. LeadEdited(id, new)
    BY <2>2, <2>4, EditedFits
  <2>6. lead'[id] = new
    BY <2>5 DEF LeadEdited
  <2> QED BY <1>2, <1>3, <1>4, <2>1, <2>3, <2>5, <2>6
<1>5. CASE lead' = [lead EXCEPT ![req[r].id].status = "ARCHIVED"]
  <2> DEFINE new == [old EXCEPT !.status = "ARCHIVED"]
  <2>2. new \in LeadRow
    BY Zenon DEF LeadRow
  <2>3. /\ new.customer = old.customer /\ new.client = old.client /\ new.email = old.email
        /\ new.status = "ARCHIVED"
    BY DEF LeadRow
  <2>4. lead' = [lead EXCEPT ![id] = new]
    BY <1>2, <1>3, <1>5 DEF Fits, Rows
  <2> HIDE DEF new
  <2>5. LeadEdited(id, new)
    BY <2>2, <2>4, EditedFits
  <2>6. lead'[id] = new
    BY <2>5 DEF LeadEdited
  <2> QED BY <1>2, <1>3, <2>3, <2>5, <2>6
<1> QED BY <1>4, <1>5 DEF WriteLead

LEMMA CommitConvertDoes ==
    ASSUME LeadsAssumption, Fits, NEW r \in Requests, CommitConvert(r), ~CustomerConflict(r)
    PROVE  LET id  == req[r].id
               new == lead'[id]
           IN  /\ id \in DOMAIN lead
               /\ LeadEdited(id, new)
               /\ new.email = lead[id].email /\ new.status = "CONVERTED"
               /\ new.client = lead[id].client
               /\ new.customer \in DOMAIN customer' /\ new.customer # None
               /\ new.customer = IF req[r].found = None THEN r ELSE req[r].found
               /\ req[r].found # None => customer' = customer
               /\ Unmade(r) /\ req[r].email \in Emails
               /\ \/ customer' = customer
                  \/ /\ customer' = Put(customer, r, [email |-> req[r].email, live |-> TRUE])
                     /\ Holders(req[r].email) = {}
<1>1. RequestFits(r) /\ req[r].id \in DOMAIN lead /\ Unmade(r) /\ req[r].email \in Emails
  BY DEF CommitConvert, Fits, RequestFits, AboutLeads, Pending
<1>2. PICK id \in DOMAIN lead : id = req[r].id
  BY <1>1
<1>3. PICK old \in LeadRow : old = lead[id]
  BY DEF Fits, Rows
<1>4. PICK c : c = IF req[r].found = None THEN r ELSE req[r].found
  OBVIOUS
<1>5. /\ lead' = [lead EXCEPT ![req[r].id].status = "CONVERTED", ![req[r].id].customer = c]
      /\ customer' = IF req[r].found = None
                     THEN Put(customer, r, [email |-> req[r].email, live |-> TRUE])
                     ELSE customer
  BY <1>4 DEF CommitConvert
<1>6. c \in Ids /\ c \in DOMAIN customer' /\ c # None
  <2>1. CASE req[r].found = None
    BY <1>1, <1>4, <1>5, <2>1, PutCustomer DEF Ids, LeadsAssumption
  <2>2. CASE req[r].found # None
    BY <1>1, <1>4, <1>5, <2>2 DEF RequestFits, Fits, Rows, Ids
  <2> QED BY <2>1, <2>2
<1> DEFINE new == [old EXCEPT !.status = "CONVERTED", !.customer = c]
<1>7. new \in LeadRow
  BY <1>6, Zenon DEF LeadRow
<1>8. /\ new.customer = c /\ new.client = old.client /\ new.email = old.email
      /\ new.status = "CONVERTED"
  BY DEF LeadRow
<1>9. lead' = [lead EXCEPT ![id] = new]
  BY <1>2, <1>3, <1>5 DEF Fits, Rows
<1> HIDE DEF new
<1>10. LeadEdited(id, new)
  BY <1>7, <1>9, EditedFits
<1>11. lead'[id] = new
  BY <1>10 DEF LeadEdited
<1>12. \/ customer' = customer
       \/ /\ customer' = Put(customer, r, [email |-> req[r].email, live |-> TRUE])
          /\ Holders(req[r].email) = {}
  BY <1>5 DEF CustomerConflict
<1>13. req[r].found # None => customer' = customer
  BY <1>5
<1> QED BY <1>1, <1>2, <1>3, <1>4, <1>6, <1>8, <1>10, <1>11, <1>12, <1>13

LEMMA CommitToClientDoes ==
    ASSUME LeadsAssumption, Fits, NEW r \in Requests, CommitToClient(r)
    PROVE  LET id  == req[r].id
               new == lead'[id]
           IN  /\ id \in DOMAIN lead
               /\ LeadEdited(id, new)
               /\ new.email = lead[id].email /\ new.status = "CONVERTED"
               /\ new.customer = lead[id].customer /\ new.client = r /\ r # None
               /\ Unmade(r)
               /\ DOMAIN client' = DOMAIN client \cup {r} /\ client'[r] = id
               /\ \A x \in DOMAIN client : x # r /\ client'[x] = client[x]
               /\ client' \in [DOMAIN client' -> DOMAIN lead]
<1>1. RequestFits(r) /\ req[r].id \in DOMAIN lead /\ Unmade(r)
  BY DEF CommitToClient, Fits, RequestFits, AboutLeads, Pending
<1>2. PICK id \in DOMAIN lead : id = req[r].id
  BY <1>1
<1>3. PICK old \in LeadRow : old = lead[id]
  BY DEF Fits, Rows
<1>4. r \in Ids /\ r # None
  BY DEF Ids, LeadsAssumption
<1> DEFINE new == [old EXCEPT !.status = "CONVERTED", !.client = r]
<1>5. new \in LeadRow
  BY <1>4, Zenon DEF LeadRow
<1>6. /\ new.customer = old.customer /\ new.client = r /\ new.email = old.email
      /\ new.status = "CONVERTED"
  BY DEF LeadRow
<1>7. lead' = [lead EXCEPT ![id] = new]
  BY <1>2, <1>3 DEF CommitToClient, Fits, Rows
<1> HIDE DEF new
<1>8. LeadEdited(id, new)
  BY <1>5, <1>7, EditedFits
<1>9. lead'[id] = new
  BY <1>8 DEF LeadEdited
<1>10. client' = Put(client, r, id) /\ r \notin DOMAIN client
  BY <1>1, <1>2 DEF CommitToClient, Unmade
<1>11. /\ DOMAIN client' = DOMAIN client \cup {r} /\ client'[r] = id
       /\ \A x \in DOMAIN client : x # r /\ client'[x] = client[x]
       /\ client' \in [DOMAIN client' -> DOMAIN lead]
  BY <1>10 DEF Put, Fits, Rows
<1> QED BY <1>1, <1>2, <1>3, <1>4, <1>6, <1>8, <1>9, <1>11

\* The lead that a contact request becomes, and the request that becomes it.
LEMMA CommitFromContactDoes ==
    ASSUME LeadsAssumption, Fits, NEW r \in Requests, CommitFromContact(r)
    PROVE  LET id  == req[r].id
               new == contact'[id]
           IN  /\ id \in DOMAIN contact
               /\ DOMAIN contact' = DOMAIN contact
               /\ contact' \in [DOMAIN contact -> ContactRow]
               /\ \A x \in DOMAIN contact : x # id => contact'[x] = contact[x]
               /\ new.status = "CONVERTED" /\ new.lead = r /\ r # None
               /\ Unmade(r) /\ req[r].email \in Emails /\ req[r].searched
               /\ lead' = Put(lead, r, NewLead(req[r].email))
<1>1. /\ RequestFits(r) /\ req[r].id \in DOMAIN contact /\ Unmade(r)
      /\ req[r].email \in Emails /\ req[r].searched
  BY DEF CommitFromContact, Fits, RequestFits, Makers, Pending
<1>2. PICK id \in DOMAIN contact : id = req[r].id
  BY <1>1
<1>3. PICK old \in ContactRow : old = contact[id]
  BY DEF Fits, Rows
<1>4. r \in Ids /\ r # None
  BY DEF Ids, LeadsAssumption
<1> DEFINE new == [old EXCEPT !.status = "CONVERTED", !.lead = r]
<1>5. new \in ContactRow
  BY <1>4, Zenon DEF ContactRow
<1>6. new.lead = r /\ new.status = "CONVERTED"
  BY DEF ContactRow
<1>7. contact' = [contact EXCEPT ![id] = new]
  BY <1>2, <1>3 DEF CommitFromContact, Fits, Rows
<1> HIDE DEF new
<1>8. /\ DOMAIN contact' = DOMAIN contact /\ contact' \in [DOMAIN contact -> ContactRow]
      /\ \A x \in DOMAIN contact : x # id => contact'[x] = contact[x]
      /\ contact'[id] = new
  BY <1>5, <1>7 DEF Fits, Rows
<1>9. lead' = Put(lead, r, NewLead(req[r].email))
  BY DEF CommitFromContact
<1> QED BY <1>1, <1>2, <1>4, <1>6, <1>8, <1>9

LEMMA InsertLeadDoes ==
    ASSUME Fits, NEW r \in Requests, InsertLead(r)
    PROVE  /\ Unmade(r) /\ req[r].email \in Emails /\ req[r].searched
           /\ lead' = Put(lead, r, NewLead(req[r].email))
  BY DEF InsertLead, Fits, RequestFits, Makers, Pending

\* An address is written to one customer, and only if no other live one has it.
LEMMA WriteCustomerDoes ==
    ASSUME Fits, NEW r \in Requests, WriteCustomer(r), ~AddressRefused(r)
    PROVE  /\ req[r].id \in DOMAIN customer /\ DOMAIN customer' = DOMAIN customer
           /\ customer' \in [DOMAIN customer -> CustomerRow]
           /\ \A x \in DOMAIN customer : x # req[r].id => customer'[x] = customer[x]
           /\ customer'[req[r].id].email = req[r].email
           /\ customer'[req[r].id].live = customer[req[r].id].live
           /\ Answer(r, "done") /\ UNCHANGED <<lead, contact, client, activity, strayed>>
<1>1. /\ req[r].id \in DOMAIN customer /\ req[r].email \in Emails
      /\ customer' = [customer EXCEPT ![req[r].id].email = req[r].email]
      /\ Answer(r, "done") /\ UNCHANGED <<lead, contact, client, activity, strayed>>
  BY DEF WriteCustomer, Fits, RequestFits
<1>2. PICK id, e : id = req[r].id /\ e = req[r].email
  OBVIOUS
<1>3. PICK row \in CustomerRow : row = customer[id]
  BY <1>1, <1>2 DEF Fits, Rows
<1> DEFINE new == [row EXCEPT !.email = e]
<1>4. new \in CustomerRow
  BY <1>1, <1>2, Zenon DEF CustomerRow
<1>5. new.email = e /\ new.live = row.live
  BY DEF CustomerRow
<1>6. customer' = [customer EXCEPT ![id] = new]
  BY <1>1, <1>2, <1>3 DEF Fits, Rows
<1> HIDE DEF new
<1> QED BY <1>1, <1>2, <1>3, <1>4, <1>5, <1>6 DEF Fits, Rows

\* A write leaves whole rows, and adds none but the request's own.
LEMMA WriteFits ==
    ASSUME Fits, NEW r \in Requests, NEW outcome \in Finished, Answer(r, outcome),
           lead' \in [DOMAIN lead' -> LeadRow], DOMAIN lead' \subseteq Emails \cup Requests,
           contact' \in [DOMAIN contact' -> ContactRow],
           DOMAIN contact' \subseteq Emails \cup Requests,
           customer' \in [DOMAIN customer' -> CustomerRow], DOMAIN customer' \subseteq Requests,
           client' \in [DOMAIN client' -> DOMAIN lead'], DOMAIN client' \subseteq Requests,
           Grow(r)
    PROVE  Fits'
<1>1. req' \in [Requests -> ReqRow] /\ \A x \in Requests : RequestFits(x)'
  BY AnswerFits
<1> QED BY <1>1 DEF Fits, Rows

LEMMA HandlersFit ==
    ASSUME LeadsAssumption, Fits, NEW r \in Requests, Writes(r)
    PROVE  Fits'
<1>1. Rows /\ "done" \in Finished /\ "rejected" \in Finished
  BY DEF Fits, Finished
<1>2. CASE InsertLead(r)
  <2>1. /\ DOMAIN lead' = DOMAIN lead \cup {r}
        /\ lead' \in [DOMAIN lead' -> LeadRow] /\ DOMAIN lead' \subseteq Emails \cup Requests
    BY <1>2, InsertLeadDoes, PutLead
  <2> QED BY <1>1, <1>2, <2>1, WriteFits DEF InsertLead, Rows, Grow
<1>3. CASE WriteLead(r)
  <2>1. DOMAIN lead' = DOMAIN lead /\ lead' \in [DOMAIN lead -> LeadRow]
    BY <1>3, WriteLeadDoes DEF LeadEdited
  <2> QED BY <1>1, <1>3, <2>1, WriteFits DEF WriteLead, Rows, Grow
<1>4. CASE CommitConvert(r) /\ CustomerConflict(r)
  BY <1>1, <1>4, AnswerFits, ReadersFit, NoGrowth DEF CommitConvert
<1>5. CASE CommitConvert(r) /\ ~CustomerConflict(r)
  <2>1. DOMAIN lead' = DOMAIN lead /\ lead' \in [DOMAIN lead -> LeadRow]
    BY <1>5, CommitConvertDoes DEF LeadEdited
  <2>2. /\ customer' \in [DOMAIN customer' -> CustomerRow] /\ DOMAIN customer' \subseteq Requests
        /\ DOMAIN customer \subseteq DOMAIN customer'
        /\ DOMAIN customer' \subseteq DOMAIN customer \cup {r}
    <3>1. Unmade(r) /\ req[r].email \in Emails
      BY <1>5, CommitConvertDoes
    <3>2. CASE customer' = customer
      BY <1>1, <3>2 DEF Rows
    <3>3. CASE customer' = Put(customer, r, [email |-> req[r].email, live |-> TRUE])
      BY <3>1, <3>3, PutCustomer
    <3> QED BY <1>5, <3>2, <3>3, CommitConvertDoes
  <2>3. Answer(r, "done") /\ UNCHANGED <<contact, client>>
    BY <1>5 DEF CommitConvert
  <2>4. Grow(r)
    BY <2>1, <2>2, <2>3 DEF Grow
  <2> QED BY <1>1, <2>1, <2>2, <2>3, <2>4, WriteFits DEF Rows
<1>6. CASE CommitToClient(r)
  <2>1. DOMAIN lead' = DOMAIN lead /\ lead' \in [DOMAIN lead -> LeadRow]
    BY <1>6, CommitToClientDoes DEF LeadEdited
  <2>2. /\ client' \in [DOMAIN client' -> DOMAIN lead] /\ DOMAIN client' = DOMAIN client \cup {r}
    BY <1>6, CommitToClientDoes
  <2>3. Answer(r, "done") /\ UNCHANGED <<contact, customer>>
    BY <1>6 DEF CommitToClient
  <2>4. Grow(r)
    BY <2>1, <2>2, <2>3 DEF Grow
  <2> QED BY <1>1, <2>1, <2>2, <2>3, <2>4, WriteFits DEF Rows
<1>7. CASE CommitFromContact(r)
  <2>1. /\ DOMAIN lead' = DOMAIN lead \cup {r}
        /\ lead' \in [DOMAIN lead' -> LeadRow] /\ DOMAIN lead' \subseteq Emails \cup Requests
    BY <1>7, CommitFromContactDoes, PutLead
  <2>2. DOMAIN contact' = DOMAIN contact /\ contact' \in [DOMAIN contact -> ContactRow]
    BY <1>7, CommitFromContactDoes
  <2>3. Answer(r, "done") /\ UNCHANGED <<customer, client>>
    BY <1>7 DEF CommitFromContact
  <2>4. Grow(r)
    BY <2>1, <2>2, <2>3 DEF Grow
  <2> QED BY <1>1, <2>1, <2>2, <2>3, <2>4, WriteFits DEF Rows
<1>8. CASE WriteCustomer(r) /\ AddressRefused(r)
  BY <1>1, <1>8, AnswerFits, ReadersFit, NoGrowth DEF WriteCustomer
<1>9. CASE WriteCustomer(r) /\ ~AddressRefused(r)
  <2>1. /\ DOMAIN customer' = DOMAIN customer /\ customer' \in [DOMAIN customer -> CustomerRow]
        /\ Answer(r, "done") /\ UNCHANGED <<lead, contact, client>>
    BY <1>9, WriteCustomerDoes
  <2>2. Grow(r)
    BY <2>1 DEF Grow
  <2> QED BY <1>1, <2>1, <2>2, WriteFits DEF Rows
<1> QED BY <1>2, <1>3, <1>4, <1>5, <1>6, <1>7, <1>8, <1>9 DEF Writes

LEMMA DirectWritesFit ==
    ASSUME Fits, NEW r \in Requests, Direct(r)
    PROVE  Fits'
<1>1. Rows /\ "done" \in Finished /\ (req[r].pc = "idle" => Unmade(r))
  BY DEF Fits, Finished, RequestFits
<1>2. ASSUME NEW e \in Emails, CreateContact(r, e) PROVE Fits'
  <2>1. NewContact(e) \in ContactRow /\ contact' = Put(contact, r, NewContact(e))
    BY <1>2 DEF NewContact, ContactRow, Ids, CreateContact
  <2>2. /\ DOMAIN contact' = DOMAIN contact \cup {r}
        /\ contact' \in [DOMAIN contact' -> ContactRow]
    BY <1>1, <2>1 DEF Put, Rows
  <2>3. Answer(r, "done") /\ UNCHANGED <<lead, customer, client>>
    BY <1>2 DEF CreateContact
  <2>4. Grow(r)
    BY <2>2, <2>3 DEF Grow
  <2>5. DOMAIN contact' \subseteq Emails \cup Requests
    BY <1>1, <2>2 DEF Rows
  <2> QED BY <1>1, <2>2, <2>3, <2>4, <2>5, WriteFits DEF Rows
<1>3. ASSUME NEW e \in Emails, CreateCustomer(r, e) PROVE Fits'
  <2>1. /\ DOMAIN customer' = DOMAIN customer \cup {r}
        /\ customer' \in [DOMAIN customer' -> CustomerRow] /\ DOMAIN customer' \subseteq Requests
    BY <1>1, <1>3, PutCustomer DEF CreateCustomer
  <2>2. Answer(r, "done") /\ UNCHANGED <<lead, contact, client>>
    BY <1>3 DEF CreateCustomer
  <2>3. Grow(r)
    BY <2>1, <2>2 DEF Grow
  <2> QED BY <1>1, <2>1, <2>2, <2>3, WriteFits DEF Rows
<1>4. ASSUME NEW c \in DOMAIN customer, RemoveCustomer(r, c) PROVE Fits'
  <2>1. PICK row \in CustomerRow : row = customer[c]
    BY <1>1 DEF Rows
  <2>2. [row EXCEPT !.live = FALSE] \in CustomerRow
    BY Zenon DEF CustomerRow
  <2>3. DOMAIN customer' = DOMAIN customer /\ customer' \in [DOMAIN customer' -> CustomerRow]
    BY <1>1, <1>4, <2>1, <2>2 DEF RemoveCustomer, Rows
  <2>4. Answer(r, "done") /\ UNCHANGED <<lead, contact, client>>
    BY <1>4 DEF RemoveCustomer
  <2>5. Grow(r)
    BY <2>3, <2>4 DEF Grow
  <2> QED BY <1>1, <2>3, <2>4, <2>5, WriteFits DEF Rows
<1> QED BY <1>2, <1>3, <1>4 DEF Direct

-----------------------------------------------------------------------------
\* The kinds of step there are.
LEMMA StepCases ==
    ASSUME [Next]_vars
    PROVE  (\E r \in Requests : Reads(r) \/ Writes(r) \/ Direct(r)) \/ UNCHANGED vars
  BY DEF Next, Handle, Quiet, Reads, Writes, Direct

LEMMA ReadersWriteNothing ==
    ASSUME NEW r \in Requests, Reads(r)
    PROVE  UNCHANGED tables
<1>1. \A asked : Arrive(r, asked) => UNCHANGED tables
  BY DEF Arrive
<1>2. CASE \E e \in Emails : CreateLead(r, e)
  BY <1>1, <1>2 DEF CreateLead
<1>3. ASSUME NEW l \in DOMAIN lead,
             \/ \E e \in Emails : UpdateLead(r, l, e)
             \/ ArchiveLead(r, l) \/ Convert(r, l) \/ ConvertToClient(r, l)
      PROVE  UNCHANGED tables
  BY <1>1, <1>3 DEF UpdateLead, ArchiveLead, Convert, ConvertToClient
<1>4. CASE \E k \in DOMAIN contact : ConvertContact(r, k)
  BY <1>1, <1>4 DEF ConvertContact
<1>5. CASE LookForDuplicate(r) \/ FindCustomer(r) \/ TransientError(r) \/ Crash(r)
  BY <1>5 DEF LookForDuplicate, FindCustomer, TransientError, Crash
<1>6. CASE \E c \in DOMAIN customer : \E e \in Emails : UpdateCustomer(r, c, e)
  BY <1>1, <1>6 DEF UpdateCustomer
<1> QED BY <1>2, <1>3, <1>4, <1>5, <1>6 DEF Reads

LEMMA FitsNext == ASSUME LeadsAssumption, Fits, [Next]_vars PROVE Fits'
<1>1. ASSUME NEW r \in Requests, Reads(r) PROVE Fits'
  BY <1>1, CreateLeadFits, UpdateLeadFits, AboutLeadFits, ConvertContactFits,
     UpdateCustomerFits, LookForDuplicateFits, FindCustomerFits, FailureFits DEF Reads
<1>2. CASE UNCHANGED vars
  BY <1>2 DEF vars, Fits, Rows, RequestFits, Unmade
<1> QED BY <1>1, <1>2, StepCases, HandlersFit, DirectWritesFit

LEMMA FitsInit == ASSUME LeadsAssumption, Init PROVE Fits
<1>1. \A e \in Emails : NewLead(e) \in LeadRow /\ NewContact(e) \in ContactRow
  BY DEF NewLead, NewContact, LeadRow, ContactRow, Ids
<1>2. At("idle") \in ReqRow
  BY DEF At, Asked, ReqRow, Labels, Ops, Ids
<1>3. /\ DOMAIN lead = OpenLeads /\ DOMAIN contact = Contacts
      /\ DOMAIN customer = {} /\ DOMAIN client = {}
  BY DEF Init, Empty
<1>4. Rows
  BY <1>1, <1>2, <1>3 DEF Rows, Init, Empty, LeadsAssumption
<1>5. ASSUME NEW r \in Requests PROVE RequestFits(r)
  <2>1. req[r] = At("idle") /\ Unmade(r)
    BY <1>3 DEF Init, Unmade, LeadsAssumption
  <2> QED BY <2>1 DEF RequestFits, At, Asked, AboutLeads, Makers, None
<1> QED BY <1>4, <1>5 DEF Fits

LEMMA FitsAlways == ASSUME LeadsAssumption PROVE Spec => []Fits
<1>1. Init => Fits
  BY FitsInit
<1>2. Fits /\ [Next]_vars => Fits'
  BY FitsNext
<1> QED BY <1>1, <1>2, PTL DEF Spec

-----------------------------------------------------------------------------
(* The links between the tables.                                           *)

Linked ==
    /\ \A l \in DOMAIN lead : /\ lead[l].customer \in DOMAIN customer \cup {None}
                              /\ lead[l].client \in DOMAIN client \cup {None}
    /\ \A k \in DOMAIN contact : contact[k].lead \in DOMAIN lead \cup {None}
    /\ \A c, d \in DOMAIN customer :
           customer[c].live /\ customer[d].live /\ customer[c].email = customer[d].email => c = d
    /\ strayed.leads \subseteq DOMAIN lead /\ strayed.contacts \subseteq DOMAIN contact

LEMMA TypeHolds == ASSUME Fits, Linked PROVE TypeOK
<1>1. \A l \in DOMAIN lead :
          lead[l].email \in Emails /\ lead[l].status \in {"NEW", "CONVERTED", "ARCHIVED"}
  BY DEF Fits, Rows, LeadRow
<1>2. \A k \in DOMAIN contact : contact[k].email \in Emails
  BY DEF Fits, Rows, ContactRow
<1>3. \A r \in Requests : req[r].pc \in {"idle"} \cup Pending \cup Finished
  BY DEF Fits, Rows, ReqRow, Labels
<1> QED BY <1>1, <1>2, <1>3 DEF TypeOK, Linked

\* Nobody else has the address of a customer that is added.
LEMMA CustomersUnique ==
    ASSUME Fits, Linked, NEW r \in Requests, Unmade(r), NEW e \in Emails, Holders(e) = {},
           customer' = Put(customer, r, [email |-> e, live |-> TRUE]),
           NEW c \in DOMAIN customer', NEW d \in DOMAIN customer',
           customer'[c].live, customer'[d].live, customer'[c].email = customer'[d].email
    PROVE  c = d
<1>1. /\ DOMAIN customer' = DOMAIN customer \cup {r} /\ customer'[r].email = e
      /\ \A x \in DOMAIN customer : x # r /\ customer'[x] = customer[x]
  BY PutCustomer
<1>2. \A x \in DOMAIN customer : ~(customer[x].live /\ customer[x].email = e)
  BY DEF Holders
<1> QED BY <1>1, <1>2 DEF Linked

LEMMA LinkedNext == ASSUME LeadsAssumption, Fits, Linked, [Next]_vars PROVE Linked'
<1>1. ASSUME NEW r \in Requests, InsertLead(r) \/ CommitFromContact(r) PROVE Linked'
  <2>1. /\ Unmade(r) /\ req[r].email \in Emails
        /\ lead' = Put(lead, r, NewLead(req[r].email))
    BY <1>1, InsertLeadDoes, CommitFromContactDoes
  <2>2. /\ DOMAIN lead' = DOMAIN lead \cup {r}
        /\ lead'[r].customer = None /\ lead'[r].client = None
        /\ \A x \in DOMAIN lead : x # r /\ lead'[x] = lead[x]
    BY <2>1, PutLead DEF NewLead
  <2>3. UNCHANGED <<customer, client>> /\ strayed'.leads \subseteq strayed.leads \cup {r}
    BY <1>1 DEF InsertLead, CommitFromContact, Stray, Suspect
  <2>4. /\ \A k \in DOMAIN contact' : contact'[k].lead \in DOMAIN lead' \cup {None}
        /\ strayed'.contacts \subseteq DOMAIN contact'
    <3>1. CASE InsertLead(r)
      BY <2>2, <3>1 DEF InsertLead, Linked, Stray
    <3>2. CASE CommitFromContact(r)
      <4>1. /\ req[r].id \in DOMAIN contact /\ DOMAIN contact' = DOMAIN contact
            /\ contact'[req[r].id].lead = r
            /\ \A x \in DOMAIN contact : x # req[r].id => contact'[x] = contact[x]
        BY <3>2, CommitFromContactDoes
      <4>2. strayed'.contacts \subseteq strayed.contacts \cup {req[r].id}
        BY <3>2 DEF CommitFromContact, Stray, Suspect
      <4> QED BY <2>2, <4>1, <4>2 DEF Linked
    <3> QED BY <1>1, <3>1, <3>2
  <2> QED BY <2>2, <2>3, <2>4 DEF Linked
<1>2. ASSUME NEW r \in Requests, WriteLead(r) PROVE Linked'
  <2>1. /\ req[r].id \in DOMAIN lead /\ DOMAIN lead' = DOMAIN lead
        /\ lead'[req[r].id].customer = lead[req[r].id].customer
        /\ lead'[req[r].id].client = lead[req[r].id].client
        /\ \A x \in DOMAIN lead : x # req[r].id => lead'[x] = lead[x]
    BY <1>2, WriteLeadDoes DEF LeadEdited
  <2>2. /\ UNCHANGED <<contact, customer, client>> /\ strayed'.contacts = strayed.contacts
        /\ strayed'.leads \subseteq strayed.leads \cup {req[r].id}
    BY <1>2 DEF WriteLead, Stray, Suspect
  <2> QED BY <2>1, <2>2 DEF Linked
<1>3. ASSUME NEW r \in Requests, CommitConvert(r), ~CustomerConflict(r) PROVE Linked'
  <2>1. /\ req[r].id \in DOMAIN lead /\ DOMAIN lead' = DOMAIN lead
        /\ lead'[req[r].id].customer \in DOMAIN customer'
        /\ lead'[req[r].id].client = lead[req[r].id].client
        /\ \A x \in DOMAIN lead : x # req[r].id => lead'[x] = lead[x]
    BY <1>3, CommitConvertDoes DEF LeadEdited
  <2>2. /\ UNCHANGED <<contact, client>> /\ strayed'.contacts = strayed.contacts
        /\ strayed'.leads \subseteq strayed.leads \cup {req[r].id}
    BY <1>3 DEF CommitConvert, Stray, Suspect
  <2>3. /\ Unmade(r) /\ req[r].email \in Emails
        /\ \/ customer' = customer
           \/ /\ customer' = Put(customer, r, [email |-> req[r].email, live |-> TRUE])
              /\ Holders(req[r].email) = {}
    BY <1>3, CommitConvertDoes
  <2>4. DOMAIN customer \subseteq DOMAIN customer'
    BY <2>3, PutCustomer
  <2>5. \A c, d \in DOMAIN customer' :
            /\ customer'[c].live /\ customer'[d].live
            /\ customer'[c].email = customer'[d].email
            => c = d
    <3>1. CASE customer' = customer
      BY <3>1 DEF Linked
    <3> QED BY <2>3, <3>1, CustomersUnique
  <2> QED BY <2>1, <2>2, <2>4, <2>5 DEF Linked
<1>4. ASSUME NEW r \in Requests, CommitToClient(r) PROVE Linked'
  <2>1. /\ req[r].id \in DOMAIN lead /\ DOMAIN lead' = DOMAIN lead
        /\ lead'[req[r].id].customer = lead[req[r].id].customer
        /\ lead'[req[r].id].client = r /\ DOMAIN client' = DOMAIN client \cup {r}
        /\ \A x \in DOMAIN lead : x # req[r].id => lead'[x] = lead[x]
    BY <1>4, CommitToClientDoes DEF LeadEdited
  <2>2. /\ UNCHANGED <<contact, customer>> /\ strayed'.contacts = strayed.contacts
        /\ strayed'.leads \subseteq strayed.leads \cup {req[r].id}
    BY <1>4 DEF CommitToClient, Stray, Suspect
  <2> QED BY <2>1, <2>2 DEF Linked
<1>5. ASSUME NEW r \in Requests, NEW e \in Emails, CreateContact(r, e) PROVE Linked'
  <2>1. /\ DOMAIN contact' = DOMAIN contact \cup {r}
        /\ \A k \in DOMAIN contact' : k = r \/ contact'[k] = contact[k]
        /\ contact'[r].lead = None
    BY <1>5 DEF CreateContact, Put, NewContact
  <2>2. UNCHANGED <<lead, customer, client, strayed>>
    BY <1>5 DEF CreateContact
  <2>3. \A k \in DOMAIN contact' : contact'[k].lead \in DOMAIN lead' \cup {None}
    BY <2>1, <2>2 DEF Linked
  <2> QED BY <2>1, <2>2, <2>3 DEF Linked
<1>6. ASSUME NEW r \in Requests, NEW e \in Emails, CreateCustomer(r, e) PROVE Linked'
  <2>1. /\ customer' = Put(customer, r, [email |-> e, live |-> TRUE]) /\ Holders(e) = {}
        /\ UNCHANGED <<lead, contact, client, strayed>> /\ Unmade(r)
    BY <1>6 DEF CreateCustomer, Fits, RequestFits
  <2>2. DOMAIN customer \subseteq DOMAIN customer'
    BY <2>1, PutCustomer
  <2>3. \A c, d \in DOMAIN customer' :
            /\ customer'[c].live /\ customer'[d].live
            /\ customer'[c].email = customer'[d].email
            => c = d
    BY <2>1, CustomersUnique
  <2> QED BY <2>1, <2>2, <2>3 DEF Linked
<1>7. ASSUME NEW r \in Requests, NEW c \in DOMAIN customer, RemoveCustomer(r, c) PROVE Linked'
  <2>1. PICK row \in CustomerRow : row = customer[c]
    BY DEF Fits, Rows
  <2> DEFINE new == [row EXCEPT !.live = FALSE]
  <2>2. new.email = row.email /\ ~new.live
    BY DEF CustomerRow
  <2>3. customer' = [customer EXCEPT ![c] = new]
    BY <1>7, <2>1 DEF RemoveCustomer, Fits, Rows
  <2> HIDE DEF new
  <2>4. /\ DOMAIN customer' = DOMAIN customer
        /\ \A x \in DOMAIN customer : x # c => customer'[x] = customer[x]
        /\ ~customer'[c].live
    BY <2>2, <2>3 DEF Fits, Rows
  <2>5. UNCHANGED <<lead, contact, client, strayed>>
    BY <1>7 DEF RemoveCustomer
  <2>6. \A x, y \in DOMAIN customer' :
            /\ customer'[x].live /\ customer'[y].live
            /\ customer'[x].email = customer'[y].email
            => x = y
    BY <2>4 DEF Linked
  <2> QED BY <2>4, <2>5, <2>6 DEF Linked
<1>8. CASE UNCHANGED tables
  BY <1>8 DEF tables, Linked
<1>9. ASSUME NEW r \in Requests,
             \/ Reads(r)
             \/ CommitConvert(r) /\ CustomerConflict(r)
             \/ WriteCustomer(r) /\ AddressRefused(r)
      PROVE  UNCHANGED tables
  BY <1>9, ReadersWriteNothing DEF CommitConvert, WriteCustomer
<1>10. UNCHANGED vars => UNCHANGED tables
  BY DEF vars, tables
<1>11. ASSUME NEW r \in Requests, WriteCustomer(r), ~AddressRefused(r) PROVE Linked'
  <2>1. /\ req[r].id \in DOMAIN customer /\ DOMAIN customer' = DOMAIN customer
        /\ \A x \in DOMAIN customer : x # req[r].id => customer'[x] = customer[x]
        /\ customer'[req[r].id].email = req[r].email
        /\ customer'[req[r].id].live = customer[req[r].id].live
        /\ UNCHANGED <<lead, contact, client, strayed>>
    BY <1>11, WriteCustomerDoes
  <2>2. ~customer[req[r].id].live \/ Holders(req[r].email) \ {req[r].id} = {}
    BY <1>11 DEF AddressRefused
  <2>3. ASSUME NEW x \in DOMAIN customer, x # req[r].id, customer[x].live,
               customer[req[r].id].live
        PROVE  customer[x].email # req[r].email
    BY <2>2, <2>3 DEF Holders
  <2>4. \A x, y \in DOMAIN customer' :
            /\ customer'[x].live /\ customer'[y].live
            /\ customer'[x].email = customer'[y].email
            => x = y
    BY <2>1, <2>3 DEF Linked
  <2> QED BY <2>1, <2>4 DEF Linked
<1>12. ASSUME NEW r \in Requests, Writes(r) PROVE Linked'
  BY <1>1, <1>2, <1>3, <1>4, <1>8, <1>9, <1>12, <1>11 DEF Writes
<1>13. ASSUME NEW r \in Requests, Direct(r) PROVE Linked'
  BY <1>5, <1>6, <1>7, <1>13 DEF Direct
<1>14. ASSUME NEW r \in Requests, Reads(r) PROVE Linked'
  BY <1>8, <1>9, <1>14
<1>15. CASE UNCHANGED vars
  BY <1>8, <1>10, <1>15
<1> QED BY <1>12, <1>13, <1>14, <1>15, StepCases

\* The tables keep their types, their links lead to rows that exist, and no two
\* live customers share an address.
THEOREM TypeCorrect == ASSUME LeadsAssumption PROVE Spec => []TypeOK
<1>1. Init => Linked
  BY DEF Init, NewLead, NewContact, Empty, Linked
<1>2. Fits /\ Linked /\ [Next]_vars => Linked'
  BY LinkedNext
<1>3. Fits /\ Linked => TypeOK
  BY TypeHolds
<1> QED BY <1>1, <1>2, <1>3, FitsAlways, PTL DEF Spec

-----------------------------------------------------------------------------
(* One active lead per address.                                            *)

\* What a step may do to the leads: nothing, add one, move one to another address,
\* or end the activity of one.
LEMMA LeadCases ==
    ASSUME LeadsAssumption, Fits, [Next]_vars
    PROVE  \/ lead' = lead /\ strayed.leads \subseteq strayed'.leads
           \/ \E r \in Requests :
                  /\ Unmade(r) /\ req[r].email \in Emails /\ req[r].op # "update"
                  /\ lead' = Put(lead, r, NewLead(req[r].email))
                  /\ strayed.leads \cup Suspect(Duplicates(r) # {}, r) \subseteq strayed'.leads
           \/ \E r \in Requests :
                  /\ req[r].id \in DOMAIN lead /\ req[r].op = "update"
                  /\ LeadEdited(req[r].id, lead'[req[r].id])
                  /\ lead'[req[r].id].email = req[r].email
                  /\ lead'[req[r].id].status = lead[req[r].id].status
                  /\ strayed.leads \subseteq strayed'.leads
                  /\ \/ req[r].id \in strayed'.leads
                     \/ Duplicates(r) = {}
                     \/ lead'[req[r].id].email = lead[req[r].id].email
           \/ \E id \in DOMAIN lead :
                  /\ LeadEdited(id, lead'[id]) /\ lead'[id].status \in Terminal
                  /\ strayed.leads \subseteq strayed'.leads
<1>1. ASSUME NEW r \in Requests, InsertLead(r) \/ CommitFromContact(r)
      PROVE  /\ Unmade(r) /\ req[r].email \in Emails /\ req[r].op # "update"
             /\ lead' = Put(lead, r, NewLead(req[r].email))
             /\ strayed.leads \cup Suspect(Duplicates(r) # {}, r) \subseteq strayed'.leads
  <2>1. /\ Unmade(r) /\ req[r].email \in Emails /\ req[r].searched
        /\ lead' = Put(lead, r, NewLead(req[r].email))
    BY <1>1, InsertLeadDoes, CommitFromContactDoes
  <2>2. strayed'.leads = strayed.leads \cup Suspect(AddressTaken(r), r) /\ req[r].op # "update"
    BY <1>1 DEF InsertLead, CommitFromContact, Stray
  <2> QED BY <2>1, <2>2 DEF AddressTaken, Suspect
<1>2. ASSUME NEW r \in Requests, WriteLead(r)
      PROVE  /\ req[r].id \in DOMAIN lead
             /\ LeadEdited(req[r].id, lead'[req[r].id])
             /\ strayed.leads \subseteq strayed'.leads
             /\ \/ lead'[req[r].id].status \in Terminal
                \/ /\ req[r].op = "update"
                   /\ lead'[req[r].id].email = req[r].email
                   /\ lead'[req[r].id].status = lead[req[r].id].status
                   /\ \/ req[r].id \in strayed'.leads
                      \/ Duplicates(r) = {}
                      \/ lead'[req[r].id].email = lead[req[r].id].email
  <2>1. /\ req[r].id \in DOMAIN lead
        /\ LeadEdited(req[r].id, lead'[req[r].id])
        /\ \/ /\ req[r].op = "update"
              /\ lead'[req[r].id].email = req[r].email
              /\ lead'[req[r].id].status = lead[req[r].id].status
           \/ lead'[req[r].id].status = "ARCHIVED"
    BY <1>2, WriteLeadDoes
  <2>2. strayed'.leads = strayed.leads \cup Suspect(LeadChanged(r) \/ AddressTaken(r), req[r].id)
    BY <1>2 DEF WriteLead, Stray
  <2>3. \/ req[r].op # "update" \/ req[r].searched
        \/ \E s \in LeadRow : req[r].seen = {s} /\ s.email = req[r].email
    BY <1>2 DEF Fits, RequestFits, WriteLead
  <2>4. \/ req[r].op # "update" \/ req[r].id \in strayed'.leads
        \/ Duplicates(r) = {} \/ req[r].email = lead[req[r].id].email
    BY <2>2, <2>3 DEF Suspect, LeadChanged, AddressTaken
  <2> QED BY <2>1, <2>2, <2>4 DEF Terminal
<1>3. ASSUME NEW r \in Requests,
             CommitToClient(r) \/ (CommitConvert(r) /\ ~CustomerConflict(r))
      PROVE  /\ req[r].id \in DOMAIN lead /\ LeadEdited(req[r].id, lead'[req[r].id])
             /\ lead'[req[r].id].status \in Terminal
             /\ strayed.leads \subseteq strayed'.leads
  <2>1. strayed'.leads = strayed.leads \cup Suspect(LeadChanged(r), req[r].id)
    BY <1>3 DEF CommitToClient, CommitConvert, Stray
  <2> QED BY <1>3, <2>1, CommitToClientDoes, CommitConvertDoes DEF Terminal
<1>4. ASSUME NEW r \in Requests,
             Reads(r) \/ WriteCustomer(r) \/ (CommitConvert(r) /\ CustomerConflict(r))
      PROVE  lead' = lead /\ strayed' = strayed
  BY <1>4, ReadersWriteNothing DEF CommitConvert, WriteCustomer, tables
<1>5. ASSUME NEW r \in Requests, Direct(r) PROVE lead' = lead /\ strayed' = strayed
  BY <1>5 DEF Direct, CreateContact, CreateCustomer, RemoveCustomer
<1>6. UNCHANGED vars => lead' = lead /\ strayed' = strayed
  BY DEF vars
<1>7. CASE \E r \in Requests : InsertLead(r) \/ CommitFromContact(r)
  BY <1>1, <1>7
<1>8. CASE \E r \in Requests : WriteLead(r)
  <2>1. PICK r \in Requests : WriteLead(r)
    BY <1>8
  <2> QED BY <1>2, <2>1
<1>9. CASE \E r \in Requests : CommitToClient(r) \/ (CommitConvert(r) /\ ~CustomerConflict(r))
  BY <1>3, <1>9
<1>10. CASE \E r \in Requests : \/ Reads(r) \/ Direct(r) \/ WriteCustomer(r)
                               \/ (CommitConvert(r) /\ CustomerConflict(r))
  BY <1>4, <1>5, <1>10
<1>11. CASE UNCHANGED vars
  BY <1>6, <1>11
<1>12. ASSUME NEW r \in Requests, Writes(r)
       PROVE  \/ InsertLead(r) \/ CommitFromContact(r) \/ WriteLead(r) \/ WriteCustomer(r)
              \/ CommitToClient(r) \/ (CommitConvert(r) /\ ~CustomerConflict(r))
              \/ (CommitConvert(r) /\ CustomerConflict(r))
  BY <1>12 DEF Writes
<1> QED BY <1>7, <1>8, <1>9, <1>10, <1>11, <1>12, StepCases

LEMMA OneLeadNext ==
    ASSUME LeadsAssumption, Fits, OneLeadPerAddress, [Next]_vars PROVE OneLeadPerAddress'
<1>1. CASE lead' = lead /\ strayed.leads \subseteq strayed'.leads
  BY <1>1 DEF OneLeadPerAddress
<1>2. ASSUME NEW r \in Requests,
             Unmade(r), req[r].email \in Emails, req[r].op # "update",
             lead' = Put(lead, r, NewLead(req[r].email)),
             strayed.leads \cup Suspect(Duplicates(r) # {}, r) \subseteq strayed'.leads
      PROVE  OneLeadPerAddress'
  <2>1. /\ DOMAIN lead' = DOMAIN lead \cup {r} /\ lead'[r].email = req[r].email
        /\ \A x \in DOMAIN lead : x # r /\ lead'[x] = lead[x]
    BY <1>2, PutLead DEF NewLead
  <2>2. strayed.leads \subseteq strayed'.leads
    BY <1>2
  <2>3. ASSUME NEW m \in DOMAIN lead, r \notin strayed'.leads, lead[m].email = req[r].email
        PROVE  lead[m].status \in Terminal
    BY <1>2, <2>3 DEF Suspect, Duplicates
  <2> QED BY <2>1, <2>2, <2>3 DEF OneLeadPerAddress
<1>3. ASSUME NEW r \in Requests,
             req[r].id \in DOMAIN lead, req[r].op = "update",
             LeadEdited(req[r].id, lead'[req[r].id]),
             lead'[req[r].id].email = req[r].email,
             lead'[req[r].id].status = lead[req[r].id].status,
             strayed.leads \subseteq strayed'.leads,
             \/ req[r].id \in strayed'.leads
             \/ Duplicates(r) = {}
             \/ lead'[req[r].id].email = lead[req[r].id].email
      PROVE  OneLeadPerAddress'
  <2>1. /\ DOMAIN lead' = DOMAIN lead
        /\ \A x \in DOMAIN lead : x # req[r].id => lead'[x] = lead[x]
    BY <1>3 DEF LeadEdited
  <2>2. ASSUME NEW m \in DOMAIN lead, m # req[r].id, Duplicates(r) = {},
               lead[m].email = req[r].email
        PROVE  lead[m].status \in Terminal
    BY <2>2 DEF Duplicates
  <2> QED BY <1>3, <2>1, <2>2 DEF OneLeadPerAddress
<1>4. ASSUME NEW id \in DOMAIN lead,
             LeadEdited(id, lead'[id]), lead'[id].status \in Terminal,
             strayed.leads \subseteq strayed'.leads
      PROVE  OneLeadPerAddress'
  <2>1. /\ DOMAIN lead' = DOMAIN lead
        /\ \A x \in DOMAIN lead : x # id => lead'[x] = lead[x]
    BY <1>4 DEF LeadEdited
  <2> QED BY <1>4, <2>1 DEF OneLeadPerAddress
<1> QED BY <1>1, <1>2, <1>3, <1>4, LeadCases

\* However requests overlap or fail, one lead at most is active per address, of
\* those whose requests relied on nothing outdated.
THEOREM OneLead == ASSUME LeadsAssumption PROVE Spec => []OneLeadPerAddress
<1>1. Init => OneLeadPerAddress
  BY DEF Init, OneLeadPerAddress, NewLead
<1>2. Fits /\ OneLeadPerAddress /\ [Next]_vars => OneLeadPerAddress'
  BY OneLeadNext
<1> QED BY <1>1, <1>2, FitsAlways, PTL DEF Spec

-----------------------------------------------------------------------------
(* A conversion and what tells of it.                                      *)

\* Nothing tells of a conversion unless its lead is linked, and the reverse.
Told(l) == Conversions(l) # {} <=> lead[l].customer # None \/ lead[l].client # None

LEMMA WholeNext ==
    ASSUME LeadsAssumption, Fits, ConversionIsWhole, [Next]_vars PROVE ConversionIsWhole'
<1>1. /\ \A l \in DOMAIN lead \cap Requests : Activity("LEAD_CREATED", l, l) \in activity
      /\ \A c \in DOMAIN client : Activity("LEAD_CONVERTED", client[c], c) \in activity
      /\ \A a \in activity : a.lead \in DOMAIN lead
      /\ \A l \in DOMAIN lead : Told(l)
      /\ \A k \in DOMAIN contact : contact[k].status = "CONVERTED" <=> contact[k].lead # None
  BY DEF ConversionIsWhole, Told
<1>2. ASSUME NEW r \in Requests, InsertLead(r) \/ CommitFromContact(r)
      PROVE  ConversionIsWhole'
  <2>1. /\ Unmade(r) /\ req[r].email \in Emails
        /\ lead' = Put(lead, r, NewLead(req[r].email))
    BY <1>2, InsertLeadDoes, CommitFromContactDoes
  <2>2. /\ DOMAIN lead' = DOMAIN lead \cup {r}
        /\ lead'[r].customer = None /\ lead'[r].client = None
        /\ \A x \in DOMAIN lead : x # r /\ lead'[x] = lead[x]
    BY <2>1, PutLead DEF NewLead
  <2>3. activity' = activity \cup {Activity("LEAD_CREATED", r, r)} /\ UNCHANGED client
    BY <1>2 DEF InsertLead, CommitFromContact
  <2>4. \A l : Conversions(l)' = Conversions(l)
    BY <2>3 DEF Conversions, Activity
  <2>5. Conversions(r) = {}
    BY <1>1, <2>2 DEF Conversions
  <2>6. \A l \in DOMAIN lead' : Told(l)'
    BY <1>1, <2>2, <2>4, <2>5 DEF Told
  <2>7. /\ \A l \in DOMAIN lead' \cap Requests : Activity("LEAD_CREATED", l, l) \in activity'
        /\ \A a \in activity' : a.lead \in DOMAIN lead'
    BY <1>1, <2>2, <2>3 DEF Activity
  <2>8. \A k \in DOMAIN contact' : contact'[k].status = "CONVERTED" <=> contact'[k].lead # None
    <3>1. CASE InsertLead(r)
      BY <1>1, <3>1 DEF InsertLead
    <3>2. CASE CommitFromContact(r)
      <4>1. /\ DOMAIN contact' = DOMAIN contact
            /\ \A x \in DOMAIN contact : x # req[r].id => contact'[x] = contact[x]
            /\ contact'[req[r].id].status = "CONVERTED" /\ contact'[req[r].id].lead = r
            /\ r # None
        BY <3>2, CommitFromContactDoes
      <4> QED BY <1>1, <4>1
    <3> QED BY <1>2, <3>1, <3>2
  <2> QED BY <1>1, <2>3, <2>6, <2>7, <2>8 DEF ConversionIsWhole, Told
<1>3. ASSUME NEW r \in Requests, WriteLead(r) PROVE ConversionIsWhole'
  <2>1. /\ DOMAIN lead' = DOMAIN lead
        /\ \A x \in DOMAIN lead : /\ lead'[x].customer = lead[x].customer
                                  /\ lead'[x].client = lead[x].client
    <3>1. /\ LeadEdited(req[r].id, lead'[req[r].id])
          /\ lead'[req[r].id].customer = lead[req[r].id].customer
          /\ lead'[req[r].id].client = lead[req[r].id].client
      BY <1>3, WriteLeadDoes
    <3> QED BY <3>1 DEF LeadEdited
  <2>2. UNCHANGED <<contact, client, activity>>
    BY <1>3 DEF WriteLead
  <2> QED BY <1>1, <2>1, <2>2 DEF ConversionIsWhole, Told, Conversions
<1>4. ASSUME NEW r \in Requests,
             CommitToClient(r) \/ (CommitConvert(r) /\ ~CustomerConflict(r))
      PROVE  ConversionIsWhole'
  <2>1. /\ req[r].id \in DOMAIN lead /\ DOMAIN lead' = DOMAIN lead
        /\ \A x \in DOMAIN lead : x # req[r].id => lead'[x] = lead[x]
        /\ lead'[req[r].id].customer # None \/ lead'[req[r].id].client # None
    <3>1. CASE CommitToClient(r)
      BY <3>1, CommitToClientDoes DEF LeadEdited
    <3>2. CASE CommitConvert(r) /\ ~CustomerConflict(r)
      BY <3>2, CommitConvertDoes DEF LeadEdited
    <3> QED BY <1>4, <3>1, <3>2
  <2>2. activity' = activity \cup {Activity("LEAD_CONVERTED", req[r].id, r)} /\ UNCHANGED contact
    BY <1>4 DEF CommitToClient, CommitConvert, ConversionLogged
  <2>3. ASSUME NEW l \in DOMAIN lead, l = req[r].id PROVE Conversions(l)' # {}
    <3>1. PICK a : a = Activity("LEAD_CONVERTED", l, r)
      OBVIOUS
    <3>2. a \in activity' /\ a.type = "LEAD_CONVERTED" /\ a.lead = l
      BY <2>2, <2>3, <3>1 DEF Activity
    <3> QED BY <3>2 DEF Conversions
  <2>4. ASSUME NEW l \in DOMAIN lead, l # req[r].id PROVE Conversions(l)' = Conversions(l)
    <3>1. Activity("LEAD_CONVERTED", req[r].id, r).lead # l
      BY <2>4 DEF Activity
    <3> QED BY <2>2, <3>1 DEF Conversions
  <2>5. ASSUME NEW l \in DOMAIN lead' PROVE Told(l)'
    <3>1. CASE l = req[r].id
      BY <2>1, <2>3, <3>1 DEF Told
    <3>2. CASE l # req[r].id
      BY <1>1, <2>1, <2>4, <3>2 DEF Told
    <3> QED BY <3>1, <3>2
  <2>6. \A c \in DOMAIN client' : Activity("LEAD_CONVERTED", client'[c], c) \in activity'
    <3>1. CASE CommitToClient(r)
      <4>1. /\ DOMAIN client' = DOMAIN client \cup {r} /\ client'[r] = req[r].id
            /\ \A x \in DOMAIN client : client'[x] = client[x]
        BY <3>1, CommitToClientDoes
      <4> QED BY <1>1, <2>2, <4>1
    <3>2. CASE CommitConvert(r) /\ ~CustomerConflict(r)
      BY <1>1, <2>2, <3>2 DEF CommitConvert
    <3> QED BY <1>4, <3>1, <3>2
  <2>7. \A a \in activity' : a.lead \in DOMAIN lead'
    BY <1>1, <2>1, <2>2 DEF Activity
  <2> QED BY <1>1, <2>1, <2>2, <2>5, <2>6, <2>7 DEF ConversionIsWhole, Told
<1>5. ASSUME NEW r \in Requests, NEW e \in Emails, CreateContact(r, e)
      PROVE  ConversionIsWhole'
  <2>1. /\ contact' = Put(contact, r, NewContact(e)) /\ UNCHANGED <<lead, client, activity>>
    BY <1>5 DEF CreateContact
  <2>2. \A k \in DOMAIN contact' : contact'[k].status = "CONVERTED" <=> contact'[k].lead # None
    BY <1>1, <2>1 DEF Put, NewContact
  <2> QED BY <1>1, <2>1, <2>2 DEF ConversionIsWhole, Told, Conversions
<1>6. ASSUME UNCHANGED <<lead, contact, client, activity>> PROVE ConversionIsWhole'
  BY <1>1, <1>6 DEF ConversionIsWhole, Told, Conversions
<1>7. ASSUME NEW r \in Requests, Reads(r) PROVE ConversionIsWhole'
  BY <1>6, <1>7, ReadersWriteNothing DEF tables
<1>8. ASSUME NEW r \in Requests, WriteCustomer(r) \/ (CommitConvert(r) /\ CustomerConflict(r))
      PROVE  ConversionIsWhole'
  BY <1>6, <1>8 DEF CommitConvert, WriteCustomer, tables
<1>9. ASSUME NEW r \in Requests, Writes(r) PROVE ConversionIsWhole'
  BY <1>2, <1>3, <1>4, <1>8, <1>9 DEF Writes
<1>10. ASSUME NEW r \in Requests, Direct(r) PROVE ConversionIsWhole'
  BY <1>5, <1>6, <1>10 DEF Direct, CreateCustomer, RemoveCustomer
<1>11. CASE UNCHANGED vars
  BY <1>6, <1>11 DEF vars
<1> QED BY <1>7, <1>9, <1>10, <1>11, StepCases

\* Whatever overlaps or fails between two steps, no row that a conversion makes is
\* without its activity, and no activity without its lead.
THEOREM ConversionWhole == ASSUME LeadsAssumption PROVE Spec => []ConversionIsWhole
<1>1. Init => ConversionIsWhole
  BY DEF Init, ConversionIsWhole, NewLead, NewContact, Empty, Conversions, LeadsAssumption
<1>2. Fits /\ ConversionIsWhole /\ [Next]_vars => ConversionIsWhole'
  BY WholeNext
<1> QED BY <1>1, <1>2, FitsAlways, PTL DEF Spec

-----------------------------------------------------------------------------
(* At most one conversion.                                                 *)

\* What a handler about a lead relies on: it was open when it was read.
Informed(r) == req[r].op \in AboutLeads => \A s \in req[r].seen : s.status \notin Terminal

ClientsOf(l) == {c \in DOMAIN client : client[c] = l}

\* A lead whose requests read it as it was: until it is converted nothing came of
\* it, and afterwards one activity, one link, and one client or a customer.
OnceOnly(l) ==
    /\ lead[l].status # "CONVERTED" =>
           Conversions(l) = {} /\ lead[l].customer = None /\ lead[l].client = None
    /\ lead[l].status = "CONVERTED" => \E a \in activity : Conversions(l) = {a}
    /\ lead[l].client = None \/ lead[l].customer = None
    /\ ClientsOf(l) = (IF lead[l].client = None THEN {} ELSE {lead[l].client})

Single ==
    /\ \A r \in Requests : Informed(r)
    /\ \A l \in DOMAIN lead \ strayed.leads : OnceOnly(l)

\* A request that is answered relies on nothing; one that goes on relies on what it
\* read at first.
LEMMA AnswerInformed ==
    ASSUME Fits, NEW r \in Requests, NEW outcome, Answer(r, outcome)
    PROVE  Informed(r)' /\ \A x \in Requests \ {r} : req'[x] = req[x]
<1>1. req' = [req EXCEPT ![r] = At(outcome)] /\ At(outcome).op = None
  BY DEF Answer, At, Asked
<1> QED BY <1>1 DEF Informed, AboutLeads, None, Fits, Rows

LEMMA GoesOnInformed ==
    ASSUME Fits, NEW r \in Requests, Informed(r), NEW new \in ReqRow,
           req' = [req EXCEPT ![r] = new],
           new.op = req[r].op, new.seen = req[r].seen
    PROVE  Informed(r)' /\ \A x \in Requests \ {r} : req'[x] = req[x]
<1>1. req'[r] = new /\ \A x \in Requests \ {r} : req'[x] = req[x]
  BY DEF Fits, Rows
<1> QED BY <1>1 DEF Informed

LEMMA ArriveInformed ==
    ASSUME Fits, NEW r \in Requests, NEW l, NEW label, NEW op, NEW id, NEW email, NEW seen,
           Arrive(r, Asked(label, op, id, email, seen)),
           \/ op \in Makers \cup {"customer"}
           \/ seen = {lead[l]} /\ lead[l].status \notin Terminal
    PROVE  Informed(r)' /\ \A x \in Requests \ {r} : req'[x] = req[x]
<1> DEFINE new == Asked(label, op, id, email, seen)
<1>1. new.op = op /\ new.seen = seen
  BY DEF Asked
<1>2. req' = [req EXCEPT ![r] = new]
  BY DEF Arrive
<1> HIDE DEF new
<1>3. req'[r] = new /\ \A x \in Requests \ {r} : req'[x] = req[x]
  BY <1>2 DEF Fits, Rows
<1> QED BY <1>1, <1>3 DEF Informed, Makers, AboutLeads

LEMMA ReadersInformed ==
    ASSUME Fits, NEW r \in Requests, Informed(r), Reads(r)
    PROVE  Informed(r)' /\ \A x \in Requests \ {r} : req'[x] = req[x]
<1>1. PICK row \in ReqRow : row = req[r]
  BY DEF Fits, Rows
<1>2. CASE \E e \in Emails : CreateLead(r, e)
  BY <1>2, ArriveInformed DEF CreateLead, Makers
<1>3. ASSUME NEW l \in DOMAIN lead, NEW e \in Emails, UpdateLead(r, l, e)
      PROVE  Informed(r)' /\ \A x \in Requests \ {r} : req'[x] = req[x]
  BY <1>3, ArriveInformed DEF UpdateLead
<1>4. ASSUME NEW l \in DOMAIN lead, ArchiveLead(r, l) \/ Convert(r, l) \/ ConvertToClient(r, l)
      PROVE  Informed(r)' /\ \A x \in Requests \ {r} : req'[x] = req[x]
  BY <1>4, ArriveInformed DEF ArchiveLead, Convert, ConvertToClient
<1>5. ASSUME NEW k \in DOMAIN contact, ConvertContact(r, k)
      PROVE  Informed(r)' /\ \A x \in Requests \ {r} : req'[x] = req[x]
  BY <1>5, ArriveInformed DEF ConvertContact, Makers
<1>6. CASE LookForDuplicate(r)
  <2>1. CASE req' = [req EXCEPT ![r].pc = "write", ![r].searched = TRUE]
    <3> DEFINE new == [row EXCEPT !.pc = "write", !.searched = TRUE]
    <3>1. new \in ReqRow
      BY Zenon DEF ReqRow, Labels, Pending
    <3>2. new.op = row.op /\ new.seen = row.seen
      BY DEF ReqRow
    <3>3. req' = [req EXCEPT ![r] = new]
      BY <1>1, <2>1 DEF Fits, Rows
    <3> HIDE DEF new
    <3> QED BY <1>1, <3>1, <3>2, <3>3, GoesOnInformed
  <2> QED BY <1>6, <2>1, AnswerInformed DEF LookForDuplicate
<1>7. CASE FindCustomer(r)
  <2>1. PICK c \in DOMAIN customer \cup {None} :
            req' = [req EXCEPT ![r].found = c, ![r].pc = "write"]
    BY <1>7 DEF FindCustomer
  <2> DEFINE new == [row EXCEPT !.found = c, !.pc = "write"]
  <2>2. c \in Ids
    BY DEF Fits, Rows, Ids
  <2>3. new \in ReqRow
    BY <2>2, Zenon DEF ReqRow, Labels, Pending
  <2>4. new.op = row.op /\ new.seen = row.seen
    BY DEF ReqRow
  <2>5. req' = [req EXCEPT ![r] = new]
    BY <1>1, <2>1 DEF Fits, Rows
  <2> HIDE DEF new
  <2> QED BY <1>1, <2>3, <2>4, <2>5, GoesOnInformed
<1>8. CASE TransientError(r) /\ ~Answer(r, "failed")
  <2> DEFINE label == IF row.op = "convert" THEN "customer" ELSE row.pc
             new   == [row EXCEPT !.tries = row.tries + 1, !.found = None, !.pc = label]
  <2>1. row.tries + 1 \in Nat /\ None \in Ids /\ label \in Labels
    BY DEF ReqRow, Ids, Labels, Pending
  <2>2. new \in ReqRow
    <3> HIDE DEF label
    <3> QED BY <2>1, Zenon DEF ReqRow
  <2>3. new.op = row.op /\ new.seen = row.seen
    <3> HIDE DEF label
    <3> QED BY DEF ReqRow
  <2>4. req' = [req EXCEPT ![r] = new]
    BY <1>1, <1>8 DEF TransientError, Fits, Rows
  <2> HIDE DEF new
  <2> QED BY <1>1, <2>2, <2>3, <2>4, GoesOnInformed
<1>9. CASE Answer(r, "failed")
  BY <1>9, AnswerInformed
<1>10. CASE Crash(r)
  BY <1>9, <1>10 DEF Crash
<1>11. ASSUME NEW c \in DOMAIN customer, NEW e \in Emails, UpdateCustomer(r, c, e)
       PROVE  Informed(r)' /\ \A x \in Requests \ {r} : req'[x] = req[x]
  BY <1>11, ArriveInformed DEF UpdateCustomer
<1> QED BY <1>2, <1>3, <1>4, <1>5, <1>6, <1>7, <1>8, <1>9, <1>10, <1>11 DEF Reads

LEMMA InformedNext ==
    ASSUME LeadsAssumption, Fits, \A r \in Requests : Informed(r), [Next]_vars
    PROVE  \A r \in Requests : Informed(r)'
<1>1. ASSUME NEW r \in Requests, Informed(r)', \A x \in Requests \ {r} : req'[x] = req[x]
      PROVE  \A x \in Requests : Informed(x)'
  <2>1. ASSUME NEW x \in Requests, x # r PROVE Informed(x)'
    <3>1. req'[x] = req[x] /\ Informed(x)
      BY <1>1, <2>1
    <3> QED BY <3>1 DEF Informed
  <2> QED BY <1>1, <2>1
<1>2. ASSUME NEW r \in Requests, Writes(r) \/ Direct(r)
      PROVE  Answer(r, "done") \/ Answer(r, "rejected")
  BY <1>2 DEF Writes, Direct, InsertLead, WriteLead, CommitConvert, CommitToClient,
     CommitFromContact, WriteCustomer, CreateContact, CreateCustomer, RemoveCustomer
<1>3. ASSUME NEW r \in Requests, Reads(r) \/ Writes(r) \/ Direct(r)
      PROVE  Informed(r)' /\ \A x \in Requests \ {r} : req'[x] = req[x]
  BY <1>2, <1>3, ReadersInformed, AnswerInformed
<1>4. CASE UNCHANGED vars
  BY <1>4 DEF vars, Informed
<1> QED BY <1>1, <1>3, <1>4, StepCases

\* A lead that a step leaves as it is.
LEMMA StaysOnce ==
    ASSUME NEW l \in DOMAIN lead, OnceOnly(l),
           lead'[l] = lead[l], Conversions(l)' = Conversions(l), activity \subseteq activity',
           ClientsOf(l)' = ClientsOf(l)
    PROVE  OnceOnly(l)'
  BY DEF OnceOnly

\* The lead that a handler about it writes without straying is open, and nothing came
\* of it yet.
LEMMA StillOpen ==
    ASSUME Fits, ConversionIsWhole, \A x \in Requests : Informed(x), NEW r \in Requests,
           req[r].op \in AboutLeads, ~LeadChanged(r), OnceOnly(req[r].id)
    PROVE  LET l == req[r].id
           IN  /\ lead[l].status = "NEW" /\ lead[l].customer = None /\ lead[l].client = None
               /\ Conversions(l) = {} /\ ClientsOf(l) = {}
<1>1. lead[req[r].id] \in req[r].seen /\ Informed(r) /\ req[r].id \in DOMAIN lead
  BY DEF LeadChanged, Fits, RequestFits
<1>2. lead[req[r].id].status \in {"NEW", "CONVERTED", "ARCHIVED"}
  BY <1>1 DEF Fits, Rows, LeadRow
<1>3. lead[req[r].id].status = "NEW"
  BY <1>1, <1>2 DEF Informed, Terminal
<1> QED BY <1>1, <1>3 DEF OnceOnly

LEMMA OnceNext ==
    ASSUME LeadsAssumption, Fits, ConversionIsWhole, Single, [Next]_vars
    PROVE  \A l \in DOMAIN lead' \ strayed'.leads : OnceOnly(l)'
<1>1. /\ \A l \in DOMAIN lead \ strayed.leads : OnceOnly(l)
      /\ \A r \in Requests : Informed(r)
  BY DEF Single
<1>2. ASSUME UNCHANGED <<lead, client, activity, strayed>>
      PROVE  \A l \in DOMAIN lead' \ strayed'.leads : OnceOnly(l)'
  <2> TAKE l \in DOMAIN lead' \ strayed'.leads
  <2>1. l \in DOMAIN lead /\ OnceOnly(l) /\ lead'[l] = lead[l] /\ activity \subseteq activity'
    BY <1>1, <1>2
  <2>2. Conversions(l)' = Conversions(l) /\ ClientsOf(l)' = ClientsOf(l)
    BY <1>2 DEF Conversions, ClientsOf
  <2> QED BY <1>1, <2>1, <2>2, StaysOnce
<1>3. ASSUME NEW r \in Requests, InsertLead(r) \/ CommitFromContact(r)
      PROVE  \A l \in DOMAIN lead' \ strayed'.leads : OnceOnly(l)'
  <2>1. /\ Unmade(r) /\ req[r].email \in Emails
        /\ lead' = Put(lead, r, NewLead(req[r].email))
    BY <1>3, InsertLeadDoes, CommitFromContactDoes
  <2>2. /\ DOMAIN lead' = DOMAIN lead \cup {r} /\ r \notin DOMAIN lead
        /\ lead'[r].status = "NEW" /\ lead'[r].customer = None /\ lead'[r].client = None
        /\ \A x \in DOMAIN lead : lead'[x] = lead[x]
    BY <2>1, PutLead DEF NewLead
  <2>3. /\ activity' = activity \cup {Activity("LEAD_CREATED", r, r)} /\ UNCHANGED client
        /\ strayed.leads \subseteq strayed'.leads
    BY <1>3 DEF InsertLead, CommitFromContact, Stray
  <2>4. \A l : Conversions(l)' = Conversions(l) /\ ClientsOf(l)' = ClientsOf(l)
    BY <2>3 DEF Conversions, Activity, ClientsOf
  <2>5. Conversions(r) = {} /\ ClientsOf(r) = {}
    BY <2>2 DEF ConversionIsWhole, Conversions, ClientsOf, Fits, Rows
  <2>6. OnceOnly(r)'
    BY <2>2, <2>4, <2>5 DEF OnceOnly
  <2>7. ASSUME NEW l \in DOMAIN lead \ strayed.leads PROVE OnceOnly(l)'
    BY <1>1, <2>2, <2>3, <2>4, StaysOnce
  <2> QED BY <2>2, <2>3, <2>6, <2>7
<1>4. ASSUME NEW r \in Requests, WriteLead(r)
      PROVE  \A l \in DOMAIN lead' \ strayed'.leads : OnceOnly(l)'
  <2>1. /\ req[r].id \in DOMAIN lead /\ DOMAIN lead' = DOMAIN lead
        /\ lead'[req[r].id].customer = lead[req[r].id].customer
        /\ lead'[req[r].id].client = lead[req[r].id].client
        /\ lead'[req[r].id].status \in {lead[req[r].id].status, "ARCHIVED"}
        /\ \A x \in DOMAIN lead : x # req[r].id => lead'[x] = lead[x]
    BY <1>4, WriteLeadDoes DEF LeadEdited
  <2>2. /\ UNCHANGED <<client, activity>> /\ req[r].op \in AboutLeads
        /\ strayed'.leads = strayed.leads \cup
                            Suspect(LeadChanged(r) \/ AddressTaken(r), req[r].id)
    BY <1>4 DEF WriteLead, Stray, AboutLeads
  <2>3. \A l : Conversions(l)' = Conversions(l) /\ ClientsOf(l)' = ClientsOf(l)
    BY <2>2 DEF Conversions, ClientsOf
  <2> TAKE l \in DOMAIN lead' \ strayed'.leads
  <2>4. l \in DOMAIN lead \ strayed.leads /\ OnceOnly(l)
    BY <1>1, <2>1, <2>2
  <2>5. CASE l # req[r].id
    BY <1>1, <2>1, <2>2, <2>3, <2>4, <2>5, StaysOnce
  <2>6. CASE l = req[r].id
    <3>1. ~LeadChanged(r)
      BY <2>2, <2>6 DEF Suspect
    <3>2. /\ lead[l].status = "NEW" /\ lead[l].customer = None /\ lead[l].client = None
          /\ Conversions(l) = {} /\ ClientsOf(l) = {}
      BY <1>1, <2>2, <2>4, <2>6, <3>1, StillOpen
    <3> QED BY <2>1, <2>3, <2>6, <3>2 DEF OnceOnly
  <2> QED BY <2>5, <2>6
<1>5. ASSUME NEW r \in Requests,
             CommitToClient(r) \/ (CommitConvert(r) /\ ~CustomerConflict(r))
      PROVE  \A l \in DOMAIN lead' \ strayed'.leads : OnceOnly(l)'
  <2>1. /\ req[r].id \in DOMAIN lead /\ DOMAIN lead' = DOMAIN lead
        /\ lead'[req[r].id].status = "CONVERTED"
        /\ \A x \in DOMAIN lead : x # req[r].id => lead'[x] = lead[x]
    <3>1. CASE CommitToClient(r)
      BY <3>1, CommitToClientDoes DEF LeadEdited
    <3>2. CASE CommitConvert(r) /\ ~CustomerConflict(r)
      BY <3>2, CommitConvertDoes DEF LeadEdited
    <3> QED BY <1>5, <3>1, <3>2
  <2>2. /\ activity' = activity \cup {Activity("LEAD_CONVERTED", req[r].id, r)}
        /\ strayed'.leads = strayed.leads \cup Suspect(LeadChanged(r), req[r].id)
        /\ req[r].op \in AboutLeads
    BY <1>5 DEF CommitToClient, CommitConvert, ConversionLogged, Stray, AboutLeads
  <2> TAKE l \in DOMAIN lead' \ strayed'.leads
  <2>3. l \in DOMAIN lead \ strayed.leads /\ OnceOnly(l)
    BY <1>1, <2>1, <2>2
  <2>4. CASE l # req[r].id
    <3>1. Activity("LEAD_CONVERTED", req[r].id, r).lead # l
      BY <2>4 DEF Activity
    <3>2. Conversions(l)' = Conversions(l)
      BY <2>2, <3>1 DEF Conversions
    <3>3. ClientsOf(l)' = ClientsOf(l)
      <4>1. CASE CommitToClient(r)
        <5>1. /\ DOMAIN client' = DOMAIN client \cup {r} /\ client'[r] = req[r].id
              /\ \A x \in DOMAIN client : client'[x] = client[x]
          BY <4>1, CommitToClientDoes
        <5> QED BY <2>4, <5>1 DEF ClientsOf
      <4>2. CASE CommitConvert(r) /\ ~CustomerConflict(r)
        BY <4>2 DEF CommitConvert, ClientsOf
      <4> QED BY <1>5, <4>1, <4>2
    <3> QED BY <1>1, <2>1, <2>2, <2>3, <2>4, <3>2, <3>3, StaysOnce
  <2>5. CASE l = req[r].id
    <3>1. ~LeadChanged(r)
      BY <2>2, <2>5 DEF Suspect
    <3>2. /\ lead[l].status = "NEW" /\ lead[l].customer = None /\ lead[l].client = None
          /\ Conversions(l) = {} /\ ClientsOf(l) = {}
      BY <1>1, <2>2, <2>3, <2>5, <3>1, StillOpen
    <3>3. \E a \in activity' : Conversions(l)' = {a}
      <4>1. PICK a : a = Activity("LEAD_CONVERTED", l, r)
        OBVIOUS
      <4>2. a.type = "LEAD_CONVERTED" /\ a.lead = l
        BY <4>1 DEF Activity
      <4>3. activity' = activity \cup {a}
        BY <2>2, <2>5, <4>1
      <4>4. Conversions(l)' = {a}
        BY <3>2, <4>2, <4>3 DEF Conversions
      <4> QED BY <4>3, <4>4
    <3>4. CASE CommitToClient(r)
      <4>1. /\ lead'[l].customer = None /\ lead'[l].client = r /\ r # None
            /\ DOMAIN client' = DOMAIN client \cup {r} /\ client'[r] = l
            /\ \A x \in DOMAIN client : client'[x] = client[x]
        BY <2>5, <3>2, <3>4, CommitToClientDoes DEF LeadEdited
      <4>2. ClientsOf(l)' = {r}
        BY <3>2, <4>1 DEF ClientsOf
      <4> QED BY <2>1, <2>5, <3>3, <4>1, <4>2 DEF OnceOnly
    <3>5. CASE CommitConvert(r) /\ ~CustomerConflict(r)
      <4>1. lead'[l].client = None
        BY <2>5, <3>2, <3>5, CommitConvertDoes
      <4>2. ClientsOf(l)' = {}
        BY <3>2, <3>5 DEF CommitConvert, ClientsOf
      <4> QED BY <2>1, <2>5, <3>3, <4>1, <4>2 DEF OnceOnly
    <3> QED BY <1>5, <3>4, <3>5
  <2> QED BY <2>4, <2>5
<1>6. ASSUME NEW r \in Requests,
             Reads(r) \/ WriteCustomer(r) \/ (CommitConvert(r) /\ CustomerConflict(r))
      PROVE  UNCHANGED <<lead, client, activity, strayed>>
  BY <1>6, ReadersWriteNothing DEF CommitConvert, WriteCustomer, tables
<1>7. ASSUME NEW r \in Requests, Direct(r) PROVE UNCHANGED <<lead, client, activity, strayed>>
  BY <1>7 DEF Direct, CreateContact, CreateCustomer, RemoveCustomer
<1>8. ASSUME NEW r \in Requests, Writes(r)
      PROVE  \A l \in DOMAIN lead' \ strayed'.leads : OnceOnly(l)'
  BY <1>2, <1>3, <1>4, <1>5, <1>6, <1>8 DEF Writes
<1>9. CASE UNCHANGED vars
  BY <1>2, <1>9 DEF vars
<1> QED BY <1>2, <1>6, <1>7, <1>8, <1>9, StepCases

\* What OnceOnly says of sets, in numbers.
LEMMA OnceCounts ==
    ASSUME Fits, Single PROVE ConvertedOnce
<1> SUFFICES ASSUME NEW l \in DOMAIN lead \ strayed.leads
             PROVE  /\ Cardinality(Conversions(l))
                           = (IF lead[l].status = "CONVERTED" THEN 1 ELSE 0)
                    /\ lead[l].client = None \/ lead[l].customer = None
                    /\ Cardinality({c \in DOMAIN client : client[c] = l})
                           = (IF lead[l].client = None THEN 0 ELSE 1)
  BY DEF ConvertedOnce
<1>1. OnceOnly(l)
  BY DEF Single
<1>2. \A x : Cardinality({x}) = 1
  BY FS_Singleton
<1>3. Cardinality({}) = 0
  BY FS_EmptySet
<1>4. Cardinality(Conversions(l)) = (IF lead[l].status = "CONVERTED" THEN 1 ELSE 0)
  BY <1>1, <1>2, <1>3 DEF OnceOnly
<1>5. Cardinality(ClientsOf(l)) = (IF lead[l].client = None THEN 0 ELSE 1)
  BY <1>1, <1>2, <1>3 DEF OnceOnly
<1> QED BY <1>1, <1>4, <1>5 DEF OnceOnly, ClientsOf

\* However requests overlap or fail, a lead whose requests read it as it was is
\* converted at most once, to a customer or to one client, and never after it was
\* archived (lead.service.ts).
THEOREM ConvertedAtMostOnce == ASSUME LeadsAssumption PROVE Spec => []ConvertedOnce
<1>1. Init => ConversionIsWhole
  BY DEF Init, ConversionIsWhole, NewLead, NewContact, Empty, Conversions,
     LeadsAssumption
<1>2. Init => Single
  BY DEF Init, Single, Informed, OnceOnly, NewLead, Empty, Conversions, ClientsOf, At, Asked,
     AboutLeads, None
<1>3. Fits /\ ConversionIsWhole /\ [Next]_vars => ConversionIsWhole'
  BY WholeNext
<1>4. Fits /\ ConversionIsWhole /\ Single /\ [Next]_vars => Single'
  BY InformedNext, OnceNext DEF Single
<1>5. Fits /\ Single => ConvertedOnce
  BY OnceCounts
<1> QED BY <1>1, <1>2, <1>3, <1>4, <1>5, FitsAlways, PTL DEF Spec
=============================================================================
