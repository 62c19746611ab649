------------------------------ MODULE Projects ------------------------------
(***************************************************************************)
(* The services of the projects module: projects, members, milestones,     *)
(* tasks, comments and documents, under concurrent HTTP requests.          *)
(*                                                                         *)
(* All of them work alike.  A handler reads the row it is about (and the   *)
(* project above it), writes by id, and records the change in the activity *)
(* log in a statement of its own; there are no transactions.  A thing is   *)
(* one row, here from before it exists; a member is the row of one user in *)
(* one project, a document also an object in the store.                    *)
(***************************************************************************)
EXTENDS Integers, FiniteSets

CONSTANTS
    Things,         \* the rows there may be, other than projects
    Project,        \* the project all of them are part of
    KindOf,         \* what each of Things is
    Requests,       \* HTTP requests, each handled once
    MaxInFlight     \* bound: requests handled at the same time

Kinds == {"milestone", "task", "comment", "document", "member"}

\* What the constants are: the modules that give them values assume it.
ProjectsAssumption ==
    /\ Project \notin Things /\ "none" \notin Things \cup {Project}
    /\ KindOf \in [Things -> Kinds]
    /\ MaxInFlight \in Nat

VARIABLES
    row,            \* status of each row, and whether it has a completedAt
    log,            \* activity_logs, by id
    store,          \* documents whose object has been uploaded
    stray,          \* history: rows written by a request whose reading was
                    \* outdated, or changed without a word in the log
    req             \* requests

vars == <<row, log, store, stray, req>>

Rows    == Things \cup {Project}
Kind(x) == IF x = Project THEN "project" ELSE KindOf[x]

Absent == "absent"      \* before it exists, or (soft-)deleted
None   == "none"

\* The status a row is created in, and those an update may give it.
Initial == [project |-> "DRAFT", milestone |-> "PENDING", task |-> "TODO",
            comment |-> "made", document |-> "READY", member |-> "member"]

Updatable == [project   |-> {"DRAFT", "ACTIVE"},
              milestone |-> {"PENDING", "CHANGES_REQUESTED", "APPROVED"},
              task      |-> {"TODO", "DONE"},
              comment   |-> {}, document |-> {}, member |-> {}]

Completed == {"APPROVED", "DONE"}

\* The kinds whose rows an entry names: the project by its id, the others by a title
\* in the summary, which is here the row itself (titles are taken to differ).  Of a
\* member it says only that there was one, of a comment only what it is on.
Titled == {"project", "milestone", "task", "document"}

Unwritten == [status |-> Absent, completed |-> FALSE]

At(label) == [pc |-> label, about |-> None, to |-> None, seen |-> Unwritten]

Init ==
    /\ row = [x \in Rows |-> IF x = Project THEN [Unwritten EXCEPT !.status = "DRAFT"]
                             ELSE Unwritten]
    /\ log = {}
    /\ store = {}
    /\ stray = {}
    /\ req = [r \in Requests |-> At("idle")]

Pending  == {"upload", "write", "log"}
InFlight == {r \in Requests : req[r].pc \in Pending}
Finished == {"done", "failed"}

Goto(r, label)     == req' = [req EXCEPT ![r].pc = label]
Answer(r, outcome) == req' = [req EXCEPT ![r] = At(outcome)]

\* A handler reads a row, and will make it `to`.
Arrive(r, x, to, label) ==
    /\ req[r].pc = "idle"
    /\ Cardinality(InFlight) < MaxInFlight
    /\ req' = [req EXCEPT ![r] = [pc |-> label, about |-> x, to |-> to, seen |-> row[x]]]
    /\ UNCHANGED <<row, log, store, stray>>

-----------------------------------------------------------------------------
(* What each handler reads and checks first.                               *)

\* create, upload, addMember: every row but a member has an id of its own.
Create(r, x) ==
    /\ row[x].status = Absent
    /\ Kind(x) = "member" \/ (x \notin store /\ \A s \in InFlight : req[s].about # x)
    /\ Arrive(r, x, Initial[Kind(x)], IF Kind(x) = "document" THEN "upload" ELSE "write")

\* update, with a status; without one it changes texts, which are left out.
Update(r, x, status) ==
    /\ row[x].status \notin {Absent, "ARCHIVED"}
    /\ Arrive(r, x, status, "write")

\* ProjectService.archive.
Archive(r) ==
    /\ row[Project].status # "ARCHIVED"
    /\ Arrive(r, Project, "ARCHIVED", "write")

\* DocumentService.remove, removeMember.
Remove(r, x) ==
    /\ Kind(x) \in {"document", "member"}
    /\ row[x].status # Absent
    /\ Arrive(r, x, Absent, "write")

-----------------------------------------------------------------------------
(* What each handler writes.                                               *)

\* The object of a document goes first.
Upload(r) ==
    /\ req[r].pc = "upload"
    /\ store' = store \cup {req[r].about}
    /\ Goto(r, "write")
    /\ UNCHANGED <<row, log, stray>>

\* The primary key of project_members, and DELETE of a row that is gone.
Refused(r) ==
    /\ Kind(req[r].about) = "member"
    /\ (row[req[r].about].status = Absent) # (req[r].seen.status = Absent)

\* What the status was when it was read decides whether there is news.
News(r) == req[r].to # req[r].seen.status

\* completedAt: "on the transition into APPROVED", or DONE; never cleared.
IsCompleted(r) == row[req[r].about].completed \/ (News(r) /\ req[r].to \in Completed)

Write(r) ==
    /\ req[r].pc = "write"
    /\ IF Refused(r)
       THEN Answer(r, "failed") /\ UNCHANGED <<row, stray>>
       ELSE LET x == req[r].about
            IN  /\ row' = [row EXCEPT ![x] = [status |-> req[r].to, completed |-> IsCompleted(r)]]
                /\ stray' = IF req[r].seen = row[x] THEN stray ELSE stray \cup {x}
                /\ IF News(r) THEN Goto(r, "log") ELSE Answer(r, "done")
    /\ UNCHANGED <<log, store>>

\* The verb of an entry, without its kind, and the statuses its summary holds.
Verb(q) ==
    IF q.to = "ARCHIVED" THEN "archived"
    ELSE IF q.to = Absent THEN "removed"
    ELSE IF q.seen.status = Absent THEN "created"
    ELSE "status_changed"

\* record(): it is never given an actor.
EntryOf(r, before) ==
    LET q    == req[r]
        told == Verb(q) = "status_changed"
    IN  [id |-> r, kind |-> Kind(q.about), verb |-> Verb(q),
         name |-> IF Kind(q.about) \in Titled THEN q.about ELSE None,
         from |-> IF told THEN before ELSE None, to |-> IF told THEN q.to ELSE None]

\* Mutant: the summary takes the old status from the updated row.
EntryFromUpdated(r) == EntryOf(r, row[req[r].about].status)

\* ActivityLogRepository.record.
Entry(r) == EntryOf(r, req[r].seen.status)

Record(r) ==
    /\ req[r].pc = "log"
    /\ log' = log \cup {Entry(r)}
    /\ Answer(r, "done")
    /\ UNCHANGED <<row, store, stray>>

\* The pod dies, or a statement fails for good.
Crash(r) ==
    /\ req[r].pc \in Pending
    /\ stray' = IF req[r].pc = "log" THEN stray \cup {req[r].about} ELSE stray
    /\ Answer(r, "failed")
    /\ UNCHANGED <<row, log, store>>

-----------------------------------------------------------------------------
Quiet ==
    /\ InFlight = {}
    /\ UNCHANGED vars

Next ==
    \/ \E r \in Requests :
           \/ \E x \in Things : Create(r, x) \/ Remove(r, x)
           \/ \E x \in Rows : \E status \in Updatable[Kind(x)] : Update(r, x, status)
           \/ Archive(r)
           \/ Upload(r) \/ Write(r) \/ Record(r)
           \/ Crash(r)
    \/ Quiet

Spec == Init /\ [][Next]_vars

-----------------------------------------------------------------------------
(* Properties.                                                             *)

Statuses(x) ==
    Updatable[Kind(x)] \cup {Absent, Initial[Kind(x)]}
                       \cup (IF x = Project THEN {"ARCHIVED"} ELSE {})

\* Rows keep their types, and a document that is shown has its object.
TypeOK ==
    /\ \A x \in Rows :
           /\ row[x].status \in Statuses(x) /\ row[x].completed \in BOOLEAN
           /\ Kind(x) = "document" /\ row[x].status # Absent => x \in store
    /\ \A r \in Requests : req[r].pc \in {"idle"} \cup Pending \cup Finished

Unlogged(x) == \E r \in InFlight : req[r].pc = "log" /\ req[r].about = x

\* What a reader of the log takes an entry about x to say: the status that x got,
\* and the one it had, of which "archived" says nothing.
Reached(x, e) ==
    IF e.verb = "status_changed" THEN e.to
    ELSE [created |-> Initial[Kind(x)], removed |-> Absent, archived |-> "ARCHIVED"][e.verb]

Left(x, e) ==
    IF e.verb = "status_changed" THEN e.from
    ELSE [created |-> Absent, removed |-> Initial[Kind(x)], archived |-> None][e.verb]

About(x)         == {e \in log : e.name = x}
Arrivals(x, s)   == Cardinality({e \in About(x) : Reached(x, e) = s})
Departures(x, s) == Cardinality({e \in About(x) : Left(x, e) = s})
One(condition)   == IF condition THEN 1 ELSE 0
First(x)         == IF x = Project THEN "DRAFT" ELSE Absent

\* "Every write path in this module ... records one row here" (activity-log
\* .repository.ts): in whatever order entries are written, those that name a row
\* which was never written on an outdated reading nor changed by a request that
\* failed before its entry add up to how the row got from its first status to
\* the one it has (of an archived project, whose entry does not say what it was
\* before, to its archival alone), and the row has a completedAt just if one of
\* them tells of a completion.
ActivityTells ==
    \A x \in Rows \ stray : Kind(x) \in Titled /\ ~Unlogged(x) =>
        /\ \A s \in Statuses(x) : (row[x].status = "ARCHIVED" => s = "ARCHIVED") =>
               Arrivals(x, s) - Departures(x, s) = One(row[x].status = s) - One(First(x) = s)
        /\ row[x].completed <=> \E e \in About(x) : Reached(x, e) \in Completed
=============================================================================
