----------------------------- MODULE FollowUps -----------------------------
(***************************************************************************)
(* FollowUpService: tasks that are read, checked and then written by id,   *)
(* under concurrent HTTP requests.  Completing a task writes the task and  *)
(* an entry of the customer's timeline in one transaction.                 *)
(*                                                                         *)
(* A task is named after the request that creates it, and what its text    *)
(* says (title, description, due date, assignee) after the one that wrote  *)
(* it.  One tenant.                                                        *)
(***************************************************************************)
EXTENDS Naturals, FiniteSets

CONSTANTS
    Requests,       \* HTTP requests, each handled once
    Tasks,          \* tasks at the start
    MaxAttempts,    \* DB_TRANSACTION_RETRY_POLICY.maxAttempts
    MaxInFlight     \* bound: requests handled at the same time

\* What the constants are: the modules that give them values assume it.
FollowUpsAssumption ==
    /\ Tasks \cap Requests = {}
    /\ MaxAttempts \in Nat \ {0} /\ MaxInFlight \in Nat

VARIABLES
    task,           \* follow_up_tasks: id -> row
    entry,          \* FOLLOW_UP_COMPLETED rows of customer_activities
    strayed,        \* history: tasks written by a request whose reading was outdated
    req             \* requests

vars == <<task, entry, strayed, req>>

NewTask(by) == [status |-> "PENDING", dated |-> FALSE, text |-> by, live |-> TRUE]

At(label) == [pc |-> label, op |-> "none", task |-> "none", seen |-> NewTask("none"), tries |-> 1]

Init ==
    /\ task = [t \in Tasks |-> NewTask(t)]
    /\ entry = {}
    /\ strayed = {}
    /\ req = [r \in Requests |-> At("idle")]

InFlight == {r \in Requests : req[r].pc = "write"}

Answer(r, outcome) == req' = [req EXCEPT ![r] = At(outcome)]

\* create: the checks of its arguments read nothing that changes.
Create(r) ==
    /\ req[r].pc = "idle"
    /\ task' = [t \in DOMAIN task \cup {r} |-> IF t = r THEN NewTask(r) ELSE task[t]]
    /\ Answer(r, "done")
    /\ UNCHANGED <<entry, strayed>>

\* The check each operation makes of the row it reads.
Allows(op, row) ==
    CASE op = "remove" -> TRUE
      [] op = "reopen" -> row.status # "PENDING"
      [] OTHER         -> row.status = "PENDING"

\* update, complete, cancel, reopen, remove: 404, 400, or go on to write.
Open(r, t, op) ==
    /\ req[r].pc = "idle"
    /\ Cardinality(InFlight) < MaxInFlight
    /\ IF task[t].live /\ Allows(op, task[t])
       THEN req' = [req EXCEPT ![r] = [At("write") EXCEPT !.op = op, !.task = t,
                                                          !.seen = task[t]]]
       ELSE Answer(r, "rejected")
    /\ UNCHANGED <<task, entry, strayed>>

\* Mutant: reopening leaves the date of the completion.
WrittenUndated(op, r, row) ==
    CASE op = "update"   -> [row EXCEPT !.text = r]
      [] op = "complete" -> [row EXCEPT !.status = "COMPLETED", !.dated = TRUE]
      [] op = "cancel"   -> [row EXCEPT !.status = "CANCELLED"]
      [] op = "reopen"   -> [row EXCEPT !.status = "PENDING"]
      [] op = "remove"   -> [row EXCEPT !.live = FALSE]

\* What each operation makes of the row as it is when it writes.
Written(op, r, row) ==
    CASE op = "update"   -> [row EXCEPT !.text = r]
      [] op = "complete" -> [row EXCEPT !.status = "COMPLETED", !.dated = TRUE]
      [] op = "cancel"   -> [row EXCEPT !.status = "CANCELLED"]
      [] op = "reopen"   -> [row EXCEPT !.status = "PENDING", !.dated = FALSE]
      [] op = "remove"   -> [row EXCEPT !.live = FALSE]

Commit(r) ==
    /\ req[r].pc = "write"
    /\ LET t == req[r].task
       IN  /\ task' = [task EXCEPT ![t] = Written(req[r].op, r, @)]
           /\ entry' = IF req[r].op = "complete" THEN entry \cup {[task |-> t, by |-> r]}
                       ELSE entry
           /\ strayed' = IF req[r].seen = task[t] THEN strayed ELSE strayed \cup {t}
    /\ Answer(r, "done")

\* withTransactionRetry, around complete alone.
TransientError(r) ==
    /\ req[r].pc = "write"
    /\ req[r].op = "complete"
    /\ req[r].tries < MaxAttempts
    /\ req' = [req EXCEPT ![r].tries = @ + 1]
    /\ UNCHANGED <<task, entry, strayed>>

Crash(r) ==
    /\ req[r].pc = "write"
    /\ Answer(r, "failed")
    /\ UNCHANGED <<task, entry, strayed>>

Operations == {"update", "complete", "cancel", "reopen", "remove"}

Quiet ==
    /\ InFlight = {}
    /\ UNCHANGED vars

Next ==
    \/ \E r \in Requests :
           \/ Create(r)
           \/ \E t \in DOMAIN task, op \in Operations : Open(r, t, op)
           \/ Commit(r)
           \/ TransientError(r)
           \/ Crash(r)
    \/ Quiet

Spec == Init /\ [][Next]_vars

-----------------------------------------------------------------------------
(* Properties.                                                             *)

\* The tables keep their types, and every entry is about a task.
TypeOK ==
    /\ \A t \in DOMAIN task :
           /\ task[t].status \in {"PENDING", "COMPLETED", "CANCELLED"}
           /\ task[t].dated \in BOOLEAN /\ task[t].live \in BOOLEAN
    /\ \A x \in entry : x.task \in DOMAIN task
    /\ strayed \subseteq DOMAIN task
    /\ \A r \in Requests : req[r].pc \in {"idle", "write", "done", "rejected", "failed"}

\* A task whose requests read it as it was lives as FollowUpLifecycle says,
\* until it is removed.
Followed ==
    [t \in {x \in DOMAIN task \ strayed : task[x].live} |->
        [status  |-> task[t].status,
         dated   |-> task[t].dated,
         text    |-> task[t].text,
         entries |-> Cardinality({x \in entry : x.task = t})]]

Lifecycle == INSTANCE FollowUpLifecycle WITH Tasks <- Tasks \cup Requests, task <- Followed

FollowsLifecycle == Lifecycle!Spec
=============================================================================
