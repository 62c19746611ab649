--------------------------- MODULE Notifications ---------------------------
(***************************************************************************)
(* NotificationService over NotificationRepository and AuditRepository:    *)
(* a notification is read, its status checked, and the row written by id.  *)
(* retry counts itself with an atomic increment and then writes an audit   *)
(* record of its own accord, in a second statement.                        *)
(*                                                                         *)
(* Only retry has a route so far; queue, markSent and markFailed are what  *)
(* the service offers to whoever delivers.  Titles, bodies, channels and   *)
(* readAt are left out.                                                    *)
(***************************************************************************)
EXTENDS Naturals, FiniteSets

CONSTANTS
    Notifications,
    Requests,       \* calls of the service, each handled once
    MaxInFlight     \* bound: calls handled at the same time

\* What the constants are: the modules that give them values assume it.
NotificationsAssumption == IsFiniteSet(Requests) /\ MaxInFlight \in Nat

VARIABLES
    notification,   \* notifications: status, retryCount, and which stamps are set
    audit,          \* audit_logs of action notification.retry
    silent,         \* history: retries that failed between the two statements
    req             \* requests

vars == <<notification, audit, silent, req>>

\* create.
Created == [status |-> "PENDING", retryCount |-> 0, sent |-> FALSE, failed |-> FALSE]

NoNotification == "none"

\* A request: its next step, what it was asked about what, the row it read and
\* the row its own UPDATE returned.
At(label) == [pc |-> label, op |-> "none", id |-> NoNotification, seen |-> Created,
              updated |-> Created]

Init ==
    /\ notification = [n \in Notifications |-> Created]
    /\ audit = {}
    /\ silent = {}
    /\ req = [r \in Requests |-> At("idle")]

InFlight == {r \in Requests : req[r].pc \in {"write", "audit"}}

\* The statuses each operation accepts.
Accepts == [queue      |-> {"PENDING"},
            markSent   |-> {"QUEUED"},
            markFailed |-> {"PENDING", "QUEUED", "FAILED"},
            retry      |-> {"FAILED"}]

\* assertExists and the check of the status: 400.
Arrive(r, n, op) ==
    /\ req[r].pc = "idle"
    /\ Cardinality(InFlight) < MaxInFlight
    /\ req' = [req EXCEPT ![r] =
                  IF notification[n].status \in Accepts[op]
                  THEN [At("write") EXCEPT !.op = op, !.id = n, !.seen = notification[n]]
                  ELSE At("rejected")]
    /\ UNCHANGED <<notification, audit, silent>>

\* Mutant: the count is computed from the row that was read.
RetriedFromReading(r, row) ==
    [row EXCEPT !.status = "PENDING", !.retryCount = req[r].seen.retryCount + 1, !.failed = FALSE]

\* retryCount: { increment: 1 }.
Retried(r, row) ==
    [row EXCEPT !.status = "PENDING", !.retryCount = @ + 1, !.failed = FALSE]

Written(r, row) ==
    CASE req[r].op = "queue"      -> [row EXCEPT !.status = "QUEUED"]
      [] req[r].op = "markSent"   -> [row EXCEPT !.status = "SENT", !.sent = TRUE]
      [] req[r].op = "markFailed" -> [row EXCEPT !.status = "FAILED", !.failed = TRUE]
      [] req[r].op = "retry"      -> Retried(r, row)

Write(r) ==
    /\ req[r].pc = "write"
    /\ LET n   == req[r].id
           new == Written(r, notification[n])
       IN  /\ notification' = [notification EXCEPT ![n] = new]
           /\ req' = [req EXCEPT ![r] = IF req[r].op = "retry"
                                        THEN [@ EXCEPT !.pc = "audit", !.updated = new]
                                        ELSE At("done")]
    /\ UNCHANGED <<audit, silent>>

\* recordEvent: before as it was read, after as the UPDATE returned it.
Audit(r) ==
    /\ req[r].pc = "audit"
    /\ audit' = audit \cup {[id |-> req[r].id, by |-> r, before |-> req[r].seen.retryCount,
                             after |-> req[r].updated.retryCount]}
    /\ req' = [req EXCEPT ![r] = At("done")]
    /\ UNCHANGED <<notification, silent>>

Crash(r) ==
    /\ r \in InFlight
    /\ silent' = IF req[r].pc = "audit"
                 THEN silent \cup {[id |-> req[r].id, after |-> req[r].updated.retryCount]}
                 ELSE silent
    /\ req' = [req EXCEPT ![r] = At("failed")]
    /\ UNCHANGED <<notification, audit>>

Quiet ==
    /\ InFlight = {}
    /\ UNCHANGED vars

Next ==
    \/ \E r \in Requests :
           \/ \E n \in Notifications, op \in DOMAIN Accepts : Arrive(r, n, op)
           \/ Write(r) \/ Audit(r) \/ Crash(r)
    \/ Quiet

Spec == Init /\ [][Next]_vars

-----------------------------------------------------------------------------
(* Properties.                                                             *)

TypeOK ==
    /\ notification \in [Notifications ->
           [status : {"PENDING", "QUEUED", "SENT", "FAILED"}, retryCount : 0..Cardinality(Requests),
            sent : BOOLEAN, failed : BOOLEAN]]
    /\ \A n \in Notifications :
           /\ notification[n].status = "SENT" => notification[n].sent
           /\ notification[n].status = "FAILED" => notification[n].failed
    /\ \A r \in Requests : req[r].pc \in {"idle", "write", "audit", "done", "rejected", "failed"}

AuditOf(n) == {a \in audit : a.id = n}

\* "every feature ships with ... audit logging" (notification.service.ts): however
\* retries overlap, each has a number of its own, and the audit trail accounts
\* for all of them but those a failure interrupted; none claims to have gone back.
RetriesAreAudited ==
    \A n \in Notifications :
        LET waiting == {r \in InFlight : req[r].pc = "audit" /\ req[r].id = n}
            lost    == {s \in silent : s.id = n}
        IN  /\ 1..notification[n].retryCount
                   = {a.after : a \in AuditOf(n)} \cup {s.after : s \in lost}
                     \cup {req[r].updated.retryCount : r \in waiting}
            /\ notification[n].retryCount
                   = Cardinality(AuditOf(n)) + Cardinality(lost) + Cardinality(waiting)
            /\ \A a \in AuditOf(n) : a.before < a.after
=============================================================================
