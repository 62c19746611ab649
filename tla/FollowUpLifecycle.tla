------------------------- MODULE FollowUpLifecycle -------------------------
(***************************************************************************)
(* The life of a follow-up task as its service states it: edited while it  *)
(* is pending, completed with a date and an entry in the timeline, or      *)
(* cancelled, and brought back to pending from either, as often as it may. *)
(***************************************************************************)
EXTENDS Naturals

CONSTANTS Tasks

VARIABLES
    task            \* task -> its state, for the tasks that are followed

Pending(t) == t \in DOMAIN task /\ task[t].status = "PENDING"

Becomes(t, state) ==
    task' = [x \in DOMAIN task \cup {t} |-> IF x = t THEN state ELSE task[x]]

Create(t, text) ==
    /\ t \notin DOMAIN task
    /\ Becomes(t, [status |-> "PENDING", dated |-> FALSE, text |-> text, entries |-> 0])

Edit(t, text) == Pending(t) /\ Becomes(t, [task[t] EXCEPT !.text = text])

Complete(t) ==
    /\ Pending(t)
    /\ Becomes(t, [task[t] EXCEPT !.status = "COMPLETED", !.dated = TRUE, !.entries = @ + 1])

Cancel(t) == Pending(t) /\ Becomes(t, [task[t] EXCEPT !.status = "CANCELLED"])

Reopen(t) ==
    /\ t \in DOMAIN task /\ ~Pending(t)
    /\ Becomes(t, [task[t] EXCEPT !.status = "PENDING", !.dated = FALSE])

\* Removed, or written from an outdated reading: followed no more.
Leave(t) == task' = [x \in DOMAIN task \ {t} |-> task[x]]

Init == \A t \in DOMAIN task : Pending(t) /\ ~task[t].dated /\ task[t].entries = 0

Next ==
    \E t \in Tasks :
        \/ \E text \in Tasks : Create(t, text) \/ Edit(t, text)
        \/ Complete(t) \/ Cancel(t) \/ Reopen(t) \/ Leave(t)

Spec == Init /\ [][Next]_task
=============================================================================
