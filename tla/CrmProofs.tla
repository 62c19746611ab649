----------------------------- MODULE CrmProofs -----------------------------
(***************************************************************************)
(* Theorems about the parts of the CRM that MCCrm puts together, for any   *)
(* requests, quotations and tasks, any amounts and schedules that requests *)
(* may give, and any number of attempts.                                   *)
(***************************************************************************)
EXTENDS MCCrm, LeadsProofs, SumTheorems, Sequences

-----------------------------------------------------------------------------
(* The parts.                                                              *)

LEMMA EachPart ==
    CrmSpec => Quote!Spec /\ Spec /\ FollowUp!Spec
<1>1. CrmInit => Quote!Init /\ Init /\ FollowUp!Init
  BY DEF CrmInit
<1>2. [CrmNext]_<<part, vars, quotationVars, taskVars>>
          => [Quote!Next]_(Quote!vars) /\ [Next]_vars /\ [FollowUp!Next]_(FollowUp!vars)
  BY DEF CrmNext, Quote!vars, FollowUp!vars, quotationVars, taskVars
<1> QED BY <1>1, <1>2, PTL DEF CrmSpec, Quote!Spec, Spec, FollowUp!Spec

-----------------------------------------------------------------------------
(* Follow-up tasks.                                                        *)

Authors  == Tasks \cup Requests
TaskRow  == [status : {"PENDING", "COMPLETED", "CANCELLED"}, dated : BOOLEAN,
             text : Authors \cup {"none"}, live : BOOLEAN]
TaskReq  == [pc : {"idle", "write", "done", "rejected", "failed"},
             op : FollowUp!Operations \cup {"none"}, task : Authors \cup {"none"},
             seen : TaskRow, tries : Nat]

\* A request that writes does so to a task it found as its operation wants it; one
\* that is not answered yet has made no task and no entry.
TaskReqFits(r) ==
    /\ taskReq[r].pc = "write" =>
           /\ taskReq[r].op \in FollowUp!Operations
           /\ taskReq[r].task \in DOMAIN task
           /\ taskReq[r].seen.live /\ FollowUp!Allows(taskReq[r].op, taskReq[r].seen)
    /\ taskReq[r].pc \in {"idle", "write"} =>
           r \notin DOMAIN task /\ \A x \in entry : x.by # r

TasksFit ==
    /\ task \in [DOMAIN task -> TaskRow] /\ DOMAIN task \subseteq Authors
    /\ entry \subseteq [task : DOMAIN task, by : Requests] /\ IsFiniteSet(entry)
    /\ taskStrayed \subseteq DOMAIN task
    /\ taskReq \in [Requests -> TaskReq]
    /\ \A r \in Requests : TaskReqFits(r)

LEMMA NewTaskFits == ASSUME NEW by \in Authors \cup {"none"} PROVE FollowUp!NewTask(by) \in TaskRow
  BY DEF FollowUp!NewTask, TaskRow

\* What an operation makes of a row.
BecomesOf(op, r, row, new) ==
    /\ new \in TaskRow
    /\ op = "remove" => ~new.live
    /\ op # "remove" => new.live = row.live
    /\ op = "update" => new.status = row.status /\ new.dated = row.dated /\ new.text = r
    /\ op = "complete" => new.status = "COMPLETED" /\ new.dated = TRUE /\ new.text = row.text
    /\ op = "cancel" => /\ new.status = "CANCELLED" /\ new.dated = row.dated
                        /\ new.text = row.text
    /\ op = "reopen" => new.status = "PENDING" /\ new.dated = FALSE /\ new.text = row.text

LEMMA WrittenRow ==
    ASSUME NEW op \in FollowUp!Operations, NEW r \in Requests, NEW row \in TaskRow
    PROVE  BecomesOf(op, r, row, FollowUp!Written(op, r, row))
<1>1. CASE op = "update"
  <2> DEFINE n == [row EXCEPT !.text = r]
  <2>1. n \in TaskRow
    BY Zenon DEF TaskRow, Authors
  <2>2. n.status = row.status /\ n.dated = row.dated /\ n.text = r /\ n.live = row.live
    BY DEF TaskRow
  <2>3. FollowUp!Written(op, r, row) = n
    BY <1>1, Zenon DEF FollowUp!Written
  <2> HIDE DEF n
  <2> QED BY <1>1, <2>1, <2>2, <2>3 DEF BecomesOf
<1>2. CASE op = "complete"
  <2> DEFINE n == [row EXCEPT !.status = "COMPLETED", !.dated = TRUE]
  <2>1. n \in TaskRow
    BY Zenon DEF TaskRow
  <2>2. n.status = "COMPLETED" /\ n.dated = TRUE /\ n.text = row.text /\ n.live = row.live
    BY DEF TaskRow
  <2>3. FollowUp!Written(op, r, row) = n
    BY <1>2, Zenon DEF FollowUp!Written
  <2> HIDE DEF n
  <2> QED BY <1>2, <2>1, <2>2, <2>3 DEF BecomesOf
<1>3. CASE op = "cancel"
  <2> DEFINE n == [row EXCEPT !.status = "CANCELLED"]
  <2>1. n \in TaskRow
    BY Zenon DEF TaskRow
  <2>2. n.status = "CANCELLED" /\ n.dated = row.dated /\ n.text = row.text /\ n.live = row.live
    BY DEF TaskRow
  <2>3. FollowUp!Written(op, r, row) = n
    BY <1>3, Zenon DEF FollowUp!Written
  <2> HIDE DEF n
  <2> QED BY <1>3, <2>1, <2>2, <2>3 DEF BecomesOf
<1>4. CASE op = "reopen"
  <2> DEFINE n == [row EXCEPT !.status = "PENDING", !.dated = FALSE]
  <2>1. n \in TaskRow
    BY Zenon DEF TaskRow
  <2>2. n.status = "PENDING" /\ n.dated = FALSE /\ n.text = row.text /\ n.live = row.live
    BY DEF TaskRow
  <2>3. FollowUp!Written(op, r, row) = n
    BY <1>4, Zenon DEF FollowUp!Written
  <2> HIDE DEF n
  <2> QED BY <1>4, <2>1, <2>2, <2>3 DEF BecomesOf
<1>5. CASE op = "remove"
  <2> DEFINE n == [row EXCEPT !.live = FALSE]
  <2>1. n \in TaskRow
    BY Zenon DEF TaskRow
  <2>2. ~n.live
    BY DEF TaskRow
  <2>3. FollowUp!Written(op, r, row) = n
    BY <1>5, Zenon DEF FollowUp!Written
  <2> HIDE DEF n
  <2> QED BY <1>5, <2>1, <2>2, <2>3 DEF BecomesOf
<1> QED BY <1>1, <1>2, <1>3, <1>4, <1>5 DEF FollowUp!Operations

\* What each step does, in a form the provers can use.
LEMMA TaskAnswer ==
    ASSUME TasksFit, NEW r \in Requests, NEW outcome \in {"done", "rejected", "failed"},
           FollowUp!Answer(r, outcome)
    PROVE  /\ taskReq' \in [Requests -> TaskReq] /\ taskReq'[r].pc = outcome
           /\ \A x \in Requests \ {r} : taskReq'[x] = taskReq[x]
<1>1. FollowUp!At(outcome) \in TaskReq /\ FollowUp!At(outcome).pc = outcome
  BY NewTaskFits DEF FollowUp!At, TaskReq
<1> QED BY <1>1 DEF FollowUp!Answer, TasksFit

LEMMA TaskCommit ==
    ASSUME TasksFit, NEW r \in Requests, FollowUp!Commit(r)
    PROVE  LET t   == taskReq[r].task
               op  == taskReq[r].op
               new == FollowUp!Written(op, r, task[t])
           IN  /\ t \in DOMAIN task /\ op \in FollowUp!Operations /\ task[t] \in TaskRow
               /\ taskReq[r].seen.live /\ FollowUp!Allows(op, taskReq[r].seen)
               /\ DOMAIN task' = DOMAIN task /\ task' \in [DOMAIN task -> TaskRow]
               /\ task'[t] = new
               /\ \A x \in DOMAIN task \ {t} : task'[x] = task[x]
               /\ r \notin DOMAIN task /\ \A x \in entry : x.by # r
<1>1. TaskReqFits(r) /\ taskReq[r].pc = "write"
  BY DEF FollowUp!Commit, TasksFit
<1>2. PICK t \in DOMAIN task : t = taskReq[r].task
  BY <1>1 DEF TaskReqFits
<1>3. PICK op \in FollowUp!Operations : op = taskReq[r].op
  BY <1>1 DEF TaskReqFits
<1>4. task[t] \in TaskRow
  BY DEF TasksFit
<1> DEFINE new == FollowUp!Written(op, r, task[t])
<1>5. new \in TaskRow
  BY <1>4, WrittenRow DEF BecomesOf
<1>6. task' = [task EXCEPT ![t] = new]
  BY <1>2, <1>3 DEF FollowUp!Commit
<1> HIDE DEF new
<1>7. /\ DOMAIN task' = DOMAIN task /\ task' \in [DOMAIN task -> TaskRow] /\ task'[t] = new
      /\ \A x \in DOMAIN task \ {t} : task'[x] = task[x]
  BY <1>5, <1>6 DEF TasksFit
<1> QED BY <1>1, <1>2, <1>3, <1>4, <1>7 DEF TaskReqFits, new

LEMMA TaskOpen ==
    ASSUME TasksFit, NEW r \in Requests, NEW t \in DOMAIN task, NEW op \in FollowUp!Operations,
           FollowUp!Open(r, t, op)
    PROVE  TasksFit'
<1>1. UNCHANGED <<task, entry, taskStrayed>> /\ TaskReqFits(r) /\ taskReq[r].pc = "idle"
  BY DEF FollowUp!Open, TasksFit
<1>2. CASE FollowUp!Answer(r, "rejected")
  BY <1>1, <1>2, TaskAnswer DEF TasksFit, TaskReqFits
<1>3. CASE ~FollowUp!Answer(r, "rejected")
  <2> DEFINE new == [FollowUp!At("write") EXCEPT !.op = op, !.task = t, !.seen = task[t]]
  <2>1. task[t] \in TaskRow /\ t \in Authors
    BY DEF TasksFit
  <2>2. FollowUp!At("write") \in TaskReq /\ FollowUp!At("write").pc = "write"
    BY NewTaskFits DEF FollowUp!At, TaskReq
  <2>3. new \in TaskReq
    BY <2>1, <2>2, Zenon DEF TaskReq
  <2>4. new.pc = "write" /\ new.op = op /\ new.task = t /\ new.seen = task[t]
    BY <2>2 DEF TaskReq
  <2>5. /\ taskReq' = [taskReq EXCEPT ![r] = new]
        /\ task[t].live /\ FollowUp!Allows(op, task[t])
    BY <1>3 DEF FollowUp!Open
  <2> HIDE DEF new
  <2>6. /\ taskReq' \in [Requests -> TaskReq] /\ taskReq'[r] = new
        /\ \A x \in Requests \ {r} : taskReq'[x] = taskReq[x]
    BY <2>3, <2>5 DEF TasksFit
  <2> QED BY <1>1, <2>4, <2>5, <2>6 DEF TasksFit, TaskReqFits
<1> QED BY <1>2, <1>3

LEMMA TasksFitNext == ASSUME TasksFit, [FollowUp!Next]_(FollowUp!vars) PROVE TasksFit'
<1>1. ASSUME NEW r \in Requests, FollowUp!Create(r) PROVE TasksFit'
  <2>1. TaskReqFits(r) /\ taskReq[r].pc = "idle" /\ UNCHANGED <<entry, taskStrayed>>
    BY <1>1 DEF FollowUp!Create, TasksFit
  <2>2. FollowUp!NewTask(r) \in TaskRow
    BY NewTaskFits DEF Authors
  <2>3. /\ DOMAIN task' = DOMAIN task \cup {r} /\ task' \in [DOMAIN task' -> TaskRow]
        /\ DOMAIN task' \subseteq Authors
    BY <1>1, <2>1, <2>2 DEF FollowUp!Create, TasksFit, TaskReqFits, Authors
  <2>4. entry' \subseteq [task : DOMAIN task', by : Requests] /\ IsFiniteSet(entry')
    BY <2>1, <2>3 DEF TasksFit
  <2>5. FollowUp!Answer(r, "done")
    BY <1>1 DEF FollowUp!Create
  <2>6. ASSUME NEW x \in Requests PROVE TaskReqFits(x)'
    BY <2>1, <2>3, <2>5, TaskAnswer DEF TasksFit, TaskReqFits
  <2> QED BY <2>1, <2>3, <2>4, <2>5, <2>6, TaskAnswer DEF TasksFit
<1>2. ASSUME NEW r \in Requests, FollowUp!Commit(r) PROVE TasksFit'
  <2>1. /\ taskReq[r].task \in DOMAIN task
        /\ DOMAIN task' = DOMAIN task /\ task' \in [DOMAIN task -> TaskRow]
        /\ FollowUp!Answer(r, "done")
    BY <1>2, TaskCommit DEF FollowUp!Commit
  <2>2. PICK e : e = [task |-> taskReq[r].task, by |-> r]
    OBVIOUS
  <2>3. /\ entry' \in {entry, entry \cup {e}}
        /\ taskStrayed' \subseteq taskStrayed \cup {taskReq[r].task}
    BY <1>2, <2>2 DEF FollowUp!Commit
  <2>4. e \in [task : DOMAIN task, by : Requests] /\ e.by = r
    BY <2>1, <2>2
  <2>5. entry' \subseteq [task : DOMAIN task, by : Requests] /\ IsFiniteSet(entry')
    BY <2>3, <2>4, FS_AddElement DEF TasksFit
  <2>6. ASSUME NEW x \in Requests PROVE TaskReqFits(x)'
    BY <2>1, <2>3, <2>4, TaskAnswer DEF TasksFit, TaskReqFits
  <2> QED BY <2>1, <2>3, <2>5, <2>6, TaskAnswer DEF TasksFit
<1>3. ASSUME NEW r \in Requests, FollowUp!TransientError(r) PROVE TasksFit'
  <2>1. PICK old \in TaskReq : old = taskReq[r]
    BY DEF TasksFit
  <2> DEFINE new == [old EXCEPT !.tries = old.tries + 1]
  <2>2. old.tries + 1 \in Nat
    BY DEF TaskReq
  <2>3. new \in TaskReq
    BY <2>2, Zenon DEF TaskReq
  <2>4. new.pc = old.pc /\ new.op = old.op /\ new.task = old.task /\ new.seen = old.seen
    BY DEF TaskReq
  <2>5. taskReq' = [taskReq EXCEPT ![r] = new]
    BY <1>3, <2>1 DEF FollowUp!TransientError, TasksFit
  <2> HIDE DEF new
  <2>6. /\ taskReq' \in [Requests -> TaskReq] /\ taskReq'[r] = new
        /\ \A x \in Requests \ {r} : taskReq'[x] = taskReq[x]
    BY <2>3, <2>5 DEF TasksFit
  <2>7. UNCHANGED <<task, entry, taskStrayed>>
    BY <1>3 DEF FollowUp!TransientError
  <2> QED BY <2>1, <2>4, <2>6, <2>7 DEF TasksFit, TaskReqFits
<1>4. ASSUME NEW r \in Requests, FollowUp!Crash(r) PROVE TasksFit'
  BY <1>4, TaskAnswer DEF FollowUp!Crash, TasksFit, TaskReqFits
<1>5. CASE UNCHANGED FollowUp!vars
  BY <1>5 DEF FollowUp!vars, TasksFit, TaskReqFits
<1> QED BY <1>1, <1>2, <1>3, <1>4, <1>5, TaskOpen DEF FollowUp!Next, FollowUp!Quiet

LEMMA TasksFitInit == ASSUME FollowUp!Init PROVE TasksFit
<1>1. task \in [DOMAIN task -> TaskRow] /\ DOMAIN task = Tasks
  BY NewTaskFits DEF FollowUp!Init, Authors
<1>2. FollowUp!At("idle") \in TaskReq /\ FollowUp!At("idle").pc = "idle"
  BY NewTaskFits DEF FollowUp!At, TaskReq
<1>3. taskReq \in [Requests -> TaskReq] /\ \A r \in Requests : taskReq[r].pc = "idle"
  BY <1>2 DEF FollowUp!Init
<1>4. entry = {} /\ taskStrayed = {} /\ IsFiniteSet({})
  BY FS_EmptySet DEF FollowUp!Init
<1>5. Tasks \cap Requests = {}
  BY PartsAssumption DEF FollowUp!FollowUpsAssumption
<1>6. \A r \in Requests : TaskReqFits(r)
  BY <1>1, <1>3, <1>4, <1>5 DEF TaskReqFits
<1> QED BY <1>1, <1>3, <1>4, <1>6 DEF TasksFit, Authors

LEMMA TasksAlwaysFit == CrmSpec => []TasksFit
<1>1. FollowUp!Init => TasksFit
  BY TasksFitInit
<1>2. TasksFit /\ [FollowUp!Next]_(FollowUp!vars) => TasksFit'
  BY TasksFitNext
<1> QED BY <1>1, <1>2, EachPart, PTL DEF FollowUp!Spec

\* What FollowUpLifecycle sees of a task.
Shown(status, dated, text, entries) ==
    [status |-> status, dated |-> dated, text |-> text, entries |-> entries]

Statuses == {"PENDING", "COMPLETED", "CANCELLED"}

ShownRow == [status : Statuses, dated : BOOLEAN, text : Authors \cup {"none"}, entries : Nat]

Entries(t) == {x \in entry : x.task = t}

TaskShown(t) ==
    Shown(task[t].status, task[t].dated, task[t].text, FollowUp!Cardinality(Entries(t)))

Tracked == {x \in DOMAIN task \ taskStrayed : task[x].live}

\* The ways FollowUpLifecycle has of changing what is shown.
Edited(s, text)  == [s EXCEPT !.text = text]
Completed(s)     == [s EXCEPT !.status = "COMPLETED", !.dated = TRUE, !.entries = @ + 1]
Cancelled(s)     == [s EXCEPT !.status = "CANCELLED"]
Reopened(s)      == [s EXCEPT !.status = "PENDING", !.dated = FALSE]

RevisionsAre(status, dated, text, entries, other) ==
    /\ Edited(Shown(status, dated, text, entries), other)
           = Shown(status, dated, other, entries)
    /\ Completed(Shown(status, dated, text, entries))
           = Shown("COMPLETED", TRUE, text, entries + 1)
    /\ Cancelled(Shown(status, dated, text, entries))
           = Shown("CANCELLED", dated, text, entries)
    /\ Reopened(Shown(status, dated, text, entries))
           = Shown("PENDING", FALSE, text, entries)

LEMMA Revisions ==
    ASSUME NEW status \in Statuses, NEW dated \in BOOLEAN, NEW text \in Authors \cup {"none"},
           NEW entries \in Nat, NEW other \in Authors
    PROVE  RevisionsAre(status, dated, text, entries, other)
<1>1. PICK s : s = Shown(status, dated, text, entries)
  OBVIOUS
<1>2. s \in ShownRow
  BY <1>1 DEF Shown, ShownRow
<1>3. [s EXCEPT !.text = other] = Shown(status, dated, other, entries)
  <2> DEFINE n == [s EXCEPT !.text = other]
  <2>1. n \in ShownRow
    BY <1>2, Zenon DEF ShownRow
  <2>2. n.status = status /\ n.dated = dated /\ n.text = other /\ n.entries = entries
    BY <1>1, <1>2 DEF Shown, ShownRow
  <2> HIDE DEF n
  <2>3. n = Shown(status, dated, other, entries)
    BY <2>1, <2>2 DEF Shown, ShownRow
  <2> QED BY <2>3 DEF n
<1>4. [s EXCEPT !.status = "COMPLETED", !.dated = TRUE, !.entries = @ + 1]
          = Shown("COMPLETED", TRUE, text, entries + 1)
  <2> DEFINE n == [s EXCEPT !.status = "COMPLETED", !.dated = TRUE, !.entries = s.entries + 1]
  <2>1. s.entries + 1 \in Nat /\ s.entries = entries
    BY <1>1, <1>2 DEF Shown, ShownRow
  <2>2. n \in ShownRow
    BY <1>2, <2>1, Zenon DEF ShownRow, Statuses
  <2>3. n.status = "COMPLETED" /\ n.dated = TRUE /\ n.text = text /\ n.entries = entries + 1
    BY <1>1, <1>2, <2>1 DEF Shown, ShownRow
  <2> HIDE DEF n
  <2>4. n = Shown("COMPLETED", TRUE, text, entries + 1)
    BY <2>2, <2>3 DEF Shown, ShownRow
  <2> QED BY <2>4 DEF n
<1>5. [s EXCEPT !.status = "CANCELLED"] = Shown("CANCELLED", dated, text, entries)
  <2> DEFINE n == [s EXCEPT !.status = "CANCELLED"]
  <2>1. n \in ShownRow
    BY <1>2, Zenon DEF ShownRow, Statuses
  <2>2. n.status = "CANCELLED" /\ n.dated = dated /\ n.text = text /\ n.entries = entries
    BY <1>1, <1>2 DEF Shown, ShownRow
  <2> HIDE DEF n
  <2>3. n = Shown("CANCELLED", dated, text, entries)
    BY <2>1, <2>2 DEF Shown, ShownRow
  <2> QED BY <2>3 DEF n
<1>6. [s EXCEPT !.status = "PENDING", !.dated = FALSE] = Shown("PENDING", FALSE, text, entries)
  <2> DEFINE n == [s EXCEPT !.status = "PENDING", !.dated = FALSE]
  <2>1. n \in ShownRow
    BY <1>2, Zenon DEF ShownRow, Statuses
  <2>2. n.status = "PENDING" /\ n.dated = FALSE /\ n.text = text /\ n.entries = entries
    BY <1>1, <1>2 DEF Shown, ShownRow
  <2> HIDE DEF n
  <2>3. n = Shown("PENDING", FALSE, text, entries)
    BY <2>1, <2>2 DEF Shown, ShownRow
  <2> QED BY <2>3 DEF n
<1> QED BY <1>1, <1>3, <1>4, <1>5, <1>6, Zenon
        DEF RevisionsAre, Edited, Completed, Cancelled, Reopened

LEMMA FollowedIs == FollowUp!Followed = [t \in Tracked |-> TaskShown(t)]
  BY DEF FollowUp!Followed, Tracked, TaskShown, Shown, Entries

\* The numbers of entries.
LEMMA EntriesCounted ==
    ASSUME TasksFit, NEW t
    PROVE  /\ IsFiniteSet(Entries(t)) /\ FollowUp!Cardinality(Entries(t)) \in Nat
           /\ \A e : e \notin Entries(t) =>
                  FollowUp!Cardinality(Entries(t) \cup {e}) = FollowUp!Cardinality(Entries(t)) + 1
           /\ FollowUp!Cardinality({}) = 0
<1>1. \A S : FollowUp!Cardinality(S) = Cardinality(S)
  BY DEF FollowUp!Cardinality, Cardinality
<1>2. IsFiniteSet(Entries(t))
  BY FS_Subset DEF TasksFit, Entries
<1> QED BY <1>1, <1>2, FS_CardinalityType, FS_AddElement, FS_EmptySet

\* One followed task becomes another.
LEMMA TaskBecomes ==
    ASSUME NEW t, Tracked' = Tracked \cup {t}, NEW state, TaskShown(t)' = state,
           \A x \in Tracked \ {t} : TaskShown(x)' = TaskShown(x)
    PROVE  FollowUp!Lifecycle!Becomes(t, state)
<1>1. FollowUp!Followed = [x \in Tracked |-> TaskShown(x)]
  BY FollowedIs
<1>2. FollowUp!Followed' = [x \in Tracked' |-> TaskShown(x)']
  BY DEF FollowUp!Followed, Tracked, TaskShown, Shown, Entries
<1>3. FollowUp!Followed' = [x \in Tracked \cup {t} |-> IF x = t THEN state ELSE TaskShown(x)]
  BY <1>2
<1> QED BY <1>1, <1>3 DEF FollowUp!Lifecycle!Becomes

\* A step of the service is a step of the life of one task, or nothing is seen of it.
LEMMA CreationSeen ==
    ASSUME TasksFit, NEW r \in Requests, FollowUp!Create(r)
    PROVE  FollowUp!Lifecycle!Create(r, r)
<1>1. /\ r \notin DOMAIN task /\ UNCHANGED <<entry, taskStrayed>>
      /\ taskStrayed \subseteq DOMAIN task
      /\ entry \subseteq [task : DOMAIN task, by : Requests]
  BY DEF FollowUp!Create, TasksFit, TaskReqFits
<1>2. /\ DOMAIN task' = DOMAIN task \cup {r} /\ task'[r] = FollowUp!NewTask(r)
      /\ \A x \in DOMAIN task : task'[x] = task[x]
  BY <1>1 DEF FollowUp!Create
<1>3. /\ task'[r].status = "PENDING" /\ task'[r].dated = FALSE /\ task'[r].text = r
      /\ task'[r].live
  BY <1>2 DEF FollowUp!NewTask
<1>4. Tracked' = Tracked \cup {r} /\ r \notin Tracked
  BY <1>1, <1>2, <1>3 DEF Tracked
<1>5. \A x : Entries(x)' = Entries(x)
  BY <1>1 DEF Entries
<1>6. Entries(r) = {}
  BY <1>1 DEF Entries
<1>7. TaskShown(r)' = Shown("PENDING", FALSE, r, 0)
  BY <1>3, <1>5, <1>6, EntriesCounted DEF TaskShown
<1>8. \A x \in Tracked \ {r} : TaskShown(x)' = TaskShown(x)
  BY <1>2, <1>5 DEF TaskShown, Tracked
<1>9. FollowUp!Lifecycle!Becomes(r, Shown("PENDING", FALSE, r, 0))
  BY <1>4, <1>7, <1>8, TaskBecomes
<1>10. r \notin DOMAIN FollowUp!Followed
  BY <1>4, FollowedIs
<1> QED BY <1>9, <1>10 DEF FollowUp!Lifecycle!Create, Shown

\* What a commit changes of what is followed.
LEMMA CommitSeen ==
    ASSUME TasksFit, NEW r \in Requests, FollowUp!Commit(r)
    PROVE  LET t == taskReq[r].task
           IN  /\ \A x \in DOMAIN task \ {t} : TaskShown(x)' = TaskShown(x)
               /\ Tracked' = Tracked \/ Tracked' = Tracked \ {t}
               /\ Tracked' # Tracked \ {t} =>
                      /\ t \in Tracked /\ taskReq[r].op # "remove"
                      /\ taskReq[r].seen = task[t]
<1> DEFINE t   == taskReq[r].task
           op  == taskReq[r].op
<1>1. PICK row \in TaskRow : row = task[t]
  BY TaskCommit
<1>2. PICK new : new = FollowUp!Written(op, r, row)
  OBVIOUS
<1>3. /\ t \in DOMAIN task /\ op \in FollowUp!Operations
      /\ DOMAIN task' = DOMAIN task /\ task'[t] = new
      /\ \A x \in DOMAIN task \ {t} : task'[x] = task[x]
  BY <1>1, <1>2, TaskCommit
<1> HIDE DEF op
<1>4. BecomesOf(op, r, row, new)
  BY <1>1, <1>2, <1>3, WrittenRow
<1>5. (op = "remove" => ~new.live) /\ (op # "remove" => new.live = row.live)
  BY <1>2, <1>3, <1>4 DEF BecomesOf
<1>6. /\ entry' = IF op = "complete" THEN entry \cup {[task |-> t, by |-> r]} ELSE entry
      /\ taskStrayed' = IF taskReq[r].seen = task[t] THEN taskStrayed ELSE taskStrayed \cup {t}
  BY DEF FollowUp!Commit, op
<1>7. \A x \in DOMAIN task \ {t} : Entries(x)' = Entries(x)
  <2>1. PICK e : e = [task |-> t, by |-> r]
    OBVIOUS
  <2>2. e.task = t /\ entry' \in {entry, entry \cup {e}}
    BY <1>6, <2>1
  <2> QED BY <2>2 DEF Entries
<1>8. \A x \in DOMAIN task \ {t} : TaskShown(x)' = TaskShown(x)
  BY <1>3, <1>7 DEF TaskShown
<1> HIDE DEF t
<1>9. Tracked' = Tracked \/ Tracked' = Tracked \ {t}
  BY <1>1, <1>3, <1>5, <1>6 DEF Tracked
<1>10. Tracked' # Tracked \ {t} =>
           t \in Tracked /\ op # "remove" /\ taskReq[r].seen = task[t]
  BY <1>1, <1>3, <1>5, <1>6 DEF Tracked
<1> QED BY <1>8, <1>9, <1>10 DEF t, op

LEMMA CommitFollows ==
    ASSUME TasksFit, NEW r \in Requests, FollowUp!Commit(r)
    PROVE  FollowUp!Lifecycle!Next
<1>1. PICK t \in DOMAIN task : t = taskReq[r].task
  BY TaskCommit
<1>2. PICK op \in FollowUp!Operations : op = taskReq[r].op
  BY TaskCommit
<1>3. /\ \A x \in DOMAIN task \ {t} : TaskShown(x)' = TaskShown(x)
      /\ Tracked' = Tracked \/ Tracked' = Tracked \ {t}
      /\ Tracked' # Tracked \ {t} =>
             t \in Tracked /\ op # "remove" /\ taskReq[r].seen = task[t]
  BY <1>1, <1>2, CommitSeen
<1>4. t \in Authors /\ r \in Authors /\ Tracked \subseteq DOMAIN task
  BY DEF TasksFit, Authors, Tracked
<1>5. FollowUp!Followed = [x \in Tracked |-> TaskShown(x)]
  BY FollowedIs
<1>6. FollowUp!Followed' = [x \in Tracked' |-> TaskShown(x)']
  BY DEF FollowUp!Followed, Tracked, TaskShown, Shown, Entries
<1>7. CASE Tracked' = Tracked \ {t}
  <2>1. FollowUp!Followed' = [x \in Tracked \ {t} |-> TaskShown(x)]
    BY <1>3, <1>4, <1>6, <1>7
  <2>2. FollowUp!Lifecycle!Leave(t)
    BY <1>5, <2>1 DEF FollowUp!Lifecycle!Leave
  <2> QED BY <1>4, <2>2 DEF FollowUp!Lifecycle!Next, Authors
<1>8. CASE Tracked' # Tracked \ {t}
  <2>1. /\ t \in Tracked /\ Tracked' = Tracked \cup {t} /\ op # "remove"
        /\ FollowUp!Allows(op, task[t])
    BY <1>1, <1>2, <1>3, <1>8, TaskCommit
  <2>2. PICK row \in TaskRow : row = task[t]
    BY <1>1, TaskCommit
  <2>3. PICK new : new = FollowUp!Written(op, r, row)
    OBVIOUS
  <2>4. PICK n \in Nat : n = FollowUp!Cardinality(Entries(t))
    BY EntriesCounted
  <2>5. task'[t] = new
    BY <1>1, <1>2, <2>2, <2>3, TaskCommit
  <2>6. BecomesOf(op, r, row, new)
    BY <2>3, WrittenRow
  <2>7. /\ op = "update" => new.status = row.status /\ new.dated = row.dated /\ new.text = r
        /\ op = "complete" => new.status = "COMPLETED" /\ new.dated = TRUE /\ new.text = row.text
        /\ op = "cancel" => /\ new.status = "CANCELLED" /\ new.dated = row.dated
                            /\ new.text = row.text
        /\ op = "reopen" => new.status = "PENDING" /\ new.dated = FALSE /\ new.text = row.text
    BY <2>6 DEF BecomesOf
  <2>8. /\ row.status \in Statuses /\ row.dated \in BOOLEAN /\ row.text \in Authors \cup {"none"}
    BY DEF TaskRow, Statuses
  <2>9. PICK s : s = FollowUp!Followed[t]
    OBVIOUS
  <2>10. /\ s = Shown(row.status, row.dated, row.text, n)
         /\ t \in DOMAIN FollowUp!Followed /\ s.status = row.status
    BY <1>5, <2>1, <2>2, <2>4, <2>9 DEF TaskShown, Shown
  <2>11. /\ Edited(s, r) = Shown(row.status, row.dated, r, n)
         /\ Completed(s) = Shown("COMPLETED", TRUE, row.text, n + 1)
         /\ Cancelled(s) = Shown("CANCELLED", row.dated, row.text, n)
         /\ Reopened(s) = Shown("PENDING", FALSE, row.text, n)
    <3>1. PICK status \in Statuses, dated \in BOOLEAN, text \in Authors \cup {"none"} :
              status = row.status /\ dated = row.dated /\ text = row.text
      BY <2>8, Zenon
    <3>2. s = Shown(status, dated, text, n)
      BY <2>10, <3>1
    <3>3. RevisionsAre(status, dated, text, n, r)
      BY <1>4, <2>4, Revisions, Zenon
    <3> QED BY <3>1, <3>2, <3>3 DEF RevisionsAre
  <2>12. op \in {"update", "cancel", "complete"} => FollowUp!Lifecycle!Pending(t)
    <3>1. op \in {"update", "cancel", "complete"} => row.status = "PENDING"
      BY <2>1, <2>2 DEF FollowUp!Allows
    <3> QED BY <2>9, <2>10, <3>1 DEF FollowUp!Lifecycle!Pending
  <2>13. op = "reopen" => ~FollowUp!Lifecycle!Pending(t)
    <3>1. op = "reopen" => row.status # "PENDING"
      BY <2>1, <2>2 DEF FollowUp!Allows
    <3> QED BY <2>9, <2>10, <3>1 DEF FollowUp!Lifecycle!Pending
  <2>14. entry' = IF op = "complete" THEN entry \cup {[task |-> t, by |-> r]} ELSE entry
    BY <1>1, <1>2 DEF FollowUp!Commit
  <2>15. op # "complete" => FollowUp!Cardinality(Entries(t)') = n
    <3>1. op # "complete" => Entries(t)' = Entries(t)
      BY <2>14 DEF Entries
    <3> QED BY <2>4, <3>1
  <2>16. TaskShown(t)' = Shown(new.status, new.dated, new.text, FollowUp!Cardinality(Entries(t)'))
    BY <2>5 DEF TaskShown
  <2>17. \A state : TaskShown(t)' = state => FollowUp!Lifecycle!Becomes(t, state)
    BY <1>3, <1>4, <2>1, TaskBecomes
  <2>18. CASE op = "update"
    <3>1. TaskShown(t)' = Edited(s, r)
      BY <2>7, <2>9, <2>11, <2>15, <2>16, <2>18
    <3>2. FollowUp!Lifecycle!Edit(t, r)
      BY <2>9, <2>12, <2>17, <2>18, <3>1, Zenon DEF FollowUp!Lifecycle!Edit, Edited
    <3> QED BY <1>4, <3>2 DEF FollowUp!Lifecycle!Next, Authors
  <2>19. CASE op = "complete"
    <3>1. PICK e : e = [task |-> t, by |-> r]
      OBVIOUS
    <3>2. e.task = t /\ e.by = r /\ entry' = entry \cup {e}
      BY <2>14, <2>19, <3>1
    <3>3. e \notin Entries(t) /\ Entries(t)' = Entries(t) \cup {e}
      BY <3>2, TaskCommit DEF Entries
    <3>4. FollowUp!Cardinality(Entries(t)') = n + 1
      BY <2>4, <3>3, EntriesCounted
    <3>5. TaskShown(t)' = Completed(s)
      BY <2>7, <2>9, <2>11, <2>16, <2>19, <3>4
    <3>6. FollowUp!Lifecycle!Complete(t)
      BY <2>9, <2>12, <2>17, <2>19, <3>5, Zenon DEF FollowUp!Lifecycle!Complete, Completed
    <3> QED BY <1>4, <3>6 DEF FollowUp!Lifecycle!Next, Authors
  <2>20. CASE op = "cancel"
    <3>1. TaskShown(t)' = Cancelled(s)
      BY <2>7, <2>9, <2>11, <2>15, <2>16, <2>20
    <3>2. FollowUp!Lifecycle!Cancel(t)
      BY <2>9, <2>12, <2>17, <2>20, <3>1, Zenon DEF FollowUp!Lifecycle!Cancel, Cancelled
    <3> QED BY <1>4, <3>2 DEF FollowUp!Lifecycle!Next, Authors
  <2>21. CASE op = "reopen"
    <3>1. TaskShown(t)' = Reopened(s)
      BY <2>7, <2>9, <2>11, <2>15, <2>16, <2>21
    <3>2. FollowUp!Lifecycle!Reopen(t)
      BY <2>9, <2>10, <2>13, <2>17, <2>21, <3>1, Zenon DEF FollowUp!Lifecycle!Reopen, Reopened
    <3> QED BY <1>4, <3>2 DEF FollowUp!Lifecycle!Next, Authors
  <2> QED BY <2>1, <2>18, <2>19, <2>20, <2>21 DEF FollowUp!Operations
<1> QED BY <1>7, <1>8

LEMMA TaskStepFollows ==
    ASSUME TasksFit, [FollowUp!Next]_(FollowUp!vars)
    PROVE  [FollowUp!Lifecycle!Next]_(FollowUp!Followed)
<1>1. ASSUME NEW r \in Requests, FollowUp!Create(r) PROVE FollowUp!Lifecycle!Next
  BY <1>1, CreationSeen DEF FollowUp!Lifecycle!Next
<1>2. ASSUME UNCHANGED <<task, entry, taskStrayed>>
      PROVE  UNCHANGED FollowUp!Followed
  BY <1>2 DEF FollowUp!Followed
<1>3. ASSUME NEW r \in Requests, NEW t \in DOMAIN task, NEW op \in FollowUp!Operations,
             FollowUp!Open(r, t, op)
      PROVE  UNCHANGED FollowUp!Followed
  BY <1>2, <1>3 DEF FollowUp!Open
<1>4. ASSUME NEW r \in Requests, FollowUp!TransientError(r) \/ FollowUp!Crash(r)
      PROVE  UNCHANGED FollowUp!Followed
  BY <1>2, <1>4 DEF FollowUp!TransientError, FollowUp!Crash
<1>5. CASE UNCHANGED FollowUp!vars
  BY <1>2, <1>5 DEF FollowUp!vars
<1> QED BY <1>1, <1>3, <1>4, <1>5, CommitFollows DEF FollowUp!Next, FollowUp!Quiet

\* Follow-up tasks implement FollowUpLifecycle, for any tasks and requests: every
\* commit is one whole step of the life of one task, its date and its entry included,
\* and every other step is invisible (follow-up.service.ts).
THEOREM FollowUpsImplementLifecycle == CrmSpec => FollowUpsFollowLifecycle
<1>1. FollowUp!Init => FollowUp!Lifecycle!Init
  <2> SUFFICES ASSUME FollowUp!Init PROVE FollowUp!Lifecycle!Init
    OBVIOUS
  <2>1. /\ FollowUp!Followed = [t \in Tracked |-> TaskShown(t)] /\ Tracked \subseteq Tasks
        /\ TasksFit /\ entry = {}
    BY FollowedIs, TasksFitInit DEF Tracked, FollowUp!Init
  <2>2. ASSUME NEW t \in Tracked
        PROVE  TaskShown(t) = Shown("PENDING", FALSE, t, 0)
    <3>1. task[t].status = "PENDING" /\ task[t].dated = FALSE /\ task[t].text = t
      BY <2>1, <2>2 DEF FollowUp!Init, FollowUp!NewTask
    <3>2. Entries(t) = {}
      BY <2>1 DEF Entries
    <3> QED BY <2>1, <3>1, <3>2, EntriesCounted DEF TaskShown
  <2> QED BY <2>1, <2>2 DEF FollowUp!Lifecycle!Init, FollowUp!Lifecycle!Pending, Shown
<1>2. TasksFit /\ [FollowUp!Next]_(FollowUp!vars)
          => [FollowUp!Lifecycle!Next]_(FollowUp!Followed)
  BY TaskStepFollows
<1> QED BY <1>1, <1>2, EachPart, TasksAlwaysFit, PTL
        DEF FollowUp!Spec, FollowUpsFollowLifecycle, FollowUp!FollowsLifecycle,
            FollowUp!Lifecycle!Spec

-----------------------------------------------------------------------------
(* Quotations.                                                             *)

Arguments ==
    {Quote!NoArg}
    \cup [op : {"create", "update"}, quotation : Quote!Quotations, content : Contents]
    \cup [op : {"send", "accept", "reject"}, quotation : Quote!Quotations]

QuoteLabels == {"idle"} \cup Quote!Pending \cup Quote!Finished

\* Requests that have read stages of S and found items of B to delete.
RequestsOver(S, B) ==
    [pc : QuoteLabels, arg : Arguments,
     seen : [row : Quote!QuotationRow \cup {Quote!NoRow}, stages : S],
     doomed : [items : B, stages : S], number : Nat,
     draws : 1..NumberAttempts, tries : 1..MaxAttempts]

IsQuoteRequest(x) == x \in RequestsOver({x.seen.stages, x.doomed.stages}, {x.doomed.items})

\* A request that has found what its operation wants holds a reading of that
\* quotation: what the reading shows to have left DRAFT has its document, and a
\* document that was there is there still.
ReadingFits(x, rows, docs) ==
    LET q == x.arg.quotation
    IN  /\ q \in DOMAIN rows
        /\ x.arg.op \in {"update", "send", "accept", "reject"}
        /\ x.arg.op = "update" =>
               x.pc \in {"read", "items", "lockItems", "stages", "lockStages", "write"}
        /\ x.arg.op # "update" => x.pc \in {"read", "upload", "write", "mail"}
        /\ x.seen.row \in Quote!QuotationRow
        /\ x.seen.row.status # "DRAFT" => x.seen.row.pdf
        /\ x.seen.row.pdf => rows[q].pdf
        /\ x.pc # "read" => x.seen.row.status = Quote!Requires[x.arg.op]
        /\ x.arg.op = "send" /\ x.pc = "write" => docs[q] # Quote!NoDoc
        /\ x.pc = "mail" => x.arg.op = "send" /\ rows[q].status # "DRAFT"

\* A request that creates is alone with the quotation it is about to insert.
CreationFits(r, x) ==
    /\ x.arg.op = "create" /\ x.arg.quotation = r /\ x.arg.content.subtotal # {}
    /\ x.pc = "insert" => x.number # 0

RequestSound(r, x, rows, docs) ==
    /\ IsQuoteRequest(x)
    /\ x.pc \in {"idle", "check", "number", "insert"} => r \notin DOMAIN rows
    /\ x.pc \in {"check", "number", "insert"} => CreationFits(r, x)
    /\ x.pc \in Quote!Pending \ {"check", "number", "insert"} => ReadingFits(x, rows, docs)

\* The quotations and what hangs on them; the documents of those that left DRAFT.
SheetsFit ==
    /\ DOMAIN quotation \subseteq Quote!Quotations
    /\ IsFiniteSet(DOMAIN quotation)
    /\ quotation \in [DOMAIN quotation -> Quote!QuotationRow]
    /\ \A x, y \in DOMAIN quotation : quotation[x].number = quotation[y].number => x = y
    /\ items = [q \in Quote!Quotations |-> items[q]]
    /\ stages = [q \in Quote!Quotations |-> stages[q]]
    /\ store = [q \in Quote!Quotations |-> store[q]]
    /\ \A q \in Quote!Quotations \ DOMAIN quotation : items[q] = {} /\ stages[q] = {}
    /\ mailed \cup astray \subseteq DOMAIN quotation

QuotationsFit ==
    /\ SheetsFit
    /\ Quote!TotalIsScheduled
    /\ Quote!DocumentBeforeSent
    /\ quotationReq = [r \in Requests |-> quotationReq[r]]
    /\ \A r \in Requests : RequestSound(r, quotationReq[r], quotation, store)

\* What the provers need of a quotation.
LEMMA QuoteConstants ==
    /\ IsFiniteSet(Drafts) /\ Drafts \cap Requests = {} /\ Quote!Nobody \notin Requests
    /\ \A c \in Contents : c.subtotal \subseteq Nat /\ c.charges \subseteq Int
    /\ Opening \in Nat /\ NumberAttempts \in Nat \ {0} /\ MaxAttempts \in Nat \ {0}
  BY PartsAssumption DEF Quote!QuotationsAssumption, Quote!IsFiniteSet, IsFiniteSet

LEMMA GivenIs ==
    ASSUME NEW T, NEW option \in SUBSET T, NEW default \in T
    PROVE  Quote!Given(option, default) \in T
  BY DEF Quote!Given

\* What a request that goes on has kept.
Moves(x, y, label, number) ==
    /\ IsQuoteRequest(y)
    /\ y.pc = label /\ y.arg = x.arg /\ y.seen.row = x.seen.row /\ y.number = number

LEMMA SameRequest ==
    ASSUME NEW S, NEW B, NEW x \in RequestsOver(S, B), NEW y \in RequestsOver(S, B),
           NEW label, y.pc = label, y.arg = x.arg, y.seen.row = x.seen.row
    PROVE  Moves(x, y, label, y.number)
  BY DEF Moves, IsQuoteRequest, RequestsOver

LEMMA GoesOn ==
    ASSUME NEW S, NEW B, NEW x \in RequestsOver(S, B), NEW label \in QuoteLabels
    PROVE  Moves(x, [x EXCEPT !.pc = label], label, x.number)
<1> DEFINE y == [x EXCEPT !.pc = label]
<1>1. y \in RequestsOver(S, B)
  BY Zenon DEF RequestsOver
<1>2. y.pc = label /\ y.arg = x.arg /\ y.seen.row = x.seen.row /\ y.number = x.number
  BY DEF RequestsOver
<1> HIDE DEF y
<1>3. Moves(x, y, label, x.number)
  BY <1>1, <1>2, SameRequest
<1> QED BY <1>3 DEF y

LEMMA ReadsStages ==
    ASSUME NEW S, NEW B, NEW x \in RequestsOver(S, B), NEW label \in QuoteLabels, NEW v \in S
    PROVE  Moves(x, [x EXCEPT !.seen.stages = v, !.pc = label], label, x.number)
<1> DEFINE y == [x EXCEPT !.seen.stages = v, !.pc = label]
<1>1. y \in RequestsOver(S, B)
  BY Zenon DEF RequestsOver
<1>2. y.pc = label /\ y.arg = x.arg /\ y.seen.row = x.seen.row /\ y.number = x.number
  BY DEF RequestsOver
<1> HIDE DEF y
<1>3. Moves(x, y, label, x.number)
  BY <1>1, <1>2, SameRequest
<1> QED BY <1>3 DEF y

LEMMA TakesNumber ==
    ASSUME NEW S, NEW B, NEW x \in RequestsOver(S, B), NEW label \in QuoteLabels, NEW n \in Nat
    PROVE  Moves(x, [x EXCEPT !.number = n, !.pc = label], label, n)
<1> DEFINE y == [x EXCEPT !.number = n, !.pc = label]
<1>1. y \in RequestsOver(S, B)
  BY Zenon DEF RequestsOver
<1>2. y.pc = label /\ y.arg = x.arg /\ y.seen.row = x.seen.row /\ y.number = n
  BY DEF RequestsOver
<1> HIDE DEF y
<1>3. Moves(x, y, label, n)
  BY <1>1, <1>2, SameRequest
<1> QED BY <1>3 DEF y

LEMMA DrawsAgain ==
    ASSUME NEW S, NEW B, NEW x \in RequestsOver(S, B), NEW label \in QuoteLabels,
           NEW n \in 1..NumberAttempts, NEW k \in 1..MaxAttempts
    PROVE  Moves(x, [x EXCEPT !.draws = n, !.tries = k, !.pc = label], label, x.number)
<1> DEFINE y == [x EXCEPT !.draws = n, !.tries = k, !.pc = label]
<1>1. y \in RequestsOver(S, B)
  BY Zenon DEF RequestsOver
<1>2. y.pc = label /\ y.arg = x.arg /\ y.seen.row = x.seen.row /\ y.number = x.number
  BY DEF RequestsOver
<1> HIDE DEF y
<1>3. Moves(x, y, label, x.number)
  BY <1>1, <1>2, SameRequest
<1> QED BY <1>3 DEF y

LEMMA FindsItems ==
    ASSUME NEW S, NEW B, NEW x \in RequestsOver(S, B), NEW label \in QuoteLabels, NEW v \in B
    PROVE  Moves(x, [x EXCEPT !.doomed.items = v, !.pc = label], label, x.number)
<1> DEFINE y == [x EXCEPT !.doomed.items = v, !.pc = label]
<1>1. y \in RequestsOver(S, B)
  BY Zenon DEF RequestsOver
<1>2. y.pc = label /\ y.arg = x.arg /\ y.seen.row = x.seen.row /\ y.number = x.number
  BY DEF RequestsOver
<1> HIDE DEF y
<1>3. Moves(x, y, label, x.number)
  BY <1>1, <1>2, SameRequest
<1> QED BY <1>3 DEF y

LEMMA FindsStages ==
    ASSUME NEW S, NEW B, NEW x \in RequestsOver(S, B), NEW label \in QuoteLabels, NEW v \in S
    PROVE  Moves(x, [x EXCEPT !.doomed.stages = v, !.pc = label], label, x.number)
<1> DEFINE y == [x EXCEPT !.doomed.stages = v, !.pc = label]
<1>1. y \in RequestsOver(S, B)
  BY Zenon DEF RequestsOver
<1>2. y.pc = label /\ y.arg = x.arg /\ y.seen.row = x.seen.row /\ y.number = x.number
  BY DEF RequestsOver
<1> HIDE DEF y
<1>3. Moves(x, y, label, x.number)
  BY <1>1, <1>2, SameRequest
<1> QED BY <1>3 DEF y

LEMMA StartsAgain ==
    ASSUME NEW S, NEW B, NEW x \in RequestsOver(S, B), NEW label \in QuoteLabels,
           NEW k \in 1..MaxAttempts, Quote!NoRows \in [items : B, stages : S]
    PROVE  Moves(x, [x EXCEPT !.tries = k, !.doomed = Quote!NoRows, !.pc = label],
                 label, x.number)
<1> DEFINE y == [x EXCEPT !.tries = k, !.doomed = Quote!NoRows, !.pc = label]
<1>1. y \in RequestsOver(S, B)
  BY Zenon DEF RequestsOver
<1>2. y.pc = label /\ y.arg = x.arg /\ y.seen.row = x.seen.row /\ y.number = x.number
  BY DEF RequestsOver
<1> HIDE DEF y
<1>3. Moves(x, y, label, x.number)
  BY <1>1, <1>2, SameRequest
<1> QED BY <1>3 DEF y

\* A request in its set, to choose the sets of.
LEMMA RequestIs ==
    ASSUME NEW x, IsQuoteRequest(x)
    PROVE  /\ \A S, B : {x.seen.stages, x.doomed.stages} \subseteq S /\ x.doomed.items \in B
                            => x \in RequestsOver(S, B)
           /\ x.pc \in QuoteLabels /\ x.number \in Nat /\ x.arg \in Arguments
           /\ x.draws \in 1..NumberAttempts /\ x.tries \in 1..MaxAttempts
           /\ x.seen.row \in Quote!QuotationRow \cup {Quote!NoRow}
  BY DEF IsQuoteRequest, RequestsOver

LEMMA AnsweredIs ==
    ASSUME NEW r \in Requests, NEW outcome \in Quote!Finished, NEW rows, NEW docs
    PROVE  RequestSound(r, Quote!At(outcome), rows, docs)
<1>1. Quote!At(outcome).pc = outcome
  BY DEF Quote!At, Quote!Request
<1>2. IsQuoteRequest(Quote!At(outcome))
  BY QuoteConstants
     DEF Quote!At, Quote!Request, Quote!NoView, Quote!NoRows, IsQuoteRequest, RequestsOver,
         QuoteLabels, Arguments
<1> QED BY <1>1, <1>2 DEF RequestSound, Quote!Finished, Quote!Pending

\* Only the request of a step changes, and the quotations keep what others rely on.
Grows(r) ==
    /\ DOMAIN quotation \subseteq DOMAIN quotation'
    /\ DOMAIN quotation' \subseteq DOMAIN quotation \cup {r}
    /\ \A q \in DOMAIN quotation :
           /\ quotation[q].pdf => quotation'[q].pdf
           /\ quotation[q].status # "DRAFT" => quotation'[q].status # "DRAFT"
           /\ store[q] # Quote!NoDoc => store'[q] # Quote!NoDoc

RequestBecomes(r, y) == quotationReq' = [quotationReq EXCEPT ![r] = y]

LEMMA StaysSound ==
    ASSUME NEW r, Grows(r), NEW x, NEW z, RequestSound(x, z, quotation, store),
           x # r \/ DOMAIN quotation' = DOMAIN quotation
    PROVE  RequestSound(x, z, quotation', store')
<1>1. ReadingFits(z, quotation, store) => ReadingFits(z, quotation', store')
  <2>1. PICK q : q = z.arg.quotation
    OBVIOUS
  <2>2. q \in DOMAIN quotation =>
            /\ q \in DOMAIN quotation'
            /\ quotation[q].pdf => quotation'[q].pdf
            /\ quotation[q].status # "DRAFT" => quotation'[q].status # "DRAFT"
            /\ store[q] # Quote!NoDoc => store'[q] # Quote!NoDoc
    BY DEF Grows
  <2> QED BY <2>1, <2>2 DEF ReadingFits
<1>2. x \notin DOMAIN quotation => x \notin DOMAIN quotation'
  BY DEF Grows
<1> QED BY <1>1, <1>2 DEF RequestSound

LEMMA RequestsFit ==
    ASSUME QuotationsFit, NEW r \in Requests, NEW y, RequestBecomes(r, y), Grows(r),
           RequestSound(r, y, quotation', store')
    PROVE  /\ quotationReq' = [x \in Requests |-> quotationReq'[x]]
           /\ \A x \in Requests : RequestSound(x, quotationReq'[x], quotation', store')
<1>1. /\ quotationReq' = [x \in Requests |-> quotationReq'[x]] /\ quotationReq'[r] = y
      /\ \A x \in Requests \ {r} : quotationReq'[x] = quotationReq[x]
  BY DEF QuotationsFit, RequestBecomes
<1>2. ASSUME NEW x \in Requests \ {r}
      PROVE  RequestSound(x, quotationReq'[x], quotation', store')
  <2>1. quotationReq'[x] = quotationReq[x] /\ RequestSound(x, quotationReq[x], quotation, store)
    BY <1>1 DEF QuotationsFit
  <2> QED BY <2>1, StaysSound
<1> QED BY <1>1, <1>2

\* A step that only moves its request.
LEMMA OnlyMoves ==
    ASSUME QuotationsFit, NEW r \in Requests, NEW y, RequestBecomes(r, y),
           UNCHANGED Quote!tables, RequestSound(r, y, quotation, store)
    PROVE  QuotationsFit'
<1>1. Grows(r) /\ RequestSound(r, y, quotation', store')
  BY DEF Grows, Quote!tables
<1>2. SheetsFit' /\ Quote!TotalIsScheduled' /\ Quote!DocumentBeforeSent'
  BY DEF QuotationsFit, SheetsFit, Quote!TotalIsScheduled, Quote!DocumentBeforeSent,
         Quote!tables
<1> QED BY <1>1, <1>2, RequestsFit DEF QuotationsFit

LEMMA OnlyAnswers ==
    ASSUME QuotationsFit, NEW r \in Requests, NEW outcome \in Quote!Finished,
           UNCHANGED Quote!tables, Quote!Answer(r, outcome)
    PROVE  QuotationsFit'
<1>1. RequestBecomes(r, Quote!At(outcome))
  BY DEF RequestBecomes, Quote!Answer
<1> QED BY <1>1, AnsweredIs, OnlyMoves

\* A request that goes on with what it was asked.
LEMMA CreationMoves ==
    ASSUME NEW r, NEW x, NEW y, NEW rows, NEW docs, RequestSound(r, x, rows, docs),
           x.pc \in {"check", "number", "insert"},
           NEW label \in {"number", "insert"}, NEW number, Moves(x, y, label, number),
           label = "insert" => number # 0
    PROVE  RequestSound(r, y, rows, docs)
  BY DEF RequestSound, Moves, CreationFits, Quote!Pending

LEMMA ReadingMoves ==
    ASSUME NEW r, NEW x, NEW y, NEW rows, NEW docs, RequestSound(r, x, rows, docs),
           x.pc \in Quote!Pending \ {"check", "number", "insert"},
           NEW label \in {"items", "lockItems", "stages", "lockStages", "write", "upload", "mail"},
           NEW number, Moves(x, y, label, number),
           x.seen.row.status = Quote!Requires[x.arg.op],
           x.arg.op = "update" => label \notin {"upload", "mail"},
           x.arg.op # "update" => label \in {"upload", "write", "mail"},
           x.arg.op = "send" /\ label = "write" => docs[x.arg.quotation] # Quote!NoDoc,
           label = "mail" => x.arg.op = "send" /\ rows[x.arg.quotation].status # "DRAFT"
    PROVE  RequestSound(r, y, rows, docs)
<1>1. ReadingFits(x, rows, docs)
  BY DEF RequestSound
<1>2. ReadingFits(y, rows, docs)
  BY <1>1 DEF ReadingFits, Moves
<1> QED BY <1>2 DEF RequestSound, Moves, Quote!Pending

\* The request of a step, and how its change is written.
LEMMA Mover ==
    ASSUME QuotationsFit, NEW r \in Requests
    PROVE  /\ quotationReq = [x \in Requests |-> quotationReq[x]]
           /\ RequestSound(r, quotationReq[r], quotation, store)
           /\ IsQuoteRequest(quotationReq[r])
  BY DEF QuotationsFit, RequestSound

LEMMA GotoMoves ==
    ASSUME QuotationsFit, NEW r \in Requests, NEW label \in QuoteLabels, Quote!Goto(r, label)
    PROVE  \E y : RequestBecomes(r, y) /\ Moves(quotationReq[r], y, label, quotationReq[r].number)
<1>1. PICK x : x = quotationReq[r]
  OBVIOUS
<1>2. IsQuoteRequest(x)
  BY <1>1, Mover
<1>3. PICK S, B : x \in RequestsOver(S, B)
  BY <1>2 DEF IsQuoteRequest
<1>4. PICK y : y = [x EXCEPT !.pc = label]
  OBVIOUS
<1>5. Moves(x, y, label, x.number)
  BY <1>3, <1>4, GoesOn
<1>6. RequestBecomes(r, y)
  BY <1>1, <1>4 DEF Quote!Goto, RequestBecomes
<1> QED BY <1>1, <1>5, <1>6

LEMMA CreateArrives ==
    ASSUME QuotationsFit, NEW r \in Requests, NEW content \in Contents, Quote!Create(r, content)
    PROVE  QuotationsFit'
<1> DEFINE a == [op |-> "create", quotation |-> r, content |-> content]
<1>1. PICK y : y = Quote!Request("check", a, Quote!NoView)
  OBVIOUS
<1>2. /\ quotationReq[r].pc = "idle" /\ content.subtotal # {} /\ UNCHANGED Quote!tables
      /\ RequestBecomes(r, y)
  BY <1>1 DEF Quote!Create, Quote!Arrive, RequestBecomes
<1>3. a \in Arguments
  BY DEF Arguments, Quote!Quotations
<1>4. y.pc = "check" /\ y.arg = a
  BY <1>1 DEF Quote!Request
<1>5. IsQuoteRequest(y)
  BY <1>1, <1>3, QuoteConstants
     DEF Quote!Request, Quote!NoView, Quote!NoRows, IsQuoteRequest, RequestsOver, QuoteLabels,
         Quote!Pending
<1>6. r \notin DOMAIN quotation
  BY <1>2, Mover DEF RequestSound
<1>7. RequestSound(r, y, quotation, store)
  BY <1>2, <1>4, <1>5, <1>6 DEF RequestSound, CreationFits, Quote!Pending
<1> QED BY <1>2, <1>7, OnlyMoves

LEMMA OpenArrives ==
    ASSUME QuotationsFit, NEW r \in Requests, NEW q \in DOMAIN quotation, NEW a \in Arguments,
           a.op \in {"update", "send", "accept", "reject"}, a.quotation = q, Quote!Open(r, q, a)
    PROVE  QuotationsFit'
<1>1. PICK row \in Quote!QuotationRow : row = quotation[q]
  BY DEF QuotationsFit, SheetsFit
<1> DEFINE view == [Quote!NoView EXCEPT !.row = row]
<1>2. view = [row |-> row, stages |-> {}]
  BY DEF Quote!NoView
<1>3. PICK y : y = Quote!Request("read", a, [row |-> row, stages |-> {}])
  OBVIOUS
<1>4. UNCHANGED Quote!tables /\ RequestBecomes(r, y)
  BY <1>1, <1>2, <1>3 DEF Quote!Open, Quote!Arrive, RequestBecomes
<1>5. y.pc = "read" /\ y.arg = a /\ y.seen.row = row
  BY <1>3 DEF Quote!Request
<1>6. IsQuoteRequest(y)
  BY <1>3, QuoteConstants
     DEF Quote!Request, Quote!NoRows, IsQuoteRequest, RequestsOver, QuoteLabels, Quote!Pending
<1>7. row.status # "DRAFT" => row.pdf
  BY <1>1 DEF QuotationsFit, Quote!DocumentBeforeSent
<1>8. ReadingFits(y, quotation, store)
  BY <1>1, <1>5, <1>7 DEF ReadingFits
<1>9. RequestSound(r, y, quotation, store)
  BY <1>5, <1>6, <1>8 DEF RequestSound, Quote!Pending
<1> QED BY <1>4, <1>9, OnlyMoves

LEMMA FirstStepIs ==
    ASSUME NEW a, a.op \in {"update", "send", "accept", "reject"}
    PROVE  /\ a.op = "update" => Quote!FirstStep(a) \in {"items", "stages"}
           /\ a.op = "send" => Quote!FirstStep(a) = "upload"
           /\ a.op \in {"accept", "reject"} => Quote!FirstStep(a) = "write"
  BY DEF Quote!FirstStep

LEMMA ReadStagesFits ==
    ASSUME QuotationsFit, NEW r \in Requests, Quote!ReadStages(r)
    PROVE  QuotationsFit'
<1>1. PICK x : x = quotationReq[r]
  OBVIOUS
<1>2. x.pc = "read" /\ UNCHANGED Quote!tables /\ RequestSound(r, x, quotation, store)
  BY <1>1, Mover DEF Quote!ReadStages
<1>3. ReadingFits(x, quotation, store)
  BY <1>2 DEF RequestSound, Quote!Pending
<1>4. CASE x.seen.row.status # Quote!Requires[x.arg.op]
  <2>1. Quote!Answer(r, "rejected")
    BY <1>1, <1>4 DEF Quote!ReadStages
  <2> QED BY <1>2, <2>1, OnlyAnswers DEF Quote!Finished
<1>5. CASE x.seen.row.status = Quote!Requires[x.arg.op]
  <2>1. PICK label, v : label = Quote!FirstStep(x.arg) /\ v = stages[Quote!Subject(r)]
    OBVIOUS
  <2>2. /\ x.arg.op = "update" => label \in {"items", "stages"}
        /\ x.arg.op = "send" => label = "upload"
        /\ x.arg.op \in {"accept", "reject"} => label = "write"
        /\ x.arg.op \in {"update", "send", "accept", "reject"}
    BY <1>3, <2>1, FirstStepIs DEF ReadingFits
  <2>3. label \in QuoteLabels
    BY <2>2 DEF QuoteLabels, Quote!Pending
  <2>4. PICK y : y = [x EXCEPT !.seen.stages = v, !.pc = label]
    OBVIOUS
  <2>5. PICK S, B : x \in RequestsOver(S, B) /\ v \in S
    <3> DEFINE S == {x.seen.stages, x.doomed.stages, v}
    <3>1. x \in RequestsOver(S, {x.doomed.items}) /\ v \in S
      BY <1>2, RequestIs DEF RequestSound
    <3> QED BY <3>1
  <2>6. Moves(x, y, label, x.number)
    BY <2>3, <2>4, <2>5, ReadsStages
  <2>7. RequestBecomes(r, y)
    <3>1. quotationReq' = [quotationReq EXCEPT ![r].seen.stages = v, ![r].pc = label]
      BY <1>1, <1>5, <2>1 DEF Quote!ReadStages
    <3> QED BY <1>1, <2>4, <3>1, Mover DEF RequestBecomes
  <2>8. RequestSound(r, y, quotation, store)
    BY <1>2, <1>5, <2>2, <2>6, ReadingMoves DEF Quote!Pending
  <2> QED BY <1>2, <2>7, <2>8, OnlyMoves
<1> QED BY <1>4, <1>5

LEMMA CheckPlanFits ==
    ASSUME QuotationsFit, NEW r \in Requests, Quote!CheckPlan(r)
    PROVE  QuotationsFit'
<1>1. UNCHANGED Quote!tables /\ quotationReq[r].pc = "check"
  BY DEF Quote!CheckPlan
<1>2. CASE Quote!Answer(r, "rejected")
  BY <1>1, <1>2, OnlyAnswers DEF Quote!Finished
<1>3. CASE Quote!Goto(r, "number")
  <2>1. "number" \in QuoteLabels
    BY DEF QuoteLabels, Quote!Pending
  <2>2. PICK y : /\ RequestBecomes(r, y)
                 /\ Moves(quotationReq[r], y, "number", quotationReq[r].number)
    BY <1>3, <2>1, GotoMoves
  <2>3. RequestSound(r, y, quotation, store)
    BY <1>1, <2>2, Mover, CreationMoves
  <2> QED BY <1>1, <2>2, <2>3, OnlyMoves
<1> QED BY <1>2, <1>3 DEF Quote!CheckPlan

LEMMA TakeNumberFits ==
    ASSUME QuotationsFit, NEW r \in Requests, Quote!TakeNumber(r)
    PROVE  QuotationsFit'
<1>1. PICK x : x = quotationReq[r]
  OBVIOUS
<1>2. /\ x.pc = "number" /\ UNCHANGED Quote!tables /\ RequestSound(r, x, quotation, store)
      /\ IsQuoteRequest(x)
  BY <1>1, Mover DEF Quote!TakeNumber
<1>3. PICK n \in Nat \ {0} : n = Quote!Cardinality(DOMAIN quotation) + 1
  <2>1. Quote!Cardinality(DOMAIN quotation) = Cardinality(DOMAIN quotation)
    BY DEF Quote!Cardinality, Cardinality
  <2>2. Cardinality(DOMAIN quotation) \in Nat
    BY FS_CardinalityType DEF QuotationsFit, SheetsFit
  <2> QED BY <2>1, <2>2
<1>4. PICK y : y = [x EXCEPT !.number = n, !.pc = "insert"]
  OBVIOUS
<1>5. PICK S, B : x \in RequestsOver(S, B)
  BY <1>2 DEF IsQuoteRequest
<1>6. "insert" \in QuoteLabels
  BY DEF QuoteLabels, Quote!Pending
<1>7. Moves(x, y, "insert", n)
  BY <1>4, <1>5, <1>6, TakesNumber
<1>8. RequestBecomes(r, y)
  <2>1. quotationReq' = [quotationReq EXCEPT ![r].number = n, ![r].pc = "insert"]
    BY <1>3 DEF Quote!TakeNumber
  <2> QED BY <1>1, <1>4, <2>1, Mover DEF RequestBecomes
<1>9. RequestSound(r, y, quotation, store)
  BY <1>2, <1>7, CreationMoves
<1> QED BY <1>2, <1>8, <1>9, OnlyMoves

LEMMA NumberTakenFits ==
    ASSUME QuotationsFit, NEW r \in Requests, Quote!NumberTaken(r)
    PROVE  QuotationsFit'
<1>1. PICK x : x = quotationReq[r]
  OBVIOUS
<1>2. /\ x.pc = "insert" /\ UNCHANGED Quote!tables /\ RequestSound(r, x, quotation, store)
      /\ IsQuoteRequest(x)
  BY <1>1, Mover DEF Quote!NumberTaken
<1>3. CASE Quote!Answer(r, "rejected")
  BY <1>2, <1>3, OnlyAnswers DEF Quote!Finished
<1>4. CASE ~Quote!Answer(r, "rejected")
  <2>1. PICK n : n = x.draws + 1
    OBVIOUS
  <2>2. /\ x.draws < NumberAttempts
        /\ quotationReq' = [quotationReq EXCEPT ![r].draws = n, ![r].tries = 1,
                                                ![r].pc = "number"]
    BY <1>1, <1>4, <2>1, Mover DEF Quote!NumberTaken
  <2>3. n \in 1..NumberAttempts /\ 1 \in 1..MaxAttempts /\ "number" \in QuoteLabels
    BY <1>2, <2>1, <2>2, RequestIs, QuoteConstants DEF QuoteLabels, Quote!Pending
  <2>4. PICK y : y = [x EXCEPT !.draws = n, !.tries = 1, !.pc = "number"]
    OBVIOUS
  <2>5. PICK S, B : x \in RequestsOver(S, B)
    BY <1>2 DEF IsQuoteRequest
  <2>6. Moves(x, y, "number", x.number)
    BY <2>3, <2>4, <2>5, DrawsAgain
  <2>7. RequestBecomes(r, y)
    BY <1>1, <2>2, <2>4, Mover DEF RequestBecomes
  <2>8. RequestSound(r, y, quotation, store)
    BY <1>2, <2>6, CreationMoves
  <2> QED BY <1>2, <2>7, <2>8, OnlyMoves
<1> QED BY <1>3, <1>4

\* The steps of the transaction of an update.
LEMMA UpdateMoves ==
    ASSUME QuotationsFit, NEW r \in Requests,
           quotationReq[r].pc \in {"items", "lockItems", "stages", "lockStages"},
           UNCHANGED Quote!tables, NEW label \in {"lockItems", "stages", "lockStages", "write"},
           NEW y, RequestBecomes(r, y), Moves(quotationReq[r], y, label, quotationReq[r].number)
    PROVE  QuotationsFit'
<1>1. PICK x : x = quotationReq[r]
  OBVIOUS
<1>2. RequestSound(r, x, quotation, store)
  BY <1>1, Mover
<1>3. ReadingFits(x, quotation, store)
  BY <1>1, <1>2 DEF RequestSound, Quote!Pending
<1>4. x.arg.op = "update" /\ x.seen.row.status = Quote!Requires[x.arg.op]
  BY <1>1, <1>3 DEF ReadingFits
<1>5. RequestSound(r, y, quotation, store)
  BY <1>1, <1>2, <1>4, ReadingMoves DEF Quote!Pending
<1> QED BY <1>5, OnlyMoves

LEMMA FindItemsFits ==
    ASSUME QuotationsFit, NEW r \in Requests, Quote!FindItems(r)
    PROVE  QuotationsFit'
<1>1. PICK x : x = quotationReq[r]
  OBVIOUS
<1>2. x.pc = "items" /\ UNCHANGED Quote!tables /\ IsQuoteRequest(x)
  BY <1>1, Mover DEF Quote!FindItems
<1>3. PICK v : v = items[Quote!Subject(r)]
  OBVIOUS
<1>4. PICK S, B : x \in RequestsOver(S, B) /\ v \in B
  <2> DEFINE B == {x.doomed.items, v}
  <2>1. x \in RequestsOver({x.seen.stages, x.doomed.stages}, B) /\ v \in B
    BY <1>2, RequestIs
  <2> QED BY <2>1
<1>5. PICK y : y = [x EXCEPT !.doomed.items = v, !.pc = "lockItems"]
  OBVIOUS
<1>6. "lockItems" \in QuoteLabels
  BY DEF QuoteLabels, Quote!Pending
<1>7. Moves(x, y, "lockItems", x.number)
  BY <1>4, <1>5, <1>6, FindsItems
<1>8. RequestBecomes(r, y)
  <2>1. quotationReq' = [quotationReq EXCEPT ![r].doomed.items = v, ![r].pc = "lockItems"]
    BY <1>3 DEF Quote!FindItems
  <2> QED BY <1>1, <1>5, <2>1, Mover DEF RequestBecomes
<1> QED BY <1>1, <1>2, <1>7, <1>8, UpdateMoves

LEMMA FindStagesFits ==
    ASSUME QuotationsFit, NEW r \in Requests, Quote!FindStages(r)
    PROVE  QuotationsFit'
<1>1. PICK x : x = quotationReq[r]
  OBVIOUS
<1>2. x.pc = "stages" /\ UNCHANGED Quote!tables /\ IsQuoteRequest(x)
  BY <1>1, Mover DEF Quote!FindStages
<1>3. PICK v : v = stages[Quote!Subject(r)]
  OBVIOUS
<1>4. PICK S, B : x \in RequestsOver(S, B) /\ v \in S
  <2> DEFINE S == {x.seen.stages, x.doomed.stages, v}
  <2>1. x \in RequestsOver(S, {x.doomed.items}) /\ v \in S
    BY <1>2, RequestIs
  <2> QED BY <2>1
<1>5. PICK y : y = [x EXCEPT !.doomed.stages = v, !.pc = "lockStages"]
  OBVIOUS
<1>6. "lockStages" \in QuoteLabels
  BY DEF QuoteLabels, Quote!Pending
<1>7. Moves(x, y, "lockStages", x.number)
  BY <1>4, <1>5, <1>6, FindsStages
<1>8. RequestBecomes(r, y)
  <2>1. quotationReq' = [quotationReq EXCEPT ![r].doomed.stages = v, ![r].pc = "lockStages"]
    BY <1>3 DEF Quote!FindStages
  <2> QED BY <1>1, <1>5, <2>1, Mover DEF RequestBecomes
<1> QED BY <1>1, <1>2, <1>7, <1>8, UpdateMoves

LEMMA LocksFit ==
    ASSUME QuotationsFit, NEW r \in Requests, Quote!LockItems(r) \/ Quote!LockStages(r)
    PROVE  QuotationsFit'
<1>1. /\ quotationReq[r].pc \in {"lockItems", "lockStages"} /\ UNCHANGED Quote!tables
      /\ Quote!Goto(r, "stages") \/ Quote!Goto(r, "write") \/ Quote!Answer(r, "rejected")
  BY DEF Quote!LockItems, Quote!LockStages
<1>2. ASSUME NEW label \in {"stages", "write"}, Quote!Goto(r, label)
      PROVE  QuotationsFit'
  <2>1. label \in QuoteLabels
    BY DEF QuoteLabels, Quote!Pending
  <2>2. PICK y : /\ RequestBecomes(r, y)
                 /\ Moves(quotationReq[r], y, label, quotationReq[r].number)
    BY <1>2, <2>1, GotoMoves
  <2> QED BY <1>1, <2>2, UpdateMoves
<1> QED BY <1>1, <1>2, OnlyAnswers DEF Quote!Finished

\* A step that changes the row or the document of one quotation.
LEMMA SubjectIs ==
    ASSUME QuotationsFit, NEW r \in Requests,
           quotationReq[r].pc \in Quote!Pending \ {"check", "number", "insert"}
    PROVE  /\ ReadingFits(quotationReq[r], quotation, store)
           /\ Quote!Subject(r) \in DOMAIN quotation /\ Quote!Subject(r) \in Quote!Quotations
           /\ quotation[Quote!Subject(r)] \in Quote!QuotationRow
<1>1. ReadingFits(quotationReq[r], quotation, store)
  BY Mover DEF RequestSound
<1> QED BY <1>1 DEF ReadingFits, Quote!Subject, QuotationsFit, SheetsFit

LEMMA JudgedIs ==
    ASSUME QuotationsFit, NEW r \in Requests, Quote!Judge(r),
           Quote!Subject(r) \in DOMAIN quotation
    PROVE  astray' \subseteq DOMAIN quotation
  BY DEF Quote!Judge, QuotationsFit, SheetsFit

LEMMA UploadFits ==
    ASSUME QuotationsFit, NEW r \in Requests, Quote!UploadDocument(r)
    PROVE  QuotationsFit'
<1>1. PICK x : x = quotationReq[r]
  OBVIOUS
<1>2. PICK q : q = Quote!Subject(r)
  OBVIOUS
<1>3. x.pc = "upload" /\ UNCHANGED <<quotation, items, stages, mailed>>
  BY <1>1 DEF Quote!UploadDocument
<1>4. ReadingFits(x, quotation, store) /\ q \in DOMAIN quotation /\ q \in Quote!Quotations
  BY <1>1, <1>2, <1>3, SubjectIs DEF Quote!Pending
<1>5. PICK doc : doc = Quote!Rendered(x.seen)
  OBVIOUS
<1>6. doc # Quote!NoDoc
  <2>1. doc.total = x.seen.row.total /\ x.seen.row.total \in Nat
    BY <1>4, <1>5 DEF Quote!Rendered, ReadingFits, Quote!QuotationRow
  <2> QED BY <2>1 DEF Quote!NoDoc
<1>7. store' = [store EXCEPT ![q] = doc]
  BY <1>1, <1>2, <1>5 DEF Quote!UploadDocument
<1>8. /\ store' = [z \in Quote!Quotations |-> store'[z]] /\ store'[q] = doc
      /\ \A z \in Quote!Quotations \ {q} : store'[z] = store[z]
  BY <1>4, <1>7 DEF QuotationsFit, SheetsFit
<1>9. Grows(r)
  BY <1>3, <1>6, <1>8 DEF Grows, QuotationsFit, SheetsFit
<1>10. astray' \subseteq DOMAIN quotation
  BY <1>2, <1>4, JudgedIs DEF Quote!UploadDocument
<1>11. SheetsFit'
  BY <1>3, <1>8, <1>10 DEF QuotationsFit, SheetsFit
<1>12. Quote!TotalIsScheduled' /\ Quote!DocumentBeforeSent'
  BY <1>3, <1>6, <1>8
     DEF QuotationsFit, SheetsFit, Quote!TotalIsScheduled, Quote!DocumentBeforeSent
<1>13. "write" \in QuoteLabels /\ Quote!Goto(r, "write")
  BY DEF QuoteLabels, Quote!Pending, Quote!UploadDocument
<1>14. PICK y : RequestBecomes(r, y) /\ Moves(x, y, "write", x.number)
  BY <1>1, <1>13, GotoMoves
<1>15. RequestSound(r, x, quotation', store')
  BY <1>1, <1>3, <1>9, Mover, StaysSound
<1>16. /\ x.seen.row.status = Quote!Requires[x.arg.op] /\ x.arg.op # "update"
       /\ store'[x.arg.quotation] # Quote!NoDoc
  BY <1>1, <1>2, <1>3, <1>4, <1>6, <1>8 DEF ReadingFits, Quote!Subject
<1>17. RequestSound(r, y, quotation', store')
  BY <1>3, <1>14, <1>15, <1>16, ReadingMoves DEF Quote!Pending
<1> QED BY <1>9, <1>11, <1>12, <1>14, <1>17, RequestsFit DEF QuotationsFit

LEMMA StartMailFits ==
    ASSUME QuotationsFit, NEW r \in Requests, Quote!StartMail(r)
    PROVE  QuotationsFit'
<1>1. /\ quotationReq[r].pc = "mail" /\ mailed' = mailed \cup {Quote!Subject(r)}
      /\ Quote!Answer(r, "done") /\ UNCHANGED <<quotation, items, stages, store, astray>>
  BY DEF Quote!StartMail
<1>2. /\ Quote!Subject(r) \in DOMAIN quotation
      /\ quotation[Quote!Subject(r)].status # "DRAFT"
  BY <1>1, SubjectIs DEF Quote!Pending, ReadingFits, Quote!Subject
<1>3. Grows(r)
  BY <1>1 DEF Grows
<1>4. SheetsFit' /\ Quote!TotalIsScheduled' /\ Quote!DocumentBeforeSent'
  BY <1>1, <1>2
     DEF QuotationsFit, SheetsFit, Quote!TotalIsScheduled, Quote!DocumentBeforeSent
<1>5. RequestBecomes(r, Quote!At("done")) /\ RequestSound(r, Quote!At("done"), quotation', store')
  BY <1>1, AnsweredIs DEF RequestBecomes, Quote!Answer, Quote!Finished
<1> QED BY <1>3, <1>4, <1>5, RequestsFit DEF QuotationsFit

LEMMA CommitStatusFits ==
    ASSUME QuotationsFit, NEW r \in Requests, Quote!CommitStatus(r)
    PROVE  QuotationsFit'
<1>1. PICK x : x = quotationReq[r]
  OBVIOUS
<1>2. PICK q : q = Quote!Subject(r)
  OBVIOUS
<1>3. /\ x.pc = "write" /\ x.arg.op \in {"send", "accept", "reject"}
      /\ UNCHANGED <<items, stages, store, mailed>>
  BY <1>1 DEF Quote!CommitStatus, Quote!Becomes
<1>4. /\ ReadingFits(x, quotation, store) /\ q \in DOMAIN quotation /\ q \in Quote!Quotations
      /\ q = x.arg.quotation
  BY <1>1, <1>2, <1>3, SubjectIs DEF Quote!Pending, Quote!Subject
<1>5. PICK row \in Quote!QuotationRow : row = quotation[q]
  BY <1>2, <1>4 DEF QuotationsFit, SheetsFit
<1>6. PICK status \in {"SENT", "ACCEPTED", "REJECTED"} : status = Quote!Becomes[x.arg.op]
  BY <1>3 DEF Quote!Becomes
<1>7. PICK pdf \in BOOLEAN : pdf = (row.pdf \/ x.arg.op = "send")
  OBVIOUS
<1> DEFINE n == [row EXCEPT !.status = status, !.pdf = pdf]
<1>8. n \in Quote!QuotationRow
  BY Zenon DEF Quote!QuotationRow
<1>9. /\ n.status = status /\ n.pdf = pdf /\ n.total = row.total /\ n.number = row.number
      /\ n.subtotal = row.subtotal /\ n.charges = row.charges
  BY DEF Quote!QuotationRow
<1>10. quotation' = [quotation EXCEPT ![q] = n]
  <2>1. quotation' = [quotation EXCEPT ![q].status = status, ![q].pdf = @ \/ x.arg.op = "send"]
    BY <1>1, <1>2, <1>6 DEF Quote!CommitStatus
  <2> QED BY <1>4, <1>5, <1>7, <2>1 DEF QuotationsFit, SheetsFit
<1> HIDE DEF n
<1>11. /\ DOMAIN quotation' = DOMAIN quotation
       /\ quotation' \in [DOMAIN quotation -> Quote!QuotationRow] /\ quotation'[q] = n
       /\ \A z \in DOMAIN quotation \ {q} : quotation'[z] = quotation[z]
  BY <1>4, <1>8, <1>10 DEF QuotationsFit, SheetsFit
<1>12. n.pdf /\ store[q] # Quote!NoDoc /\ n.status # "DRAFT"
  <2>1. x.arg.op # "send" => row.pdf
    BY <1>3, <1>4, <1>5 DEF ReadingFits, Quote!Requires
  <2>2. row.pdf => store[q] # Quote!NoDoc
    BY <1>4, <1>5 DEF QuotationsFit, Quote!DocumentBeforeSent
  <2>3. x.arg.op = "send" => store[q] # Quote!NoDoc
    BY <1>3, <1>4 DEF ReadingFits
  <2> QED BY <1>7, <1>9, <2>1, <2>2, <2>3
<1>13. Grows(r)
  BY <1>3, <1>11, <1>12 DEF Grows
<1>14. astray' \subseteq DOMAIN quotation
  BY <1>2, <1>4, JudgedIs DEF Quote!CommitStatus
<1>15. SheetsFit'
  BY <1>3, <1>5, <1>9, <1>11, <1>14 DEF QuotationsFit, SheetsFit
<1>16. Quote!TotalIsScheduled'
  BY <1>3, <1>5, <1>9, <1>11 DEF QuotationsFit, Quote!TotalIsScheduled
<1>17. Quote!DocumentBeforeSent'
  BY <1>3, <1>11, <1>12 DEF QuotationsFit, Quote!DocumentBeforeSent
<1>18. CASE Quote!Answer(r, "done")
  <2>1. /\ RequestBecomes(r, Quote!At("done"))
        /\ RequestSound(r, Quote!At("done"), quotation', store')
    BY <1>18, AnsweredIs DEF RequestBecomes, Quote!Answer, Quote!Finished
  <2> QED BY <1>13, <1>15, <1>16, <1>17, <2>1, RequestsFit DEF QuotationsFit
<1>19. CASE x.arg.op = "send" /\ Quote!Goto(r, "mail")
  <2>1. "mail" \in QuoteLabels
    BY DEF QuoteLabels, Quote!Pending
  <2>2. PICK y : RequestBecomes(r, y) /\ Moves(x, y, "mail", x.number)
    BY <1>1, <1>19, <2>1, GotoMoves
  <2>3. RequestSound(r, x, quotation', store')
    BY <1>1, <1>11, <1>13, Mover, StaysSound
  <2>4. x.seen.row.status = Quote!Requires[x.arg.op] /\ quotation'[x.arg.quotation].status # "DRAFT"
    BY <1>3, <1>4, <1>11, <1>12 DEF ReadingFits
  <2>5. RequestSound(r, y, quotation', store')
    BY <1>3, <1>19, <2>2, <2>3, <2>4, ReadingMoves DEF Quote!Pending
  <2> QED BY <1>13, <1>15, <1>16, <1>17, <2>2, <2>5, RequestsFit DEF QuotationsFit
<1> QED BY <1>1, <1>18, <1>19 DEF Quote!CommitStatus

\* What a request may carry, and a batch of stages.
LEMMA ContentIs ==
    ASSUME NEW a \in Arguments, a.op \in {"create", "update"}
    PROVE  a.content \in Contents
  BY DEF Arguments, Quote!NoArg

LEMMA BatchIs ==
    ASSUME NEW r, NEW plan, NEW total
    PROVE  Quote!StageBatch(r, plan, total).total = total
  BY DEF Quote!StageBatch

LEMMA CommitUpdateFits ==
    ASSUME QuotationsFit, NEW r \in Requests, Quote!CommitUpdate(r)
    PROVE  QuotationsFit'
<1>1. PICK x : x = quotationReq[r]
  OBVIOUS
<1>2. PICK q : q = Quote!Subject(r)
  OBVIOUS
<1>3. x.pc = "write" /\ x.arg.op = "update"
  BY <1>1 DEF Quote!CommitUpdate
<1>4. /\ ReadingFits(x, quotation, store) /\ q \in DOMAIN quotation /\ q \in Quote!Quotations
      /\ q = x.arg.quotation
  BY <1>1, <1>2, <1>3, SubjectIs DEF Quote!Pending, Quote!Subject
<1>5. CASE Quote!TotalAfter(r) < 0
  <2>1. UNCHANGED Quote!tables /\ Quote!Answer(r, "failed")
    BY <1>5 DEF Quote!CommitUpdate
  <2> QED BY <2>1, OnlyAnswers DEF Quote!Finished
<1>6. CASE ~(Quote!TotalAfter(r) < 0)
  <2>1. x.arg.content \in Contents
    BY <1>1, <1>3, Mover, RequestIs, ContentIs
  <2>2. PICK content \in Contents : content = x.arg.content
    BY <2>1
  <2>3. PICK row \in Quote!QuotationRow : row = quotation[q]
    BY <1>2, <1>4 DEF QuotationsFit, SheetsFit
  <2>4. PICK seen \in Quote!QuotationRow : seen = x.seen.row
    BY <1>4 DEF ReadingFits
  <2>5. /\ row.subtotal \in Nat /\ seen.subtotal \in Nat /\ seen.charges \in Int
        /\ content.subtotal \in SUBSET Nat /\ content.charges \in SUBSET Int
    BY QuoteConstants DEF Quote!QuotationRow
  <2>6. PICK s \in Nat : s = Quote!Given(content.subtotal, row.subtotal)
    BY <2>5, GivenIs
  <2>7. PICK before \in Nat : before = Quote!Given(content.subtotal, seen.subtotal)
    BY <2>5, GivenIs
  <2>8. PICK c \in Int : c = Quote!Given(content.charges, seen.charges)
    BY <2>5, GivenIs
  <2>9. Quote!TotalAfter(r) = before + c
    BY <1>1, <2>2, <2>4, <2>7, <2>8 DEF Quote!TotalAfter
  <2>10. PICK total \in Nat : total = Quote!TotalAfter(r)
    BY <1>6, <2>9
  <2> DEFINE n == [row EXCEPT !.subtotal = s, !.charges = c, !.total = total]
  <2>11. n \in Quote!QuotationRow
    BY Zenon DEF Quote!QuotationRow
  <2>12. /\ n.status = row.status /\ n.pdf = row.pdf /\ n.total = total
         /\ n.number = row.number
    BY DEF Quote!QuotationRow
  <2>13. Quote!RowAfter(r) = n
    BY <1>1, <1>2, <2>2, <2>3, <2>4, <2>6, <2>8, <2>10, Zenon DEF Quote!RowAfter
  <2> HIDE DEF n
  <2>14. /\ DOMAIN quotation' = DOMAIN quotation
         /\ quotation' \in [DOMAIN quotation -> Quote!QuotationRow] /\ quotation'[q] = n
         /\ \A z \in DOMAIN quotation \ {q} : quotation'[z] = quotation[z]
    <3>1. quotation' = [quotation EXCEPT ![q] = n]
      BY <1>2, <1>6, <2>13 DEF Quote!CommitUpdate
    <3> QED BY <1>4, <2>11, <3>1 DEF QuotationsFit, SheetsFit
  <2>15. /\ items' = [z \in Quote!Quotations |-> items'[z]]
         /\ \A z \in Quote!Quotations \ {q} : items'[z] = items[z]
    <3>1. PICK batches : items' \in {items, [items EXCEPT ![q] = batches]}
      BY <1>2, <1>6 DEF Quote!CommitUpdate
    <3> QED BY <1>4, <3>1 DEF QuotationsFit, SheetsFit
  <2>16. PICK batch : batch = Quote!StageBatch(r, Quote!PlanAfter(r), total)
    OBVIOUS
  <2>17. batch.total = total
    BY <2>16, BatchIs
  <2>18. /\ stages' = [z \in Quote!Quotations |-> stages'[z]] /\ batch \in stages'[q]
         /\ \A z \in Quote!Quotations \ {q} : stages'[z] = stages[z]
    <3>1. PICK batches : batches = Quote!ScheduleAfter(r)
      OBVIOUS
    <3>2. stages' = [stages EXCEPT ![q] = batches]
      BY <1>2, <1>6, <3>1 DEF Quote!CommitUpdate
    <3>3. batch \in batches
      BY <2>10, <2>16, <3>1 DEF Quote!ScheduleAfter
    <3> QED BY <1>4, <3>2, <3>3 DEF QuotationsFit, SheetsFit
  <2>19. UNCHANGED <<store, mailed>> /\ Quote!Judge(r) /\ Quote!Answer(r, "done")
    BY <1>6 DEF Quote!CommitUpdate
  <2>20. Grows(r)
    BY <2>3, <2>12, <2>14, <2>19 DEF Grows
  <2>21. SheetsFit'
    <3>1. astray' \subseteq DOMAIN quotation
      BY <1>2, <1>4, <2>19, JudgedIs
    <3> QED BY <1>4, <2>3, <2>12, <2>14, <2>15, <2>18, <2>19, <3>1
            DEF QuotationsFit, SheetsFit
  <2>22. Quote!TotalIsScheduled'
    <3>1. ASSUME NEW z \in DOMAIN quotation
          PROVE  \E b \in stages'[z] : b.total = quotation'[z].total
      <4>1. CASE z = q
        BY <2>12, <2>14, <2>17, <2>18, <4>1
      <4>2. CASE z # q
        <5>1. stages'[z] = stages[z] /\ quotation'[z] = quotation[z]
          BY <2>14, <2>18, <4>2 DEF QuotationsFit, SheetsFit
        <5> QED BY <5>1 DEF QuotationsFit, Quote!TotalIsScheduled
      <4> QED BY <4>1, <4>2
    <3> QED BY <2>14, <3>1 DEF Quote!TotalIsScheduled
  <2>23. Quote!DocumentBeforeSent'
    BY <2>3, <2>12, <2>14, <2>19 DEF QuotationsFit, Quote!DocumentBeforeSent
  <2>24. /\ RequestBecomes(r, Quote!At("done"))
         /\ RequestSound(r, Quote!At("done"), quotation', store')
    BY <2>19, AnsweredIs DEF RequestBecomes, Quote!Answer, Quote!Finished
  <2> QED BY <2>20, <2>21, <2>22, <2>23, <2>24, RequestsFit DEF QuotationsFit
<1> QED BY <1>5, <1>6

LEMMA InsertFits ==
    ASSUME QuotationsFit, NEW r \in Requests, Quote!Insert(r)
    PROVE  QuotationsFit'
<1>1. PICK x : x = quotationReq[r]
  OBVIOUS
<1>2. x.pc = "insert" /\ x.number \notin Quote!Numbers
  BY <1>1 DEF Quote!Insert
<1>3. /\ r \notin DOMAIN quotation /\ CreationFits(r, x) /\ IsQuoteRequest(x)
      /\ Quote!Subject(r) = r /\ r \in Quote!Quotations
  BY <1>1, <1>2, Mover DEF RequestSound, CreationFits, Quote!Subject, Quote!Quotations
<1>4. CASE Quote!NewRow(r).total < 0
  <2>1. UNCHANGED Quote!tables /\ Quote!Answer(r, "failed")
    BY <1>4 DEF Quote!Insert
  <2> QED BY <2>1, OnlyAnswers DEF Quote!Finished
<1>5. CASE ~(Quote!NewRow(r).total < 0)
  <2>1. PICK n : n = Quote!NewRow(r)
    OBVIOUS
  <2>2. n \in Quote!QuotationRow /\ n.status = "DRAFT" /\ n.pdf = FALSE /\ n.number = x.number
    <3>1. PICK content \in Contents : content = x.arg.content
      BY <1>3, RequestIs, ContentIs DEF CreationFits
    <3>2. content.subtotal \in SUBSET Nat /\ content.charges \in SUBSET Int
      BY QuoteConstants
    <3>3. PICK s \in Nat : s = Quote!Given(content.subtotal, 0)
      BY <3>2, GivenIs
    <3>4. PICK c \in Int : c = Quote!Given(content.charges, 0)
      <4>1. PICK charges \in SUBSET Int, none \in Int : charges = content.charges /\ none = 0
        BY <3>2
      <4>2. Quote!Given(charges, none) \in Int
        BY GivenIs
      <4> QED BY <4>1, <4>2
    <3>5. n = [number |-> x.number, status |-> "DRAFT", subtotal |-> s, charges |-> c,
               total |-> s + c, pdf |-> FALSE]
      BY <1>1, <2>1, <3>1, <3>3, <3>4 DEF Quote!NewRow
    <3>6. s + c \in Nat
      BY <1>5, <2>1, <3>5
    <3>7. x.number \in Nat \ {0}
      BY <1>2, <1>3, RequestIs DEF CreationFits
    <3> QED BY <3>5, <3>6, <3>7 DEF Quote!QuotationRow
  <2>3. PICK batch : batch = Quote!StageBatch(r, Quote!Given(x.arg.content.plan, Default), n.total)
    OBVIOUS
  <2>4. batch.total = n.total
    BY <2>3, BatchIs
  <2>5. PICK b : b = Quote!ItemBatch(r, n.subtotal)
    OBVIOUS
  <2>6. /\ quotation' = [z \in DOMAIN quotation \cup {r} |-> IF z = r THEN n ELSE quotation[z]]
        /\ items' = [items EXCEPT ![r] = {b}]
        /\ stages' = [stages EXCEPT ![r] = {batch}]
        /\ Quote!Answer(r, "done") /\ UNCHANGED <<store, mailed, astray>>
    BY <1>1, <1>3, <1>5, <2>1, <2>3, <2>5 DEF Quote!Insert
  <2>7. /\ DOMAIN quotation' = DOMAIN quotation \cup {r}
        /\ quotation' \in [DOMAIN quotation' -> Quote!QuotationRow] /\ quotation'[r] = n
        /\ \A z \in DOMAIN quotation : quotation'[z] = quotation[z]
    BY <1>3, <2>2, <2>6 DEF QuotationsFit, SheetsFit
  <2>8. /\ items' = [z \in Quote!Quotations |-> items'[z]]
        /\ \A z \in Quote!Quotations \ {r} : items'[z] = items[z]
        /\ stages' = [z \in Quote!Quotations |-> stages'[z]] /\ stages'[r] = {batch}
        /\ \A z \in Quote!Quotations \ {r} : stages'[z] = stages[z]
    BY <1>3, <2>6 DEF QuotationsFit, SheetsFit
  <2>9. Grows(r)
    BY <2>6, <2>7 DEF Grows
  <2>10. SheetsFit'
    <3>1. DOMAIN quotation' \subseteq Quote!Quotations /\ IsFiniteSet(DOMAIN quotation')
      BY <1>3, <2>7, FS_AddElement DEF QuotationsFit, SheetsFit
    <3>2. \A z \in DOMAIN quotation : quotation[z].number # x.number
      BY <1>2 DEF Quote!Numbers
    <3>3. \A y, z \in DOMAIN quotation' : quotation'[y].number = quotation'[z].number => y = z
      BY <2>2, <2>7, <3>2 DEF QuotationsFit, SheetsFit
    <3> QED BY <2>6, <2>7, <2>8, <3>1, <3>3 DEF QuotationsFit, SheetsFit
  <2>11. Quote!TotalIsScheduled'
    <3>1. ASSUME NEW z \in DOMAIN quotation'
          PROVE  \E k \in stages'[z] : k.total = quotation'[z].total
      <4>1. CASE z = r
        BY <2>4, <2>7, <2>8, <4>1
      <4>2. CASE z # r
        <5>1. stages'[z] = stages[z] /\ quotation'[z] = quotation[z] /\ z \in DOMAIN quotation
          BY <2>7, <2>8, <4>2 DEF QuotationsFit, SheetsFit
        <5> QED BY <5>1 DEF QuotationsFit, Quote!TotalIsScheduled
      <4> QED BY <4>1, <4>2
    <3> QED BY <3>1 DEF Quote!TotalIsScheduled
  <2>12. Quote!DocumentBeforeSent'
    <3>1. r \notin mailed
      BY <1>3 DEF QuotationsFit, SheetsFit
    <3> QED BY <2>2, <2>6, <2>7, <3>1 DEF QuotationsFit, Quote!DocumentBeforeSent
  <2>13. /\ RequestBecomes(r, Quote!At("done"))
         /\ RequestSound(r, Quote!At("done"), quotation', store')
    BY <2>6, AnsweredIs DEF RequestBecomes, Quote!Answer, Quote!Finished
  <2> QED BY <2>9, <2>10, <2>11, <2>12, <2>13, RequestsFit DEF QuotationsFit
<1> QED BY <1>4, <1>5

LEMMA TransientErrorFits ==
    ASSUME QuotationsFit, NEW r \in Requests, Quote!TransientError(r)
    PROVE  QuotationsFit'
<1>1. PICK x : x = quotationReq[r]
  OBVIOUS
<1>2. /\ UNCHANGED Quote!tables /\ RequestSound(r, x, quotation, store) /\ IsQuoteRequest(x)
      /\ x.pc = "insert" \/ (x.arg.op = "update" /\ x.pc \in Quote!Pending \ {"read"})
  <2>1. UNCHANGED Quote!tables /\ Quote!InTransaction(r)
    BY DEF Quote!TransientError
  <2> QED BY <1>1, <2>1, Mover DEF Quote!InTransaction
<1>3. CASE Quote!Answer(r, "failed")
  BY <1>2, <1>3, OnlyAnswers DEF Quote!Finished
<1>4. CASE ~Quote!Answer(r, "failed")
  <2>1. PICK n, label :
            /\ n = x.tries + 1
            /\ label = IF x.pc = "insert" THEN x.pc ELSE Quote!FirstStep(x.arg)
    OBVIOUS
  <2>2. /\ x.tries < MaxAttempts
        /\ quotationReq' = [quotationReq EXCEPT ![r].tries = n, ![r].doomed = Quote!NoRows,
                                                ![r].pc = label]
    BY <1>1, <1>4, <2>1, Mover DEF Quote!TransientError
  <2>3. n \in 1..MaxAttempts
    BY <1>2, <2>1, <2>2, RequestIs, QuoteConstants
  <2>4. PICK y : y = [x EXCEPT !.tries = n, !.doomed = Quote!NoRows, !.pc = label]
    OBVIOUS
  <2>5. RequestBecomes(r, y)
    BY <1>1, <2>2, <2>4, Mover DEF RequestBecomes
  <2>6. PICK S, B : x \in RequestsOver(S, B) /\ Quote!NoRows \in [items : B, stages : S]
    <3> DEFINE S == {x.seen.stages, x.doomed.stages, {}}
               B == {x.doomed.items, {}}
    <3>1. x \in RequestsOver(S, B) /\ Quote!NoRows \in [items : B, stages : S]
      BY <1>2, RequestIs DEF Quote!NoRows
    <3> QED BY <3>1
  <2>7. label \in QuoteLabels => Moves(x, y, label, x.number)
    BY <2>3, <2>4, <2>6, StartsAgain
  <2>8. CASE x.pc = "insert"
    <3>1. label = "insert" /\ label \in QuoteLabels /\ x.number # 0
      BY <1>2, <2>1, <2>8 DEF QuoteLabels, Quote!Pending, RequestSound, CreationFits
    <3>2. RequestSound(r, y, quotation, store)
      BY <1>2, <2>7, <2>8, <3>1, CreationMoves
    <3> QED BY <1>2, <2>5, <3>2, OnlyMoves
  <2>9. CASE x.pc # "insert"
    <3>1. x.pc \in Quote!Pending \ {"check", "number", "insert"} /\ ReadingFits(x, quotation, store)
      BY <1>2, <2>9 DEF RequestSound, CreationFits
    <3>2. x.arg.op = "update" /\ label \in {"items", "stages"}
      BY <1>2, <2>1, <2>9, FirstStepIs
    <3>3. label \in QuoteLabels /\ x.seen.row.status = Quote!Requires[x.arg.op]
      BY <1>2, <2>9, <3>1, <3>2 DEF QuoteLabels, Quote!Pending, ReadingFits
    <3>4. RequestSound(r, y, quotation, store)
      BY <1>2, <2>7, <3>1, <3>2, <3>3, ReadingMoves
    <3> QED BY <1>2, <2>5, <3>4, OnlyMoves
  <2> QED BY <2>8, <2>9
<1> QED BY <1>3, <1>4

LEMMA QuotationsFitInit == ASSUME Quote!Init PROVE QuotationsFit
<1>1. Quote!Cardinality(Drafts) \in Nat
  <2>1. Quote!Cardinality(Drafts) = Cardinality(Drafts)
    BY DEF Quote!Cardinality, Cardinality
  <2> QED BY <2>1, QuoteConstants, FS_CardinalityType
<1>2. ASSUME NEW n \in 1..Quote!Cardinality(Drafts)
      PROVE  /\ Quote!Seeded(n) \in Quote!QuotationRow
             /\ Quote!Seeded(n).number = n /\ Quote!Seeded(n).total = Opening
             /\ Quote!Seeded(n).status = "DRAFT" /\ ~Quote!Seeded(n).pdf
  BY <1>1, QuoteConstants DEF Quote!Seeded, Quote!QuotationRow
<1>3. ASSUME NEW q \in Drafts
      PROVE  /\ quotation[q] \in Quote!QuotationRow /\ quotation[q].total = Opening
             /\ quotation[q] = Quote!Seeded(quotation[q].number)
             /\ quotation[q].status = "DRAFT" /\ ~quotation[q].pdf
  <2>1. PICK n \in 1..Quote!Cardinality(Drafts) : quotation[q] = Quote!Seeded(n)
    BY DEF Quote!Init
  <2> QED BY <1>2, <2>1
<1>4. quotation = [q \in Drafts |-> quotation[q]]
  BY DEF Quote!Init
<1>5. \A x, y \in Drafts : quotation[x] = quotation[y] => x = y
  BY DEF Quote!Init
<1>6. DOMAIN quotation = Drafts /\ IsFiniteSet(Drafts) /\ Drafts \subseteq Quote!Quotations
  BY <1>4, QuoteConstants DEF Quote!Quotations
<1>7. quotation \in [Drafts -> Quote!QuotationRow]
  BY <1>3, <1>4
<1>8. \A x, y \in Drafts : quotation[x].number = quotation[y].number => x = y
  BY <1>3, <1>5
<1>9. /\ items = [q \in Quote!Quotations |-> items[q]]
      /\ stages = [q \in Quote!Quotations |-> stages[q]]
      /\ store = [q \in Quote!Quotations |-> store[q]]
      /\ \A q \in Quote!Quotations \ Drafts : items[q] = {} /\ stages[q] = {}
      /\ mailed = {} /\ astray = {}
  BY DEF Quote!Init
<1>10. SheetsFit
  BY <1>6, <1>7, <1>8, <1>9 DEF SheetsFit
<1>11. Quote!TotalIsScheduled
  <2>1. ASSUME NEW q \in Drafts PROVE \E b \in stages[q] : b.total = quotation[q].total
    <3>1. stages[q] = {Quote!StageBatch(Quote!Nobody, Default, Opening)}
      BY <1>6 DEF Quote!Init
    <3> QED BY <1>3, <3>1, BatchIs
  <2> QED BY <1>6, <2>1 DEF Quote!TotalIsScheduled
<1>12. Quote!DocumentBeforeSent
  BY <1>3, <1>6, <1>9 DEF Quote!DocumentBeforeSent
<1>13. ASSUME NEW r \in Requests
       PROVE  RequestSound(r, quotationReq[r], quotation, store)
  <2>1. quotationReq[r] = Quote!At("idle")
    BY DEF Quote!Init
  <2>2. Quote!At("idle").pc = "idle"
    BY DEF Quote!At, Quote!Request
  <2>3. IsQuoteRequest(Quote!At("idle"))
    BY QuoteConstants
       DEF Quote!At, Quote!Request, Quote!NoView, Quote!NoRows, IsQuoteRequest, RequestsOver,
           QuoteLabels, Arguments
  <2>4. r \notin DOMAIN quotation
    BY <1>6, QuoteConstants
  <2> QED BY <2>1, <2>2, <2>3, <2>4 DEF RequestSound, Quote!Pending
<1> QED BY <1>10, <1>11, <1>12, <1>13 DEF QuotationsFit, Quote!Init

LEMMA QuotationsFitNext == ASSUME QuotationsFit, [Quote!Next]_(Quote!vars) PROVE QuotationsFit'
<1>1. ASSUME NEW r \in Requests, NEW q \in DOMAIN quotation, NEW c \in Contents,
             Quote!Update(r, q, c)
      PROVE  QuotationsFit'
  <2>1. q \in Quote!Quotations
    BY DEF QuotationsFit, SheetsFit
  <2>2. PICK a : a = [op |-> "update", quotation |-> q, content |-> c]
    OBVIOUS
  <2>3. a \in Arguments /\ a.op = "update" /\ a.quotation = q
    BY <2>1, <2>2 DEF Arguments
  <2> QED BY <1>1, <2>2, <2>3, OpenArrives DEF Quote!Update
<1>2. ASSUME NEW r \in Requests, NEW q \in DOMAIN quotation,
             NEW op \in {"send", "accept", "reject"}, Quote!Simple(r, q, op)
      PROVE  QuotationsFit'
  <2>1. q \in Quote!Quotations
    BY DEF QuotationsFit, SheetsFit
  <2>2. PICK a : a = [op |-> op, quotation |-> q]
    OBVIOUS
  <2>3. a \in Arguments /\ a.op = op /\ a.quotation = q
    BY <2>1, <2>2 DEF Arguments
  <2> QED BY <1>2, <2>2, <2>3, OpenArrives DEF Quote!Simple
<1>3. ASSUME NEW r \in Requests, Quote!Handle(r) PROVE QuotationsFit'
  BY <1>3, CheckPlanFits, ReadStagesFits, TakeNumberFits, InsertFits, NumberTakenFits,
     FindItemsFits, FindStagesFits, LocksFit, CommitUpdateFits, UploadFits, CommitStatusFits,
     StartMailFits
     DEF Quote!Handle
<1>4. ASSUME NEW r \in Requests, Quote!Crash(r) PROVE QuotationsFit'
  BY <1>4, OnlyAnswers DEF Quote!Crash, Quote!Finished
<1>5. CASE UNCHANGED Quote!vars
  BY <1>5
     DEF Quote!vars, QuotationsFit, SheetsFit, Quote!TotalIsScheduled, Quote!DocumentBeforeSent
<1> QED BY <1>1, <1>2, <1>3, <1>4, <1>5, CreateArrives, TransientErrorFits
        DEF Quote!Next, Quote!Quiet

LEMMA QuotationsAlwaysFit == CrmSpec => []QuotationsFit
<1>1. Quote!Init => QuotationsFit
  BY QuotationsFitInit
<1>2. QuotationsFit /\ [Quote!Next]_(Quote!vars) => QuotationsFit'
  BY QuotationsFitNext
<1> QED BY <1>1, <1>2, EachPart, PTL DEF Quote!Spec

\* Whatever updates overlap, and whatever each of them read, some schedule of every
\* quotation was computed for the total it has (quotation.service.ts, update).
THEOREM SchedulesMatch == CrmSpec => []TotalIsScheduled
<1>1. QuotationsFit => TotalIsScheduled
  BY DEF QuotationsFit, TotalIsScheduled
<1> QED BY <1>1, QuotationsAlwaysFit, PTL

\* Whatever fails and whoever overlaps, a quotation that left DRAFT has its document,
\* and only such a quotation is mailed (quotation.service.ts, send).
THEOREM DocumentedBeforeSent == CrmSpec => []DocumentBeforeSent
<1>1. QuotationsFit => DocumentBeforeSent
  BY DEF QuotationsFit, DocumentBeforeSent
<1> QED BY <1>1, QuotationsAlwaysFit, PTL

\* The tables of leads, quotations and tasks keep their types and checks, quotations
\* their unique numbers, and nothing hangs on a quotation that is not there.
THEOREM TablesAreTyped == CrmSpec => []TablesTyped
<1>1. QuotationsFit => Quote!TypeOK
  <2>1. ASSUME QuotationsFit, NEW r \in Requests
        PROVE  /\ quotationReq[r].pc \in {"idle"} \cup Quote!Pending \cup Quote!Finished
               /\ quotationReq[r].tries \in 1..MaxAttempts
               /\ quotationReq[r].draws \in 1..NumberAttempts
    BY <2>1, Mover, RequestIs DEF QuoteLabels
  <2> QED BY <2>1 DEF QuotationsFit, SheetsFit, Quote!TypeOK
<1>2. TasksFit => FollowUp!TypeOK
  BY DEF TasksFit, TaskRow, TaskReq, FollowUp!TypeOK
<1>3. LeadsAssumption
  BY PartsAssumption
<1> QED BY <1>1, <1>2, <1>3, EachPart, QuotationsAlwaysFit, TasksAlwaysFit, TypeCorrect, PTL
        DEF TablesTyped

-----------------------------------------------------------------------------
(* The items of quotations.                                                *)

\* The quotation's only batch of items is what its row shows.
Itemised(row, batches) ==
    /\ row.total = row.subtotal + row.charges
    /\ \E b : batches = {b} /\ b.amount = row.subtotal

ByOthers(s, batches) == \A b \in batches : b.by # s

\* An update that has found the items it replaces has found all there are, unless
\* the schedule has changed since it was read: then another update came between.
FoundAll(x, schedules, batches) ==
    /\ x.pc \in {"lockItems", "stages", "lockStages", "write"}
    /\ x.arg.op = "update" /\ x.arg.content.subtotal # {}
    /\ x.seen.stages = schedules[x.arg.quotation]
    => batches[x.arg.quotation] \subseteq x.doomed.items

Unanswered == {s \in Requests : quotationReq[s].pc \notin Quote!Finished}

\* No schedule, and no reading of one, is by a request that is not answered yet.
ItemsFit ==
    /\ \A q \in DOMAIN quotation \ astray : Itemised(quotation[q], items[q])
    /\ \A s \in Unanswered :
           /\ \A q \in Quote!Quotations : ByOthers(s, stages[q])
           /\ \A r \in Requests : ByOthers(s, quotationReq[r].seen.stages)
    /\ \A r \in Requests : FoundAll(quotationReq[r], stages, items)

\* The sum of the amounts of one batch.
LEMMA OneBatch ==
    ASSUME NEW b, b.amount \in Int
    PROVE  Quote!MapThenSumSet(LAMBDA k : k.amount, {b}) = b.amount
<1> DEFINE iter ==
               CHOOSE g : g = [s \in SUBSET {b} |->
                                  IF s = {} THEN 0 ELSE Picked(s).amount + g[s \ {Picked(s)}]]
<1>1. Quote!MapThenSumSet(LAMBDA k : k.amount, {b}) = iter[{b}]
  BY DEF Quote!MapThenSumSet, Quote!MapThenFoldSet, Picked
<1>2. \A g : [s \in SUBSET {b} |->
                 IF s = {} THEN 0 ELSE Picked(s).amount + g[s \ {Picked(s)}]]
            = [s \in SUBSET {b} |-> IF s = {} THEN 0 ELSE b.amount + g[s \ {Picked(s)}]]
  <2>1. \A s \in SUBSET {b} : s # {} => Picked(s).amount = b.amount
    BY PickedIsIn
  <2> QED BY <2>1
<1>3. iter = OneSum(b, b.amount)
  BY <1>2 DEF OneSum
<1> QED BY <1>1, <1>3, SumOverOne

\* What a request that goes on has kept of its reading and of what it found.
Keeps(x, y) ==
    y.arg = x.arg /\ y.seen.stages = x.seen.stages /\ y.doomed.items = x.doomed.items

LEMMA KeepsOn ==
    ASSUME NEW x, IsQuoteRequest(x), NEW label
    PROVE  Keeps(x, [x EXCEPT !.pc = label]) /\ [x EXCEPT !.pc = label].pc = label
  BY DEF IsQuoteRequest, RequestsOver, Keeps

\* Schedules and items are as they were, and so are the sums the rows show.
TermsStay ==
    /\ UNCHANGED <<items, stages>> /\ astray \subseteq astray'
    /\ DOMAIN quotation' = DOMAIN quotation
    /\ \A q \in DOMAIN quotation :
           /\ quotation'[q].total = quotation[q].total
           /\ quotation'[q].subtotal = quotation[q].subtotal
           /\ quotation'[q].charges = quotation[q].charges

LEMMA ItemsRemain ==
    ASSUME QuotationsFit, ItemsFit, NEW r \in Unanswered, TermsStay,
           NEW y, RequestBecomes(r, y),
           \/ y.seen.stages \in {quotationReq[r].seen.stages, {}}
           \/ \E q \in Quote!Quotations : y.seen.stages = stages[q],
           FoundAll(y, stages, items)
    PROVE  ItemsFit'
<1>1. /\ r \in Requests /\ quotationReq'[r] = y
      /\ \A x \in Requests \ {r} : quotationReq'[x] = quotationReq[x]
  BY DEF QuotationsFit, RequestBecomes, Unanswered
<1>2. Unanswered' \subseteq Unanswered
  BY <1>1 DEF Unanswered
<1>3. items' = items /\ stages' = stages /\ Quote!Quotations' = Quote!Quotations
  BY DEF TermsStay, Quote!Quotations
<1>4. \A q \in DOMAIN quotation' \ astray' : Itemised(quotation'[q], items[q])
  BY DEF TermsStay, ItemsFit, Itemised
<1>5. ASSUME NEW s \in Unanswered, NEW x \in Requests
      PROVE  ByOthers(s, quotationReq'[x].seen.stages)
  <2>1. CASE x # r
    BY <1>1, <2>1 DEF ItemsFit
  <2>2. CASE x = r
    <3>1. \A z \in {quotationReq[r].seen.stages, {}} : ByOthers(s, z)
      BY <1>1 DEF ItemsFit, ByOthers
    <3>2. \A q \in Quote!Quotations : ByOthers(s, stages[q])
      BY DEF ItemsFit
    <3> QED BY <1>1, <2>2, <3>1, <3>2
  <2> QED BY <2>1, <2>2
<1>6. ASSUME NEW x \in Requests PROVE FoundAll(quotationReq'[x], stages, items)
  <2>1. CASE x # r
    BY <1>1, <2>1 DEF ItemsFit
  <2>2. CASE x = r
    BY <1>1, <2>2
  <2> QED BY <2>1, <2>2
<1> QED BY <1>2, <1>3, <1>4, <1>5, <1>6 DEF ItemsFit

\* A step that leaves the tables alone.
LEMMA ItemsStay ==
    ASSUME QuotationsFit, ItemsFit, NEW r \in Unanswered, UNCHANGED Quote!tables,
           NEW y, RequestBecomes(r, y),
           \/ y.seen.stages \in {quotationReq[r].seen.stages, {}}
           \/ \E q \in Quote!Quotations : y.seen.stages = stages[q],
           FoundAll(y, stages, items)
    PROVE  ItemsFit'
<1>1. TermsStay
  BY DEF TermsStay, Quote!tables
<1> QED BY <1>1, ItemsRemain

LEMMA NothingFound ==
    ASSUME NEW y, NEW schedules, NEW batches,
           \/ y.pc \notin {"lockItems", "stages", "lockStages", "write"}
           \/ y.arg.op # "update"
           \/ y.arg.content.subtotal = {}
    PROVE  FoundAll(y, schedules, batches)
  BY DEF FoundAll

\* What has found all the items goes on with them.
LEMMA StillFound ==
    ASSUME NEW x, NEW y, NEW schedules, NEW batches, FoundAll(x, schedules, batches),
           Keeps(x, y), x.pc \in {"lockItems", "stages", "lockStages", "write"}
    PROVE  FoundAll(y, schedules, batches)
  BY DEF FoundAll, Keeps

LEMMA AnswerKeepsItems ==
    ASSUME QuotationsFit, ItemsFit, NEW r \in Unanswered,
           TermsStay \/ UNCHANGED Quote!tables, NEW outcome \in Quote!Finished, Quote!Answer(r, outcome)
    PROVE  ItemsFit'
<1>1. PICK y : y = Quote!At(outcome)
  OBVIOUS
<1>2. RequestBecomes(r, y)
  BY <1>1 DEF RequestBecomes, Quote!Answer
<1>3. y.pc = outcome /\ y.seen.stages = {}
  BY <1>1 DEF Quote!At, Quote!Request, Quote!NoView
<1>4. FoundAll(y, stages, items)
  BY <1>3, NothingFound DEF Quote!Finished
<1> QED BY <1>2, <1>3, <1>4, ItemsStay, ItemsRemain

LEMMA PendingIs ==
    ASSUME NEW r \in Requests, quotationReq[r].pc \in {"idle"} \cup Quote!Pending
    PROVE  r \in Unanswered
  BY DEF Unanswered, Quote!Pending, Quote!Finished

LEMMA ArrivalKeepsItems ==
    ASSUME QuotationsFit, ItemsFit, NEW r \in Requests, NEW a, NEW view, view.stages = {},
           NEW label \in {"check", "read"}, Quote!Arrive(r, a, view, label)
    PROVE  ItemsFit'
<1>1. PICK y : y = Quote!Request(label, a, view)
  OBVIOUS
<1>2. RequestBecomes(r, y) /\ UNCHANGED Quote!tables /\ quotationReq[r].pc = "idle"
  BY <1>1 DEF RequestBecomes, Quote!Arrive
<1>3. y.pc = label /\ y.seen.stages = {}
  BY <1>1 DEF Quote!Request
<1>4. FoundAll(y, stages, items)
  BY <1>3, NothingFound
<1> QED BY <1>2, <1>3, <1>4, ItemsStay, PendingIs

LEMMA OpeningKeepsItems ==
    ASSUME QuotationsFit, ItemsFit, NEW r \in Requests, NEW q, NEW a, Quote!Open(r, q, a)
    PROVE  ItemsFit'
<1>1. PICK row : row = quotation[q]
  OBVIOUS
<1>2. PICK view : view = [Quote!NoView EXCEPT !.row = row]
  OBVIOUS
<1>3. view.stages = {}
  BY <1>2 DEF Quote!NoView
<1>4. Quote!Arrive(r, a, view, "read")
  BY <1>1, <1>2 DEF Quote!Open
<1> QED BY <1>3, <1>4, ArrivalKeepsItems

\* A step that does no more than move its request, past a DELETE or before one.
LEMMA GotoKeepsItems ==
    ASSUME QuotationsFit, ItemsFit, NEW r \in Requests, NEW label, Quote!Goto(r, label),
           quotationReq[r].pc \in Quote!Pending, TermsStay \/ UNCHANGED Quote!tables,
           \/ quotationReq[r].pc \in {"lockItems", "stages", "lockStages", "write"}
           \/ label \notin {"lockItems", "stages", "lockStages", "write"}
           \/ quotationReq[r].arg.op # "update"
    PROVE  ItemsFit'
<1>1. PICK x : x = quotationReq[r]
  OBVIOUS
<1>2. PICK y : y = [x EXCEPT !.pc = label]
  OBVIOUS
<1>3. Keeps(x, y) /\ y.pc = label
  BY <1>1, <1>2, Mover, KeepsOn
<1>4. RequestBecomes(r, y)
  BY <1>1, <1>2 DEF Quote!Goto, RequestBecomes
<1>5. FoundAll(x, stages, items)
  BY <1>1 DEF ItemsFit
<1>6. FoundAll(y, stages, items)
  BY <1>1, <1>3, <1>5, StillFound, NothingFound DEF Keeps
<1> QED BY <1>1, <1>3, <1>4, <1>6, ItemsStay, ItemsRemain, PendingIs DEF Keeps

LEMMA ReadStagesKeepsItems ==
    ASSUME QuotationsFit, ItemsFit, NEW r \in Requests, Quote!ReadStages(r)
    PROVE  ItemsFit'
<1>1. PICK x : x = quotationReq[r]
  OBVIOUS
<1>2. x.pc = "read" /\ UNCHANGED Quote!tables /\ r \in Unanswered
  BY <1>1, PendingIs DEF Quote!ReadStages, Quote!Pending
<1>3. ReadingFits(x, quotation, store) /\ Quote!Subject(r) \in Quote!Quotations
  BY <1>1, <1>2, SubjectIs DEF Quote!Pending
<1>4. CASE Quote!Answer(r, "rejected")
  BY <1>2, <1>4, AnswerKeepsItems DEF Quote!Finished
<1>5. CASE ~Quote!Answer(r, "rejected")
  <2>1. PICK label, v : label = Quote!FirstStep(x.arg) /\ v = stages[Quote!Subject(r)]
    OBVIOUS
  <2>2. PICK y : y = [x EXCEPT !.seen.stages = v, !.pc = label]
    OBVIOUS
  <2>3. y.seen.stages = v /\ y.pc = label /\ y.arg = x.arg
    BY <1>1, <2>2, Mover DEF IsQuoteRequest, RequestsOver
  <2>4. RequestBecomes(r, y)
    <3>1. quotationReq' = [quotationReq EXCEPT ![r].seen.stages = v, ![r].pc = label]
      BY <1>1, <1>5, <2>1 DEF Quote!ReadStages
    <3> QED BY <1>1, <2>2, <3>1, Mover DEF RequestBecomes
  <2>5. x.arg.op = "update" /\ x.arg.content.subtotal # {} => label = "items"
    BY <2>1 DEF Quote!FirstStep
  <2>6. FoundAll(y, stages, items)
    BY <2>3, <2>5, NothingFound
  <2> QED BY <1>2, <1>3, <2>1, <2>3, <2>4, <2>6, ItemsStay
<1> QED BY <1>4, <1>5

\* The steps that take a number, and those that find what an update replaces.
LEMMA NumbersKeepItems ==
    ASSUME QuotationsFit, ItemsFit, NEW r \in Requests,
           Quote!TakeNumber(r) \/ Quote!NumberTaken(r)
    PROVE  ItemsFit'
<1>1. PICK x : x = quotationReq[r]
  OBVIOUS
<1>2. x.pc \in {"number", "insert"} /\ UNCHANGED Quote!tables /\ r \in Unanswered
  BY <1>1, PendingIs DEF Quote!TakeNumber, Quote!NumberTaken, Quote!Pending
<1>3. CASE Quote!Answer(r, "rejected")
  BY <1>2, <1>3, AnswerKeepsItems DEF Quote!Finished
<1>4. CASE Quote!TakeNumber(r)
  <2>1. PICK n : n = Quote!Cardinality(DOMAIN quotation) + 1
    OBVIOUS
  <2>2. PICK y : y = [x EXCEPT !.number = n, !.pc = "insert"]
    OBVIOUS
  <2>3. Keeps(x, y) /\ y.pc = "insert"
    BY <1>1, <2>2, Mover DEF IsQuoteRequest, RequestsOver, Keeps
  <2>4. RequestBecomes(r, y)
    <3>1. quotationReq' = [quotationReq EXCEPT ![r].number = n, ![r].pc = "insert"]
      BY <1>4, <2>1 DEF Quote!TakeNumber
    <3> QED BY <1>1, <2>2, <3>1, Mover DEF RequestBecomes
  <2> QED BY <1>1, <1>2, <2>3, <2>4, NothingFound, ItemsStay DEF Keeps
<1>5. CASE Quote!NumberTaken(r) /\ ~Quote!Answer(r, "rejected")
  <2>1. PICK n : n = x.draws + 1
    OBVIOUS
  <2>2. PICK y : y = [x EXCEPT !.draws = n, !.tries = 1, !.pc = "number"]
    OBVIOUS
  <2>3. Keeps(x, y) /\ y.pc = "number"
    BY <1>1, <2>2, Mover DEF IsQuoteRequest, RequestsOver, Keeps
  <2>4. RequestBecomes(r, y)
    <3>1. quotationReq' = [quotationReq EXCEPT ![r].draws = n, ![r].tries = 1,
                                               ![r].pc = "number"]
      BY <1>1, <1>5, <2>1, Mover DEF Quote!NumberTaken
    <3> QED BY <1>1, <2>2, <3>1, Mover DEF RequestBecomes
  <2> QED BY <1>1, <1>2, <2>3, <2>4, NothingFound, ItemsStay DEF Keeps
<1> QED BY <1>3, <1>4, <1>5

LEMMA FindItemsFindsAll ==
    ASSUME QuotationsFit, ItemsFit, NEW r \in Requests, Quote!FindItems(r)
    PROVE  ItemsFit'
<1>1. PICK x : x = quotationReq[r]
  OBVIOUS
<1>2. x.pc = "items" /\ UNCHANGED Quote!tables /\ r \in Unanswered
  BY <1>1, PendingIs DEF Quote!FindItems, Quote!Pending
<1>3. PICK q, v : q = x.arg.quotation /\ v = items[q]
  OBVIOUS
<1>4. PICK y : y = [x EXCEPT !.doomed.items = v, !.pc = "lockItems"]
  OBVIOUS
<1>5. /\ y.arg = x.arg /\ y.seen.stages = x.seen.stages /\ y.pc = "lockItems"
      /\ y.doomed.items = v
  BY <1>1, <1>4, Mover DEF IsQuoteRequest, RequestsOver
<1>6. RequestBecomes(r, y)
  <2>1. quotationReq' = [quotationReq EXCEPT ![r].doomed.items = v, ![r].pc = "lockItems"]
    BY <1>1, <1>3 DEF Quote!FindItems, Quote!Subject
  <2> QED BY <1>1, <1>4, <2>1, Mover DEF RequestBecomes
<1>7. FoundAll(y, stages, items)
  BY <1>3, <1>5 DEF FoundAll
<1> QED BY <1>1, <1>2, <1>5, <1>6, <1>7, ItemsStay

LEMMA FindStagesKeepsItems ==
    ASSUME QuotationsFit, ItemsFit, NEW r \in Requests, Quote!FindStages(r)
    PROVE  ItemsFit'
<1>1. PICK x : x = quotationReq[r]
  OBVIOUS
<1>2. x.pc = "stages" /\ UNCHANGED Quote!tables /\ r \in Unanswered
  BY <1>1, PendingIs DEF Quote!FindStages, Quote!Pending
<1>3. PICK v : v = stages[Quote!Subject(r)]
  OBVIOUS
<1>4. PICK y : y = [x EXCEPT !.doomed.stages = v, !.pc = "lockStages"]
  OBVIOUS
<1>5. Keeps(x, y) /\ y.pc = "lockStages"
  BY <1>1, <1>4, Mover DEF IsQuoteRequest, RequestsOver, Keeps
<1>6. RequestBecomes(r, y)
  <2>1. quotationReq' = [quotationReq EXCEPT ![r].doomed.stages = v, ![r].pc = "lockStages"]
    BY <1>3 DEF Quote!FindStages
  <2> QED BY <1>1, <1>4, <2>1, Mover DEF RequestBecomes
<1>7. FoundAll(x, stages, items)
  BY <1>1 DEF ItemsFit
<1>8. FoundAll(y, stages, items)
  BY <1>2, <1>5, <1>7, StillFound
<1> QED BY <1>1, <1>2, <1>5, <1>6, <1>8, ItemsStay DEF Keeps

\* A transaction that starts again finds its items again.
LEMMA RetryKeepsItems ==
    ASSUME QuotationsFit, ItemsFit, NEW r \in Requests, Quote!TransientError(r)
    PROVE  ItemsFit'
<1>1. PICK x : x = quotationReq[r]
  OBVIOUS
<1>2. /\ UNCHANGED Quote!tables /\ x.pc \in Quote!Pending /\ r \in Unanswered
      /\ x.pc = "insert" \/ x.arg.op = "update"
  <2>1. UNCHANGED Quote!tables /\ Quote!InTransaction(r)
    BY DEF Quote!TransientError
  <2>2. x.pc \in Quote!Pending /\ (x.pc = "insert" \/ x.arg.op = "update")
    BY <1>1, <2>1 DEF Quote!InTransaction, Quote!Pending
  <2> QED BY <1>1, <2>1, <2>2, PendingIs
<1>3. CASE Quote!Answer(r, "failed")
  BY <1>2, <1>3, AnswerKeepsItems DEF Quote!Finished
<1>4. CASE ~Quote!Answer(r, "failed")
  <2>1. PICK n, label :
            /\ n = x.tries + 1
            /\ label = IF x.pc = "insert" THEN x.pc ELSE Quote!FirstStep(x.arg)
    OBVIOUS
  <2>2. quotationReq' = [quotationReq EXCEPT ![r].tries = n, ![r].doomed = Quote!NoRows,
                                             ![r].pc = label]
    BY <1>1, <1>4, <2>1, Mover DEF Quote!TransientError
  <2>3. PICK y : y = [x EXCEPT !.tries = n, !.doomed = Quote!NoRows, !.pc = label]
    OBVIOUS
  <2>4. y.arg = x.arg /\ y.seen.stages = x.seen.stages /\ y.pc = label
    BY <1>1, <2>3, Mover DEF IsQuoteRequest, RequestsOver
  <2>5. RequestBecomes(r, y)
    BY <1>1, <2>2, <2>3, Mover DEF RequestBecomes
  <2>6. label = "insert" \/ label = "items" \/ x.arg.content.subtotal = {}
    BY <1>2, <2>1 DEF Quote!FirstStep
  <2>7. FoundAll(y, stages, items)
    BY <2>4, <2>6, NothingFound
  <2> QED BY <1>1, <1>2, <2>4, <2>5, <2>7, ItemsStay
<1> QED BY <1>3, <1>4

LEMMA JudgedGrows ==
    ASSUME NEW r, Quote!Judge(r) PROVE astray \subseteq astray'
  BY DEF Quote!Judge

LEMMA UploadKeepsItems ==
    ASSUME QuotationsFit, ItemsFit, NEW r \in Requests, Quote!UploadDocument(r)
    PROVE  ItemsFit'
<1>1. /\ UNCHANGED <<quotation, items, stages, mailed>> /\ Quote!Judge(r)
      /\ Quote!Goto(r, "write") /\ quotationReq[r].pc = "upload"
  BY DEF Quote!UploadDocument
<1>2. TermsStay
  BY <1>1, JudgedGrows DEF TermsStay
<1>3. ReadingFits(quotationReq[r], quotation, store)
  BY <1>1, SubjectIs DEF Quote!Pending
<1>4. quotationReq[r].arg.op # "update"
  BY <1>1, <1>3 DEF ReadingFits
<1> QED BY <1>1, <1>2, <1>4, GotoKeepsItems DEF Quote!Pending

LEMMA CommitStatusKeepsItems ==
    ASSUME QuotationsFit, ItemsFit, NEW r \in Requests, Quote!CommitStatus(r)
    PROVE  ItemsFit'
<1>1. PICK q, op : q = Quote!Subject(r) /\ op = quotationReq[r].arg.op
  OBVIOUS
<1>2. /\ quotationReq[r].pc = "write" /\ UNCHANGED <<items, stages>> /\ Quote!Judge(r)
      /\ Quote!Goto(r, "mail") \/ Quote!Answer(r, "done")
  BY DEF Quote!CommitStatus
<1>3. PICK row \in Quote!QuotationRow : q \in DOMAIN quotation /\ row = quotation[q]
  BY <1>1, <1>2, SubjectIs DEF Quote!Pending
<1>4. PICK status, pdf : status = Quote!Becomes[op] /\ pdf = (row.pdf \/ op = "send")
  OBVIOUS
<1> DEFINE n == [row EXCEPT !.status = status, !.pdf = pdf]
<1>5. n.total = row.total /\ n.subtotal = row.subtotal /\ n.charges = row.charges
  BY DEF Quote!QuotationRow
<1>6. quotation' = [quotation EXCEPT ![q] = n]
  <2>1. quotation' = [quotation EXCEPT ![q].status = status, ![q].pdf = @ \/ op = "send"]
    BY <1>1, <1>4 DEF Quote!CommitStatus
  <2> QED BY <1>3, <1>4, <2>1 DEF QuotationsFit, SheetsFit
<1> HIDE DEF n
<1>7. TermsStay
  BY <1>2, <1>3, <1>5, <1>6, JudgedGrows DEF TermsStay, QuotationsFit, SheetsFit
<1>8. CASE Quote!Goto(r, "mail")
  BY <1>2, <1>7, <1>8, GotoKeepsItems DEF Quote!Pending
<1>9. CASE Quote!Answer(r, "done")
  BY <1>2, <1>7, <1>9, AnswerKeepsItems, PendingIs DEF Quote!Pending, Quote!Finished
<1> QED BY <1>2, <1>8, <1>9

LEMMA StartMailKeepsItems ==
    ASSUME QuotationsFit, ItemsFit, NEW r \in Requests, Quote!StartMail(r)
    PROVE  ItemsFit'
<1>1. /\ quotationReq[r].pc = "mail" /\ Quote!Answer(r, "done")
      /\ UNCHANGED <<quotation, items, stages, astray>>
  BY DEF Quote!StartMail
<1>2. TermsStay
  BY <1>1 DEF TermsStay
<1> QED BY <1>1, <1>2, AnswerKeepsItems, PendingIs DEF Quote!Pending, Quote!Finished

\* The steps that check a schedule or wait for other transactions.
LEMMA ChecksKeepItems ==
    ASSUME QuotationsFit, ItemsFit, NEW r \in Requests,
           Quote!CheckPlan(r) \/ Quote!LockItems(r) \/ Quote!LockStages(r)
    PROVE  ItemsFit'
<1>1. UNCHANGED Quote!tables /\ quotationReq[r].pc \in {"check", "lockItems", "lockStages"}
  BY DEF Quote!CheckPlan, Quote!LockItems, Quote!LockStages
<1>2. r \in Unanswered
  BY <1>1, PendingIs DEF Quote!Pending
<1>3. CASE Quote!Answer(r, "rejected")
  BY <1>1, <1>2, <1>3, AnswerKeepsItems DEF Quote!Finished
<1>4. CASE quotationReq[r].pc = "check" /\ Quote!Goto(r, "number")
  BY <1>1, <1>4, GotoKeepsItems DEF Quote!Pending
<1>5. ASSUME quotationReq[r].pc # "check", NEW label \in {"stages", "write"},
             Quote!Goto(r, label)
      PROVE  ItemsFit'
  BY <1>1, <1>5, GotoKeepsItems DEF Quote!Pending
<1> QED BY <1>3, <1>4, <1>5 DEF Quote!CheckPlan, Quote!LockItems, Quote!LockStages

\* What holds of the others when a request has written the schedule of q itself.
LEMMA OthersAfterSchedule ==
    ASSUME QuotationsFit, ItemsFit, NEW r \in Unanswered, NEW q \in Quote!Quotations,
           Quote!Answer(r, "done"), \E b \in stages'[q] : b.by = r,
           \A b \in stages'[q] : b.by = r \/ b \in stages[q],
           \A z \in Quote!Quotations \ {q} : stages'[z] = stages[z] /\ items'[z] = items[z],
           q = r \/ q \in DOMAIN quotation
    PROVE  /\ \A s \in Unanswered' :
                  /\ \A z \in Quote!Quotations' : ByOthers(s, stages'[z])
                  /\ \A x \in Requests : ByOthers(s, quotationReq'[x].seen.stages)
           /\ \A x \in Requests : FoundAll(quotationReq'[x], stages', items')
<1>1. PICK y : y = Quote!At("done")
  OBVIOUS
<1>2. y.pc = "done" /\ y.seen.stages = {}
  BY <1>1 DEF Quote!At, Quote!Request, Quote!NoView
<1>3. /\ r \in Requests /\ quotationReq'[r] = y
      /\ \A x \in Requests \ {r} : quotationReq'[x] = quotationReq[x]
  BY <1>1 DEF QuotationsFit, Quote!Answer, Unanswered
<1>4. Unanswered' \subseteq Unanswered \ {r} /\ Quote!Quotations' = Quote!Quotations
  BY <1>2, <1>3 DEF Unanswered, Quote!Finished, Quote!Quotations
<1>5. ASSUME NEW s \in Unanswered \ {r}, NEW z \in Quote!Quotations
      PROVE  ByOthers(s, stages'[z])
  <2>1. ByOthers(s, stages[z])
    BY DEF ItemsFit
  <2> QED BY <2>1 DEF ByOthers
<1>6. ASSUME NEW s \in Unanswered \ {r}, NEW x \in Requests
      PROVE  ByOthers(s, quotationReq'[x].seen.stages)
  <2>1. CASE x = r
    BY <1>2, <1>3, <2>1 DEF ByOthers
  <2>2. CASE x # r
    BY <1>3, <2>2 DEF ItemsFit
  <2> QED BY <2>1, <2>2
<1>7. ASSUME NEW x \in Requests
      PROVE  FoundAll(quotationReq'[x], stages', items')
  <2>1. CASE x = r
    BY <1>2, <1>3, <2>1, NothingFound
  <2>2. CASE x # r
    <3>1. PICK w : w = quotationReq[x] /\ w = quotationReq'[x]
      BY <1>3, <2>2
    <3>2. CASE w.pc \notin {"lockItems", "stages", "lockStages", "write"}
      BY <3>1, <3>2, NothingFound
    <3>3. CASE w.pc \in {"lockItems", "stages", "lockStages", "write"}
      <4>1. w.arg.quotation \in DOMAIN quotation /\ w.arg.quotation \in Quote!Quotations
        BY <3>1, <3>3, SubjectIs DEF Quote!Pending, Quote!Subject
      <4>2. CASE w.arg.quotation # q
        <5>1. FoundAll(w, stages, items)
          BY <3>1 DEF ItemsFit
        <5> QED BY <3>1, <4>1, <4>2, <5>1 DEF FoundAll
      <4>3. CASE w.arg.quotation = q
        <5>1. ByOthers(r, w.seen.stages)
          BY <3>1 DEF ItemsFit
        <5>2. w.seen.stages # stages'[q]
          BY <5>1 DEF ByOthers
        <5> QED BY <3>1, <4>3, <5>2 DEF FoundAll
      <4> QED BY <4>2, <4>3
    <3> QED BY <3>2, <3>3
  <2> QED BY <2>1, <2>2
<1> QED BY <1>4, <1>5, <1>6, <1>7

LEMMA CommitUpdateKeepsItems ==
    ASSUME QuotationsFit, ItemsFit, NEW r \in Requests, Quote!CommitUpdate(r)
    PROVE  ItemsFit'
<1>1. PICK x, q : x = quotationReq[r] /\ q = Quote!Subject(r)
  OBVIOUS
<1>2. x.pc = "write" /\ x.arg.op = "update" /\ r \in Unanswered
  BY <1>1, PendingIs DEF Quote!CommitUpdate, Quote!Pending
<1>3. /\ ReadingFits(x, quotation, store) /\ q \in DOMAIN quotation /\ q \in Quote!Quotations
      /\ q = x.arg.quotation
  BY <1>1, <1>2, SubjectIs DEF Quote!Pending, Quote!Subject
<1>4. CASE Quote!TotalAfter(r) < 0
  <2>1. UNCHANGED Quote!tables /\ Quote!Answer(r, "failed")
    BY <1>4 DEF Quote!CommitUpdate
  <2> QED BY <1>2, <2>1, AnswerKeepsItems DEF Quote!Finished
<1>5. CASE ~(Quote!TotalAfter(r) < 0)
  <2>1. PICK content \in Contents : content = x.arg.content
    BY <1>1, <1>2, Mover, RequestIs, ContentIs
  <2>2. PICK row \in Quote!QuotationRow : row = quotation[q]
    BY <1>3 DEF QuotationsFit, SheetsFit
  <2>3. PICK seen \in Quote!QuotationRow : seen = x.seen.row
    BY <1>3 DEF ReadingFits
  <2>4. PICK s, c, total : /\ s = Quote!Given(content.subtotal, row.subtotal)
                           /\ c = Quote!Given(content.charges, seen.charges)
                           /\ total = Quote!TotalAfter(r)
    OBVIOUS
  <2> DEFINE n == [row EXCEPT !.subtotal = s, !.charges = c, !.total = total]
  <2>5. n.subtotal = s /\ n.charges = c /\ n.total = total
    BY DEF Quote!QuotationRow
  <2>6. Quote!RowAfter(r) = n
    BY <1>1, <2>1, <2>2, <2>3, <2>4, Zenon DEF Quote!RowAfter
  <2> HIDE DEF n
  <2>7. /\ DOMAIN quotation' = DOMAIN quotation /\ quotation'[q] = n
        /\ \A z \in DOMAIN quotation \ {q} : quotation'[z] = quotation[z]
    <3>1. quotation' = [quotation EXCEPT ![q] = n]
      BY <1>1, <1>5, <2>6 DEF Quote!CommitUpdate
    <3> QED BY <1>3, <3>1 DEF QuotationsFit, SheetsFit
  <2>8. PICK batches : batches = Quote!ScheduleAfter(r)
    OBVIOUS
  <2>9. /\ stages'[q] = batches
        /\ \A z \in Quote!Quotations \ {q} : stages'[z] = stages[z]
    <3>1. stages' = [stages EXCEPT ![q] = batches]
      BY <1>1, <1>5, <2>8 DEF Quote!CommitUpdate
    <3> QED BY <1>3, <3>1 DEF QuotationsFit, SheetsFit
  <2>10. (\E b \in batches : b.by = r) /\ (\A b \in batches : b.by = r \/ b \in stages[q])
    <3>1. PICK b : b = Quote!StageBatch(r, Quote!PlanAfter(r), Quote!TotalAfter(r))
      OBVIOUS
    <3>2. b.by = r
      BY <3>1 DEF Quote!StageBatch
    <3>3. b \in batches /\ \A k \in batches : k \in stages[q] \/ k = b
      BY <1>1, <2>8, <3>1 DEF Quote!ScheduleAfter
    <3> QED BY <3>2, <3>3
  <2>11. PICK b : b = Quote!ItemBatch(r, Quote!Given(content.subtotal, 0))
    OBVIOUS
  <2>12. /\ \A z \in Quote!Quotations \ {q} : items'[z] = items[z]
         /\ content.subtotal = {} => items'[q] = items[q]
         /\ content.subtotal # {} => items'[q] = (items[q] \ x.doomed.items) \cup {b}
    <3>1. items' = IF content.subtotal = {} THEN items
                   ELSE [items EXCEPT ![q] = (items[q] \ x.doomed.items) \cup {b}]
      BY <1>1, <1>5, <2>1, <2>11 DEF Quote!CommitUpdate
    <3> QED BY <1>3, <3>1 DEF QuotationsFit, SheetsFit
  <2>13. Quote!Answer(r, "done") /\ Quote!Judge(r)
    BY <1>5 DEF Quote!CommitUpdate
  <2>14. ASSUME q \notin astray' PROVE Itemised(quotation'[q], items'[q])
    <3>1. x.seen = Quote!View(q) /\ q \notin astray
      BY <1>1, <2>13, <2>14 DEF Quote!Judge
    <3>2. x.seen.row = quotation[q] /\ x.seen.stages = stages[q]
      BY <3>1 DEF Quote!View
    <3>3. PICK k : items[q] = {k} /\ k.amount = row.subtotal
      BY <1>3, <2>2, <3>1 DEF ItemsFit, Itemised
    <3>4. total = s + c
      BY <1>1, <2>1, <2>2, <2>3, <2>4, <3>2 DEF Quote!TotalAfter
    <3>5. CASE content.subtotal = {}
      <4>1. s = row.subtotal
        BY <2>4, <3>5 DEF Quote!Given
      <4> QED BY <2>5, <2>7, <2>12, <3>3, <3>4, <3>5, <4>1 DEF Itemised
    <3>6. CASE content.subtotal # {}
      <4>1. items[q] \subseteq x.doomed.items
        BY <1>1, <1>2, <1>3, <2>1, <3>2, <3>6 DEF ItemsFit, FoundAll
      <4>2. b.amount = s
        BY <2>4, <2>11, <3>6 DEF Quote!Given, Quote!ItemBatch
      <4>3. items'[q] = {b}
        BY <2>12, <3>6, <4>1
      <4> QED BY <2>5, <2>7, <3>4, <4>2, <4>3 DEF Itemised
    <3> QED BY <3>5, <3>6
  <2>15. \A z \in DOMAIN quotation' \ astray' : Itemised(quotation'[z], items'[z])
    <3>1. astray \subseteq astray' /\ DOMAIN quotation \subseteq Quote!Quotations
      BY <2>13, JudgedGrows DEF QuotationsFit, SheetsFit
    <3>2. \A z \in DOMAIN quotation \ astray : Itemised(quotation[z], items[z])
      BY DEF ItemsFit
    <3> QED BY <2>7, <2>12, <2>14, <3>1, <3>2
  <2>16. /\ \A z \in Unanswered' :
                /\ \A k \in Quote!Quotations' : ByOthers(z, stages'[k])
                /\ \A k \in Requests : ByOthers(z, quotationReq'[k].seen.stages)
         /\ \A k \in Requests : FoundAll(quotationReq'[k], stages', items')
    BY <1>2, <1>3, <2>9, <2>10, <2>12, <2>13, OthersAfterSchedule
  <2> QED BY <2>15, <2>16 DEF ItemsFit
<1> QED BY <1>4, <1>5

LEMMA InsertKeepsItems ==
    ASSUME QuotationsFit, ItemsFit, NEW r \in Requests, Quote!Insert(r)
    PROVE  ItemsFit'
<1>1. PICK x : x = quotationReq[r]
  OBVIOUS
<1>2. x.pc = "insert" /\ r \in Unanswered
  BY <1>1, PendingIs DEF Quote!Insert, Quote!Pending
<1>3. /\ r \notin DOMAIN quotation /\ CreationFits(r, x)
      /\ Quote!Subject(r) = r /\ r \in Quote!Quotations
  BY <1>1, <1>2, Mover DEF RequestSound, CreationFits, Quote!Subject, Quote!Quotations
<1>4. CASE Quote!NewRow(r).total < 0
  <2>1. UNCHANGED Quote!tables /\ Quote!Answer(r, "failed")
    BY <1>4 DEF Quote!Insert
  <2> QED BY <1>2, <2>1, AnswerKeepsItems DEF Quote!Finished
<1>5. CASE ~(Quote!NewRow(r).total < 0)
  <2>1. PICK n, plan, batch, b :
            /\ n = Quote!NewRow(r) /\ plan = Quote!Given(x.arg.content.plan, Default)
            /\ batch = Quote!StageBatch(r, plan, n.total) /\ b = Quote!ItemBatch(r, n.subtotal)
    OBVIOUS
  <2>2. /\ quotation' = [z \in DOMAIN quotation \cup {r} |-> IF z = r THEN n ELSE quotation[z]]
        /\ items' = [items EXCEPT ![r] = {b}]
        /\ stages' = [stages EXCEPT ![r] = {batch}]
        /\ Quote!Answer(r, "done") /\ astray' = astray
    BY <1>1, <1>3, <1>5, <2>1 DEF Quote!Insert
  <2>3. n.total = n.subtotal + n.charges /\ b.amount = n.subtotal /\ batch.by = r
    BY <2>1 DEF Quote!NewRow, Quote!ItemBatch, Quote!StageBatch
  <2>4. /\ items'[r] = {b} /\ stages'[r] = {batch}
        /\ \A z \in Quote!Quotations \ {r} : stages'[z] = stages[z] /\ items'[z] = items[z]
    BY <1>3, <2>2 DEF QuotationsFit, SheetsFit
  <2>5. DOMAIN quotation \subseteq Quote!Quotations
    BY DEF QuotationsFit, SheetsFit
  <2>6. ASSUME NEW z \in DOMAIN quotation' \ astray'
        PROVE  Itemised(quotation'[z], items'[z])
    <3>1. CASE z = r
      BY <2>2, <2>3, <2>4, <3>1 DEF Itemised
    <3>2. CASE z # r
      <4>1. z \in DOMAIN quotation \ astray /\ quotation'[z] = quotation[z]
        BY <2>2, <3>2
      <4> QED BY <2>4, <2>5, <3>2, <4>1 DEF ItemsFit
    <3> QED BY <3>1, <3>2
  <2>7. /\ \A z \in Unanswered' :
               /\ \A k \in Quote!Quotations' : ByOthers(z, stages'[k])
               /\ \A k \in Requests : ByOthers(z, quotationReq'[k].seen.stages)
        /\ \A k \in Requests : FoundAll(quotationReq'[k], stages', items')
    BY <1>2, <1>3, <2>2, <2>3, <2>4, OthersAfterSchedule
  <2> QED BY <2>6, <2>7 DEF ItemsFit
<1> QED BY <1>4, <1>5

LEMMA ItemsFitInit == ASSUME Quote!Init PROVE ItemsFit
<1>1. ASSUME NEW q \in Drafts PROVE Itemised(quotation[q], items[q])
  <2>1. PICK n : quotation[q] = Quote!Seeded(n)
    BY DEF Quote!Init
  <2>2. PICK b : b = Quote!ItemBatch(Quote!Nobody, Opening)
    OBVIOUS
  <2>3. items[q] = {b}
    BY <2>2 DEF Quote!Init, Quote!Quotations
  <2>4. b.amount = Opening
    BY <2>2 DEF Quote!ItemBatch
  <2>5. /\ quotation[q].total = Opening /\ quotation[q].subtotal = Opening
        /\ quotation[q].charges = 0
    BY <2>1 DEF Quote!Seeded
  <2> QED BY <2>3, <2>4, <2>5, QuoteConstants DEF Itemised
<1>2. DOMAIN quotation = Drafts
  BY DEF Quote!Init
<1>3. ASSUME NEW s \in Requests, NEW q \in Quote!Quotations
      PROVE  ByOthers(s, stages[q])
  <2>1. PICK b : b = Quote!StageBatch(Quote!Nobody, Default, Opening)
    OBVIOUS
  <2>2. stages[q] \subseteq {b}
    BY <2>1 DEF Quote!Init
  <2>3. b.by = Quote!Nobody
    BY <2>1 DEF Quote!StageBatch
  <2> QED BY <2>2, <2>3, QuoteConstants DEF ByOthers
<1>4. ASSUME NEW r \in Requests
      PROVE  quotationReq[r].pc = "idle" /\ quotationReq[r].seen.stages = {}
  <2>1. quotationReq[r] = Quote!At("idle")
    BY DEF Quote!Init
  <2> QED BY <2>1 DEF Quote!At, Quote!Request, Quote!NoView
<1>5. \A r \in Requests : FoundAll(quotationReq[r], stages, items)
  BY <1>4, NothingFound
<1> QED BY <1>1, <1>2, <1>3, <1>4, <1>5 DEF ItemsFit, ByOthers, Unanswered

LEMMA ItemsFitNext ==
    ASSUME QuotationsFit, ItemsFit, [Quote!Next]_(Quote!vars)
    PROVE  ItemsFit'
<1>1. ASSUME NEW r \in Requests, NEW c \in Contents, Quote!Create(r, c)
      PROVE  ItemsFit'
  <2>1. PICK a, view : /\ a = [op |-> "create", quotation |-> r, content |-> c]
                       /\ view = Quote!NoView
    OBVIOUS
  <2>2. Quote!Arrive(r, a, view, "check")
    BY <1>1, <2>1 DEF Quote!Create
  <2>3. view.stages = {}
    BY <2>1 DEF Quote!NoView
  <2> QED BY <2>2, <2>3, ArrivalKeepsItems
<1>2. ASSUME NEW r \in Requests, NEW q, NEW c, Quote!Update(r, q, c)
      PROVE  ItemsFit'
  BY <1>2, OpeningKeepsItems DEF Quote!Update
<1>3. ASSUME NEW r \in Requests, NEW q, NEW op, Quote!Simple(r, q, op)
      PROVE  ItemsFit'
  BY <1>3, OpeningKeepsItems DEF Quote!Simple
<1>4. ASSUME NEW r \in Requests, Quote!Handle(r) PROVE ItemsFit'
  BY <1>4, ChecksKeepItems, ReadStagesKeepsItems, NumbersKeepItems, InsertKeepsItems,
     FindItemsFindsAll, FindStagesKeepsItems, CommitUpdateKeepsItems, UploadKeepsItems,
     CommitStatusKeepsItems, StartMailKeepsItems
     DEF Quote!Handle
<1>5. ASSUME NEW r \in Requests, Quote!Crash(r) PROVE ItemsFit'
  BY <1>5, AnswerKeepsItems, PendingIs DEF Quote!Crash, Quote!Finished
<1>6. CASE UNCHANGED Quote!vars
  BY <1>6 DEF Quote!vars, ItemsFit, Unanswered, Quote!Quotations
<1> QED BY <1>1, <1>2, <1>3, <1>4, <1>5, <1>6, RetryKeepsItems DEF Quote!Next, Quote!Quiet

LEMMA ItemsAlwaysFit == CrmSpec => []ItemsFit
<1>1. Quote!Init => ItemsFit
  BY ItemsFitInit
<1>2. QuotationsFit /\ ItemsFit /\ [Quote!Next]_(Quote!vars) => ItemsFit'
  BY ItemsFitNext
<1> QED BY <1>1, <1>2, EachPart, QuotationsAlwaysFit, PTL DEF Quote!Spec

\* Whatever overlaps, starts again or fails, a quotation that no request wrote on an
\* outdated reading shows the sum of its items, and its total is that sum with the
\* charges (quotation.service.ts, create, update).
THEOREM SubtotalsAddUp == CrmSpec => []ItemsAddUp
<1>1. QuotationsFit /\ ItemsFit => ItemsAddUp
  <2>1. ASSUME QuotationsFit, ItemsFit, NEW q \in DOMAIN quotation \ astray
        PROVE  /\ quotation[q].subtotal =
                      Quote!MapThenSumSet(LAMBDA k : k.amount, items[q])
               /\ quotation[q].total = quotation[q].subtotal + quotation[q].charges
    <3>1. PICK b : items[q] = {b} /\ b.amount = quotation[q].subtotal
      BY <2>1 DEF ItemsFit, Itemised
    <3>2. quotation[q] \in Quote!QuotationRow
      BY <2>1 DEF QuotationsFit, SheetsFit
    <3>3. b.amount \in Int
      BY <3>1, <3>2 DEF Quote!QuotationRow
    <3> QED BY <2>1, <3>1, <3>3, OneBatch DEF ItemsFit, Itemised
  <2> QED BY <2>1 DEF ItemsAddUp, Quote!ItemsAddUp
<1> QED BY <1>1, QuotationsAlwaysFit, ItemsAlwaysFit, PTL

-----------------------------------------------------------------------------
(* The amounts of a schedule.                                              *)

LEMMA SumOverIs == ASSUME NEW f PROVE Quote!SumOver(f) = SumOf(f)
  BY DEF Quote!SumOver, SumOf, Quote!MapThenSumSet, Quote!MapThenFoldSet, MapThenSumSet,
         MapThenFoldSet

TermsOf(total, due, parts) == [total |-> total, due |-> due, parts |-> parts]

\* A total shared out by percentages that miss the whole by little.
Nearly(total, sum) ==
    /\ -(10 * total) <= total * sum - 100000 * total
    /\ total * sum - 100000 * total <= 10 * total

LEMMA NearlyWhole ==
    ASSUME NEW total \in Nat, NEW sum \in Int, Quote!Abs(sum - 100000) < 10
    PROVE  Nearly(total, sum)
<1>1. PICK d \in -9..9 : sum = 100000 + d
  <2>1. -10 < sum - 100000 /\ sum - 100000 < 10
    BY SMT DEF Quote!Abs
  <2>2. sum - 100000 \in -9..9
    BY <2>1, SMT
  <2> QED BY <2>2, SMT
<1>2. total * sum = total * 100000 + total * d
  BY <1>1, SMT
<1>3. -(10 * total) <= total * d /\ total * d <= 10 * total
  <2>1. total * (10 - d) \in Nat /\ total * (10 + d) \in Nat
    BY <1>1, SMT
  <2>2. total * (10 - d) = 10 * total - total * d /\ total * (10 + d) = 10 * total + total * d
    BY SMT
  <2>3. PICK k \in Int : k = total * d
    BY SMT
  <2> QED BY <2>1, <2>2, <2>3, SMT
<1>4. PICK k \in Int : k = total * d
  BY SMT
<1> QED BY <1>2, <1>3, <1>4, SMT DEF Nearly

LEMMA DueFits ==
    ASSUME NEW plan \in Seq(Nat) \ {<<>>}, Quote!Accepted(plan), NEW total \in Nat
    PROVE  /\ Quote!Due(plan, total) \in Nat
           /\ Quote!Lifecycle!Fits(TermsOf(total, Quote!Due(plan, total), Len(plan)))
<1>1. PICK n \in Nat : n = Len(plan) /\ DOMAIN plan = 1..n
  BY SMT
<1>2. PICK S : S = 1..n
  BY Zenon
<1>3. DOMAIN plan = S /\ IsFiniteSet(S) /\ Cardinality(S) = n
  <2>1. IsFiniteSet(1..n) /\ Cardinality(1..n) = n
    BY FS_Interval
  <2> QED BY <1>1, <1>2, <2>1
<1>4. plan \in [S -> Nat] /\ plan \in [S -> Int]
  BY <1>1, <1>2
<1>5. PICK exact : exact = [k \in S |-> total * plan[k]]
  OBVIOUS
<1>6. exact \in [S -> Nat] /\ exact \in [S -> Int] /\ \A k \in S : exact[k] = total * plan[k]
  BY <1>4, <1>5
<1>7. PICK w \in Nat, e \in Nat : w = 100000 /\ e = 50000
  BY SMT
<1>8. PICK due : due = [k \in S |-> (total * plan[k] + e) \div w]
  OBVIOUS
<1>9. ASSUME NEW k \in S
      PROVE  due[k] \in Nat /\ -e <= w * due[k] - exact[k] /\ w * due[k] - exact[k] <= e
  <2>1. PICK m \in Nat : m = exact[k] /\ m = total * plan[k]
    BY <1>6
  <2>2. PICK d : d = due[k] /\ d = (m + 50000) \div 100000
    BY <1>7, <1>8, <2>1, SMT
  <2>3. d \in Nat /\ -50000 <= 100000 * d - m /\ 100000 * d - m <= 50000
    BY <2>2, SMT
  <2> QED BY <1>7, <2>1, <2>2, <2>3, SMT
<1>10. due \in [S -> Nat] /\ due \in [S -> Int]
  BY <1>8, <1>9
<1>11. Quote!Due(plan, total) = SumOf(due) /\ Quote!SumOver(plan) = SumOf(plan)
  BY <1>3, <1>7, <1>8, SumOverIs, SMT DEF Quote!Due
<1>12. PICK d \in Nat, p \in Int : d = SumOf(due) /\ p = SumOf(plan)
  BY <1>3, <1>4, <1>10, SumOfNats, SumOfType
<1>13. SumOf(exact) = total * SumOf(plan)
  <2>1. PICK c \in Int : c = total
    OBVIOUS
  <2>2. PICK f \in [S -> Int], h \in [S -> Int] : f = plan /\ h = exact
    BY <1>4, <1>6
  <2>3. \A k \in S : h[k] = c * f[k]
    BY <1>6, <2>1, <2>2
  <2>4. SumOf(h) = c * SumOf(f)
    BY <1>3, <2>3, SumOfScaled
  <2> QED BY <2>1, <2>2, <2>4
<1>14. /\ -(e * n) <= w * SumOf(due) - SumOf(exact)
       /\ w * SumOf(due) - SumOf(exact) <= e * n
  <2>1. /\ w \in Int /\ e \in Nat /\ IsFiniteSet(S) /\ due \in [S -> Int]
        /\ exact \in [S -> Int]
    BY <1>3, <1>6, <1>10
  <2>2. \A k \in S : -e <= w * due[k] - exact[k] /\ w * due[k] - exact[k] <= e
    BY <1>9
  <2>3. /\ -(e * Cardinality(S)) <= w * SumOf(due) - SumOf(exact)
        /\ w * SumOf(due) - SumOf(exact) <= e * Cardinality(S)
    BY <2>1, <2>2, SumOfRounded
  <2> QED BY <1>3, <2>3
<1>15. /\ -(50000 * n) <= 100000 * d - total * p
       /\ 100000 * d - total * p <= 50000 * n
  BY <1>7, <1>12, <1>13, <1>14, SMT
<1>16. Nearly(total, p)
  <2>1. Quote!Abs(p - 100000) < 10
    BY <1>11, <1>12, SMT DEF Quote!Accepted
  <2> QED BY <1>12, <2>1, NearlyWhole
<1>17. 100000 * Quote!Lifecycle!Abs(d - total) <= 10 * total + 50000 * n
  <2>1. PICK x \in Int : x = total * p
    BY SMT
  <2>2. /\ 100000 * (d - total) <= 10 * total + 50000 * n
        /\ 100000 * (total - d) <= 10 * total + 50000 * n
    BY <1>15, <1>16, <2>1, SMT DEF Nearly
  <2> QED BY <2>2, SMT DEF Quote!Lifecycle!Abs
<1> QED BY <1>1, <1>11, <1>12, <1>17, SMT DEF Quote!Lifecycle!Fits, TermsOf

\* What is read from one batch of stages.
LEMMA RenderedOne ==
    ASSUME NEW row, NEW b, b.due \in Nat, b.plan \in Seq(Nat), NEW view, view.row = row,
           view.stages = {b}
    PROVE  Quote!Rendered(view) = [total |-> row.total, due |-> b.due, parts |-> Len(b.plan)]
<1>1. Quote!MapThenSumSet(LAMBDA k : k.due, {b}) = b.due
  <2> DEFINE iter ==
                 CHOOSE g : g = [s \in SUBSET {b} |->
                                    IF s = {} THEN 0 ELSE Picked(s).due + g[s \ {Picked(s)}]]
  <2>1. Quote!MapThenSumSet(LAMBDA k : k.due, {b}) = iter[{b}]
    BY DEF Quote!MapThenSumSet, Quote!MapThenFoldSet, Picked
  <2>2. \A g : [s \in SUBSET {b} |->
                   IF s = {} THEN 0 ELSE Picked(s).due + g[s \ {Picked(s)}]]
              = [s \in SUBSET {b} |-> IF s = {} THEN 0 ELSE b.due + g[s \ {Picked(s)}]]
    <3>1. \A s \in SUBSET {b} : s # {} => Picked(s).due = b.due
      BY PickedIsIn
    <3> QED BY <3>1
  <2>3. iter = OneSum(b, b.due)
    BY <2>2 DEF OneSum
  <2>4. OneSum(b, b.due)[{b}] = b.due
    BY SumOverOne
  <2> QED BY <2>1, <2>3, <2>4
<1>2. Quote!MapThenSumSet(LAMBDA k : Quote!Len(k.plan), {b}) = Len(b.plan)
  <2> DEFINE iter ==
                 CHOOSE g : g = [s \in SUBSET {b} |->
                                    IF s = {} THEN 0 ELSE Len(Picked(s).plan) + g[s \ {Picked(s)}]]
  <2>1. Quote!MapThenSumSet(LAMBDA k : Len(k.plan), {b}) = iter[{b}]
    BY DEF Quote!MapThenSumSet, Quote!MapThenFoldSet, Picked
  <2>2. \A g : [s \in SUBSET {b} |->
                   IF s = {} THEN 0 ELSE Len(Picked(s).plan) + g[s \ {Picked(s)}]]
              = [s \in SUBSET {b} |-> IF s = {} THEN 0 ELSE Len(b.plan) + g[s \ {Picked(s)}]]
    <3>1. \A s \in SUBSET {b} : s # {} => Len(Picked(s).plan) = Len(b.plan)
      BY PickedIsIn
    <3> QED BY <3>1
  <2>3. iter = OneSum(b, Len(b.plan))
    BY <2>2 DEF OneSum
  <2>4. OneSum(b, Len(b.plan))[{b}] = Len(b.plan)
    BY SumOverOne
  <2> QED BY <2>1, <2>3, <2>4
<1> QED BY <1>1, <1>2 DEF Quote!Rendered

LEMMA PlanOfOne ==
    ASSUME NEW b, b.plan \in Seq(Nat)
    PROVE  Quote!FoldSet(LAMBDA k, plan : plan \o k.plan, <<>>, {b}) = b.plan
<1> DEFINE Folds(g) == g = [s \in SUBSET {b} |->
                               IF s = {} THEN <<>> ELSE g[s \ {Picked(s)}] \o Picked(s).plan]
       iter == CHOOSE g : Folds(g)
<1>1. Quote!FoldSet(LAMBDA k, plan : plan \o k.plan, <<>>, {b}) = iter[{b}]
  BY DEF Quote!FoldSet, Quote!MapThenFoldSet, Picked
<1>2. \A s \in SUBSET {b} : s # {} => s = {b} /\ Picked(s) = b /\ s \ {Picked(s)} = {}
  BY PickedIsIn
<1>3. \E g : Folds(g)
  <2>1. PICK h : h = [s \in SUBSET {b} |-> IF s = {} THEN <<>> ELSE <<>> \o b.plan]
    OBVIOUS
  <2>2. {} \in SUBSET {b} /\ h[{}] = <<>>
    BY <2>1
  <2>3. ASSUME NEW s \in SUBSET {b}
        PROVE  h[s] = IF s = {} THEN <<>> ELSE h[s \ {Picked(s)}] \o Picked(s).plan
    BY <1>2, <2>1, <2>2
  <2>4. h = [s \in SUBSET {b} |-> IF s = {} THEN <<>> ELSE h[s \ {Picked(s)}] \o Picked(s).plan]
    BY <2>1, <2>3
  <2> QED BY <2>4
<1>4. Folds(iter)
  <2> HIDE DEF Folds
  <2> QED BY <1>3
<1> HIDE DEF iter
<1>5. iter[{}] = <<>> /\ iter[{b}] = iter[{}] \o b.plan
  <2>1. {} \in SUBSET {b} /\ {b} \in SUBSET {b} /\ {b} # {}
    OBVIOUS
  <2>2. \A s \in SUBSET {b} : iter[s] = IF s = {} THEN <<>> ELSE iter[s \ {Picked(s)}] \o Picked(s).plan
    BY <1>4
  <2> HIDE DEF Folds
  <2>3. iter[{}] = <<>>
    BY <2>1, <2>2
  <2>4. iter[{b}] = iter[{b} \ {Picked({b})}] \o Picked({b}).plan
    BY <2>1, <2>2
  <2>5. Picked({b}) = b /\ {b} \ {Picked({b})} = {}
    BY <1>2, <2>1
  <2> QED BY <2>3, <2>4, <2>5
<1>6. PICK p \in Seq(Nat) : p = b.plan
  OBVIOUS
<1>7. <<>> \o p = p
  OBVIOUS
<1> QED BY <1>1, <1>5, <1>6, <1>7

-----------------------------------------------------------------------------
(* What keeps the schedules of quotations fitting.                         *)

Plans == Seq(Nat) \ {<<>>}

\* The percentages of the batches of a reading, in one list.
PlanOf(batches) == Quote!FoldSet(LAMBDA b, plan : plan \o b.plan, <<>>, batches)

\* The parts of a batch of stages fit a total.
PartsFit(total, b) ==
    /\ b.plan \in Plans /\ b.due \in Nat
    /\ Quote!Lifecycle!Fits(TermsOf(total, b.due, Len(b.plan)))

\* The only schedule there is.
Scheduled(row, batches) == \E b : batches = {b} /\ PartsFit(row.total, b)

\* A schedule that is going to be written was accepted; a transaction that has found
\* the stages it replaces has found all there are, unless the schedule has changed
\* since it was read; and the document a send has uploaded shows what it read, unless
\* that was outdated.
Prepared(x, rows, schedules, docs, lost) ==
    /\ x.pc \in {"number", "insert"} =>
           Quote!Accepted(Quote!Given(x.arg.content.plan, Default))
    /\ x.arg.op = "update" /\ x.pc = "write" =>
           Quote!Accepted(Quote!Given(x.arg.content.plan, PlanOf(x.seen.stages)))
    /\ /\ x.arg.op = "update" /\ x.pc \in {"lockStages", "write"}
       /\ x.seen.stages = schedules[x.arg.quotation]
       => schedules[x.arg.quotation] \subseteq x.doomed.stages
    /\ /\ x.arg.op = "send" /\ x.pc = "write" /\ x.arg.quotation \notin lost
       /\ x.seen.row = rows[x.arg.quotation] /\ x.seen.stages = schedules[x.arg.quotation]
       => docs[x.arg.quotation] = Quote!Rendered(x.seen)
    /\ x.pc = "upload" => x.arg.op = "send"

SchedulesFit ==
    /\ \A q \in DOMAIN quotation : quotation[q].pdf => quotation[q].status # "DRAFT"
    /\ \A q \in DOMAIN quotation \ astray : Scheduled(quotation[q], stages[q])
    /\ \A r \in Requests : Prepared(quotationReq[r], quotation, stages, store, astray)

LEMMA PlanConstants ==
    Default \in Plans /\ Quote!Accepted(Default) /\ \A c \in Contents : c.plan \in SUBSET Plans
  BY PartsAssumption DEF Quote!QuotationsAssumption, Plans

LEMMA StoredIs ==
    ASSUME NEW p \in Plans
    PROVE  Quote!Stored(p) \in Plans /\ Len(Quote!Stored(p)) = Len(p)
<1>1. PICK n \in Nat : n = Len(p) /\ n # 0 /\ DOMAIN p = 1..n
  BY DEF Plans
<1>2. \A k \in 1..n : p[k] \in Nat /\ ((p[k] + 5) \div 10) * 10 \in Nat
  BY <1>1 DEF Plans
<1>3. PICK f : f = [k \in 1..n |-> ((p[k] + 5) \div 10) * 10]
  OBVIOUS
<1>4. f \in [1..n -> Nat]
  BY <1>2, <1>3
<1>5. f \in Seq(Nat) /\ Len(f) = n
  BY <1>4
<1>6. Quote!Stored(p) = f
  BY <1>1, <1>3 DEF Quote!Stored
<1> QED BY <1>1, <1>5, <1>6 DEF Plans

LEMMA BatchFits ==
    ASSUME NEW plan \in Plans, Quote!Accepted(plan), NEW total \in Nat, NEW r
    PROVE  /\ PartsFit(total, Quote!StageBatch(r, plan, total))
           /\ Quote!StageBatch(r, plan, total).by = r
<1>1. PICK b : b = Quote!StageBatch(r, plan, total)
  OBVIOUS
<1>2. b.plan = Quote!Stored(plan) /\ b.due = Quote!Due(plan, total) /\ b.by = r
  BY <1>1 DEF Quote!StageBatch
<1>3. /\ Quote!Due(plan, total) \in Nat
      /\ Quote!Lifecycle!Fits(TermsOf(total, Quote!Due(plan, total), Len(plan)))
  BY DueFits DEF Plans
<1> QED BY <1>1, <1>2, <1>3, StoredIs DEF PartsFit

\* What a document shows of a quotation with one schedule.
LEMMA ShowsTerms ==
    ASSUME NEW view, view.row.total \in Nat, Scheduled(view.row, view.stages)
    PROVE  /\ Quote!Rendered(view) \in Quote!Lifecycle!Terms
           /\ Quote!Lifecycle!Fits(Quote!Rendered(view))
<1>1. PICK b : view.stages = {b} /\ PartsFit(view.row.total, b)
  BY DEF Scheduled
<1>2. PICK t : t = TermsOf(view.row.total, b.due, Len(b.plan))
  OBVIOUS
<1>3. Quote!Rendered(view) = t
  BY <1>1, <1>2, RenderedOne DEF PartsFit, Plans, TermsOf
<1>4. Len(b.plan) \in Nat \ {0}
  BY <1>1 DEF PartsFit, Plans
<1>5. t \in Quote!Lifecycle!Terms
  BY <1>1, <1>2, <1>4 DEF PartsFit, TermsOf, Quote!Lifecycle!Terms
<1> QED BY <1>1, <1>2, <1>3, <1>5 DEF PartsFit

LEMMA RenderedFrom ==
    ASSUME NEW v, NEW w, v.row = w.row, v.stages = w.stages
    PROVE  Quote!Rendered(v) = Quote!Rendered(w)
  BY DEF Quote!Rendered

LEMMA GivenPlan ==
    ASSUME NEW option \in SUBSET Plans, NEW default \in Plans
    PROVE  Quote!Given(option, default) \in Plans
  BY GivenIs

-----------------------------------------------------------------------------
(* Steps that leave the tables of quotations alone.                        *)

\* A step that leaves the tables alone.
LEMMA SchedulesStay ==
    ASSUME QuotationsFit, SchedulesFit, NEW r \in Requests, UNCHANGED Quote!tables,
           NEW y, RequestBecomes(r, y), Prepared(y, quotation, stages, store, astray)
    PROVE  SchedulesFit'
<1>1. quotationReq'[r] = y /\ \A x \in Requests \ {r} : quotationReq'[x] = quotationReq[x]
  BY DEF QuotationsFit, RequestBecomes
<1>2. ASSUME NEW x \in Requests
      PROVE  Prepared(quotationReq'[x], quotation, stages, store, astray)
  <2>1. CASE x = r
    BY <1>1, <2>1
  <2>2. CASE x # r
    BY <1>1, <2>2 DEF SchedulesFit
  <2> QED BY <2>1, <2>2
<1>3. UNCHANGED <<quotation, stages, store, astray>>
  BY DEF Quote!tables
<1> QED BY <1>2, <1>3 DEF SchedulesFit

\* A request that has nothing to keep.
LEMMA NothingPrepared ==
    ASSUME NEW y, NEW rows, NEW schedules, NEW docs, NEW lost,
           y.pc \notin {"number", "insert"},
           y.arg.op = "update" => y.pc \notin {"lockStages", "write"},
           y.arg.op = "send" => y.pc # "write",
           y.arg.op # "send" => y.pc # "upload"
    PROVE  Prepared(y, rows, schedules, docs, lost)
  BY DEF Prepared

LEMMA AnswerPrepared ==
    ASSUME NEW r, NEW outcome \in Quote!Finished, Quote!Answer(r, outcome),
           NEW rows, NEW schedules, NEW docs, NEW lost
    PROVE  \E y : RequestBecomes(r, y) /\ Prepared(y, rows, schedules, docs, lost)
<1>1. PICK y : y = Quote!At(outcome)
  OBVIOUS
<1>2. RequestBecomes(r, y)
  BY <1>1 DEF RequestBecomes, Quote!Answer
<1>3. y.pc = outcome
  BY <1>1 DEF Quote!At, Quote!Request
<1> QED BY <1>2, <1>3, NothingPrepared DEF Quote!Finished

LEMMA AnswerKeepsSchedules ==
    ASSUME QuotationsFit, SchedulesFit, NEW r \in Requests, UNCHANGED Quote!tables,
           NEW outcome \in Quote!Finished, Quote!Answer(r, outcome)
    PROVE  SchedulesFit'
<1>1. PICK y : RequestBecomes(r, y) /\ Prepared(y, quotation, stages, store, astray)
  BY AnswerPrepared
<1> QED BY <1>1, SchedulesStay

LEMMA ArrivalKeepsSchedules ==
    ASSUME QuotationsFit, SchedulesFit, NEW r \in Requests, NEW a, NEW view,
           NEW label \in {"check", "read"}, Quote!Arrive(r, a, view, label)
    PROVE  SchedulesFit'
<1>1. PICK y : y = Quote!Request(label, a, view)
  OBVIOUS
<1>2. RequestBecomes(r, y) /\ UNCHANGED Quote!tables
  BY <1>1 DEF RequestBecomes, Quote!Arrive
<1>3. y.pc = label
  BY <1>1 DEF Quote!Request
<1>4. Prepared(y, quotation, stages, store, astray)
  BY <1>3, NothingPrepared
<1> QED BY <1>2, <1>4, SchedulesStay

LEMMA OpeningKeepsSchedules ==
    ASSUME QuotationsFit, SchedulesFit, NEW r \in Requests, NEW q, NEW a, Quote!Open(r, q, a)
    PROVE  SchedulesFit'
<1>1. PICK view : view = [Quote!NoView EXCEPT !.row = quotation[q]]
  OBVIOUS
<1>2. Quote!Arrive(r, a, view, "read")
  BY <1>1 DEF Quote!Open
<1> QED BY <1>2, ArrivalKeepsSchedules

\* A step that does no more than move its request.
LEMMA GotoIs ==
    ASSUME QuotationsFit, NEW r \in Requests, NEW label, Quote!Goto(r, label)
    PROVE  \E y : /\ RequestBecomes(r, y) /\ y.pc = label /\ y.arg = quotationReq[r].arg
                  /\ y.seen = quotationReq[r].seen /\ y.doomed = quotationReq[r].doomed
<1>1. PICK x : x = quotationReq[r]
  OBVIOUS
<1>2. PICK y : y = [x EXCEPT !.pc = label]
  OBVIOUS
<1>3. y.pc = label /\ y.arg = x.arg /\ y.seen = x.seen /\ y.doomed = x.doomed
  BY <1>1, <1>2, Mover DEF IsQuoteRequest, RequestsOver
<1>4. RequestBecomes(r, y)
  BY <1>1, <1>2 DEF Quote!Goto, RequestBecomes
<1> QED BY <1>1, <1>3, <1>4

LEMMA ChecksKeepSchedules ==
    ASSUME QuotationsFit, SchedulesFit, NEW r \in Requests,
           Quote!CheckPlan(r) \/ Quote!LockItems(r)
    PROVE  SchedulesFit'
<1>1. PICK x : x = quotationReq[r]
  OBVIOUS
<1>2. UNCHANGED Quote!tables /\ x.pc \in {"check", "lockItems"}
  BY <1>1 DEF Quote!CheckPlan, Quote!LockItems
<1>3. CASE Quote!Answer(r, "rejected")
  BY <1>2, <1>3, AnswerKeepsSchedules DEF Quote!Finished
<1>4. CASE Quote!LockItems(r)
  <2>1. PICK y : RequestBecomes(r, y) /\ y.pc = "stages"
    BY <1>4, GotoIs DEF Quote!LockItems
  <2> QED BY <1>2, <2>1, NothingPrepared, SchedulesStay
<1>5. CASE Quote!CheckPlan(r) /\ ~Quote!Answer(r, "rejected")
  <2>1. /\ x.pc = "check" /\ Quote!Goto(r, "number")
        /\ Quote!Accepted(Quote!Given(x.arg.content.plan, Default))
    BY <1>1, <1>5 DEF Quote!CheckPlan
  <2>2. PICK y : RequestBecomes(r, y) /\ y.pc = "number" /\ y.arg = x.arg
    BY <1>1, <2>1, GotoIs
  <2>3. CreationFits(r, x)
    BY <1>1, <2>1, Mover DEF RequestSound
  <2>4. Prepared(y, quotation, stages, store, astray)
    BY <2>1, <2>2, <2>3 DEF Prepared, CreationFits
  <2> QED BY <1>2, <2>2, <2>4, SchedulesStay
<1> QED BY <1>3, <1>4, <1>5

LEMMA LockStagesKeepsSchedules ==
    ASSUME QuotationsFit, SchedulesFit, NEW r \in Requests, Quote!LockStages(r)
    PROVE  SchedulesFit'
<1>1. PICK x : x = quotationReq[r]
  OBVIOUS
<1>2. UNCHANGED Quote!tables /\ x.pc = "lockStages"
  BY <1>1 DEF Quote!LockStages
<1>3. CASE Quote!Answer(r, "rejected")
  BY <1>2, <1>3, AnswerKeepsSchedules DEF Quote!Finished
<1>4. CASE ~Quote!Answer(r, "rejected")
  <2>1. Quote!Goto(r, "write") /\ Quote!Accepted(Quote!PlanAfter(r))
    BY <1>4 DEF Quote!LockStages
  <2>2. Quote!PlanAfter(r) = Quote!Given(x.arg.content.plan, PlanOf(x.seen.stages))
    BY <1>1 DEF Quote!PlanAfter, Quote!PlanRead, PlanOf
  <2>3. PICK y : /\ RequestBecomes(r, y) /\ y.pc = "write" /\ y.arg = x.arg
                 /\ y.seen = x.seen /\ y.doomed = x.doomed
    BY <1>1, <2>1, GotoIs
  <2>4. ReadingFits(x, quotation, store)
    BY <1>1, <1>2, SubjectIs DEF Quote!Pending
  <2>5. x.arg.op = "update"
    BY <1>2, <2>4 DEF ReadingFits
  <2>6. Prepared(x, quotation, stages, store, astray)
    BY <1>1 DEF SchedulesFit
  <2>7. Prepared(y, quotation, stages, store, astray)
    BY <1>2, <2>1, <2>2, <2>3, <2>5, <2>6 DEF Prepared
  <2> QED BY <1>2, <2>3, <2>7, SchedulesStay
<1> QED BY <1>3, <1>4

LEMMA ReadStagesKeepsSchedules ==
    ASSUME QuotationsFit, SchedulesFit, NEW r \in Requests, Quote!ReadStages(r)
    PROVE  SchedulesFit'
<1>1. PICK x : x = quotationReq[r]
  OBVIOUS
<1>2. x.pc = "read" /\ UNCHANGED Quote!tables
  BY <1>1 DEF Quote!ReadStages
<1>3. CASE Quote!Answer(r, "rejected")
  BY <1>2, <1>3, AnswerKeepsSchedules DEF Quote!Finished
<1>4. CASE ~Quote!Answer(r, "rejected")
  <2>1. PICK label, v : label = Quote!FirstStep(x.arg) /\ v = stages[Quote!Subject(r)]
    OBVIOUS
  <2>2. PICK y : y = [x EXCEPT !.seen.stages = v, !.pc = label]
    OBVIOUS
  <2>3. y.pc = label /\ y.arg = x.arg
    BY <1>1, <2>2, Mover DEF IsQuoteRequest, RequestsOver
  <2>4. RequestBecomes(r, y)
    <3>1. quotationReq' = [quotationReq EXCEPT ![r].seen.stages = v, ![r].pc = label]
      BY <1>1, <1>4, <2>1 DEF Quote!ReadStages
    <3> QED BY <1>1, <2>2, <3>1, Mover DEF RequestBecomes
  <2>5. ReadingFits(x, quotation, store)
    BY <1>1, <1>2, SubjectIs DEF Quote!Pending
  <2>6. /\ x.arg.op = "update" => label \in {"items", "stages"}
        /\ x.arg.op = "send" => label = "upload"
        /\ x.arg.op \in {"accept", "reject"} => label = "write"
        /\ x.arg.op \in {"update", "send", "accept", "reject"}
    BY <2>1, <2>5, FirstStepIs DEF ReadingFits
  <2>7. Prepared(y, quotation, stages, store, astray)
    BY <2>3, <2>6, NothingPrepared
  <2> QED BY <1>2, <2>4, <2>7, SchedulesStay
<1> QED BY <1>3, <1>4

LEMMA NumbersKeepSchedules ==
    ASSUME QuotationsFit, SchedulesFit, NEW r \in Requests,
           Quote!TakeNumber(r) \/ Quote!NumberTaken(r)
    PROVE  SchedulesFit'
<1>1. PICK x : x = quotationReq[r]
  OBVIOUS
<1>2. x.pc \in {"number", "insert"} /\ UNCHANGED Quote!tables
  BY <1>1 DEF Quote!TakeNumber, Quote!NumberTaken
<1>3. CASE Quote!Answer(r, "rejected")
  BY <1>2, <1>3, AnswerKeepsSchedules DEF Quote!Finished
<1>4. CASE ~Quote!Answer(r, "rejected")
  <2>1. PICK y : RequestBecomes(r, y) /\ y.arg = x.arg /\ y.pc \in {"number", "insert"}
    <3>1. CASE Quote!TakeNumber(r)
      <4>1. PICK n : n = Quote!Cardinality(DOMAIN quotation) + 1
        OBVIOUS
      <4>2. PICK y : y = [x EXCEPT !.number = n, !.pc = "insert"]
        OBVIOUS
      <4>3. y.arg = x.arg /\ y.pc = "insert"
        BY <1>1, <4>2, Mover DEF IsQuoteRequest, RequestsOver
      <4>4. RequestBecomes(r, y)
        <5>1. quotationReq' = [quotationReq EXCEPT ![r].number = n, ![r].pc = "insert"]
          BY <3>1, <4>1 DEF Quote!TakeNumber
        <5> QED BY <1>1, <4>2, <5>1, Mover DEF RequestBecomes
      <4> QED BY <4>3, <4>4
    <3>2. CASE Quote!NumberTaken(r)
      <4>1. PICK n : n = x.draws + 1
        OBVIOUS
      <4>2. PICK y : y = [x EXCEPT !.draws = n, !.tries = 1, !.pc = "number"]
        OBVIOUS
      <4>3. y.arg = x.arg /\ y.pc = "number"
        BY <1>1, <4>2, Mover DEF IsQuoteRequest, RequestsOver
      <4>4. RequestBecomes(r, y)
        <5>1. quotationReq' = [quotationReq EXCEPT ![r].draws = n, ![r].tries = 1,
                                                   ![r].pc = "number"]
          BY <1>1, <1>4, <3>2, <4>1, Mover DEF Quote!NumberTaken
        <5> QED BY <1>1, <4>2, <5>1, Mover DEF RequestBecomes
      <4> QED BY <4>3, <4>4
    <3> QED BY <3>1, <3>2
  <2>2. CreationFits(r, x)
    BY <1>1, <1>2, Mover DEF RequestSound
  <2>3. Prepared(x, quotation, stages, store, astray)
    BY <1>1 DEF SchedulesFit
  <2>4. Prepared(y, quotation, stages, store, astray)
    BY <1>2, <2>1, <2>2, <2>3 DEF Prepared, CreationFits
  <2> QED BY <1>2, <2>1, <2>4, SchedulesStay
<1> QED BY <1>3, <1>4

LEMMA FindsKeepSchedules ==
    ASSUME QuotationsFit, SchedulesFit, NEW r \in Requests,
           Quote!FindItems(r) \/ Quote!FindStages(r)
    PROVE  SchedulesFit'
<1>1. PICK x, q : x = quotationReq[r] /\ q = x.arg.quotation
  OBVIOUS
<1>2. UNCHANGED Quote!tables
  BY DEF Quote!FindItems, Quote!FindStages
<1>3. CASE Quote!FindItems(r)
  <2>1. PICK v, y : v = items[q] /\ y = [x EXCEPT !.doomed.items = v, !.pc = "lockItems"]
    OBVIOUS
  <2>2. y.pc = "lockItems"
    BY <1>1, <2>1, Mover DEF IsQuoteRequest, RequestsOver
  <2>3. RequestBecomes(r, y)
    <3>1. quotationReq' = [quotationReq EXCEPT ![r].doomed.items = v, ![r].pc = "lockItems"]
      BY <1>1, <1>3, <2>1 DEF Quote!FindItems, Quote!Subject
    <3> QED BY <1>1, <2>1, <3>1, Mover DEF RequestBecomes
  <2> QED BY <1>2, <2>2, <2>3, NothingPrepared, SchedulesStay
<1>4. CASE Quote!FindStages(r)
  <2>1. PICK v, y : v = stages[q] /\ y = [x EXCEPT !.doomed.stages = v, !.pc = "lockStages"]
    OBVIOUS
  <2>2. y.pc = "lockStages" /\ y.arg = x.arg /\ y.doomed.stages = v
    BY <1>1, <2>1, Mover DEF IsQuoteRequest, RequestsOver
  <2>3. RequestBecomes(r, y)
    <3>1. quotationReq' = [quotationReq EXCEPT ![r].doomed.stages = v, ![r].pc = "lockStages"]
      BY <1>1, <1>4, <2>1 DEF Quote!FindStages, Quote!Subject
    <3> QED BY <1>1, <2>1, <3>1, Mover DEF RequestBecomes
  <2>4. Prepared(y, quotation, stages, store, astray)
    BY <1>1, <2>1, <2>2 DEF Prepared
  <2> QED BY <1>2, <2>3, <2>4, SchedulesStay
<1> QED BY <1>3, <1>4

LEMMA RetryKeepsSchedules ==
    ASSUME QuotationsFit, SchedulesFit, NEW r \in Requests, Quote!TransientError(r)
    PROVE  SchedulesFit'
<1>1. PICK x : x = quotationReq[r]
  OBVIOUS
<1>2. /\ UNCHANGED Quote!tables
      /\ x.pc = "insert" \/ (x.arg.op = "update" /\ x.pc \in Quote!Pending \ {"read"})
  <2>1. UNCHANGED Quote!tables /\ Quote!InTransaction(r)
    BY DEF Quote!TransientError
  <2> QED BY <1>1, <2>1 DEF Quote!InTransaction
<1>3. CASE Quote!Answer(r, "failed")
  BY <1>2, <1>3, AnswerKeepsSchedules DEF Quote!Finished
<1>4. CASE ~Quote!Answer(r, "failed")
  <2>1. PICK n, label :
            /\ n = x.tries + 1
            /\ label = IF x.pc = "insert" THEN x.pc ELSE Quote!FirstStep(x.arg)
    OBVIOUS
  <2>2. quotationReq' = [quotationReq EXCEPT ![r].tries = n, ![r].doomed = Quote!NoRows,
                                             ![r].pc = label]
    BY <1>1, <1>4, <2>1, Mover DEF Quote!TransientError
  <2>3. PICK y : y = [x EXCEPT !.tries = n, !.doomed = Quote!NoRows, !.pc = label]
    OBVIOUS
  <2>4. y.arg = x.arg /\ y.pc = label
    BY <1>1, <2>3, Mover DEF IsQuoteRequest, RequestsOver
  <2>5. RequestBecomes(r, y)
    BY <1>1, <2>2, <2>3, Mover DEF RequestBecomes
  <2>6. Prepared(y, quotation, stages, store, astray)
    <3>1. CASE x.pc = "insert"
      <4>1. CreationFits(r, x)
        BY <1>1, <3>1, Mover DEF RequestSound
      <4>2. Prepared(x, quotation, stages, store, astray)
        BY <1>1 DEF SchedulesFit
      <4> QED BY <2>1, <2>4, <3>1, <4>1, <4>2 DEF Prepared, CreationFits
    <3>2. CASE x.pc # "insert"
      <4>1. x.arg.op = "update"
        BY <1>2, <3>2
      <4>2. label \in {"items", "stages"}
        BY <2>1, <3>2, <4>1, FirstStepIs
      <4> QED BY <2>4, <4>1, <4>2, NothingPrepared
    <3> QED BY <3>1, <3>2
  <2> QED BY <1>2, <2>5, <2>6, SchedulesStay
<1> QED BY <1>3, <1>4

-----------------------------------------------------------------------------
(* What QuotationLifecycle sees of the steps that write.                   *)

\* What QuotationLifecycle sees of a quotation.
Leaf(status, terms, shown) == [status |-> status, terms |-> terms, shown |-> shown]

SheetRow(row, batches, doc) ==
    Leaf(row.status, Quote!Rendered([row |-> row, stages |-> batches]),
         IF row.pdf THEN doc ELSE Quote!NoDoc)

LEMMA SheetIs ==
    /\ Quote!Sheet = [q \in DOMAIN quotation \ astray |->
                         SheetRow(quotation[q], stages[q], store[q])]
    /\ Quote!Sheet' = [q \in DOMAIN quotation' \ astray' |->
                          SheetRow(quotation'[q], stages'[q], store'[q])]
  BY DEF Quote!Sheet, Quote!View, SheetRow, Leaf

\* The ways QuotationLifecycle has of changing what it sees.
LEMMA LeafTurns ==
    ASSUME NEW a, NEW t, NEW d, NEW x
    PROVE  /\ [Leaf(a, t, d) EXCEPT !.terms = x] = Leaf(a, x, d)
           /\ [Leaf(a, t, d) EXCEPT !.status = x] = Leaf(x, t, d)
           /\ [Leaf(a, t, d) EXCEPT !.status = x, !.shown = t] = Leaf(x, t, t)
           /\ Leaf(a, t, d).status = a /\ Leaf(a, t, d).terms = t /\ Leaf(a, t, d).shown = d
<1> DEFINE L == [status : {a, x}, terms : {t, x}, shown : {d, t}]
<1>1. PICK s \in L : s = Leaf(a, t, d)
  BY DEF Leaf
<1>2. s.status = a /\ s.terms = t /\ s.shown = d
  BY <1>1 DEF Leaf
<1>3. [s EXCEPT !.terms = x] = Leaf(a, x, d)
  BY <1>2 DEF Leaf
<1>4. [s EXCEPT !.status = x] = Leaf(x, t, d)
  BY <1>2 DEF Leaf
<1>5. [s EXCEPT !.status = x, !.shown = t] = Leaf(x, t, t)
  <2> DEFINE n == [s EXCEPT !.status = x, !.shown = t]
  <2>1. n \in L
    BY Zenon
  <2>2. n.status = x /\ n.terms = t /\ n.shown = t
    BY <1>2
  <2> HIDE DEF n
  <2>3. n = Leaf(x, t, t)
    BY <2>1, <2>2 DEF Leaf
  <2> QED BY <2>3 DEF n
<1> QED BY <1>1, <1>2, <1>3, <1>4, <1>5

\* Whatever a step changes is of one quotation.
OnlyChanges(q) ==
    /\ DOMAIN quotation' = DOMAIN quotation \cup {q}
    /\ \A z \in DOMAIN quotation \ {q} :
           quotation'[z] = quotation[z] /\ stages'[z] = stages[z] /\ store'[z] = store[z]
    /\ astray' \in {astray, astray \cup {q}}

\* A reading is outdated when its schedule or its status has been written over; a
\* document from a reading that is not outdated shows what others have read.
Outdates(r, q) ==
    \/ \E b \in stages'[q] : b.by = r
    \/ stages'[q] = stages[q] /\ quotation'[q].status # "DRAFT"
    \/ /\ stages'[q] = stages[q] /\ quotation'[q] = quotation[q]
       /\ \/ q \in astray'
          \/ \E view : /\ view.row = quotation[q] /\ view.stages = stages[q]
                       /\ store'[q] = Quote!Rendered(view)

LEMMA OthersPrepared ==
    ASSUME QuotationsFit, ItemsFit, SchedulesFit, NEW r \in Unanswered, NEW q,
           OnlyChanges(q), Outdates(r, q), NEW x \in Requests
    PROVE  Prepared(quotationReq[x], quotation', stages', store', astray')
<1>1. PICK w, z : w = quotationReq[x] /\ z = w.arg.quotation
  OBVIOUS
<1>2. Prepared(w, quotation, stages, store, astray)
  BY <1>1 DEF SchedulesFit
<1>3. astray \subseteq astray'
  BY DEF OnlyChanges
<1>4. r \in Requests /\ ByOthers(r, w.seen.stages)
  BY <1>1 DEF ItemsFit, Unanswered
<1>5. ASSUME w.arg.op \in {"update", "send"}, w.pc \in {"lockStages", "write"}
      PROVE  /\ z \in DOMAIN quotation
             /\ w.arg.op = "send" => w.seen.row.status = "DRAFT"
  <2>1. ReadingFits(w, quotation, store)
    BY <1>1, <1>5, SubjectIs DEF Quote!Pending
  <2> QED BY <1>1, <1>5, <2>1 DEF ReadingFits, Quote!Requires
<1>6. ASSUME w.arg.op = "update", w.pc \in {"lockStages", "write"}, w.seen.stages = stages'[z]
      PROVE  stages'[z] \subseteq w.doomed.stages
  <2>1. stages'[z] = stages[z]
    <3>1. CASE z # q
      BY <1>5, <1>6, <3>1 DEF OnlyChanges
    <3>2. CASE z = q
      BY <1>4, <1>6, <3>2 DEF Outdates, ByOthers
    <3> QED BY <3>1, <3>2
  <2> QED BY <1>1, <1>2, <1>6, <2>1 DEF Prepared
<1>7. ASSUME w.arg.op = "send", w.pc = "write", z \notin astray',
             w.seen.row = quotation'[z], w.seen.stages = stages'[z]
      PROVE  store'[z] = Quote!Rendered(w.seen)
  <2>1. CASE z # q
    <3>1. quotation'[z] = quotation[z] /\ stages'[z] = stages[z] /\ store'[z] = store[z]
      BY <1>5, <1>7, <2>1 DEF OnlyChanges
    <3> QED BY <1>1, <1>2, <1>3, <1>7, <3>1 DEF Prepared
  <2>2. CASE z = q
    <3>1. PICK view : /\ view.row = quotation[q] /\ view.stages = stages[q]
                      /\ store'[q] = Quote!Rendered(view)
                      /\ stages'[q] = stages[q] /\ quotation'[q] = quotation[q]
      BY <1>4, <1>5, <1>7, <2>2 DEF Outdates, ByOthers
    <3> QED BY <1>7, <2>2, <3>1, RenderedFrom
  <2> QED BY <2>1, <2>2
<1> QED BY <1>1, <1>2, <1>6, <1>7 DEF Prepared

LEMMA SchedulesAfter ==
    ASSUME QuotationsFit, ItemsFit, SchedulesFit, NEW r \in Unanswered, NEW q,
           OnlyChanges(q), Outdates(r, q), NEW y, RequestBecomes(r, y),
           Prepared(y, quotation', stages', store', astray'),
           quotation'[q].pdf => quotation'[q].status # "DRAFT",
           q \in astray' \/ Scheduled(quotation'[q], stages'[q])
    PROVE  SchedulesFit'
<1>1. /\ r \in Requests /\ quotationReq'[r] = y
      /\ \A x \in Requests \ {r} : quotationReq'[x] = quotationReq[x]
  BY DEF QuotationsFit, RequestBecomes, Unanswered
<1>2. ASSUME NEW x \in Requests
      PROVE  Prepared(quotationReq'[x], quotation', stages', store', astray')
  <2>1. CASE x = r
    BY <1>1, <2>1
  <2>2. CASE x # r
    BY <1>1, <2>2, OthersPrepared
  <2> QED BY <2>1, <2>2
<1>3. \A z \in DOMAIN quotation' : quotation'[z].pdf => quotation'[z].status # "DRAFT"
  BY DEF OnlyChanges, SchedulesFit
<1>4. \A z \in DOMAIN quotation' \ astray' : Scheduled(quotation'[z], stages'[z])
  BY DEF OnlyChanges, SchedulesFit
<1> QED BY <1>2, <1>3, <1>4 DEF SchedulesFit

\* A quotation that is written from an outdated reading, or has been before.
LEMMA Disowned ==
    ASSUME QuotationsFit, NEW q \in DOMAIN quotation, OnlyChanges(q), q \in astray'
    PROVE  [Quote!Lifecycle!Next]_(Quote!Sheet)
<1>1. PICK s, t : s = Quote!Sheet /\ t = Quote!Sheet'
  OBVIOUS
<1>2. /\ DOMAIN s = DOMAIN quotation \ astray /\ DOMAIN t = DOMAIN s \ {q}
      /\ \A z \in DOMAIN t : t[z] = s[z]
      /\ t = [z \in DOMAIN t |-> t[z]] /\ s = [z \in DOMAIN s |-> s[z]]
  BY <1>1, SheetIs DEF OnlyChanges
<1>3. q \in Quote!Quotations
  BY DEF QuotationsFit, SheetsFit
<1>4. CASE q \in DOMAIN s
  <2>1. Quote!Lifecycle!Disown(q)
    BY <1>1, <1>2, <1>4 DEF Quote!Lifecycle!Disown, Quote!Lifecycle!Known
  <2> QED BY <1>3, <2>1 DEF Quote!Lifecycle!Next
<1>5. CASE q \notin DOMAIN s
  <2>1. t = s
    BY <1>2, <1>5
  <2> QED BY <1>1, <2>1
<1> QED BY <1>4, <1>5

\* What is seen of the others when one quotation changes that is followed still.
LEMMA SeenAfter ==
    ASSUME QuotationsFit, NEW q \in Quote!Quotations, OnlyChanges(q), q \notin astray'
    PROVE  /\ DOMAIN Quote!Sheet = DOMAIN quotation \ astray
           /\ DOMAIN Quote!Sheet' = DOMAIN Quote!Sheet \cup {q}
           /\ Quote!Sheet = [z \in DOMAIN Quote!Sheet |-> Quote!Sheet[z]]
           /\ Quote!Sheet' = [z \in DOMAIN Quote!Sheet' |-> Quote!Sheet'[z]]
           /\ \A z \in DOMAIN Quote!Sheet \ {q} :
                  z \in DOMAIN Quote!Sheet' /\ Quote!Sheet'[z] = Quote!Sheet[z]
           /\ Quote!Sheet'[q] = SheetRow(quotation'[q], stages'[q], store'[q])
           /\ q \in DOMAIN quotation =>
                  Quote!Sheet[q] = SheetRow(quotation[q], stages[q], store[q])
<1>1. PICK s, t : s = Quote!Sheet /\ t = Quote!Sheet'
  OBVIOUS
<1>2. /\ s = [z \in DOMAIN quotation \ astray |-> SheetRow(quotation[z], stages[z], store[z])]
      /\ t = [z \in DOMAIN quotation' \ astray' |->
                 SheetRow(quotation'[z], stages'[z], store'[z])]
  BY <1>1, SheetIs
<1>3. astray' = astray /\ q \notin astray /\ DOMAIN quotation' = DOMAIN quotation \cup {q}
  BY DEF OnlyChanges
<1>4. DOMAIN s = DOMAIN quotation \ astray /\ DOMAIN t = DOMAIN s \cup {q}
  BY <1>2, <1>3
<1>5. s = [z \in DOMAIN s |-> s[z]] /\ t = [z \in DOMAIN t |-> t[z]]
  BY <1>2
<1>6. ASSUME NEW z \in DOMAIN s \ {q} PROVE z \in DOMAIN t /\ t[z] = s[z]
  <2>1. quotation'[z] = quotation[z] /\ stages'[z] = stages[z] /\ store'[z] = store[z]
    BY <1>4 DEF OnlyChanges
  <2> QED BY <1>2, <1>3, <1>4, <2>1
<1>7. /\ t[q] = SheetRow(quotation'[q], stages'[q], store'[q])
      /\ q \in DOMAIN quotation => s[q] = SheetRow(quotation[q], stages[q], store[q])
  BY <1>2, <1>3
<1> QED BY <1>1, <1>4, <1>5, <1>6, <1>7

LEMMA JudgedBy ==
    ASSUME NEW r, Quote!Judge(r), NEW q, q = Quote!Subject(r)
    PROVE  /\ astray' \in {astray, astray \cup {q}}
           /\ q \notin astray' => /\ astray' = astray /\ q \notin astray
                                  /\ quotationReq[r].seen.row = quotation[q]
                                  /\ quotationReq[r].seen.stages = stages[q]
<1>1. CASE quotationReq[r].seen = Quote!View(q)
  BY <1>1 DEF Quote!Judge, Quote!View
<1>2. CASE quotationReq[r].seen # Quote!View(q)
  BY <1>2 DEF Quote!Judge
<1> QED BY <1>1, <1>2

LEMMA InsertSheet ==
    ASSUME QuotationsFit, ItemsFit, SchedulesFit, NEW r \in Requests, Quote!Insert(r)
    PROVE  SchedulesFit' /\ [Quote!Lifecycle!Next]_(Quote!Sheet)
<1>1. PICK x : x = quotationReq[r]
  OBVIOUS
<1>2. x.pc = "insert" /\ r \in Unanswered
  BY <1>1, PendingIs DEF Quote!Insert, Quote!Pending
<1>3. /\ r \notin DOMAIN quotation /\ CreationFits(r, x) /\ IsQuoteRequest(x)
      /\ Quote!Subject(r) = r /\ r \in Quote!Quotations
  BY <1>1, <1>2, Mover DEF RequestSound, CreationFits, Quote!Subject, Quote!Quotations
<1>4. CASE Quote!NewRow(r).total < 0
  <2>1. UNCHANGED Quote!tables /\ Quote!Answer(r, "failed")
    BY <1>4 DEF Quote!Insert
  <2>2. SchedulesFit'
    BY <2>1, AnswerKeepsSchedules DEF Quote!Finished
  <2>3. UNCHANGED Quote!Sheet
    BY <2>1, SheetIs DEF Quote!tables
  <2> QED BY <2>2, <2>3
<1>5. CASE ~(Quote!NewRow(r).total < 0)
  <2>1. PICK n, plan, batch :
            /\ n = Quote!NewRow(r) /\ plan = Quote!Given(x.arg.content.plan, Default)
            /\ batch = Quote!StageBatch(r, plan, n.total)
    OBVIOUS
  <2>2. /\ quotation' = [z \in DOMAIN quotation \cup {r} |-> IF z = r THEN n ELSE quotation[z]]
        /\ stages' = [stages EXCEPT ![r] = {batch}]
        /\ Quote!Answer(r, "done") /\ UNCHANGED <<store, mailed, astray>>
    BY <1>1, <1>3, <1>5, <2>1 DEF Quote!Insert
  <2>3. n.status = "DRAFT" /\ n.pdf = FALSE
    BY <2>1 DEF Quote!NewRow
  <2>4. n.total \in Nat
    <3>1. PICK content \in Contents : content = x.arg.content
      BY <1>3, RequestIs, ContentIs DEF CreationFits
    <3>2. content.subtotal \in SUBSET Nat /\ content.charges \in SUBSET Int
      BY QuoteConstants
    <3>3. PICK s \in Nat : s = Quote!Given(content.subtotal, 0)
      BY <3>2, GivenIs
    <3>4. PICK c \in Int : c = Quote!Given(content.charges, 0)
      <4>1. PICK charges \in SUBSET Int, none \in Int : charges = content.charges /\ none = 0
        BY <3>2
      <4>2. Quote!Given(charges, none) \in Int
        BY GivenIs
      <4> QED BY <4>1, <4>2
    <3>5. n.total = s + c
      BY <1>1, <2>1, <3>1, <3>3, <3>4 DEF Quote!NewRow
    <3> QED BY <1>5, <2>1, <3>5
  <2>5. plan \in Plans /\ Quote!Accepted(plan)
    <3>1. x.arg.content \in Contents
      BY <1>3, RequestIs, ContentIs DEF CreationFits
    <3>2. Prepared(x, quotation, stages, store, astray)
      BY <1>1 DEF SchedulesFit
    <3> QED BY <1>2, <2>1, <3>1, <3>2, PlanConstants, GivenPlan DEF Prepared
  <2>6. PartsFit(n.total, batch) /\ batch.by = r
    BY <2>1, <2>4, <2>5, BatchFits
  <2>7. stages'[r] = {batch} /\ \A z \in Quote!Quotations \ {r} : stages'[z] = stages[z]
    BY <1>3, <2>2 DEF QuotationsFit, SheetsFit
  <2>8. Scheduled(quotation'[r], stages'[r]) /\ quotation'[r] = n
    BY <2>2, <2>6, <2>7 DEF Scheduled
  <2>9. OnlyChanges(r) /\ Outdates(r, r)
    BY <2>2, <2>6, <2>7 DEF OnlyChanges, Outdates, QuotationsFit, SheetsFit
  <2>10. PICK y : RequestBecomes(r, y) /\ Prepared(y, quotation', stages', store', astray')
    BY <2>2, AnswerPrepared DEF Quote!Finished
  <2>11. SchedulesFit'
    BY <1>2, <2>3, <2>8, <2>9, <2>10, SchedulesAfter
  <2>12. r \notin astray'
    BY <1>3, <2>2 DEF QuotationsFit, SheetsFit
  <2>13. PICK view : view = [row |-> n, stages |-> {batch}]
    OBVIOUS
  <2>14. /\ Quote!Rendered(view) \in Quote!Lifecycle!Terms
         /\ Quote!Lifecycle!Fits(Quote!Rendered(view))
    BY <2>4, <2>7, <2>8, <2>13, ShowsTerms
  <2>15. Quote!Sheet'[r] = Leaf("DRAFT", Quote!Rendered(view), Quote!NoDoc)
    <3>1. Quote!Sheet'[r] = SheetRow(n, {batch}, store'[r])
      BY <1>3, <2>7, <2>8, <2>9, <2>12, SeenAfter
    <3> QED BY <2>3, <2>13, <3>1 DEF SheetRow
  <2>16. Quote!Sheet'[r].terms = Quote!Rendered(view)
    BY <2>15 DEF Leaf
  <2>17. Quote!Lifecycle!Draft(r)
    BY <1>3, <2>9, <2>12, <2>14, <2>15, <2>16, SeenAfter
       DEF Quote!Lifecycle!Draft, Quote!Lifecycle!Known, Quote!Lifecycle!Others,
           Quote!Lifecycle!Unseen, Quote!NoDoc, Leaf
  <2> QED BY <1>3, <2>11, <2>17 DEF Quote!Lifecycle!Next
<1> QED BY <1>4, <1>5

LEMMA UploadSheet ==
    ASSUME QuotationsFit, ItemsFit, SchedulesFit, NEW r \in Requests, Quote!UploadDocument(r)
    PROVE  SchedulesFit' /\ [Quote!Lifecycle!Next]_(Quote!Sheet)
<1>1. PICK x, q, doc : x = quotationReq[r] /\ q = Quote!Subject(r) /\ doc = Quote!Rendered(x.seen)
  OBVIOUS
<1>2. /\ x.pc = "upload" /\ UNCHANGED <<quotation, items, stages, mailed>>
      /\ Quote!Judge(r) /\ Quote!Goto(r, "write") /\ store' = [store EXCEPT ![q] = doc]
  BY <1>1 DEF Quote!UploadDocument
<1>3. r \in Unanswered
  BY <1>1, <1>2, PendingIs DEF Quote!Pending
<1>4. /\ ReadingFits(x, quotation, store) /\ q \in DOMAIN quotation /\ q \in Quote!Quotations
      /\ q = x.arg.quotation
  BY <1>1, <1>2, SubjectIs DEF Quote!Pending, Quote!Subject
<1>5. /\ store' = [z \in Quote!Quotations |-> store'[z]] /\ store'[q] = doc
      /\ \A z \in Quote!Quotations \ {q} : store'[z] = store[z]
  BY <1>2, <1>4 DEF QuotationsFit, SheetsFit
<1>6. /\ astray' \in {astray, astray \cup {q}}
      /\ q \notin astray' => /\ astray' = astray /\ q \notin astray
                             /\ x.seen.row = quotation[q] /\ x.seen.stages = stages[q]
  BY <1>1, <1>2, JudgedBy
<1>7. OnlyChanges(q)
  <2>1. \A z \in DOMAIN quotation \ {q} : store'[z] = store[z]
    BY <1>5 DEF QuotationsFit, SheetsFit
  <2> QED BY <1>2, <1>4, <1>6, <2>1 DEF OnlyChanges
<1>8. Outdates(r, q)
  BY <1>1, <1>2, <1>5, <1>6 DEF Outdates
<1>9. PICK y : /\ RequestBecomes(r, y) /\ y.pc = "write" /\ y.arg = x.arg
               /\ y.seen = x.seen
  BY <1>1, <1>2, GotoIs
<1>10. x.arg.op = "send"
  BY <1>1, <1>2 DEF SchedulesFit, Prepared
<1>11. Prepared(y, quotation', stages', store', astray')
  BY <1>1, <1>4, <1>5, <1>9, <1>10 DEF Prepared
<1>12. quotation'[q].pdf => quotation'[q].status # "DRAFT"
  BY <1>2, <1>4 DEF SchedulesFit
<1>13. q \in astray' \/ Scheduled(quotation'[q], stages'[q])
  BY <1>2, <1>4, <1>6 DEF SchedulesFit
<1>14. SchedulesFit'
  BY <1>3, <1>7, <1>8, <1>9, <1>11, <1>12, <1>13, SchedulesAfter
<1>15. CASE q \in astray'
  BY <1>4, <1>7, <1>14, <1>15, Disowned
<1>16. CASE q \notin astray'
  <2>1. quotation[q].status = "DRAFT"
    BY <1>2, <1>4, <1>6, <1>10, <1>16 DEF ReadingFits, Quote!Requires
  <2>2. ~quotation[q].pdf
    BY <1>4, <2>1 DEF SchedulesFit
  <2>3. SheetRow(quotation'[q], stages'[q], store'[q]) = SheetRow(quotation[q], stages[q], store[q])
    BY <1>2, <2>2 DEF SheetRow
  <2>4. \A z \in DOMAIN quotation \ astray :
            SheetRow(quotation'[z], stages'[z], store'[z]) = SheetRow(quotation[z], stages[z], store[z])
    BY <2>3, <1>7 DEF OnlyChanges
  <2>5. UNCHANGED Quote!Sheet
    BY <1>2, <1>6, <1>16, <2>4, SheetIs
  <2> QED BY <1>14, <2>5
<1> QED BY <1>15, <1>16

\* A quotation that was followed and is followed still.
LEMMA StillSeen ==
    ASSUME QuotationsFit, NEW q \in DOMAIN quotation, OnlyChanges(q), q \notin astray',
           NEW u, u = Quote!Sheet, NEW v, v = Quote!Sheet'
    PROVE  /\ q \in DOMAIN u /\ DOMAIN v = DOMAIN u
           /\ u = [z \in DOMAIN u |-> u[z]] /\ v = [z \in DOMAIN v |-> v[z]]
           /\ \A z \in DOMAIN u \ {q} : z \in DOMAIN v /\ v[z] = u[z]
<1>1. q \in Quote!Quotations /\ q \notin astray
  BY DEF QuotationsFit, SheetsFit, OnlyChanges
<1>2. DOMAIN u = DOMAIN quotation \ astray /\ DOMAIN v = DOMAIN u \cup {q}
  BY <1>1, SeenAfter
<1>3. q \in DOMAIN u /\ DOMAIN v = DOMAIN u
  BY <1>1, <1>2
<1>4. u = [z \in DOMAIN u |-> u[z]] /\ v = [z \in DOMAIN v |-> v[z]]
  <2>1. /\ u = [z \in DOMAIN quotation \ astray |->
                   SheetRow(quotation[z], stages[z], store[z])]
        /\ v = [z \in DOMAIN quotation' \ astray' |->
                   SheetRow(quotation'[z], stages'[z], store'[z])]
    BY SheetIs
  <2> QED BY <2>1
<1>5. \A z \in DOMAIN u \ {q} : z \in DOMAIN v /\ v[z] = u[z]
  BY <1>1, SeenAfter
<1> QED BY <1>3, <1>4, <1>5

\* A quotation that is revised, sent or decided.
LEMMA Revised ==
    ASSUME QuotationsFit, NEW q \in DOMAIN quotation, OnlyChanges(q), q \notin astray',
           NEW t, NEW d, NEW x \in Quote!Lifecycle!Terms, Quote!Lifecycle!Fits(x),
           Quote!Sheet[q] = Leaf("DRAFT", t, d), Quote!Sheet'[q] = Leaf("DRAFT", x, d)
    PROVE  Quote!Lifecycle!Revise(q)
<1>1. PICK u, v : u = Quote!Sheet /\ v = Quote!Sheet'
  OBVIOUS
<1>2. /\ q \in DOMAIN u /\ DOMAIN v = DOMAIN u
      /\ \A z \in DOMAIN u \ {q} : z \in DOMAIN v /\ v[z] = u[z]
  BY <1>1, StillSeen
<1>3. PICK s \in [status : {"DRAFT"}, terms : {t}, shown : {d}] : s = u[q]
  BY <1>1 DEF Leaf
<1>4. PICK n \in [status : {"DRAFT"}, terms : {x}, shown : {d}] : n = v[q]
  BY <1>1 DEF Leaf
<1>5. n = [s EXCEPT !.terms = n.terms] /\ n.terms = x /\ s.status = "DRAFT"
  OBVIOUS
<1>6. v[q] = [u[q] EXCEPT !.terms = v[q].terms]
  BY <1>3, <1>4, <1>5, Zenon
<1>7. u[q].status = "DRAFT" /\ v[q].terms = x
  BY <1>3, <1>4, <1>5
<1> QED
  BY <1>1, <1>2, <1>6, <1>7, Zenon
     DEF Quote!Lifecycle!Revise, Quote!Lifecycle!Known, Quote!Lifecycle!Others

LEMMA Sent ==
    ASSUME QuotationsFit, NEW q \in DOMAIN quotation, OnlyChanges(q), q \notin astray',
           NEW t, NEW d,
           Quote!Sheet[q] = Leaf("DRAFT", t, d), Quote!Sheet'[q] = Leaf("SENT", t, t)
    PROVE  Quote!Lifecycle!Send(q)
<1>1. PICK u, v : u = Quote!Sheet /\ v = Quote!Sheet'
  OBVIOUS
<1>2. /\ q \in DOMAIN u /\ DOMAIN v = DOMAIN u
      /\ u = [z \in DOMAIN u |-> u[z]] /\ v = [z \in DOMAIN v |-> v[z]]
      /\ \A z \in DOMAIN u \ {q} : v[z] = u[z]
  BY <1>1, StillSeen
<1>3. PICK s \in [status : {"DRAFT", "SENT"}, terms : {t}, shown : {d, t}] :
          s = u[q] /\ s.status = "DRAFT" /\ s.terms = t
  BY <1>1 DEF Leaf
<1>4. v[q] = Leaf("SENT", s.terms, s.terms)
  BY <1>1, <1>3
<1>5. PICK w : w = [u EXCEPT ![q].status = "SENT"]
  OBVIOUS
<1>6. PICK m : m = [s EXCEPT !.status = "SENT"]
  OBVIOUS
<1>7. w = [u EXCEPT ![q] = m]
  BY <1>3, <1>5, <1>6, Zenon
<1>8. m \in [status : {"SENT"}, terms : {t}, shown : {d, t}] /\ m.terms = t
  BY <1>6
<1>9. w[q] = m /\ DOMAIN w = DOMAIN u /\ \A z \in DOMAIN u \ {q} : w[z] = u[z]
  BY <1>2, <1>7
<1>10. PICK k : k = [m EXCEPT !.shown = t]
  OBVIOUS
<1>11. k = Leaf("SENT", t, t)
  BY <1>8, <1>10 DEF Leaf
<1>12. [w EXCEPT ![q].shown = t] = [w EXCEPT ![q] = k]
  BY <1>9, <1>10, Zenon
<1>13. v = [w EXCEPT ![q] = k]
  BY <1>2, <1>3, <1>4, <1>9, <1>11
<1>14. u[q].terms = t /\ u[q].status = "DRAFT"
  BY <1>3
<1>15. v = [u EXCEPT ![q].status = "SENT", ![q].shown = u[q].terms]
  BY <1>5, <1>12, <1>13, <1>14, Zenon
<1> QED
  BY <1>1, <1>2, <1>14, <1>15, Zenon DEF Quote!Lifecycle!Send, Quote!Lifecycle!Known

LEMMA Decided ==
    ASSUME QuotationsFit, NEW q \in DOMAIN quotation, OnlyChanges(q), q \notin astray',
           NEW t, NEW d, NEW verdict,
           Quote!Sheet[q] = Leaf("SENT", t, d), Quote!Sheet'[q] = Leaf(verdict, t, d)
    PROVE  Quote!Lifecycle!Decide(q, verdict)
<1>1. PICK u, v : u = Quote!Sheet /\ v = Quote!Sheet'
  OBVIOUS
<1>2. /\ q \in DOMAIN u /\ DOMAIN v = DOMAIN u
      /\ u = [z \in DOMAIN u |-> u[z]] /\ v = [z \in DOMAIN v |-> v[z]]
      /\ \A z \in DOMAIN u \ {q} : v[z] = u[z]
  BY <1>1, StillSeen
<1>3. PICK s \in [status : {"SENT"}, terms : {t}, shown : {d}] :
          s = u[q] /\ s.status = "SENT"
  BY <1>1 DEF Leaf
<1>4. PICK m : m = [s EXCEPT !.status = verdict]
  OBVIOUS
<1>5. m = Leaf(verdict, t, d)
  BY <1>4 DEF Leaf
<1>6. v = [u EXCEPT ![q] = m]
  BY <1>1, <1>2, <1>5
<1>7. v = [u EXCEPT ![q].status = verdict]
  BY <1>3, <1>4, <1>6, Zenon
<1> QED
  BY <1>1, <1>2, <1>3, <1>7, Zenon DEF Quote!Lifecycle!Decide, Quote!Lifecycle!Known

LEMMA CommitUpdateSheet ==
    ASSUME QuotationsFit, ItemsFit, SchedulesFit, NEW r \in Requests, Quote!CommitUpdate(r)
    PROVE  SchedulesFit' /\ [Quote!Lifecycle!Next]_(Quote!Sheet)
<1>1. PICK x, q : x = quotationReq[r] /\ q = Quote!Subject(r)
  OBVIOUS
<1>2. x.pc = "write" /\ x.arg.op = "update" /\ r \in Unanswered
  BY <1>1, PendingIs DEF Quote!CommitUpdate, Quote!Pending
<1>3. /\ ReadingFits(x, quotation, store) /\ q \in DOMAIN quotation /\ q \in Quote!Quotations
      /\ q = x.arg.quotation
  BY <1>1, <1>2, SubjectIs DEF Quote!Pending, Quote!Subject
<1>4. CASE Quote!TotalAfter(r) < 0
  <2>1. UNCHANGED Quote!tables /\ Quote!Answer(r, "failed")
    BY <1>4 DEF Quote!CommitUpdate
  <2>2. SchedulesFit'
    BY <2>1, AnswerKeepsSchedules DEF Quote!Finished
  <2>3. UNCHANGED Quote!Sheet
    BY <2>1, SheetIs DEF Quote!tables
  <2> QED BY <2>2, <2>3
<1>5. CASE ~(Quote!TotalAfter(r) < 0)
  <2>1. PICK content \in Contents : content = x.arg.content
    BY <1>1, <1>2, Mover, RequestIs, ContentIs
  <2>2. PICK row \in Quote!QuotationRow : row = quotation[q]
    BY <1>3 DEF QuotationsFit, SheetsFit
  <2>3. PICK seen \in Quote!QuotationRow : seen = x.seen.row
    BY <1>3 DEF ReadingFits
  <2>4. PICK s, c, total, plan : /\ s = Quote!Given(content.subtotal, row.subtotal)
                                 /\ c = Quote!Given(content.charges, seen.charges)
                                 /\ total = Quote!TotalAfter(r)
                                 /\ plan = Quote!PlanAfter(r)
    OBVIOUS
  <2>5. total \in Nat
    <3>1. /\ seen.subtotal \in Nat /\ seen.charges \in Int
          /\ content.subtotal \in SUBSET Nat /\ content.charges \in SUBSET Int
      BY QuoteConstants DEF Quote!QuotationRow
    <3>2. PICK before \in Nat : before = Quote!Given(content.subtotal, seen.subtotal)
      BY <3>1, GivenIs
    <3>3. PICK k \in Int : k = Quote!Given(content.charges, seen.charges)
      BY <3>1, GivenIs
    <3>4. total = before + k
      BY <1>1, <2>1, <2>3, <2>4, <3>2, <3>3 DEF Quote!TotalAfter
    <3> QED BY <1>5, <2>4, <3>4
  <2> DEFINE n == [row EXCEPT !.subtotal = s, !.charges = c, !.total = total]
  <2>6. n.status = row.status /\ n.pdf = row.pdf /\ n.total = total
    BY DEF Quote!QuotationRow
  <2>7. Quote!RowAfter(r) = n
    BY <1>1, <2>1, <2>2, <2>3, <2>4, Zenon DEF Quote!RowAfter
  <2> HIDE DEF n
  <2>8. /\ DOMAIN quotation' = DOMAIN quotation /\ quotation'[q] = n
        /\ \A z \in DOMAIN quotation \ {q} : quotation'[z] = quotation[z]
    <3>1. quotation' = [quotation EXCEPT ![q] = n]
      BY <1>1, <1>5, <2>7 DEF Quote!CommitUpdate
    <3> QED BY <1>3, <3>1 DEF QuotationsFit, SheetsFit
  <2>9. PICK batch : batch = Quote!StageBatch(r, plan, total)
    OBVIOUS
  <2>10. /\ stages'[q] = (stages[q] \ x.doomed.stages) \cup {batch}
         /\ \A z \in DOMAIN quotation \ {q} : stages'[z] = stages[z]
    <3>1. stages' = [stages EXCEPT ![q] = (stages[q] \ x.doomed.stages) \cup {batch}]
      BY <1>1, <1>5, <2>4, <2>9 DEF Quote!CommitUpdate, Quote!ScheduleAfter
    <3> QED BY <1>3, <3>1 DEF QuotationsFit, SheetsFit
  <2>11. UNCHANGED <<store, mailed>> /\ Quote!Judge(r) /\ Quote!Answer(r, "done")
    BY <1>5 DEF Quote!CommitUpdate
  <2>12. /\ astray' \in {astray, astray \cup {q}}
         /\ q \notin astray' => /\ astray' = astray /\ q \notin astray
                                /\ x.seen.row = quotation[q] /\ x.seen.stages = stages[q]
    BY <1>1, <2>11, JudgedBy
  <2>13. OnlyChanges(q)
    BY <1>3, <2>8, <2>10, <2>11, <2>12 DEF OnlyChanges
  <2>14. batch.by = r
    BY <2>9 DEF Quote!StageBatch
  <2>15. Outdates(r, q)
    BY <2>10, <2>14 DEF Outdates
  <2>16. PICK y : RequestBecomes(r, y) /\ Prepared(y, quotation', stages', store', astray')
    BY <2>11, AnswerPrepared DEF Quote!Finished
  <2>17. quotation'[q].pdf => quotation'[q].status # "DRAFT"
    BY <1>3, <2>2, <2>6, <2>8 DEF SchedulesFit
  <2>18. ASSUME q \notin astray'
         PROVE  stages'[q] = {batch} /\ PartsFit(total, batch)
    <3>1. PICK b : stages[q] = {b} /\ PartsFit(row.total, b)
      BY <1>3, <2>2, <2>12, <2>18 DEF SchedulesFit, Scheduled
    <3>2. Prepared(x, quotation, stages, store, astray)
      BY <1>1 DEF SchedulesFit
    <3>3. stages[q] \subseteq x.doomed.stages
      BY <1>2, <1>3, <2>12, <2>18, <3>2 DEF Prepared
    <3>4. PlanOf(x.seen.stages) = b.plan
      <4>1. b.plan \in Seq(Nat) /\ x.seen.stages = {b}
        BY <2>12, <2>18, <3>1 DEF PartsFit, Plans
      <4>2. PlanOf({b}) = b.plan
        BY <4>1, PlanOfOne DEF PlanOf
      <4> QED BY <4>1, <4>2
    <3>5. plan = Quote!Given(content.plan, PlanOf(x.seen.stages))
      BY <1>1, <2>1, <2>4 DEF Quote!PlanAfter, Quote!PlanRead, PlanOf
    <3>6. plan \in Plans
      BY <3>1, <3>4, <3>5, PlanConstants, GivenPlan DEF PartsFit
    <3>7. Quote!Accepted(plan)
      BY <1>2, <2>1, <3>2, <3>5 DEF Prepared
    <3> QED BY <2>5, <2>9, <2>10, <3>3, <3>6, <3>7, BatchFits
  <2>19. q \in astray' \/ Scheduled(quotation'[q], stages'[q])
    BY <2>6, <2>8, <2>18 DEF Scheduled
  <2>20. SchedulesFit'
    BY <1>2, <2>13, <2>15, <2>16, <2>17, <2>19, SchedulesAfter
  <2>21. CASE q \in astray'
    BY <1>3, <2>13, <2>20, <2>21, Disowned
  <2>22. CASE q \notin astray'
    <3>1. row.status = "DRAFT"
      BY <1>2, <1>3, <2>2, <2>12, <2>22 DEF ReadingFits, Quote!Requires
    <3>2. PICK old, new, shown :
              /\ old = Quote!Rendered([row |-> row, stages |-> stages[q]])
              /\ new = Quote!Rendered([row |-> n, stages |-> stages'[q]])
              /\ shown = IF row.pdf THEN store[q] ELSE Quote!NoDoc
      OBVIOUS
    <3>3. Quote!Sheet[q] = Leaf("DRAFT", old, shown)
      <4>1. Quote!Sheet[q] = SheetRow(row, stages[q], store[q])
        BY <1>3, <2>2, <2>13, <2>22, SeenAfter
      <4> QED BY <3>1, <3>2, <4>1 DEF SheetRow
    <3>4. Quote!Sheet'[q] = Leaf("DRAFT", new, shown)
      <4>1. Quote!Sheet'[q] = SheetRow(n, stages'[q], store[q])
        BY <1>3, <2>8, <2>11, <2>13, <2>22, SeenAfter
      <4> QED BY <2>6, <3>1, <3>2, <4>1 DEF SheetRow
    <3>5. new \in Quote!Lifecycle!Terms /\ Quote!Lifecycle!Fits(new)
      <4>1. PICK view : view = [row |-> n, stages |-> stages'[q]]
        OBVIOUS
      <4>2. view.row.total \in Nat /\ Scheduled(view.row, view.stages)
        BY <2>5, <2>6, <2>8, <2>19, <2>22, <4>1
      <4> QED BY <3>2, <4>1, <4>2, ShowsTerms
    <3>6. Quote!Lifecycle!Revise(q)
      BY <1>3, <2>13, <2>22, <3>3, <3>4, <3>5, Revised
    <3> QED BY <1>3, <2>20, <3>6 DEF Quote!Lifecycle!Next
  <2> QED BY <2>21, <2>22
<1> QED BY <1>4, <1>5

LEMMA CommitStatusSheet ==
    ASSUME QuotationsFit, ItemsFit, SchedulesFit, NEW r \in Requests, Quote!CommitStatus(r)
    PROVE  SchedulesFit' /\ [Quote!Lifecycle!Next]_(Quote!Sheet)
<1>1. PICK x, q : x = quotationReq[r] /\ q = Quote!Subject(r)
  OBVIOUS
<1>2. /\ x.pc = "write" /\ x.arg.op \in {"send", "accept", "reject"} /\ r \in Unanswered
      /\ UNCHANGED <<items, stages, store, mailed>> /\ Quote!Judge(r)
  BY <1>1, PendingIs DEF Quote!CommitStatus, Quote!Becomes, Quote!Pending
<1>3. /\ ReadingFits(x, quotation, store) /\ q \in DOMAIN quotation /\ q \in Quote!Quotations
      /\ q = x.arg.quotation
  BY <1>1, <1>2, SubjectIs DEF Quote!Pending, Quote!Subject
<1>4. PICK row \in Quote!QuotationRow : row = quotation[q]
  BY <1>1, <1>3 DEF QuotationsFit, SheetsFit
<1>5. PICK status \in {"SENT", "ACCEPTED", "REJECTED"} : status = Quote!Becomes[x.arg.op]
  BY <1>2 DEF Quote!Becomes
<1>6. PICK pdf \in BOOLEAN : pdf = (row.pdf \/ x.arg.op = "send")
  OBVIOUS
<1> DEFINE n == [row EXCEPT !.status = status, !.pdf = pdf]
<1>7. n.status = status /\ n.pdf = pdf /\ n.total = row.total
  BY DEF Quote!QuotationRow
<1>8. quotation' = [quotation EXCEPT ![q] = n]
  <2>1. quotation' = [quotation EXCEPT ![q].status = status, ![q].pdf = @ \/ x.arg.op = "send"]
    BY <1>1, <1>5 DEF Quote!CommitStatus
  <2> QED BY <1>3, <1>4, <1>6, <2>1 DEF QuotationsFit, SheetsFit
<1> HIDE DEF n
<1>9. /\ DOMAIN quotation' = DOMAIN quotation /\ quotation'[q] = n
      /\ \A z \in DOMAIN quotation \ {q} : quotation'[z] = quotation[z]
  BY <1>3, <1>8 DEF QuotationsFit, SheetsFit
<1>10. /\ astray' \in {astray, astray \cup {q}}
       /\ q \notin astray' => /\ astray' = astray /\ q \notin astray
                              /\ x.seen.row = quotation[q] /\ x.seen.stages = stages[q]
  BY <1>1, <1>2, JudgedBy
<1>11. OnlyChanges(q)
  BY <1>2, <1>3, <1>9, <1>10 DEF OnlyChanges
<1>12. Outdates(r, q)
  BY <1>2, <1>7, <1>9 DEF Outdates
<1>13. PICK y : RequestBecomes(r, y) /\ Prepared(y, quotation', stages', store', astray')
  <2>1. CASE Quote!Answer(r, "done")
    BY <2>1, AnswerPrepared DEF Quote!Finished
  <2>2. CASE Quote!Goto(r, "mail")
    <3>1. PICK y : RequestBecomes(r, y) /\ y.pc = "mail"
      BY <2>2, GotoIs
    <3> QED BY <3>1, NothingPrepared
  <2> QED BY <2>1, <2>2 DEF Quote!CommitStatus
<1>14. quotation'[q].pdf => quotation'[q].status # "DRAFT"
  BY <1>7, <1>9
<1>15. q \in astray' \/ Scheduled(quotation'[q], stages'[q])
  <2>1. q \notin astray' => Scheduled(row, stages[q])
    BY <1>3, <1>4, <1>10 DEF SchedulesFit
  <2> QED BY <1>2, <1>7, <1>9, <2>1 DEF Scheduled
<1>16. SchedulesFit'
  BY <1>2, <1>11, <1>12, <1>13, <1>14, <1>15, SchedulesAfter
<1>17. CASE q \in astray'
  BY <1>3, <1>11, <1>16, <1>17, Disowned
<1>18. CASE q \notin astray'
  <2>1. PICK terms, shown :
            /\ terms = Quote!Rendered([row |-> row, stages |-> stages[q]])
            /\ shown = IF row.pdf THEN store[q] ELSE Quote!NoDoc
    OBVIOUS
  <2>2. row.status = Quote!Requires[x.arg.op]
    BY <1>2, <1>3, <1>4, <1>10, <1>18 DEF ReadingFits
  <2>3. Quote!Sheet[q] = Leaf(row.status, terms, shown)
    <3>1. Quote!Sheet[q] = SheetRow(row, stages[q], store[q])
      BY <1>3, <1>4, <1>11, <1>18, SeenAfter
    <3> QED BY <2>1, <3>1 DEF SheetRow
  <2>4. Quote!Sheet'[q] = Leaf(status, terms, IF pdf THEN store[q] ELSE Quote!NoDoc)
    <3>1. Quote!Sheet'[q] = SheetRow(n, stages[q], store[q])
      BY <1>2, <1>3, <1>9, <1>11, <1>18, SeenAfter
    <3>2. Quote!Rendered([row |-> n, stages |-> stages[q]]) = terms
      BY <1>7, <2>1 DEF Quote!Rendered
    <3> QED BY <1>7, <3>1, <3>2 DEF SheetRow
  <2>5. CASE x.arg.op = "send"
    <3>1. row.status = "DRAFT" /\ status = "SENT" /\ pdf
      <4>1. row.status = "DRAFT"
        BY <2>2, <2>5 DEF Quote!Requires
      <4>2. status = "SENT"
        BY <1>5, <2>5 DEF Quote!Becomes
      <4>3. pdf
        BY <1>6, <2>5, Zenon
      <4> QED BY <4>1, <4>2, <4>3
    <3>2. store[q] = terms
      <4>1. Prepared(x, quotation, stages, store, astray)
        BY <1>1 DEF SchedulesFit
      <4>2. store[q] = Quote!Rendered(x.seen)
        BY <1>2, <1>3, <1>10, <1>18, <2>5, <4>1 DEF Prepared
      <4>3. PICK view : view = [row |-> row, stages |-> stages[q]]
        OBVIOUS
      <4>4. view.row = x.seen.row /\ view.stages = x.seen.stages
        BY <1>4, <1>10, <1>18, <4>3
      <4> QED BY <2>1, <4>2, <4>3, <4>4, RenderedFrom
    <3>3. Quote!Sheet[q] = Leaf("DRAFT", terms, shown) /\ Quote!Sheet'[q] = Leaf("SENT", terms, terms)
      BY <2>3, <2>4, <3>1, <3>2
    <3>4. Quote!Lifecycle!Send(q)
      BY <1>3, <1>11, <1>18, <3>3, Sent
    <3> QED BY <1>3, <1>16, <3>4 DEF Quote!Lifecycle!Next
  <2>6. CASE x.arg.op # "send"
    <3>1. row.status = "SENT" /\ status \in {"ACCEPTED", "REJECTED"} /\ pdf = row.pdf
      <4>1. row.status = "SENT" /\ status \in {"ACCEPTED", "REJECTED"}
        BY <1>2, <1>5, <2>2, <2>6 DEF Quote!Requires, Quote!Becomes
      <4>2. pdf = row.pdf
        BY <1>6, <2>6 DEF Quote!QuotationRow
      <4> QED BY <4>1, <4>2
    <3>2. Quote!Sheet[q] = Leaf("SENT", terms, shown) /\ Quote!Sheet'[q] = Leaf(status, terms, shown)
      BY <2>1, <2>3, <2>4, <3>1
    <3>3. Quote!Lifecycle!Decide(q, status)
      BY <1>3, <1>11, <1>18, <3>2, Decided
    <3> QED BY <1>3, <1>16, <3>1, <3>3 DEF Quote!Lifecycle!Next
  <2> QED BY <2>5, <2>6
<1> QED BY <1>17, <1>18

LEMMA SheetInit ==
    ASSUME Quote!Init
    PROVE  SchedulesFit /\ Quote!Lifecycle!Init
<1>1. PICK b : b = Quote!StageBatch(Quote!Nobody, Default, Opening)
  OBVIOUS
<1>2. PartsFit(Opening, b)
  BY <1>1, BatchFits, PlanConstants, QuoteConstants
<1>3. /\ DOMAIN quotation = Drafts /\ Drafts \subseteq Quote!Quotations /\ astray = {}
      /\ QuotationsFit
  BY QuotationsFitInit DEF Quote!Init, Quote!Quotations
<1>4. ASSUME NEW q \in Drafts
      PROVE  /\ quotation[q].status = "DRAFT" /\ quotation[q].pdf = FALSE
             /\ quotation[q].total = Opening /\ stages[q] = {b}
  <2>1. PICK n : quotation[q] = Quote!Seeded(n)
    BY DEF Quote!Init
  <2>2. stages[q] = {b}
    BY <1>1, <1>3 DEF Quote!Init
  <2> QED BY <2>1, <2>2 DEF Quote!Seeded
<1>5. ASSUME NEW q \in Drafts
      PROVE  Scheduled(quotation[q], stages[q])
  BY <1>2, <1>4 DEF Scheduled
<1>6. ASSUME NEW r \in Requests
      PROVE  Prepared(quotationReq[r], quotation, stages, store, astray)
  <2>1. quotationReq[r] = Quote!At("idle")
    BY DEF Quote!Init
  <2>2. quotationReq[r].pc = "idle"
    BY <2>1 DEF Quote!At, Quote!Request
  <2> QED BY <2>2, NothingPrepared
<1>7. SchedulesFit
  BY <1>3, <1>4, <1>5, <1>6 DEF SchedulesFit
<1>8. ASSUME NEW q \in Drafts
      PROVE  /\ Quote!Sheet[q].status = "DRAFT" /\ Quote!Sheet[q].shown = Quote!NoDoc
             /\ Quote!Sheet[q].terms \in Quote!Lifecycle!Terms
             /\ Quote!Lifecycle!Fits(Quote!Sheet[q].terms)
  <2>1. PICK view : view = [row |-> quotation[q], stages |-> stages[q]]
    OBVIOUS
  <2>2. view.row.total \in Nat /\ Scheduled(view.row, view.stages)
    BY <1>4, <1>5, <2>1, QuoteConstants
  <2>3. Quote!Sheet[q] = SheetRow(quotation[q], stages[q], store[q])
    BY <1>3, SheetIs
  <2>4. Quote!Sheet[q] = Leaf("DRAFT", Quote!Rendered(view), Quote!NoDoc)
    BY <1>4, <2>1, <2>3 DEF SheetRow
  <2>5. /\ Quote!Sheet[q].status = "DRAFT" /\ Quote!Sheet[q].shown = Quote!NoDoc
        /\ Quote!Sheet[q].terms = Quote!Rendered(view)
    BY <2>4 DEF Leaf
  <2> QED BY <2>2, <2>5, ShowsTerms
<1>9. DOMAIN Quote!Sheet = Drafts
  BY <1>3, SheetIs
<1>10. Quote!Lifecycle!Init
  BY <1>8, <1>9 DEF Quote!Lifecycle!Init, Quote!Lifecycle!Unseen, Quote!NoDoc
<1> QED BY <1>7, <1>10

LEMMA StartMailKeepsSchedules ==
    ASSUME QuotationsFit, SchedulesFit, NEW r \in Requests, Quote!StartMail(r)
    PROVE  SchedulesFit' /\ UNCHANGED <<quotation, stages, store, astray>>
<1>1. UNCHANGED <<quotation, stages, store, astray>> /\ Quote!Answer(r, "done")
  BY DEF Quote!StartMail
<1>2. PICK y : RequestBecomes(r, y) /\ Prepared(y, quotation, stages, store, astray)
  BY <1>1, AnswerPrepared DEF Quote!Finished
<1>3. quotationReq'[r] = y /\ \A x \in Requests \ {r} : quotationReq'[x] = quotationReq[x]
  BY <1>2 DEF QuotationsFit, RequestBecomes
<1>4. ASSUME NEW x \in Requests
      PROVE  Prepared(quotationReq'[x], quotation, stages, store, astray)
  <2>1. CASE x = r
    BY <1>2, <1>3, <2>1
  <2>2. CASE x # r
    BY <1>3, <2>2 DEF SchedulesFit
  <2> QED BY <2>1, <2>2
<1> QED BY <1>1, <1>4 DEF SchedulesFit

LEMMA SheetStays ==
    ASSUME UNCHANGED <<quotation, stages, store, astray>>
    PROVE  UNCHANGED Quote!Sheet
  BY SheetIs

\* Every step of the quotations is a step of QuotationLifecycle, or changes nothing of
\* what it sees.
LEMMA SheetNext ==
    ASSUME QuotationsFit, ItemsFit, SchedulesFit, [Quote!Next]_(Quote!vars)
    PROVE  SchedulesFit' /\ [Quote!Lifecycle!Next]_(Quote!Sheet)
<1> USE DEF Quote!tables
<1>1. ASSUME NEW r \in Requests, NEW c \in Contents, Quote!Create(r, c)
      PROVE  SchedulesFit' /\ UNCHANGED <<quotation, stages, store, astray>>
  <2>1. PICK a, view : /\ a = [op |-> "create", quotation |-> r, content |-> c]
                       /\ view = Quote!NoView
    OBVIOUS
  <2>2. Quote!Arrive(r, a, view, "check")
    BY <1>1, <2>1 DEF Quote!Create
  <2> QED BY <2>2, ArrivalKeepsSchedules DEF Quote!Arrive
<1>2. ASSUME NEW r \in Requests, NEW q, NEW a, Quote!Open(r, q, a)
      PROVE  SchedulesFit' /\ UNCHANGED <<quotation, stages, store, astray>>
  BY <1>2, OpeningKeepsSchedules DEF Quote!Open, Quote!Arrive
<1>3. ASSUME NEW r \in Requests,
             \/ Quote!CheckPlan(r) \/ Quote!LockItems(r) \/ Quote!LockStages(r)
             \/ Quote!ReadStages(r) \/ Quote!TakeNumber(r) \/ Quote!NumberTaken(r)
             \/ Quote!FindItems(r) \/ Quote!FindStages(r) \/ Quote!TransientError(r)
      PROVE  SchedulesFit' /\ UNCHANGED <<quotation, stages, store, astray>>
  <2>1. SchedulesFit'
    BY <1>3, ChecksKeepSchedules, LockStagesKeepsSchedules, ReadStagesKeepsSchedules,
       NumbersKeepSchedules, FindsKeepSchedules, RetryKeepsSchedules
  <2>2. UNCHANGED Quote!tables
    BY <1>3
       DEF Quote!CheckPlan, Quote!LockItems, Quote!LockStages, Quote!ReadStages,
           Quote!TakeNumber, Quote!NumberTaken, Quote!FindItems, Quote!FindStages,
           Quote!TransientError
  <2> QED BY <2>1, <2>2
<1>4. ASSUME NEW r \in Requests, Quote!Crash(r)
      PROVE  SchedulesFit' /\ UNCHANGED <<quotation, stages, store, astray>>
  BY <1>4, AnswerKeepsSchedules DEF Quote!Crash, Quote!Finished
<1>5. ASSUME NEW r \in Requests, Quote!Handle(r)
      PROVE  SchedulesFit' /\ [Quote!Lifecycle!Next]_(Quote!Sheet)
  BY <1>3, <1>5, StartMailKeepsSchedules, SheetStays, InsertSheet, UploadSheet,
     CommitUpdateSheet, CommitStatusSheet
     DEF Quote!Handle
<1>6. CASE UNCHANGED Quote!vars
  BY <1>6, SheetStays DEF Quote!vars, SchedulesFit
<1>7. ASSUME NEW r \in Requests, NEW q, NEW c, Quote!Update(r, q, c)
      PROVE  SchedulesFit' /\ UNCHANGED <<quotation, stages, store, astray>>
  BY <1>2, <1>7 DEF Quote!Update
<1>8. ASSUME NEW r \in Requests, NEW q, NEW op, Quote!Simple(r, q, op)
      PROVE  SchedulesFit' /\ UNCHANGED <<quotation, stages, store, astray>>
  BY <1>2, <1>8 DEF Quote!Simple
<1> QED BY <1>1, <1>3, <1>4, <1>5, <1>6, <1>7, <1>8, SheetStays
        DEF Quote!Next, Quote!Quiet

\* A quotation that no request wrote on an outdated reading is revised only while it
\* is a draft, always with a payment schedule that fits its total, is sent once, with
\* a document that shows what it says, and is decided once, for good
\* (quotation.service.ts, create, update, send, accept, reject).
THEOREM QuotationsImplementLifecycle == CrmSpec => QuotationsFollowLifecycle
<1>1. Quote!Init => SchedulesFit /\ Quote!Lifecycle!Init
  BY SheetInit
<1>2. QuotationsFit /\ ItemsFit /\ SchedulesFit /\ [Quote!Next]_(Quote!vars)
          => SchedulesFit' /\ [Quote!Lifecycle!Next]_(Quote!Sheet)
  BY SheetNext
<1> QED BY <1>1, <1>2, EachPart, QuotationsAlwaysFit, ItemsAlwaysFit, PTL
        DEF Quote!Spec, QuotationsFollowLifecycle, Quote!FollowsLifecycle, Quote!Lifecycle!Spec
=============================================================================
