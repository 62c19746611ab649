------------------------------- MODULE Jobs -------------------------------
(***************************************************************************)
(* JobRunner.run and InMemoryDeadLetterStore: jobs that are started and    *)
(* not waited for (emails) or started by a clock (session cleanup), tried  *)
(* again with growing delays and in the end recorded as dead letters, all  *)
(* in the memory of one process.                                           *)
(*                                                                         *)
(* An attempt may fail after it has had its effect.  The length of the     *)
(* delays is left out: they are bounded.                                   *)
(***************************************************************************)
EXTENDS Naturals, FiniteSets

CONSTANTS
    Jobs,           \* jobs, each started once
    MaxAttempts     \* DEFAULT_RETRY_POLICY.maxAttempts

\* What the constants are: the modules that give them values assume it.
JobsAssumption == MaxAttempts \in Nat \ {0}

VARIABLES
    job,            \* jobs: next step, attempt, and how often it had its effect
    deadLetters,    \* entries of the store
    gauge           \* jobs_dead_letter_queue_size

vars == <<job, deadLetters, gauge>>

Init ==
    /\ job = [j \in Jobs |-> [pc |-> "new", attempt |-> 0, effects |-> 0]]
    /\ deadLetters = {}
    /\ gauge = 0

Running == {j \in Jobs : job[j].pc \in {"execute", "sleep"}}

Start(j) ==
    /\ job[j].pc = "new"
    /\ job' = [job EXCEPT ![j].pc = "execute", ![j].attempt = 1]
    /\ UNCHANGED <<deadLetters, gauge>>

Succeed(j) ==
    /\ job[j].pc = "execute"
    /\ job' = [job EXCEPT ![j].pc = "succeeded", ![j].effects = @ + 1]
    /\ UNCHANGED <<deadLetters, gauge>>

AttemptsRemain(j) == job[j].attempt < MaxAttempts

\* The attempt throws, before or after its effect.
Throw(j, effect, label) ==
    /\ job[j].pc = "execute"
    /\ job' = [job EXCEPT ![j].pc = label, ![j].effects = @ + effect]

FailAttempt(j) ==
    /\ AttemptsRemain(j)
    /\ \E effect \in {0, 1} : Throw(j, effect, "sleep")
    /\ UNCHANGED <<deadLetters, gauge>>

\* Mutant: a job that is given up is not recorded.
GiveUpSilently(j) ==
    /\ ~AttemptsRemain(j)
    /\ \E effect \in {0, 1} : Throw(j, effect, "dead_letter")
    /\ UNCHANGED <<deadLetters, gauge>>

GiveUp(j) ==
    /\ ~AttemptsRemain(j)
    /\ \E effect \in {0, 1} : Throw(j, effect, "dead_letter")
    /\ deadLetters' = deadLetters \cup {j}
    /\ gauge' = Cardinality(deadLetters')

Wake(j) ==
    /\ job[j].pc = "sleep"
    /\ job' = [job EXCEPT ![j].pc = "execute", ![j].attempt = @ + 1]
    /\ UNCHANGED <<deadLetters, gauge>>

\* The process ends: what it was doing, its dead letters and its metrics go.
Restart ==
    /\ Running # {} \/ deadLetters # {}
    /\ job' = [j \in Jobs |-> IF j \in Running THEN [job[j] EXCEPT !.pc = "lost"] ELSE job[j]]
    /\ deadLetters' = {}
    /\ gauge' = 0

Step(j) == Succeed(j) \/ FailAttempt(j) \/ GiveUp(j) \/ Wake(j)

Quiet ==
    /\ Running = {}
    /\ UNCHANGED vars

Next ==
    \/ \E j \in Jobs : Start(j) \/ Step(j)
    \/ Restart
    \/ Quiet

Spec == Init /\ [][Next]_vars

\* A job that was started is on the event loop of its process.
Fairness == \A j \in Jobs : WF_vars(Step(j))

FairSpec == Spec /\ Fairness

-----------------------------------------------------------------------------
(* Properties.                                                             *)

TypeOK ==
    /\ job \in [Jobs -> [pc : {"new", "execute", "sleep", "succeeded", "dead_letter", "lost"},
                         attempt : 0..MaxAttempts, effects : 0..MaxAttempts]]
    /\ deadLetters \subseteq {j \in Jobs : job[j].pc = "dead_letter"}
    /\ gauge = Cardinality(deadLetters)

\* What became of a job that was started is known: it had its effect, someone can
\* find it among the dead letters, or its process died.
Settled(j) ==
    \/ job[j].pc = "succeeded" /\ job[j].effects \in 1..MaxAttempts
    \/ job[j].pc = "dead_letter" /\ j \in deadLetters /\ gauge > 0
    \/ job[j].pc = "lost"

\* "retry-on-failure and a dead-letter fallback once retries are exhausted" (job-
\* runner.service.ts): every job that is started is settled in the end.
EveryJobIsSettled == \A j \in Jobs : job[j].pc = "execute" ~> Settled(j)
=============================================================================
