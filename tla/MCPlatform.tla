----------------------------- MODULE MCPlatform -----------------------------
(***************************************************************************)
(* Parts of the system that share nothing: projects, notifications, lists  *)
(* that are replaced, the failed-login counter, the cache and the job      *)
(* runner; and orders that wait for each other.  Each behaviour picks one  *)
(* of them and leaves the others alone.  Orders has the constants and the  *)
(* variables that are not declared here.                                   *)
(***************************************************************************)
EXTENDS Orders, TLC

CONSTANTS
    Parts,
    Callers,                                \* Projects and Notifications: requests
    Things, KindOf, Project,                \* Projects
    Notifications,
    Owners, Keyed, Keys,                    \* Replacements
    Logins, MaxFailed, Duration, MaxStreak, \* Lockout
    Readers, TTL, MaxLoad, MaxValue,        \* Cache
    Horizon,                                \* Lockout and Cache
    Jobs,
    i1, i2, o1, o2, m1, d1, u1              \* rows of the instance below

VARIABLES
    part,                                   \* which of them
    row, log, store, stray, projectReq,
    notification, audit, silent, notificationReq,
    text, rows, replaceReq,
    clock, user, streak, strayed, login,
    value, ended, entry, oldest, reader, cacheNow,
    job, deadLetters, gauge

projectVars      == <<row, log, store, stray, projectReq>>
notificationVars == <<notification, audit, silent, notificationReq>>
replaceVars      == <<text, rows, replaceReq>>
loginVars        == <<clock, user, streak, strayed, login>>
cacheVars        == <<value, ended, entry, oldest, reader, cacheNow>>
jobVars          == <<job, deadLetters, gauge>>

Team    == INSTANCE Projects WITH Requests <- Callers, req <- projectReq
Notice  == INSTANCE Notifications WITH Requests <- Callers, req <- notificationReq
Replace == INSTANCE Replacements WITH req <- replaceReq
Failed  == INSTANCE Lockout WITH now <- clock
Cached  == INSTANCE Cache WITH now <- cacheNow
Queue   == INSTANCE Jobs

ASSUME PartsAssumption ==
    /\ Team!ProjectsAssumption /\ Notice!NotificationsAssumption
    /\ Replace!ReplacementsAssumption /\ Failed!LockoutAssumption
    /\ Cached!CacheAssumption /\ Queue!JobsAssumption

-----------------------------------------------------------------------------
(* An instance: a milestone, a document and a member; and two orders that  *)
(* take the same two items in opposite order, one of them yet to be placed.*)

ThreeKinds == (m1 :> "milestone") @@ (d1 :> "document") @@ (u1 :> "member")

Line(i)     == [item |-> i, quantity |-> 1]
Crossed     == (o1 :> <<Line(i1), Line(i2)>>) @@ (o2 :> <<Line(i2), Line(i1)>>)
TwoOfEach   == (i1 :> 2) @@ (i2 :> 2)
SecondGoing == (o2 :> "PROCESSING")

-----------------------------------------------------------------------------
PlatformInit ==
    /\ part \in Parts
    /\ Team!Init /\ Notice!Init /\ Replace!Init /\ Failed!Init /\ Cached!Init
    /\ Queue!Init /\ Init

PlatformNext ==
    \/ part = "projects" /\ Team!Next
       /\ UNCHANGED <<part, notificationVars, replaceVars, loginVars, cacheVars, jobVars, vars>>
    \/ part = "notifications" /\ Notice!Next
       /\ UNCHANGED <<part, projectVars, replaceVars, loginVars, cacheVars, jobVars, vars>>
    \/ part = "replacements" /\ Replace!Next
       /\ UNCHANGED <<part, projectVars, notificationVars, loginVars, cacheVars, jobVars, vars>>
    \/ part = "logins" /\ Failed!Next
       /\ UNCHANGED <<part, projectVars, notificationVars, replaceVars, cacheVars, jobVars, vars>>
    \/ part = "cache" /\ Cached!Next
       /\ UNCHANGED <<part, projectVars, notificationVars, replaceVars, loginVars, jobVars, vars>>
    \/ part = "jobs" /\ Queue!Next
       /\ UNCHANGED <<part, projectVars, notificationVars, replaceVars, loginVars, cacheVars, vars>>
    \/ part = "orders" /\ Next
       /\ UNCHANGED <<part, projectVars, notificationVars, replaceVars, loginVars, cacheVars, jobVars>>

platformVars ==
    <<part, projectVars, notificationVars, replaceVars, loginVars, cacheVars, jobVars, vars>>

PlatformSpec == PlatformInit /\ [][PlatformNext]_platformVars

FairPlatform == PlatformSpec /\ Fairness /\ Queue!Fairness

-----------------------------------------------------------------------------
(* Properties, as their modules state them, besides those of Orders.       *)

\* All of the tables keep their types, checks and unique keys.
TablesTyped ==
    /\ Team!TypeOK /\ Notice!TypeOK /\ Replace!TypeOK /\ Failed!TypeOK /\ Cached!TypeOK
    /\ Queue!TypeOK /\ TypeOK

\* The activity log tells how a row got where it is (activity-log.repository.ts).
ActivityTells == Team!ActivityTells

\* Retries count themselves and are audited (notification.service.ts, retry).
RetriesAreAudited == Notice!RetriesAreAudited

\* However logins overlap, a counter at its limit goes with a lock; failures are
\* counted exactly unless one was counted on an outdated reading (README of the
\* auth module).
FailuresCounted == Failed!FailuresCounted

\* No value is served long after it ended (cache.service.ts, getOrLoad).
StalenessBounded == Cached!StalenessBounded

\* Every job that is started is settled (job-runner.service.ts, run).
EveryJobIsSettled == Queue!EveryJobIsSettled

\* Whoever reads a list finds one whole list (fabric.repository.ts,
\* setProductLinks).
OneWholeList == Replace!OneWholeList
=============================================================================
