------------------------------ MODULE Lockout ------------------------------
(***************************************************************************)
(* The failed-login counter of one user, as AuthService.login keeps it:    *)
(* the row is read once, the password is compared, and the counter is      *)
(* written from what was read.  Logins overlap, and none is retried.       *)
(*                                                                         *)
(* Whether a password is right is an input.  What a successful login does  *)
(* next is the subject of Sessions.                                        *)
(***************************************************************************)
EXTENDS Naturals, FiniteSets

CONSTANTS
    Logins,         \* POST /auth/login requests for one user; an answered one may
                    \* be sent again
    MaxFailed,      \* MAX_FAILED_LOGIN_ATTEMPTS
    Duration,       \* ACCOUNT_LOCKOUT_DURATION_MS, in ticks
    Horizon,        \* bound: ticks
    MaxStreak       \* bound: wrong passwords in a row

\* What the constants are: the modules that give them values assume it.
LockoutAssumption ==
    /\ MaxFailed \in Nat \ {0} /\ Duration \in Nat \ {0}
    /\ Horizon \in Nat \ {0} /\ MaxStreak \in Nat

VARIABLES
    now,
    user,           \* failedLoginAttempts, and lockedUntil (0: null)
    streak,         \* history: wrong passwords recorded since the last success
    strayed,        \* history: one of them was counted on an outdated reading
    login           \* requests: next step, and the row it read

vars == <<now, user, streak, strayed, login>>

Fresh == [attempts |-> 0, lockedUntil |-> 0]

At(label) == [pc |-> label, seen |-> Fresh]

Init ==
    /\ now = 1
    /\ user = Fresh
    /\ streak = 0
    /\ strayed = FALSE
    /\ login = [r \in Logins |-> At("idle")]

Goto(r, label) == login' = [login EXCEPT ![r].pc = label]

\* findActiveByEmail, and the check of lockedUntil: 401 while it runs.
ReadUser(r) ==
    /\ login[r].pc = "idle"
    /\ user.lockedUntil <= now
    /\ login' = [login EXCEPT ![r] = [pc |-> "compare", seen |-> user]]
    /\ UNCHANGED <<now, user, streak, strayed>>

Compare(r) ==
    /\ login[r].pc = "compare"
    /\ \E outcome \in {"right", "wrong"} : Goto(r, outcome)
    /\ UNCHANGED <<now, user, streak, strayed>>

\* Mutant: locked only by one more failure than allowed.
WillLockLater(r) == login[r].seen.attempts >= MaxFailed

WillLock(r) == login[r].seen.attempts + 1 >= MaxFailed

\* recordFailedAttempt: a lock is left as it is unless this failure sets it.
RecordFailure(r) ==
    /\ login[r].pc = "wrong"
    /\ streak < MaxStreak
    /\ user' = [attempts    |-> login[r].seen.attempts + 1,
                lockedUntil |-> IF WillLock(r) THEN now + Duration ELSE user.lockedUntil]
    /\ streak' = streak + 1
    /\ strayed' = (strayed \/ login[r].seen # user)
    /\ login' = [login EXCEPT ![r] = At("idle")]
    /\ UNCHANGED now

\* recordSuccessfulLogin: whatever was recorded meanwhile is forgotten.
RecordSuccess(r) ==
    /\ login[r].pc = "right"
    /\ user' = Fresh
    /\ streak' = 0
    /\ strayed' = FALSE
    /\ login' = [login EXCEPT ![r] = At("idle")]
    /\ UNCHANGED now

Crash(r) ==
    /\ login[r].pc # "idle"
    /\ login' = [login EXCEPT ![r] = At("idle")]
    /\ UNCHANGED <<now, user, streak, strayed>>

Tick ==
    /\ now < Horizon
    /\ now' = now + 1
    /\ UNCHANGED <<user, streak, strayed, login>>

Quiet ==
    /\ now = Horizon
    /\ UNCHANGED vars

Next ==
    \/ \E r \in Logins :
           ReadUser(r) \/ Compare(r) \/ RecordFailure(r) \/ RecordSuccess(r) \/ Crash(r)
    \/ Tick
    \/ Quiet

Spec == Init /\ [][Next]_vars

-----------------------------------------------------------------------------
(* Properties.                                                             *)

UserRow == [attempts : Nat, lockedUntil : 0..(Horizon + Duration)]

TypeOK ==
    /\ now \in 1..Horizon
    /\ user \in UserRow
    /\ streak \in 0..MaxStreak /\ strayed \in BOOLEAN
    /\ login \in [Logins -> [pc : {"idle", "compare", "right", "wrong"},
                             seen : UserRow]]

\* "5 consecutive failed logins locks the account for 15 minutes ... a successful
\* login resets both" (README of the auth module): however logins overlap, a
\* counter at its limit goes with a lock, even one written later by a request
\* that read less; and as long as no failure was counted on an outdated reading,
\* the counter is the number of failures since the last success, and that many
\* of them lock.
FailuresCounted ==
    /\ user.attempts >= MaxFailed => user.lockedUntil # 0
    /\ ~strayed =>
           /\ user.attempts = streak
           /\ streak >= MaxFailed <=> user.lockedUntil # 0
=============================================================================
