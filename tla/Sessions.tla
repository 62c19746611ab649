------------------------------ MODULE Sessions ------------------------------
(***************************************************************************)
(* The sessions of one user: AuthService and SessionRepository of the API, *)
(* the auth routes of the web server in front of it, and the tabs of the   *)
(* user's browsers, which share a browser's session cookie.                *)
(*                                                                         *)
(* A tab has at most one auth request in flight (refreshPromise in the web *)
(* app's auth.service.ts).  The cookie is read when the request leaves and *)
(* written when its answer arrives.  On the API, every repository call is  *)
(* a transaction of its own.                                               *)
(*                                                                         *)
(* A session is named by its place in the order of issue, and so is the    *)
(* refresh token whose hash it keeps.  Sessions live equally long, so they *)
(* expire in that order.  The password given is always the right one.      *)
(***************************************************************************)
EXTENDS Integers, FiniteSets

CONSTANTS
    Tabs,
    BrowserOf,      \* tab -> the browser it is open in
    Limit,          \* MAX_CONCURRENT_SESSIONS
    MaxIssued,      \* bound: sessions ever issued
    MaxInFlight     \* bound: auth requests at the same time

Browsers == {BrowserOf[t] : t \in Tabs}

ASSUME SessionsAssumption ==
    /\ IsFiniteSet(Tabs)
    /\ BrowserOf \in [Tabs -> Browsers]
    /\ Limit \in Nat \ {0}
    /\ MaxIssued \in Nat
    /\ MaxInFlight \in Nat

VARIABLES
    session,        \* sessions: id -> row
    issued,         \* how many have been issued
    expired,        \* expiresAt has passed for the first so many
    cookie,         \* what each browser's session cookie holds
    pc,             \* where each tab's request is
    seen,           \* what it was given and has read
    parent,         \* history: the session each one was issued in place of
    cut             \* history: those issued by a refresh that then failed

tables == <<session, issued, parent>>
vars   == <<session, issued, expired, cookie, pc, seen, parent, cut>>

None == 0
Ids  == 1..MaxIssued

SessionRow == [revoked : BOOLEAN, replacedBy : Ids \cup {None}]

Operations == {"login", "refresh", "logout", "device"}
InApi    == {"count", "oldest", "evict", "login", "find", "revokeAll", "create",
             "mark", "lookup", "revoke"}
Answers  == {"tokens", "unauthorized", "failed", "done"}
InFlight == {t \in Tabs : pc[t] # "idle"}

\* Requests that may still issue a session.
Issuing  == {"count", "oldest", "evict", "login", "find", "create"}
MayIssue == {t \in Tabs : pc[t] \in Issuing}

\* The rows with revokedAt null, and those of them that have not expired.
Live   == {s \in DOMAIN session : ~session[s].revoked}
Active == {s \in Live : s > expired}

NothingSeen == [op |-> "login", token |-> None, target |-> None]

Init ==
    /\ session = [s \in {} |-> {}]
    /\ issued = 0
    /\ expired = 0
    /\ cookie = [b \in Browsers |-> None]
    /\ pc = [t \in Tabs |-> "idle"]
    /\ seen = [t \in Tabs |-> NothingSeen]
    /\ parent = [s \in Ids |-> None]
    /\ cut = {}

Goto(t, label) == pc' = [pc EXCEPT ![t] = label]

\* A step of the API on behalf of t.
At(t, here) == pc[t] = here /\ UNCHANGED <<expired, cookie, cut>>

Revoked(ids) ==
    [s \in DOMAIN session |->
        [session[s] EXCEPT !.revoked = @ \/ s \in ids]]

\* Mutant: the new refresh token is the one issued last once more.
IssueAgain(t, token) ==
    /\ session' = [s \in DOMAIN session \cup {issued} |->
                      IF s = issued THEN [revoked |-> FALSE, replacedBy |-> None]
                      ELSE session[s]]
    /\ parent' = [parent EXCEPT ![issued] = token]
    /\ seen' = [seen EXCEPT ![t].target = issued]
    /\ UNCHANGED issued

\* createSession, for a new refresh token.
Issue(t, token) ==
    LET new == issued + 1
    IN  /\ issued' = new
        /\ session' = [s \in DOMAIN session \cup {new} |->
                          IF s = new THEN [revoked |-> FALSE, replacedBy |-> None]
                          ELSE session[s]]
        /\ parent' = [parent EXCEPT ![new] = token]
        /\ seen' = [seen EXCEPT ![t].target = new]

-----------------------------------------------------------------------------
(* A request leaves the browser.                                           *)

Send(t, op, target, label) ==
    /\ pc[t] = "idle"
    /\ Cardinality(InFlight) < MaxInFlight
    /\ seen' = [seen EXCEPT ![t] = [op |-> op, token |-> cookie[BrowserOf[t]],
                                    target |-> target]]
    /\ Goto(t, label)
    /\ UNCHANGED <<tables, expired, cookie, cut>>

SignedIn(t)  == cookie[BrowserOf[t]] # None
RoomToIssue  == issued + Cardinality(MayIssue) < MaxIssued

Login(t) == RoomToIssue /\ Send(t, "login", None, "count")

\* POST /api/auth/refresh, or GET /api/auth/session with a stale access token.
Refresh(t) == RoomToIssue /\ SignedIn(t) /\ Send(t, "refresh", None, "find")

Logout(t) == SignedIn(t) /\ Send(t, "logout", cookie[BrowserOf[t]], "lookup")

\* revokeSession: one of the user's sessions, picked from the list of them.
SignOutDevice(t, s) ==
    /\ SignedIn(t)
    /\ s \in Active
    /\ Send(t, "device", s, "lookup")

-----------------------------------------------------------------------------
(* login, once the password was accepted.                                  *)

CountActive(t) ==
    /\ At(t, "count")
    /\ Goto(t, IF Cardinality(Active) < Limit THEN "login" ELSE "oldest")
    /\ UNCHANGED <<tables, seen>>

\* Mutant: the session issued last is taken for the oldest.
FindNewest(t) ==
    /\ At(t, "oldest")
    /\ \/ Active = {} /\ Goto(t, "login") /\ UNCHANGED seen
       \/ \E s \in Active :
              /\ \A x \in Active : x <= s
              /\ seen' = [seen EXCEPT ![t].target = s]
              /\ Goto(t, "evict")
    /\ UNCHANGED tables

FindOldest(t) ==
    /\ At(t, "oldest")
    /\ \/ Active = {} /\ Goto(t, "login") /\ UNCHANGED seen
       \/ \E s \in Active :
              /\ \A x \in Active : s <= x
              /\ seen' = [seen EXCEPT ![t].target = s]
              /\ Goto(t, "evict")
    /\ UNCHANGED tables

\* Mutant: the oldest session is found and kept.
EvictNobody(t) ==
    /\ At(t, "evict")
    /\ Goto(t, "login")
    /\ UNCHANGED <<tables, seen>>

\* To update a row that was deleted meanwhile is an error.
Evict(t) ==
    /\ At(t, "evict")
    /\ Goto(t, IF seen[t].target \in DOMAIN session THEN "login" ELSE "failed")
    /\ session' = Revoked({seen[t].target})
    /\ UNCHANGED <<issued, parent, seen>>

CreateAtLogin(t) ==
    /\ At(t, "login")
    /\ Issue(t, None)
    /\ Goto(t, "tokens")

-----------------------------------------------------------------------------
(* refresh.                                                                *)

\* Mutant: a revoked session is as good as any other.
FindSessionAnyway(t) ==
    /\ At(t, "find")
    /\ Goto(t, IF seen[t].token \notin DOMAIN session \/ seen[t].token <= expired
               THEN "unauthorized" ELSE "create")
    /\ UNCHANGED <<tables, seen>>

\* Mutant: the next session to expire counts as expired already.
FindSessionEarly(t) ==
    LET s == seen[t].token
    IN  /\ At(t, "find")
        /\ Goto(t, IF s <= expired + 1 \/ s \notin DOMAIN session THEN "unauthorized"
                   ELSE IF session[s].revoked THEN "revokeAll"
                   ELSE "create")
        /\ UNCHANGED <<tables, seen>>

\* verifyRefreshToken refuses an expired token: it carries the session's expiry.
FindSession(t) ==
    LET s == seen[t].token
    IN  /\ At(t, "find")
        /\ Goto(t, IF s <= expired \/ s \notin DOMAIN session THEN "unauthorized"
                   ELSE IF session[s].revoked THEN "revokeAll"
                   ELSE "create")
        /\ UNCHANGED <<tables, seen>>

RevokeAllActive(t) ==
    /\ At(t, "revokeAll")
    /\ session' = Revoked(Live)
    /\ Goto(t, "unauthorized")
    /\ UNCHANGED <<issued, parent, seen>>

CreateAtRefresh(t) ==
    /\ At(t, "create")
    /\ Issue(t, seen[t].token)
    /\ Goto(t, "mark")

\* Mutant: the session given is replaced, and stays usable.
MarkReplacedOnly(t) ==
    /\ At(t, "mark")
    /\ IF seen[t].token \in DOMAIN session
       THEN /\ session' = [session EXCEPT ![seen[t].token].replacedBy = seen[t].target]
            /\ Goto(t, "tokens")
       ELSE Goto(t, "failed") /\ UNCHANGED session
    /\ UNCHANGED <<issued, parent, seen>>

MarkRotated(t) ==
    /\ At(t, "mark")
    /\ IF seen[t].token \in DOMAIN session
       THEN /\ session' = [session EXCEPT ![seen[t].token].replacedBy = seen[t].target,
                                          ![seen[t].token].revoked = TRUE]
            /\ Goto(t, "tokens")
       ELSE Goto(t, "failed") /\ UNCHANGED session
    /\ UNCHANGED <<issued, parent, seen>>

-----------------------------------------------------------------------------
(* logout and revokeSession; the job that deletes expired sessions.        *)

LookUp(t) ==
    /\ At(t, "lookup")
    /\ Goto(t, IF seen[t].target \in Active THEN "revoke" ELSE "done")
    /\ UNCHANGED <<tables, seen>>

Revoke(t) ==
    /\ At(t, "revoke")
    /\ Goto(t, IF seen[t].target \in DOMAIN session THEN "done" ELSE "failed")
    /\ session' = Revoked({seen[t].target})
    /\ UNCHANGED <<issued, parent, seen>>

\* The next session's expiresAt passes.
Expire ==
    /\ expired < issued
    /\ expired' = expired + 1
    /\ UNCHANGED <<tables, cookie, pc, seen, cut>>

\* Who replaced whom among the rows that stay is not affected: a session
\* never outlives the one that replaced it.
DeleteExpired ==
    /\ session' = [s \in DOMAIN session \ 1..expired |-> session[s]]
    /\ UNCHANGED <<issued, expired, cookie, pc, seen, parent, cut>>

-----------------------------------------------------------------------------
(* The answer, and what becomes of it.                                     *)

\* The API fails in the middle of a request, or its answer is lost on the way
\* to the web server.
ApiFails(t) ==
    /\ pc[t] \in InApi \cup {"tokens", "unauthorized", "done"}
    /\ cut' = IF pc[t] = "mark" THEN cut \cup {seen[t].target} ELSE cut
    /\ Goto(t, "failed")
    /\ UNCHANGED <<tables, expired, cookie, seen>>

Forget(t) ==
    /\ Goto(t, "idle")
    /\ seen' = [seen EXCEPT ![t] = NothingSeen]

\* A failed refresh clears the cookie whatever the failure; a logout does too.
Deliver(t) ==
    /\ pc[t] \in Answers
    /\ cookie' = [cookie EXCEPT ![BrowserOf[t]] =
                     IF pc[t] = "tokens" THEN seen[t].target
                     ELSE IF seen[t].op \in {"refresh", "logout"} THEN None
                     ELSE @]
    /\ Forget(t)
    /\ UNCHANGED <<tables, expired, cut>>

\* The tab is closed, or the web server fails: the cookie stays.
AnswerLost(t) ==
    /\ pc[t] \in Answers
    /\ Forget(t)
    /\ UNCHANGED <<tables, expired, cookie, cut>>

-----------------------------------------------------------------------------
Serve(t) ==
    \/ CountActive(t)
    \/ FindOldest(t)
    \/ Evict(t)
    \/ CreateAtLogin(t)
    \/ FindSession(t)
    \/ RevokeAllActive(t)
    \/ CreateAtRefresh(t)
    \/ MarkRotated(t)
    \/ LookUp(t)
    \/ Revoke(t)

Next ==
    \/ \E t \in Tabs :
           \/ Login(t)
           \/ Refresh(t)
           \/ Logout(t)
           \/ \E s \in Active : SignOutDevice(t, s)
           \/ Serve(t)
           \/ ApiFails(t)
           \/ Deliver(t)
           \/ AnswerLost(t)
    \/ Expire
    \/ DeleteExpired

Spec == Init /\ [][Next]_vars

-----------------------------------------------------------------------------
(* Properties.                                                             *)

\* Types, and that every token a tab, a cookie or a row refers to was issued,
\* each time anew.
TypeOK ==
    /\ issued \in Nat /\ issued + Cardinality(MayIssue) <= MaxIssued
    /\ expired \in 0..issued
    /\ DOMAIN session \subseteq 1..issued
    /\ session \in [DOMAIN session -> SessionRow]
    /\ \A s \in DOMAIN session :
           session[s].replacedBy # None => session[s].replacedBy \in s + 1..issued
    /\ cookie \in [Browsers -> 0..issued]
    /\ pc \in [Tabs -> {"idle"} \cup InApi \cup Answers]
    /\ seen \in [Tabs -> [op : Operations, token : 0..issued, target : 0..issued]]
    /\ \A t \in Tabs :
           pc[t] = "mark" => /\ seen[t].target \in 1..issued
                             /\ parent[seen[t].target] = seen[t].token
    /\ parent \in [Ids -> 0..issued]
    /\ \A s \in Ids : parent[s] < s
    /\ cut \subseteq 1..issued

\* "Every refresh() call marks the presented session" (auth.service.ts of the
\* API): when a token reaches a browser, or is on its way, the session it was
\* issued in place of can no longer be refreshed, whatever overlaps or fails.
\* The web application's auth.service.ts and application-runtime.md say instead
\* that refreshing is stateless and does not rotate.
DeliveredInExchange ==
    /\ \A b \in Browsers : cookie[b] # None => parent[cookie[b]] \notin Live
    /\ \A t \in Tabs : pc[t] = "tokens" => parent[seen[t].target] \notin Live

\* A refresh is answered 401 only if its session has really ended: been
\* revoked, expired or deleted.
RefusedOnlyIfEnded ==
    \A t \in Tabs : pc[t] = "unauthorized" => seen[t].token \notin Active

\* "the OLDEST is evicted" (auth.constant.ts): even if other logins evict and
\* issue sessions between the reading and the revoking.
OldestGoesFirst ==
    [][\A t \in Tabs :
          pc[t] = "evict" /\ pc'[t] = "login" /\ seen[t].target \in Active
              => \A s \in Active : seen[t].target <= s]_vars

\* Handled one at a time, logins keep the user within MAX_CONCURRENT_SESSIONS
\* active sessions, but for those a refresh that failed left behind.
WithinLimit ==
    Cardinality(Active) <= Limit + Cardinality(cut)
                                 + Cardinality({t \in Tabs : pc[t] = "mark"})

\* Handled one at a time, a session is exchanged for one other, but for
\* exchanges that failed before the session was marked.
OneHeir ==
    \A s, x \in Ids \ cut : parent[s] # None /\ parent[s] = parent[x] => s = x

\* "Presenting an ALREADY-ROTATED (revoked) session's refresh token"
\* (auth.service.ts) revokes all sessions of the user: no other device loses
\* its session for a token whose own was ended but not replaced by another.
AlarmOnlyAfterRotation ==
    \A t \in Tabs :
        /\ pc[t] = "revokeAll"
        /\ seen[t].token \in DOMAIN session
        /\ session[seen[t].token].replacedBy = None
        => \A b \in Browsers \ {BrowserOf[t]} : cookie[b] \notin Active
=============================================================================
