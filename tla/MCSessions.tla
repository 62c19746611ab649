----------------------------- MODULE MCSessions -----------------------------
(***************************************************************************)
(* Instances of Sessions for TLC: in some behaviours requests overlap, in  *)
(* others they are handled one after the other, which allows for more      *)
(* sessions and makes stronger properties true.                            *)
(***************************************************************************)
EXTENDS Sessions, TLC

CONSTANTS t1, t2, t3, desktop, phone, Handlings

VARIABLE handling       \* "overlapping" or "in turn"

\* Two tabs of one browser, and a phone.
TwoTabsAndPhone == (t1 :> desktop) @@ (t2 :> desktop) @@ (t3 :> phone)

AlikeTabs == Permutations({t1, t2})

\* One tab on each device.
TwoDevices == (t1 :> desktop) @@ (t3 :> phone)

Overlapping == INSTANCE Sessions WITH Limit <- 1, MaxIssued <- 3, MaxInFlight <- 2

MCInit == Init /\ handling \in Handlings

MCNext ==
    \/ handling = "overlapping" /\ Overlapping!Next /\ UNCHANGED handling
    \/ handling = "in turn" /\ Next /\ UNCHANGED handling

MCSpec == MCInit /\ [][MCNext]_<<vars, handling>>

\* No device signs itself out: what ends its session, another one does.
OthersOnly ==
    \A t \in Tabs : pc'[t] = "lookup" => seen'[t].target # cookie[BrowserOf[t]]

AlarmSpec == MCInit /\ [][MCNext /\ OthersOnly]_<<vars, handling>>

\* Handled one at a time, logins keep the user within MAX_CONCURRENT_SESSIONS
\* active sessions, but for those a refresh that failed left behind
\* (auth.service.ts, issueTokens).
WithinLimitInTurn == handling = "in turn" => WithinLimit

\* Handled one at a time, a session is exchanged for one other, but for
\* exchanges that failed before the session was marked (auth.service.ts, refresh).
OneHeirInTurn == handling = "in turn" => OneHeir
=============================================================================
