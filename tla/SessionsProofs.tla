--------------------------- MODULE SessionsProofs ---------------------------
(***************************************************************************)
(* Theorems about Sessions for any finite set of tabs in any browsers, any *)
(* limit and any number of sessions.                                       *)
(***************************************************************************)
EXTENDS MCSessions, FiniteSetTheorems, TLAPS

USE DEF None, Ids, InApi, Answers, Operations

States  == {"idle"} \cup InApi \cup Answers
SeenRow == [op : Operations, token : 0..issued, target : 0..issued]

\* What TypeOK says of the rows of sessions, with n sessions issued.
RowsFit(table, n) ==
    /\ DOMAIN table \subseteq 1..n
    /\ table \in [DOMAIN table -> SessionRow]
    /\ \A s \in DOMAIN table : table[s].replacedBy # None => table[s].replacedBy \in s + 1..n

\* Every session issued has an id.
LEMMA IssuedHaveIds == ASSUME TypeOK PROVE issued \in Nat /\ issued <= MaxIssued
<1>1. Cardinality(MayIssue) \in Nat
  BY SessionsAssumption, FS_Subset, FS_CardinalityType DEF MayIssue
<1>2. issued \in Nat /\ issued + Cardinality(MayIssue) <= MaxIssued
  BY DEF TypeOK
<1> QED BY <1>1, <1>2, SessionsAssumption

-----------------------------------------------------------------------------
(* Steps that issue no session.                                            *)

\* Fewer tabs that may issue, no more sessions: there is still room.
LEMMA RoomLeft ==
    ASSUME TypeOK, NEW t \in Tabs, NEW label, Goto(t, label),
           label \in Issuing => pc[t] \in Issuing,
           issued' = issued
    PROVE  issued' + Cardinality(MayIssue') <= MaxIssued
<1>1. MayIssue' \subseteq MayIssue
  BY DEF MayIssue, Goto, TypeOK
<1>2. IsFiniteSet(MayIssue)
  BY SessionsAssumption, FS_Subset DEF MayIssue
<1>3. /\ Cardinality(MayIssue') <= Cardinality(MayIssue)
      /\ Cardinality(MayIssue') \in Nat /\ Cardinality(MayIssue) \in Nat
  BY <1>1, <1>2, FS_Subset, FS_CardinalityType
<1> QED BY <1>3, SessionsAssumption DEF TypeOK

LEMMA TypeKeep ==
    ASSUME TypeOK, NEW t \in Tabs, NEW label \in States, Goto(t, label),
           label \in Issuing => pc[t] \in Issuing,
           label # "mark",
           UNCHANGED <<issued, parent, expired>>,
           RowsFit(session', issued),
           cookie' \in [Browsers -> 0..issued],
           seen' \in [Tabs -> SeenRow],
           \A x \in Tabs : x # t => seen'[x] = seen[x],
           cut' \subseteq 1..issued
    PROVE  TypeOK'
<1>1. issued' + Cardinality(MayIssue') <= MaxIssued
  BY RoomLeft
<1>2. pc' \in [Tabs -> States]
  BY DEF Goto, TypeOK, States
<1>3. \A x \in Tabs : pc'[x] = "mark" => pc[x] = "mark" /\ x # t
  BY DEF Goto, TypeOK
<1>4. MayIssue' = {x \in Tabs : pc'[x] \in Issuing}
  BY DEF MayIssue
<1> QED BY <1>1, <1>2, <1>3 DEF TypeOK, RowsFit, SeenRow, States

LEMMA RevokedFits ==
    ASSUME TypeOK, NEW ids PROVE RowsFit(Revoked(ids), issued)
<1>1. ASSUME NEW s \in DOMAIN session
      PROVE  /\ Revoked(ids)[s] \in SessionRow
             /\ Revoked(ids)[s].replacedBy = session[s].replacedBy
  <2>1. PICK row \in SessionRow : row = session[s]
    BY DEF TypeOK
  <2>2. PICK b \in BOOLEAN : b = (row.revoked \/ s \in ids)
    OBVIOUS
  <2>3. /\ [row EXCEPT !.revoked = b] \in SessionRow
        /\ [row EXCEPT !.revoked = b].replacedBy = row.replacedBy
    BY DEF SessionRow
  <2> QED BY <2>1, <2>2, <2>3 DEF Revoked
<1>2. DOMAIN Revoked(ids) = DOMAIN session /\ Revoked(ids) = [s \in DOMAIN session |-> Revoked(ids)[s]]
  BY DEF Revoked
<1> QED BY <1>1, <1>2 DEF RowsFit, TypeOK

-----------------------------------------------------------------------------
(* Steps that issue one.                                                   *)

\* A tab that may issue still has an id to do so, and gives up its claim.
LEMMA RoomToGo ==
    ASSUME TypeOK, NEW t \in Tabs, NEW label, Goto(t, label),
           pc[t] \in Issuing, label \notin Issuing
    PROVE  /\ issued + 1 + Cardinality(MayIssue') <= MaxIssued
           /\ issued + 1 \in Ids
<1>1. MayIssue' = MayIssue \ {t} /\ t \in MayIssue
  BY DEF MayIssue, Goto, TypeOK
<1>2. IsFiniteSet(MayIssue)
  BY SessionsAssumption, FS_Subset DEF MayIssue
<1>3. /\ Cardinality(MayIssue') = Cardinality(MayIssue) - 1
      /\ Cardinality(MayIssue') \in Nat /\ Cardinality(MayIssue) \in Nat
  BY <1>1, <1>2, FS_RemoveElement, FS_CardinalityType
<1> QED BY <1>3, SessionsAssumption DEF TypeOK

LEMMA TypeIssue ==
    ASSUME TypeOK, NEW t \in Tabs, NEW token \in 0..issued, NEW label \in {"mark", "tokens"},
           pc[t] \in Issuing, Goto(t, label), Issue(t, token),
           label = "mark" => seen[t].token = token,
           UNCHANGED <<expired, cookie, cut>>
    PROVE  TypeOK'
<1> USE SessionsAssumption
<1>1. /\ issued' = issued + 1 /\ issued' \in Nat
      /\ issued' + Cardinality(MayIssue') <= MaxIssued
      /\ issued + 1 \in Ids
  <2>1. issued' = issued + 1 /\ issued \in Nat
    BY DEF Issue, TypeOK
  <2>2. label \notin Issuing
    BY DEF Issuing
  <2>3. issued + 1 + Cardinality(MayIssue') <= MaxIssued /\ issued + 1 \in Ids
    BY <2>2, RoomToGo
  <2> QED BY <2>1, <2>3
<1>2. RowsFit(session', issued')
  <2>1. [revoked |-> FALSE, replacedBy |-> 0] \in SessionRow
    BY DEF SessionRow
  <2>2. /\ DOMAIN session' = DOMAIN session \cup {issued + 1}
        /\ \A s \in DOMAIN session : session'[s] = session[s]
        /\ session'[issued + 1] = [revoked |-> FALSE, replacedBy |-> 0]
        /\ session' = [s \in DOMAIN session' |-> session'[s]]
    BY DEF Issue, TypeOK
  <2> QED BY <1>1, <2>1, <2>2 DEF RowsFit, TypeOK
<1>3. /\ pc' \in [Tabs -> States] /\ pc'[t] = label
      /\ \A x \in Tabs : x # t => pc'[x] = pc[x]
  BY DEF Goto, TypeOK, States
<1>4. /\ seen' \in [Tabs -> SeenRow']
      /\ seen'[t].target = issued + 1
      /\ label = "mark" => seen'[t].token = token
      /\ \A x \in Tabs : x # t => seen'[x] = seen[x]
  <2>1. PICK row \in SeenRow : row = seen[t]
    BY DEF TypeOK, SeenRow
  <2>2. /\ [row EXCEPT !.target = issued + 1] \in SeenRow'
        /\ [row EXCEPT !.target = issued + 1].target = issued + 1
        /\ [row EXCEPT !.target = issued + 1].token = row.token
    <3>1. SeenRow' = [op : Operations, token : 0..(issued + 1), target : 0..(issued + 1)]
      BY <1>1 DEF SeenRow
    <3>2. PICK n \in Nat : n = issued + 1
      BY DEF TypeOK
    <3>3. row \in [op : Operations, token : 0..n, target : 0..n] /\ n \in 0..n
      BY <3>2 DEF SeenRow, TypeOK
    <3>4. /\ [row EXCEPT !.target = n] \in [op : Operations, token : 0..n, target : 0..n]
          /\ [row EXCEPT !.target = n].target = n
          /\ [row EXCEPT !.target = n].token = row.token
      BY <3>3
    <3> QED BY <3>1, <3>2, <3>4
  <2>3. /\ seen' = [x \in Tabs |-> IF x = t THEN [row EXCEPT !.target = issued + 1] ELSE seen[x]]
    BY <2>1 DEF Issue, TypeOK
  <2>4. \A x \in Tabs : seen[x] \in SeenRow'
    BY <1>1 DEF TypeOK, SeenRow
  <2> QED BY <2>1, <2>2, <2>3, <2>4
<1>5. /\ parent' \in [Ids -> 0..issued']
      /\ parent'[issued + 1] = token
      /\ \A s \in Ids : s # issued + 1 => parent'[s] = parent[s]
      /\ \A s \in Ids : parent'[s] < s
  BY <1>1 DEF Issue, TypeOK
<1>6. ASSUME NEW x \in Tabs, pc'[x] = "mark"
      PROVE  seen'[x].target \in 1..issued' /\ parent'[seen'[x].target] = seen'[x].token
  <2>1. CASE x = t
    BY <1>1, <1>3, <1>4, <1>5, <1>6, <2>1 DEF TypeOK
  <2>2. CASE x # t
    <3>1. seen[x].target \in 1..issued /\ parent[seen[x].target] = seen[x].token
      BY <1>3, <1>6, <2>2 DEF TypeOK
    <3> QED BY <1>1, <1>4, <1>5, <2>2, <3>1 DEF TypeOK
  <2> QED BY <2>1, <2>2
<1>7. /\ expired' \in 0..issued' /\ cookie' \in [Browsers -> 0..issued'] /\ cut' \subseteq 1..issued'
  BY <1>1 DEF TypeOK
<1> QED BY <1>1, <1>2, <1>3, <1>4, <1>5, <1>6, <1>7 DEF TypeOK, RowsFit, SeenRow, States

-----------------------------------------------------------------------------
LEMMA TypeInit == Init => TypeOK
<1> SUFFICES ASSUME Init PROVE TypeOK OBVIOUS
<1> USE SessionsAssumption
<1>1. MayIssue = {}
  BY DEF Init, MayIssue, Issuing
<1>2. Cardinality(MayIssue) = 0
  BY <1>1, FS_EmptySet
<1> QED BY <1>2 DEF Init, TypeOK, NothingSeen

\* What Send needs to know: one more claim, or none.
LEMMA TypeSend ==
    ASSUME TypeOK, NEW t \in Tabs, NEW op \in Operations, NEW target \in 0..issued,
           NEW label \in {"count", "find", "lookup"}, Send(t, op, target, label),
           label # "lookup" => RoomToIssue
    PROVE  TypeOK'
<1> USE SessionsAssumption
<1>1. /\ UNCHANGED <<session, issued, parent, expired, cookie, cut>>
      /\ pc[t] = "idle" /\ Goto(t, label)
  BY DEF Send, tables
<1>2. issued + Cardinality(MayIssue') <= MaxIssued
  <2>1. IsFiniteSet(MayIssue) /\ Cardinality(MayIssue) \in Nat
    BY FS_Subset, FS_CardinalityType DEF MayIssue
  <2>2. CASE label = "lookup"
    BY <1>1, <2>2, RoomLeft DEF Issuing
  <2>3. CASE label # "lookup"
    <3>1. t \notin MayIssue /\ MayIssue' = MayIssue \cup {t}
      BY <1>1, <2>3 DEF MayIssue, Goto, TypeOK, Issuing
    <3>2. Cardinality(MayIssue') = Cardinality(MayIssue) + 1
      BY <2>1, <3>1, FS_AddElement
    <3> QED BY <2>1, <2>3, <3>2 DEF RoomToIssue, TypeOK
  <2> QED BY <2>2, <2>3
<1>3. seen' \in [Tabs -> SeenRow]
  <2>1. [op |-> op, token |-> cookie[BrowserOf[t]], target |-> target] \in SeenRow
    BY DEF SeenRow, TypeOK, Browsers
  <2> QED BY <2>1 DEF Send, TypeOK, SeenRow
<1>4. /\ pc' \in [Tabs -> States]
      /\ \A x \in Tabs : pc'[x] = "mark" => pc[x] = "mark" /\ x # t
      /\ \A x \in Tabs : x # t => seen'[x] = seen[x]
  BY <1>1 DEF Goto, TypeOK, Send, States
<1> QED BY <1>1, <1>2, <1>3, <1>4 DEF TypeOK, SeenRow, States

LEMMA TypeServe ==
    ASSUME TypeOK, NEW t \in Tabs, Serve(t)
    PROVE  TypeOK'
<1> USE SessionsAssumption
<1>0. /\ seen \in [Tabs -> SeenRow] /\ RowsFit(session, issued)
      /\ cookie \in [Browsers -> 0..issued] /\ cut \subseteq 1..issued
  BY DEF TypeOK, SeenRow, RowsFit
\* A step that moves the tab, and perhaps revokes.
<1>1. ASSUME NEW label \in States \ {"mark"}, Goto(t, label),
             label \in Issuing => pc[t] \in Issuing,
             UNCHANGED <<issued, parent, expired, cookie, cut, seen>>,
             session' = session \/ \E ids : session' = Revoked(ids)
      PROVE  TypeOK'
  BY <1>0, <1>1, RevokedFits, TypeKeep
<1>2. CASE CountActive(t)
  <2>1. PICK label \in {"login", "oldest"} :
            label = IF Cardinality(Active) < Limit THEN "login" ELSE "oldest"
    OBVIOUS
  <2>2. Goto(t, label) /\ pc[t] = "count"
    BY <1>2, <2>1 DEF CountActive, At
  <2> QED BY <1>1, <1>2, <2>2 DEF CountActive, At, tables, Issuing, States
<1>3. CASE FindOldest(t)
  <2>1. CASE Goto(t, "login") /\ UNCHANGED seen
    BY <1>1, <1>3, <2>1 DEF FindOldest, At, tables, Issuing, States
  <2>2. CASE \E s \in Active : seen' = [seen EXCEPT ![t].target = s] /\ Goto(t, "evict")
    <3>1. PICK s \in Active : seen' = [seen EXCEPT ![t].target = s] /\ Goto(t, "evict")
      BY <2>2
    <3>2. PICK row \in SeenRow : row = seen[t]
      BY <1>0
    <3>3. s \in 0..issued
      BY DEF Active, Live, TypeOK
    <3>4. [row EXCEPT !.target = s] \in SeenRow
      BY <3>3 DEF SeenRow
    <3>5. seen' = [x \in Tabs |-> IF x = t THEN [row EXCEPT !.target = s] ELSE seen[x]]
      BY <1>0, <3>1, <3>2
    <3>6. seen' \in [Tabs -> SeenRow] /\ \A x \in Tabs : x # t => seen'[x] = seen[x]
      BY <1>0, <3>4, <3>5
    <3> QED BY <1>0, <1>3, <3>1, <3>6, TypeKeep DEF FindOldest, At, tables, Issuing, States
  <2> QED BY <1>3, <2>1, <2>2 DEF FindOldest
<1>4. CASE Evict(t)
  <2>1. PICK label \in {"login", "failed"} :
            label = IF seen[t].target \in DOMAIN session THEN "login" ELSE "failed"
    OBVIOUS
  <2>2. Goto(t, label) /\ pc[t] = "evict"
    BY <1>4, <2>1 DEF Evict, At
  <2> QED BY <1>1, <1>4, <2>2 DEF Evict, At, Issuing, States
<1>5. CASE CreateAtLogin(t)
  <2>1. 0 \in 0..issued
    BY DEF TypeOK
  <2> QED BY <1>5, <2>1, TypeIssue DEF CreateAtLogin, At, Issuing
<1>6. CASE FindSession(t)
  <2>1. PICK label \in {"unauthorized", "revokeAll", "create"} :
            label = IF seen[t].token <= expired \/ seen[t].token \notin DOMAIN session
                    THEN "unauthorized"
                    ELSE IF session[seen[t].token].revoked THEN "revokeAll" ELSE "create"
    OBVIOUS
  <2>2. Goto(t, label) /\ pc[t] = "find"
    BY <1>6, <2>1 DEF FindSession, At
  <2> QED BY <1>1, <1>6, <2>2 DEF FindSession, At, tables, Issuing, States
<1>7. CASE RevokeAllActive(t)
  BY <1>1, <1>7 DEF RevokeAllActive, At, Issuing, States
<1>8. CASE CreateAtRefresh(t)
  <2>1. seen[t].token \in 0..issued
    BY DEF TypeOK
  <2> QED BY <1>8, <2>1, TypeIssue DEF CreateAtRefresh, At, Issuing
<1>9. CASE MarkRotated(t)
  <2> DEFINE s == seen[t].token
             new == seen[t].target
  <2>1. /\ s \in 0..issued /\ new \in s + 1..issued
    <3>1. new \in 1..issued /\ parent[new] = s
      BY <1>9 DEF MarkRotated, At, TypeOK
    <3>2. new \in Ids
      BY <3>1, IssuedHaveIds
    <3>3. s \in 0..issued /\ s < new
      BY <3>1, <3>2 DEF TypeOK
    <3> HIDE DEF new, s
    <3> QED BY <3>1, <3>3, IssuedHaveIds
  <2> HIDE DEF new, s
  <2>2. CASE /\ s \in DOMAIN session /\ Goto(t, "tokens")
             /\ session' = [session EXCEPT ![s].replacedBy = new, ![s].revoked = TRUE]
    <3>1. PICK row \in SessionRow : row = session[s]
      BY <2>2 DEF TypeOK
    <3>2. PICK heir \in SessionRow : heir = [row EXCEPT !.replacedBy = new]
      <4>1. new \in Ids
        BY <2>1, IssuedHaveIds
      <4> QED BY <4>1 DEF SessionRow
    <3>3. heir.replacedBy = new
      BY <3>2 DEF SessionRow
    <3>4. /\ [heir EXCEPT !.revoked = TRUE] \in SessionRow
          /\ [heir EXCEPT !.revoked = TRUE].replacedBy = new
      BY <3>3 DEF SessionRow
    <3>5. session' = [x \in DOMAIN session |-> IF x = s THEN [heir EXCEPT !.revoked = TRUE]
                                               ELSE session[x]]
      BY <2>2, <3>1, <3>2 DEF TypeOK
    <3>6. RowsFit(session', issued)
      BY <2>1, <3>4, <3>5 DEF RowsFit, TypeOK
    <3> QED BY <1>0, <1>9, <2>2, <3>6, TypeKeep DEF MarkRotated, At, Issuing, States
  <2>3. CASE Goto(t, "failed") /\ UNCHANGED session
    BY <1>1, <1>9, <2>3 DEF MarkRotated, At, Issuing, States
  <2> QED BY <1>9, <2>2, <2>3 DEF MarkRotated, s, new
<1>10. CASE LookUp(t)
  <2>1. PICK label \in {"revoke", "done"} :
            label = IF seen[t].target \in Active THEN "revoke" ELSE "done"
    OBVIOUS
  <2>2. Goto(t, label)
    BY <1>10, <2>1 DEF LookUp, At
  <2> QED BY <1>1, <1>10, <2>2 DEF LookUp, At, tables, Issuing, States
<1>11. CASE Revoke(t)
  <2>1. PICK label \in {"done", "failed"} :
            label = IF seen[t].target \in DOMAIN session THEN "done" ELSE "failed"
    OBVIOUS
  <2>2. Goto(t, label)
    BY <1>11, <2>1 DEF Revoke, At
  <2> QED BY <1>1, <1>11, <2>2 DEF Revoke, At, Issuing, States
<1> QED BY <1>2, <1>3, <1>4, <1>5, <1>6, <1>7, <1>8, <1>9, <1>10, <1>11 DEF Serve

LEMMA TypeNext == TypeOK /\ [Next]_vars => TypeOK'
<1> SUFFICES ASSUME TypeOK, [Next]_vars PROVE TypeOK' OBVIOUS
<1> USE SessionsAssumption
<1>1. ASSUME NEW t \in Tabs, Login(t) \/ Refresh(t) \/ Logout(t) PROVE TypeOK'
  <2>1. cookie[BrowserOf[t]] \in 0..issued /\ 0 \in 0..issued
    <3>1. BrowserOf[t] \in Browsers
      BY DEF Browsers
    <3> QED BY <3>1 DEF TypeOK
  <2> QED BY <1>1, <2>1, TypeSend DEF Login, Refresh, Logout
<1>2. ASSUME NEW t \in Tabs, NEW s \in Active, SignOutDevice(t, s) PROVE TypeOK'
  <2>1. s \in 0..issued
    BY DEF Active, Live, TypeOK
  <2> QED BY <1>2, <2>1, TypeSend DEF SignOutDevice
<1>3. ASSUME NEW t \in Tabs, ApiFails(t) PROVE TypeOK'
  <2>1. cut' \subseteq 1..issued
    BY <1>3 DEF ApiFails, TypeOK
  <2>2. /\ seen' \in [Tabs -> SeenRow] /\ RowsFit(session', issued)
        /\ cookie' \in [Browsers -> 0..issued]
        /\ UNCHANGED <<issued, parent, expired, seen>>
    BY <1>3 DEF ApiFails, TypeOK, SeenRow, RowsFit, tables
  <2> QED BY <1>3, <2>1, <2>2, TypeKeep DEF ApiFails, Issuing, States
<1>4. ASSUME NEW t \in Tabs, Deliver(t) \/ AnswerLost(t) PROVE TypeOK'
  <2>1. /\ seen' \in [Tabs -> SeenRow]
        /\ \A x \in Tabs : x # t => seen'[x] = seen[x]
    <3>1. NothingSeen \in SeenRow
      BY DEF NothingSeen, SeenRow, TypeOK
    <3>2. seen' = [seen EXCEPT ![t] = NothingSeen]
      BY <1>4 DEF Deliver, AnswerLost, Forget
    <3> HIDE DEF NothingSeen
    <3> QED BY <3>1, <3>2 DEF TypeOK, SeenRow
  <2>2. cookie' \in [Browsers -> 0..issued]
    <3>1. PICK value \in 0..issued :
              cookie' = cookie \/ cookie' = [cookie EXCEPT ![BrowserOf[t]] = value]
      <4>1. /\ seen[t].target \in 0..issued /\ 0 \in 0..issued
            /\ cookie[BrowserOf[t]] \in 0..issued
        <5>1. BrowserOf[t] \in Browsers
          BY DEF Browsers
        <5> QED BY <5>1 DEF TypeOK
      <4> QED BY <1>4, <4>1 DEF Deliver, AnswerLost
    <3> QED BY <3>1 DEF TypeOK
  <2>3. /\ RowsFit(session', issued) /\ cut' \subseteq 1..issued
        /\ UNCHANGED <<issued, parent, expired>> /\ Goto(t, "idle")
    BY <1>4 DEF Deliver, AnswerLost, Forget, TypeOK, RowsFit, tables
  <2> QED BY <2>1, <2>2, <2>3, TypeKeep DEF Issuing, States
<1>5. CASE Expire
  <2>1. UNCHANGED <<session, issued, parent, cookie, pc, seen, cut>> /\ expired' \in 0..issued
    BY <1>5 DEF Expire, tables, TypeOK
  <2>2. MayIssue' = MayIssue
    BY <2>1 DEF MayIssue
  <2> QED BY <2>1, <2>2 DEF TypeOK
<1>6. CASE DeleteExpired
  <2>1. /\ UNCHANGED <<issued, expired, parent, cookie, pc, seen, cut>>
        /\ RowsFit(session', issued)
    BY <1>6 DEF DeleteExpired, TypeOK, RowsFit
  <2>2. MayIssue' = MayIssue
    BY <2>1 DEF MayIssue
  <2> QED BY <2>1, <2>2 DEF TypeOK, RowsFit
<1>7. CASE UNCHANGED vars
  <2>1. MayIssue' = MayIssue
    BY <1>7 DEF vars, MayIssue
  <2> QED BY <1>7, <2>1 DEF vars, TypeOK
<1> QED BY <1>1, <1>2, <1>3, <1>4, <1>5, <1>6, <1>7, TypeServe DEF Next

\* Sessions, cookies and requests keep their types, and each refers only to
\* sessions that were issued before.
THEOREM TypeCorrect == Spec => []TypeOK
<1>1. Init => TypeOK
  BY TypeInit
<1>2. TypeOK /\ [Next]_vars => TypeOK'
  BY TypeNext
<1> QED BY <1>1, <1>2, PTL DEF Spec

-----------------------------------------------------------------------------
(* What has ended stays ended.                                             *)

\* A step brings no session back: one that is live was live before, or is the
\* one the step issued; expiry only advances; ancestry is not rewritten.
LEMMA NothingReturns ==
    ASSUME TypeOK, [Next]_vars
    PROVE  /\ issued' \in {issued, issued + 1}
           /\ \A s \in Live' : s \in Live \/ (s = issued + 1 /\ issued' = s)
           /\ expired' >= expired
           /\ \A s \in 1..issued : parent'[s] = parent[s]
<1> DEFINE Holds ==
           /\ issued' \in {issued, issued + 1}
           /\ \A s \in Live' : s \in Live \/ (s = issued + 1 /\ issued' = s)
           /\ expired' >= expired
           /\ \A s \in 1..issued : parent'[s] = parent[s]
<1> SUFFICES Holds OBVIOUS
<1>0. issued \in Nat /\ expired \in Int /\ \A s \in DOMAIN session : session[s] \in SessionRow
  BY DEF TypeOK
<1>1. ASSUME UNCHANGED <<issued, parent>>, expired' >= expired,
             \A s \in Live' : s \in Live
      PROVE  Holds
  BY <1>0, <1>1
<1>2. ASSUME NEW t \in Tabs, NEW token, Issue(t, token), UNCHANGED expired
      PROVE  Holds
  <2>1. /\ issued' = issued + 1
        /\ \A s \in Live' : s \in Live \/ s = issued + 1
    BY <1>2 DEF Issue, Live
  <2>2. \A s \in 1..issued : parent'[s] = parent[s]
    BY <1>0, <1>2, IssuedHaveIds DEF Issue, TypeOK
  <2> QED BY <1>0, <1>2, <2>1, <2>2
<1>3. ASSUME NEW ids, session' = Revoked(ids) PROVE \A s \in Live' : s \in Live
  <2>1. ASSUME NEW s \in DOMAIN session, session[s].revoked PROVE Revoked(ids)[s].revoked
    <3>1. PICK row \in SessionRow : row = session[s]
      BY <1>0
    <3>2. [row EXCEPT !.revoked = TRUE].revoked
      BY DEF SessionRow
    <3>3. Revoked(ids)[s] = [row EXCEPT !.revoked = TRUE]
      BY <2>1, <3>1 DEF Revoked
    <3> QED BY <3>2, <3>3
  <2>2. DOMAIN Revoked(ids) = DOMAIN session
    BY DEF Revoked
  <2> QED BY <1>3, <2>1, <2>2 DEF Live
<1>4. ASSUME NEW t \in Tabs, MarkRotated(t) PROVE Holds
  <2> DEFINE s == seen[t].token
  <2>1. /\ DOMAIN session' = DOMAIN session
        /\ \A x \in DOMAIN session : x # s => session'[x] = session[x]
        /\ UNCHANGED <<issued, parent, expired>>
    BY <1>4 DEF MarkRotated, At
  <2>2. s \notin Live'
    <3>1. CASE /\ s \in DOMAIN session
               /\ session' = [session EXCEPT ![s].replacedBy = seen[t].target, ![s].revoked = TRUE]
      <4>1. PICK row \in SessionRow : row = session[s]
        BY <1>0, <3>1
      <4>2. seen[t].target \in Ids
        <5>1. seen[t].target \in 1..issued
          BY <1>4 DEF MarkRotated, At, TypeOK
        <5> QED BY <5>1, IssuedHaveIds, SessionsAssumption
      <4>3. PICK heir \in SessionRow : heir = [row EXCEPT !.replacedBy = seen[t].target]
        BY <4>2 DEF SessionRow
      <4>4. [heir EXCEPT !.revoked = TRUE].revoked
        BY DEF SessionRow
      <4>5. session'[s] = [heir EXCEPT !.revoked = TRUE]
        BY <3>1, <4>1, <4>3
      <4> QED BY <4>4, <4>5 DEF Live
    <3>2. CASE s \notin DOMAIN session
      BY <2>1, <3>2 DEF Live
    <3> QED BY <1>4, <3>1, <3>2 DEF MarkRotated
  <2> QED BY <1>0, <1>1, <2>1, <2>2 DEF Live
<1>5. ASSUME NEW t \in Tabs, Serve(t) PROVE Holds
  <2>1. CASE CreateAtLogin(t) \/ CreateAtRefresh(t)
    BY <1>2, <2>1 DEF CreateAtLogin, CreateAtRefresh, At
  <2>2. CASE CountActive(t) \/ FindOldest(t) \/ FindSession(t) \/ LookUp(t)
    BY <1>0, <1>1, <2>2 DEF CountActive, FindOldest, FindSession, LookUp, At, tables, Live
  <2>3. CASE Evict(t) \/ RevokeAllActive(t) \/ Revoke(t)
    BY <1>0, <1>1, <1>3, <2>3 DEF Evict, RevokeAllActive, Revoke, At
  <2> QED BY <1>4, <1>5, <2>1, <2>2, <2>3 DEF Serve
<1>6. ASSUME NEW t \in Tabs, NEW op, NEW target, NEW label, Send(t, op, target, label)
      PROVE  Holds
  BY <1>0, <1>1, <1>6 DEF Send, tables, Live
<1>7. ASSUME NEW t \in Tabs, ApiFails(t) \/ Deliver(t) \/ AnswerLost(t) PROVE Holds
  BY <1>0, <1>1, <1>7 DEF ApiFails, Deliver, AnswerLost, tables, Live
<1>8. CASE Expire \/ DeleteExpired \/ UNCHANGED vars
  <2>1. \A s \in Live' : s \in Live
    BY <1>8 DEF Expire, DeleteExpired, vars, tables, Live
  <2>2. UNCHANGED <<issued, parent>> /\ expired' >= expired
    BY <1>0, <1>8 DEF Expire, DeleteExpired, vars, tables
  <2> QED BY <1>1, <2>1, <2>2
<1> HIDE DEF Holds
<1> QED BY <1>5, <1>6, <1>7, <1>8 DEF Next, Login, Refresh, Logout, SignOutDevice

\* The same of the sessions that are active.
LEMMA ActiveShrinks ==
    ASSUME TypeOK, [Next]_vars, NEW s \in Active'
    PROVE  s \in Active \/ s = issued + 1
<1>1. s \in Live' /\ s > expired'
  BY DEF Active
<1>2. expired \in Int /\ expired' \in Int /\ expired' >= expired /\ s \in Int
  BY <1>1, TypeNext, NothingReturns DEF TypeOK, Live
<1>3. s \in Live \/ s = issued + 1
  BY <1>1, NothingReturns
<1> QED BY <1>1, <1>2, <1>3 DEF Active

-----------------------------------------------------------------------------
(* Tokens are given in exchange.                                           *)

\* How a request comes to have tokens to deliver.
LEMMA TokenSteps ==
    ASSUME TypeOK, [Next]_vars, NEW x \in Tabs, pc'[x] = "tokens"
    PROVE  \/ pc[x] = "tokens" /\ seen'[x] = seen[x]
           \/ seen'[x].target = issued + 1 /\ parent'[issued + 1] = 0 /\ issued' = issued + 1
           \/ /\ pc[x] = "mark" /\ seen'[x] = seen[x]
              /\ seen[x].token \notin Live'
<1> DEFINE Holds ==
           \/ pc[x] = "tokens" /\ seen'[x] = seen[x]
           \/ seen'[x].target = issued + 1 /\ parent'[issued + 1] = 0 /\ issued' = issued + 1
           \/ /\ pc[x] = "mark" /\ seen'[x] = seen[x]
              /\ seen[x].token \notin Live'
<1> SUFFICES Holds OBVIOUS
<1>0. DOMAIN pc = Tabs /\ DOMAIN seen = Tabs
  BY DEF TypeOK
<1>1. ASSUME NEW t \in Tabs, NEW label, Goto(t, label), label # "tokens",
             \A y \in Tabs : y # t => seen'[y] = seen[y]
      PROVE  Holds
  BY <1>0, <1>1 DEF Goto
<1>2. CASE \E t \in Tabs : CreateAtLogin(t)
  <2>1. PICK t \in Tabs : CreateAtLogin(t)
    BY <1>2
  <2>2. /\ pc[t] \in Issuing /\ Goto(t, "tokens") /\ issued' = issued + 1
        /\ parent' = [parent EXCEPT ![issued + 1] = 0]
        /\ seen' = [seen EXCEPT ![t].target = issued + 1]
    BY <2>1 DEF CreateAtLogin, At, Issue, Issuing
  <2>3. issued + 1 \in Ids
    BY <2>2, RoomToGo DEF Issuing
  <2>4. parent'[issued + 1] = 0
    BY <2>2, <2>3 DEF TypeOK
  <2>5. PICK row \in SeenRow : row = seen[t]
    BY DEF TypeOK, SeenRow
  <2>6. ASSUME NEW n PROVE [row EXCEPT !.target = n].target = n
    BY DEF SeenRow
  <2>7. seen'[t].target = issued + 1 /\ \A y \in Tabs : y # t => seen'[y] = seen[y]
    BY <1>0, <2>2, <2>5, <2>6
  <2>8. x # t => pc'[x] = pc[x]
    BY <1>0, <2>2 DEF Goto
  <2> QED BY <2>2, <2>4, <2>7, <2>8
<1>3. ASSUME NEW t \in Tabs, MarkRotated(t) PROVE Holds
  <2>1. pc[t] = "mark" /\ UNCHANGED seen /\ \A y \in Tabs : y # t => pc'[y] = pc[y]
    BY <1>0, <1>3 DEF MarkRotated, At, Goto
  <2>2. CASE x # t
    BY <2>1, <2>2
  <2>3. CASE x = t
    <3> DEFINE s == seen[t].token
    <3>1. /\ s \in DOMAIN session
          /\ session' = [session EXCEPT ![s].replacedBy = seen[t].target, ![s].revoked = TRUE]
      BY <1>0, <1>3, <2>3 DEF MarkRotated, Goto
    <3>2. PICK row \in SessionRow : row = session[s]
      BY <3>1 DEF TypeOK
    <3>3. seen[t].target \in Ids
      <4>1. seen[t].target \in 1..issued
        BY <2>1 DEF TypeOK
      <4> QED BY <4>1, IssuedHaveIds, SessionsAssumption
    <3>4. PICK heir \in SessionRow : heir = [row EXCEPT !.replacedBy = seen[t].target]
      BY <3>3 DEF SessionRow
    <3>5. [heir EXCEPT !.revoked = TRUE].revoked
      BY DEF SessionRow
    <3>6. session'[s] = [heir EXCEPT !.revoked = TRUE]
      BY <3>1, <3>2, <3>4
    <3>7. s \notin Live'
      BY <3>5, <3>6 DEF Live
    <3> QED BY <2>1, <2>3, <3>7
  <2> QED BY <2>2, <2>3
<1>4. ASSUME NEW t \in Tabs, Serve(t), ~CreateAtLogin(t), ~MarkRotated(t) PROVE Holds
  <2>1. \A y \in Tabs : y # t => seen'[y] = seen[y]
    BY <1>0, <1>4 DEF Serve, CountActive, FindOldest, Evict, FindSession, RevokeAllActive,
                      CreateAtRefresh, LookUp, Revoke, Issue
  <2>2. PICK label : Goto(t, label) /\ label # "tokens"
    BY <1>4 DEF Serve, CountActive, FindOldest, Evict, FindSession, RevokeAllActive,
                CreateAtRefresh, LookUp, Revoke
  <2> QED BY <1>1, <2>1, <2>2
<1>5. ASSUME NEW t \in Tabs, NEW op, NEW target, NEW label \in {"count", "find", "lookup"},
             Send(t, op, target, label)
      PROVE  Holds
  BY <1>0, <1>1, <1>5 DEF Send
<1>6. ASSUME NEW t \in Tabs, ApiFails(t) \/ Deliver(t) \/ AnswerLost(t) PROVE Holds
  <2>1. \A y \in Tabs : y # t => seen'[y] = seen[y]
    BY <1>0, <1>6 DEF ApiFails, Deliver, AnswerLost, Forget
  <2>2. PICK label : Goto(t, label) /\ label # "tokens"
    BY <1>6 DEF ApiFails, Deliver, AnswerLost, Forget
  <2> QED BY <1>1, <2>1, <2>2
<1>7. CASE Expire \/ DeleteExpired \/ UNCHANGED vars
  BY <1>7 DEF Expire, DeleteExpired, vars
<1> HIDE DEF Holds
<1> QED BY <1>2, <1>3, <1>4, <1>5, <1>6, <1>7
        DEF Next, Login, Refresh, Logout, SignOutDevice

\* A cookie changes only when tokens are delivered or it is cleared.
LEMMA CookieSteps ==
    ASSUME TypeOK, [Next]_vars, NEW b \in Browsers, cookie'[b] # 0, cookie'[b] # cookie[b]
    PROVE  \E t \in Tabs : pc[t] = "tokens" /\ cookie'[b] = seen[t].target
<1>1. PICK t \in Tabs : Deliver(t)
  <2>1. cookie' # cookie
    OBVIOUS
  <2> QED BY <2>1 DEF Next, vars, tables, Login, Refresh, Logout, SignOutDevice, Send, Serve,
             CountActive, FindOldest, Evict, CreateAtLogin, FindSession, RevokeAllActive,
             CreateAtRefresh, MarkRotated, LookUp, Revoke, At, ApiFails, AnswerLost, Expire,
             DeleteExpired
<1> QED BY <1>1 DEF Deliver, TypeOK

\* Tokens on their way name a session.
TokensAreNew == \A t \in Tabs : pc[t] = "tokens" => seen[t].target # 0

LEMMA ExchangeNext ==
    TypeOK /\ TokensAreNew /\ DeliveredInExchange /\ [Next]_vars
        => TokensAreNew' /\ DeliveredInExchange'
<1> SUFFICES ASSUME TypeOK, TokensAreNew, DeliveredInExchange, [Next]_vars
             PROVE  TokensAreNew' /\ DeliveredInExchange'
  OBVIOUS
<1>0. issued \in Nat
  BY DEF TypeOK
<1>1. ASSUME NEW s \in 0..issued, s \notin Live PROVE s \notin Live'
  BY <1>0, <1>1, NothingReturns
<1>2. 0 \notin Live'
  <2>1. 0 \notin Live
    BY DEF Live, TypeOK
  <2> QED BY <1>0, <1>1, <2>1
<1>3. \A s \in 1..issued : s \in Ids /\ parent[s] \in 0..issued /\ parent'[s] = parent[s]
  BY <1>0, IssuedHaveIds, NothingReturns, SessionsAssumption DEF TypeOK
<1>4. ASSUME NEW x \in Tabs, pc'[x] = "tokens"
      PROVE  seen'[x].target # 0 /\ parent'[seen'[x].target] \notin Live'
  <2>0. seen[x].target \in 0..issued
    BY DEF TypeOK
  <2>1. CASE pc[x] = "tokens" /\ seen'[x] = seen[x]
    <3>1. seen[x].target \in 1..issued /\ parent[seen[x].target] \notin Live
      BY <1>0, <2>0, <2>1 DEF TokensAreNew, DeliveredInExchange
    <3> QED BY <1>1, <1>3, <2>1, <3>1
  <2>2. CASE seen'[x].target = issued + 1 /\ parent'[issued + 1] = 0
    BY <1>0, <1>2, <2>2
  <2>3. CASE pc[x] = "mark" /\ seen'[x] = seen[x] /\ seen[x].token \notin Live'
    <3>1. seen[x].target \in 1..issued /\ parent[seen[x].target] = seen[x].token
      BY <2>3 DEF TypeOK
    <3> QED BY <1>0, <1>3, <2>3, <3>1
  <2> QED BY <1>4, <2>1, <2>2, <2>3, TokenSteps
<1>5. ASSUME NEW b \in Browsers, cookie'[b] # 0 PROVE parent'[cookie'[b]] \notin Live'
  <2>1. CASE cookie'[b] = cookie[b]
    <3>1. cookie[b] \in 1..issued /\ parent[cookie[b]] \notin Live
      BY <1>0, <1>5, <2>1 DEF TypeOK, DeliveredInExchange
    <3> QED BY <1>1, <1>3, <2>1, <3>1
  <2>2. CASE cookie'[b] # cookie[b]
    <3>1. PICK t \in Tabs : pc[t] = "tokens" /\ cookie'[b] = seen[t].target
      BY <1>5, <2>2, CookieSteps
    <3>2. seen[t].target \in 1..issued /\ parent[seen[t].target] \notin Live
      BY <1>0, <3>1 DEF TypeOK, TokensAreNew, DeliveredInExchange
    <3> QED BY <1>1, <1>3, <3>1, <3>2
  <2> QED BY <2>1, <2>2
<1> QED BY <1>4, <1>5 DEF TokensAreNew, DeliveredInExchange

\* Whatever overlaps, fails or is lost: by the time a browser holds a refresh
\* token, the session it was exchanged for can no longer be refreshed.
THEOREM InExchange == Spec => []DeliveredInExchange
<1>1. Init => TokensAreNew /\ DeliveredInExchange
  BY DEF Init, TokensAreNew, DeliveredInExchange, Browsers
<1>2. TypeOK /\ TokensAreNew /\ DeliveredInExchange /\ [Next]_vars
          => TokensAreNew' /\ DeliveredInExchange'
  BY ExchangeNext
<1> QED BY <1>1, <1>2, TypeCorrect, PTL DEF Spec

-----------------------------------------------------------------------------
(* Refusals and evictions.                                                 *)

\* How a request comes to be refused, or to evict.
LEMMA VerdictSteps ==
    ASSUME TypeOK, [Next]_vars, NEW x \in Tabs, pc'[x] \in {"unauthorized", "evict"}
    PROVE  \/ pc[x] = pc'[x] /\ seen'[x] = seen[x]
           \/ FindOldest(x) /\ pc'[x] = "evict"
           \/ (FindSession(x) \/ RevokeAllActive(x)) /\ pc'[x] = "unauthorized"
<1> DEFINE Holds ==
           \/ pc[x] = pc'[x] /\ seen'[x] = seen[x]
           \/ FindOldest(x) /\ pc'[x] = "evict"
           \/ (FindSession(x) \/ RevokeAllActive(x)) /\ pc'[x] = "unauthorized"
<1> SUFFICES Holds OBVIOUS
<1>0. DOMAIN pc = Tabs /\ DOMAIN seen = Tabs
  BY DEF TypeOK
<1>1. ASSUME NEW t \in Tabs, NEW label, Goto(t, label), label \notin {"unauthorized", "evict"},
             \A y \in Tabs : y # t => seen'[y] = seen[y]
      PROVE  Holds
  BY <1>0, <1>1 DEF Goto
<1>2. ASSUME NEW t \in Tabs, Serve(t), x # t PROVE Holds
  <2>1. pc'[x] = pc[x] /\ seen'[x] = seen[x]
    BY <1>0, <1>2 DEF Serve, CountActive, FindOldest, Evict, CreateAtLogin, FindSession,
                      RevokeAllActive, CreateAtRefresh, MarkRotated, LookUp, Revoke, Issue, Goto
  <2> QED BY <2>1
<1>3. ASSUME Serve(x) PROVE Holds
  <2>1. CASE FindOldest(x)
    BY <1>0, <2>1 DEF FindOldest, Goto
  <2>2. CASE FindSession(x) \/ RevokeAllActive(x)
    BY <1>0, <2>2 DEF FindSession, RevokeAllActive, Goto
  <2>3. CASE \/ CountActive(x) \/ Evict(x) \/ CreateAtLogin(x) \/ CreateAtRefresh(x)
             \/ MarkRotated(x) \/ LookUp(x) \/ Revoke(x)
    <3>1. pc'[x] \notin {"unauthorized", "evict"}
      BY <1>0, <2>3 DEF CountActive, Evict, CreateAtLogin, CreateAtRefresh, MarkRotated, LookUp,
                        Revoke, Goto
    <3> QED BY <3>1
  <2> QED BY <1>3, <2>1, <2>2, <2>3 DEF Serve
<1>4. ASSUME NEW t \in Tabs, NEW op, NEW target, NEW label \in {"count", "find", "lookup"},
             Send(t, op, target, label)
      PROVE  Holds
  BY <1>0, <1>1, <1>4 DEF Send
<1>5. ASSUME NEW t \in Tabs, ApiFails(t) \/ Deliver(t) \/ AnswerLost(t) PROVE Holds
  <2>1. \A y \in Tabs : y # t => seen'[y] = seen[y]
    BY <1>0, <1>5 DEF ApiFails, Deliver, AnswerLost, Forget
  <2>2. PICK label : Goto(t, label) /\ label \notin {"unauthorized", "evict"}
    BY <1>5 DEF ApiFails, Deliver, AnswerLost, Forget
  <2> QED BY <1>1, <2>1, <2>2
<1>6. CASE Expire \/ DeleteExpired \/ UNCHANGED vars
  BY <1>6 DEF Expire, DeleteExpired, vars
<1>7. ASSUME NEW t \in Tabs, Serve(t) PROVE Holds
  <2> HIDE DEF Holds
  <2>1. CASE t = x
    BY <1>3, <1>7, <2>1
  <2> QED BY <1>2, <1>7, <2>1
<1> HIDE DEF Holds
<1> QED BY <1>4, <1>5, <1>6, <1>7 DEF Next, Login, Refresh, Logout, SignOutDevice

LEMMA RefusedNext == TypeOK /\ RefusedOnlyIfEnded /\ [Next]_vars => RefusedOnlyIfEnded'
<1> SUFFICES ASSUME TypeOK, RefusedOnlyIfEnded, [Next]_vars,
                    NEW x \in Tabs, pc'[x] = "unauthorized"
             PROVE  seen'[x].token \notin Active'
  BY DEF RefusedOnlyIfEnded
<1>1. seen[x].token \in 0..issued /\ issued \in Nat /\ DOMAIN seen = Tabs
  BY DEF TypeOK
<1>2. CASE pc[x] = pc'[x] /\ seen'[x] = seen[x]
  <2>1. seen[x].token \notin Active
    BY <1>2 DEF RefusedOnlyIfEnded
  <2> QED BY <1>1, <1>2, <2>1, ActiveShrinks
<1>3. CASE FindSession(x)
  <2>1. /\ UNCHANGED <<session, expired, seen>>
        /\ seen[x].token <= expired \/ seen[x].token \notin DOMAIN session
    BY <1>3 DEF FindSession, At, tables, Goto, TypeOK
  <2> QED BY <1>1, <2>1 DEF Active, Live, TypeOK
<1>4. CASE RevokeAllActive(x)
  <2>1. session' = Revoked(Live) /\ UNCHANGED seen
    BY <1>4 DEF RevokeAllActive
  <2>2. ASSUME NEW s \in DOMAIN session PROVE Revoked(Live)[s].revoked
    <3>1. PICK row \in SessionRow : row = session[s]
      BY DEF TypeOK
    <3>2. [row EXCEPT !.revoked = TRUE].revoked
      BY DEF SessionRow
    <3>3. (row.revoked \/ s \in Live) = TRUE
      BY <3>1 DEF Live, SessionRow
    <3>4. Revoked(Live)[s] = [row EXCEPT !.revoked = TRUE]
      BY <3>1, <3>3 DEF Revoked
    <3> QED BY <3>2, <3>4
  <2>3. DOMAIN Revoked(Live) = DOMAIN session
    BY DEF Revoked
  <2> QED BY <2>1, <2>2, <2>3 DEF Active, Live
<1> QED BY <1>2, <1>3, <1>4, VerdictSteps

\* Whatever overlaps, a refresh is refused only if its session was revoked,
\* has expired or was deleted.
THEOREM RefusalsAreDue == Spec => []RefusedOnlyIfEnded
<1>1. Init => RefusedOnlyIfEnded
  BY DEF Init, RefusedOnlyIfEnded
<1>2. TypeOK /\ RefusedOnlyIfEnded /\ [Next]_vars => RefusedOnlyIfEnded'
  BY RefusedNext
<1> QED BY <1>1, <1>2, TypeCorrect, PTL DEF Spec

\* While its eviction is pending, nothing older than the chosen session
\* becomes active.
ChosenIsOldest ==
    \A t \in Tabs :
        pc[t] = "evict" /\ seen[t].target \in Active => \A s \in Active : seen[t].target <= s

LEMMA ChosenNext == TypeOK /\ ChosenIsOldest /\ [Next]_vars => ChosenIsOldest'
<1> SUFFICES ASSUME TypeOK, ChosenIsOldest, [Next]_vars,
                    NEW x \in Tabs, pc'[x] = "evict", seen'[x].target \in Active',
                    NEW s \in Active'
             PROVE  seen'[x].target <= s
  BY DEF ChosenIsOldest
<1>1. seen[x].target \in 0..issued /\ issued \in Nat
  BY DEF TypeOK
<1>2. CASE pc[x] = pc'[x] /\ seen'[x] = seen[x]
  <2>1. seen[x].target \in Active
    BY <1>1, <1>2, ActiveShrinks
  <2>2. s \in Active \/ s = issued + 1
    BY ActiveShrinks
  <2> QED BY <1>1, <1>2, <2>1, <2>2 DEF ChosenIsOldest
<1>3. CASE FindOldest(x) /\ pc'[x] = "evict"
  <2>1. PICK o \in Active : (\A y \in Active : o <= y) /\ seen' = [seen EXCEPT ![x].target = o]
    BY <1>3 DEF FindOldest, Goto, TypeOK
  <2>2. PICK row \in SeenRow : row = seen[x]
    BY DEF TypeOK, SeenRow
  <2>3. [row EXCEPT !.target = o].target = o
    BY DEF SeenRow
  <2>4. seen'[x] = [row EXCEPT !.target = o]
    BY <2>1, <2>2 DEF TypeOK
  <2>5. Active' = Active
    BY <1>3 DEF FindOldest, At, tables, Active, Live
  <2> QED BY <2>1, <2>3, <2>4, <2>5
<1> QED BY <1>2, <1>3, VerdictSteps

\* However logins overlap, the session a login evicts is the oldest of those
\* active when it is evicted.
THEOREM OldestEvicted == Spec => OldestGoesFirst
<1>1. Init => ChosenIsOldest
  BY DEF Init, ChosenIsOldest
<1>2. TypeOK /\ ChosenIsOldest /\ [Next]_vars => ChosenIsOldest'
  BY ChosenNext
<1>3. ChosenIsOldest
        => [\A t \in Tabs :
               pc[t] = "evict" /\ pc'[t] = "login" /\ seen[t].target \in Active
                   => \A s \in Active : seen[t].target <= s]_vars
  BY DEF ChosenIsOldest
<1> QED BY <1>1, <1>2, <1>3, TypeCorrect, PTL DEF Spec, OldestGoesFirst

-----------------------------------------------------------------------------
(* Requests handled one at a time.                                         *)

OneAtATime == \A x, y \in InFlight : x = y

\* Sessions the user may have: the limit, and one for each refresh that failed.
Places == Limit + Cardinality(cut)

\* A login about to issue a session has made room for it, even if it is still to
\* evict one; a refresh issues one in place of the session it was given, also
\* when that has expired or been deleted since.
HasPlace(t) ==
    /\ pc[t] # "mark" => Cardinality(Active) <= Places
    /\ pc[t] = "mark" => /\ Cardinality(Active) <= Places + 1
                         /\ Cardinality(Active \ {seen[t].token}) <= Places
                         /\ seen[t].target \notin cut
    /\ pc[t] = "login" => Cardinality(Active) < Places
    /\ pc[t] = "evict" => Cardinality(Active \ {seen[t].target}) < Places
    /\ pc[t] = "create" => Cardinality(Active \ {seen[t].token}) < Places

InPlace ==
    /\ OneAtATime
    /\ InFlight = {} => Cardinality(Active) <= Places
    /\ \A t \in InFlight : HasPlace(t)

\* A session that can still be refreshed has no heir, but for the one a refresh
\* has just issued and those of refreshes that failed.
Heirs ==
    /\ OneHeir
    /\ \A s \in Ids \ cut : parent[s] # None /\ parent[s] \in Live
           => \E t \in InFlight : pc[t] = "mark" /\ seen[t].target = s
    /\ \A t \in InFlight : pc[t] = "create" => \A s \in Ids \ cut : parent[s] # seen[t].token

\* In the behaviours whose requests are handled in turn.
TurnInv == handling = "in turn" => TypeOK /\ InPlace /\ Heirs

LEMMA PlacesCounted ==
    ASSUME TypeOK
    PROVE  /\ IsFiniteSet(Active) /\ Cardinality(Active) \in Nat
           /\ IsFiniteSet(cut) /\ Cardinality(cut) \in Nat
           /\ Places \in Nat /\ Limit <= Places
           /\ \A s : /\ Cardinality(Active \ {s}) \in Nat
                     /\ Cardinality(Active \ {s}) <= Cardinality(Active)
                     /\ s \in Active => Cardinality(Active \ {s}) < Cardinality(Active)
                     /\ s \notin Active => Active \ {s} = Active
<1>1. IsFiniteSet(1..issued)
  BY IssuedHaveIds, FS_Interval, SMTT(30)
<1>2. Active \subseteq 1..issued /\ cut \subseteq 1..issued
  BY DEF Active, Live, TypeOK
<1>3. /\ IsFiniteSet(Active) /\ Cardinality(Active) \in Nat
      /\ IsFiniteSet(cut) /\ Cardinality(cut) \in Nat
  BY <1>1, <1>2, FS_Subset, FS_CardinalityType
<1>4. Places \in Nat /\ Limit <= Places
  BY <1>3, SessionsAssumption DEF Places
<1>5. ASSUME NEW s
      PROVE  /\ Cardinality(Active \ {s}) \in Nat
             /\ Cardinality(Active \ {s}) <= Cardinality(Active)
             /\ s \in Active => Cardinality(Active \ {s}) < Cardinality(Active)
             /\ s \notin Active => Active \ {s} = Active
  <2>1. CASE s \in Active
    <3>1. Cardinality(Active \ {s}) = Cardinality(Active) - 1
      BY <1>3, <2>1, FS_RemoveElement
    <3>2. Cardinality(Active \ {s}) \in Nat
      BY <1>3, FS_RemoveElement, FS_Subset, FS_CardinalityType
    <3> QED BY <1>3, <2>1, <3>1, <3>2
  <2>2. CASE s \notin Active
    <3>1. Active \ {s} = Active
      BY <2>2
    <3> QED BY <1>3, <2>2, <3>1
  <2> QED BY <2>1, <2>2
<1> QED BY <1>3, <1>4, <1>5

\* Fewer active sessions take fewer places, with one set aside or with none.
LEMMA FewerActive ==
    ASSUME TypeOK, Active' \subseteq Active, cut' = cut
    PROVE  /\ Places' = Places
           /\ Cardinality(Active') \in Nat
           /\ Cardinality(Active') <= Cardinality(Active)
           /\ \A s : /\ Cardinality(Active' \ {s}) \in Nat
                     /\ Cardinality(Active' \ {s}) <= Cardinality(Active \ {s})
<1>1. IsFiniteSet(Active)
  BY PlacesCounted
<1>2. IsFiniteSet(Active') /\ Cardinality(Active') \in Nat
      /\ Cardinality(Active') <= Cardinality(Active)
  BY <1>1, FS_Subset, FS_CardinalityType
<1>3. ASSUME NEW s
      PROVE  /\ Cardinality(Active' \ {s}) \in Nat
             /\ Cardinality(Active' \ {s}) <= Cardinality(Active \ {s})
  <2> DEFINE A == Active \ {s}
             B == Active' \ {s}
  <2>1. IsFiniteSet(A)
    BY <1>1, FS_Subset
  <2>2. B \subseteq A
    OBVIOUS
  <2> HIDE DEF A, B
  <2>3. Cardinality(B) \in Nat /\ Cardinality(B) <= Cardinality(A)
    BY <2>1, <2>2, FS_Subset, FS_CardinalityType
  <2> QED BY <2>3 DEF A, B
<1>4. Places' = Places
  BY DEF Places
<1> QED BY <1>2, <1>3, <1>4

LEMMA NoneAdded ==
    ASSUME TypeOK, [Next]_vars, issued' = issued
    PROVE  Active' \subseteq Active /\ Live' \subseteq Live
<1>1. \A s \in Active' : s \in 1..issued
  BY TypeNext DEF Active, Live, TypeOK
<1>2. issued \in Nat
  BY DEF TypeOK
<1>3. Active' \subseteq Active
  BY <1>1, <1>2, ActiveShrinks
<1>4. Live' \subseteq Live
  BY <1>2, NothingReturns
<1> QED BY <1>3, <1>4

\* The tab in flight, and the place it has, are all there is to know.
LEMMA OnlyThisTab ==
    ASSUME InPlace, NEW t \in Tabs, pc[t] # "idle" \/ InFlight = {},
           \A x \in Tabs \ {t} : pc'[x] = pc[x],
           HasPlace(t)'
    PROVE  InPlace'
<1>1. \A x \in Tabs \ {t} : pc[x] = "idle"
  BY DEF InPlace, OneAtATime, InFlight
<1>2. InFlight' \subseteq {t}
  BY <1>1 DEF InFlight
<1>3. InFlight' = {} => pc'[t] = "idle"
  BY DEF InFlight
<1>4. InFlight' = {} => Cardinality(Active') <= Places'
  BY <1>3 DEF HasPlace
<1> QED BY <1>2, <1>4 DEF InPlace, OneAtATime

\* A step that neither issues a session nor makes room for one.
LEMMA PlaceKept ==
    ASSUME TypeOK, InPlace, [Next]_vars, NEW t \in Tabs, NEW label, Goto(t, label),
           pc[t] # "idle" \/ InFlight = {}, pc[t] # "mark",
           label \notin {"mark", "login", "evict", "create"},
           issued' = issued, cut' = cut
    PROVE  InPlace'
<1>1. Cardinality(Active) <= Places
  BY DEF InPlace, HasPlace, InFlight
<1>2. Cardinality(Active') <= Places'
  <2>1. /\ Places' = Places /\ Cardinality(Active') \in Nat
        /\ Cardinality(Active') <= Cardinality(Active)
    BY NoneAdded, FewerActive
  <2>2. Places \in Nat /\ Cardinality(Active) \in Nat
    BY PlacesCounted
  <2> QED BY <1>1, <2>1, <2>2
<1>3. pc'[t] = label /\ \A x \in Tabs \ {t} : pc'[x] = pc[x]
  BY DEF Goto, TypeOK
<1>4. HasPlace(t)'
  BY <1>2, <1>3 DEF HasPlace
<1> QED BY <1>3, <1>4, OnlyThisTab

\* What a login or a refresh does when it issues a session.
LEMMA IssueSteps ==
    ASSUME TypeOK, NEW t \in Tabs, NEW token, NEW label, Issue(t, token), Goto(t, label),
           pc[t] \in Issuing, label \notin Issuing, UNCHANGED <<expired, cut>>
    PROVE  /\ issued + 1 \in Ids /\ issued + 1 \notin cut /\ issued \in Nat
           /\ parent'[issued + 1] = token
           /\ \A s \in Ids : s # issued + 1 => parent'[s] = parent[s]
           /\ seen'[t].target = issued + 1 /\ seen'[t].token = seen[t].token
           /\ \A x \in Tabs \ {t} : pc'[x] = pc[x] /\ seen'[x] = seen[x]
           /\ pc'[t] = label
           /\ Live' \subseteq Live \cup {issued + 1}
           /\ Active' \subseteq Active \cup {issued + 1}
<1>1. issued + 1 \in Ids /\ issued \in Nat /\ issued + 1 \notin cut
  BY RoomToGo DEF TypeOK
<1>2. /\ parent'[issued + 1] = token
      /\ \A s \in Ids : s # issued + 1 => parent'[s] = parent[s]
  BY <1>1 DEF Issue, TypeOK
<1>3. PICK row \in SeenRow : row = seen[t]
  BY DEF TypeOK, SeenRow
<1>4. ASSUME NEW n PROVE [row EXCEPT !.target = n].target = n /\ [row EXCEPT !.target = n].token = row.token
  BY DEF SeenRow
<1>5. /\ seen'[t].target = issued + 1 /\ seen'[t].token = seen[t].token
      /\ \A x \in Tabs \ {t} : seen'[x] = seen[x]
  <2>1. seen' = [seen EXCEPT ![t] = [row EXCEPT !.target = issued + 1]]
    BY <1>3 DEF Issue, TypeOK
  <2> QED BY <1>3, <1>4, <2>1 DEF TypeOK
<1>6. pc'[t] = label /\ \A x \in Tabs \ {t} : pc'[x] = pc[x]
  BY DEF Goto, TypeOK
<1>7. Live' \subseteq Live \cup {issued + 1}
  BY DEF Issue, Live
<1>8. Active' \subseteq Active \cup {issued + 1}
  BY <1>7 DEF Active
<1> QED BY <1>1, <1>2, <1>5, <1>6, <1>7, <1>8

LEMMA OneMoreActive ==
    ASSUME TypeOK, cut' = cut, NEW n, Active' \subseteq Active \cup {n}
    PROVE  /\ Places' = Places
           /\ Cardinality(Active') \in Nat
           /\ Cardinality(Active') <= Cardinality(Active) + 1
           /\ \A s : /\ Cardinality(Active' \ {s}) \in Nat
                     /\ Cardinality(Active' \ {s}) <= Cardinality(Active \ {s}) + 1
<1>1. Places' = Places
  BY DEF Places
<1>2. ASSUME NEW A, IsFiniteSet(A), NEW B, B \subseteq A \cup {n}
      PROVE  /\ Cardinality(A) \in Nat /\ Cardinality(B) \in Nat
             /\ Cardinality(B) <= Cardinality(A) + 1
  <2>1. IsFiniteSet(A \cup {n}) /\ Cardinality(A) \in Nat
        /\ Cardinality(A \cup {n}) \in {Cardinality(A), Cardinality(A) + 1}
    BY <1>2, FS_AddElement, FS_CardinalityType
  <2>2. Cardinality(B) \in Nat /\ Cardinality(B) <= Cardinality(A \cup {n})
    BY <1>2, <2>1, FS_Subset, FS_CardinalityType
  <2> QED BY <2>1, <2>2
<1>3. IsFiniteSet(Active)
  BY PlacesCounted
<1>4. ASSUME NEW s
      PROVE  /\ Cardinality(Active' \ {s}) \in Nat
             /\ Cardinality(Active' \ {s}) <= Cardinality(Active \ {s}) + 1
  <2>1. IsFiniteSet(Active \ {s}) /\ Active' \ {s} \subseteq (Active \ {s}) \cup {n}
    BY <1>3, FS_Subset
  <2> QED BY <1>2, <2>1
<1>5. Cardinality(Active') \in Nat /\ Cardinality(Active') <= Cardinality(Active) + 1
  BY <1>2, <1>3
<1> QED BY <1>1, <1>4, <1>5

\* The handlers of a login that make room for a session, and issue it.
LEMMA LoginsFit ==
    ASSUME TypeOK, InPlace, [Next]_vars, NEW t \in Tabs,
           CountActive(t) \/ FindOldest(t) \/ Evict(t) \/ CreateAtLogin(t)
    PROVE  InPlace'
<1> USE SessionsAssumption
<1>1. /\ pc[t] \in {"count", "oldest", "evict", "login"} /\ t \in InFlight
      /\ Cardinality(Active) <= Places /\ HasPlace(t)
      /\ cut' = cut /\ \A x \in Tabs \ {t} : pc'[x] = pc[x]
  BY DEF CountActive, FindOldest, Evict, CreateAtLogin, At, Goto, TypeOK, InPlace, InFlight,
         HasPlace
<1>2. PICK n \in Nat, k \in Nat :
          /\ n = Places /\ k = Cardinality(Active) /\ k <= n /\ Limit <= n
          /\ \A s \in Active : Cardinality(Active \ {s}) < k /\ Cardinality(Active \ {s}) \in Nat
  BY <1>1, PlacesCounted
<1>3. CASE CountActive(t)
  <2>1. Active' = Active /\ Places' = Places
    BY <1>1, <1>3 DEF CountActive, At, tables, Active, Live, Places
  <2>2. CASE k < Limit
    <3>1. pc'[t] = "login"
      BY <1>2, <1>3, <2>2 DEF CountActive, Goto, TypeOK
    <3>2. Cardinality(Active') <= Places' /\ Cardinality(Active') < Places'
      BY <1>2, <2>1, <2>2
    <3> QED BY <1>1, <3>1, <3>2, OnlyThisTab DEF HasPlace, InFlight
  <2>3. CASE ~(k < Limit)
    <3>1. pc'[t] = "oldest"
      BY <1>2, <1>3, <2>3 DEF CountActive, Goto, TypeOK
    <3> QED BY <1>1, <2>1, <3>1, OnlyThisTab DEF HasPlace, InFlight
  <2> QED BY <2>2, <2>3
<1>4. CASE FindOldest(t)
  <2>1. Active' = Active /\ Places' = Places
    BY <1>1, <1>4 DEF FindOldest, At, tables, Active, Live, Places
  <2>2. CASE Active = {} /\ Goto(t, "login")
    <3>1. k = 0 /\ k < n
      BY <1>2, <2>2, FS_EmptySet
    <3>2. pc'[t] = "login"
      BY <2>2 DEF Goto, TypeOK
    <3> QED BY <1>1, <1>2, <2>1, <3>1, <3>2, OnlyThisTab DEF HasPlace, InFlight
  <2>3. ASSUME NEW s \in Active, seen' = [seen EXCEPT ![t].target = s], Goto(t, "evict")
        PROVE  InPlace'
    <3>1. PICK row \in SeenRow : row = seen[t]
      BY DEF TypeOK, SeenRow
    <3>2. [row EXCEPT !.target = s].target = s
      BY DEF SeenRow
    <3>3. seen'[t] = [row EXCEPT !.target = s]
      BY <2>3, <3>1 DEF TypeOK
    <3>4. pc'[t] = "evict" /\ seen'[t].target = s
      BY <2>3, <3>2, <3>3 DEF Goto, TypeOK
    <3>5. Cardinality(Active \ {s}) < Places
      BY <1>2, <2>3
    <3> QED BY <1>1, <2>1, <3>4, <3>5, OnlyThisTab DEF HasPlace, InFlight
  <2> QED BY <1>4, <2>2, <2>3 DEF FindOldest
<1>5. CASE Evict(t)
  <2> DEFINE s == seen[t].target
  <2>1. issued' = issued /\ session' = Revoked({s}) /\ UNCHANGED seen
        /\ pc[t] = "evict" /\ expired' = expired
    BY <1>5 DEF Evict, At
  <2>2. CASE s \in DOMAIN session
    <3>1. pc'[t] = "login"
      BY <1>5, <2>2 DEF Evict, Goto, TypeOK
    <3>2. s \notin Active'
      <4>1. PICK row \in SessionRow : row = session[s]
        BY <2>2 DEF TypeOK
      <4>2. [row EXCEPT !.revoked = TRUE].revoked
        BY DEF SessionRow
      <4>3. (row.revoked \/ s \in {s}) = TRUE
        BY DEF SessionRow
      <4>4. session'[s] = [row EXCEPT !.revoked = TRUE]
        BY <2>1, <2>2, <4>1, <4>3 DEF Revoked
      <4> QED BY <4>2, <4>4 DEF Active, Live
    <3> HIDE DEF s
    <3>3. Active' \subseteq Active /\ Active' \ {s} = Active'
      BY <2>1, <3>2, NoneAdded
    <3>4. Cardinality(Active \ {s}) < Places
      BY <1>1, <2>1 DEF HasPlace, s
    <3>5. /\ Places' = Places /\ Cardinality(Active') \in Nat
          /\ Cardinality(Active') <= Cardinality(Active \ {s})
      BY <1>1, <3>3, FewerActive
    <3>6. Cardinality(Active \ {s}) \in Nat /\ Places \in Nat
      BY PlacesCounted
    <3>7. Cardinality(Active') < Places'
      BY <3>4, <3>5, <3>6
    <3>8. Cardinality(Active') <= Places'
      BY <3>5, <3>6, <3>7
    <3> QED BY <1>1, <3>1, <3>7, <3>8, OnlyThisTab DEF HasPlace, InFlight
  <2>3. CASE s \notin DOMAIN session
    <3>1. Goto(t, "failed")
      BY <1>5, <2>3 DEF Evict
    <3> QED BY <1>1, <2>1, <3>1, PlaceKept
  <2> QED BY <2>2, <2>3
<1>6. CASE CreateAtLogin(t)
  <2>1. /\ Issue(t, 0) /\ Goto(t, "tokens") /\ pc[t] = "login" /\ UNCHANGED <<expired, cut>>
    BY <1>6 DEF CreateAtLogin, At
  <2>2. pc'[t] = "tokens" /\ Active' \subseteq Active \cup {issued + 1}
    BY <2>1, IssueSteps DEF Issuing
  <2>3. k < n
    BY <1>1, <1>2, <2>1 DEF HasPlace
  <2>4. Cardinality(Active') \in Nat /\ Cardinality(Active') <= k + 1 /\ Places' = n
    BY <1>1, <1>2, <2>2, OneMoreActive
  <2>5. Cardinality(Active') <= Places'
    BY <2>3, <2>4
  <2> QED BY <1>1, <2>2, <2>5, OnlyThisTab DEF HasPlace, InFlight
<1> QED BY <1>3, <1>4, <1>5, <1>6

\* The handlers of a refresh that issue a session in place of another.
LEMMA RefreshesFit ==
    ASSUME TypeOK, InPlace, [Next]_vars, NEW t \in Tabs,
           FindSession(t) \/ CreateAtRefresh(t) \/ MarkRotated(t)
    PROVE  InPlace'
<1> DEFINE s == seen[t].token
<1>1. /\ pc[t] \in {"find", "create", "mark"} /\ t \in InFlight /\ HasPlace(t)
      /\ cut' = cut /\ \A x \in Tabs \ {t} : pc'[x] = pc[x]
  BY DEF FindSession, CreateAtRefresh, MarkRotated, At, Goto, TypeOK, InPlace, InFlight
<1>2. PICK n \in Nat, k \in Nat, h \in Nat :
          /\ n = Places /\ k = Cardinality(Active) /\ h = Cardinality(Active \ {s})
          /\ s \in Active => h < k
  BY PlacesCounted
<1>3. CASE FindSession(t)
  <2>1. Active' = Active /\ Places' = Places /\ UNCHANGED <<issued, seen>> /\ k <= n
    BY <1>1, <1>2, <1>3 DEF FindSession, At, tables, Active, Live, Places, HasPlace
  <2>2. CASE Goto(t, "unauthorized") \/ Goto(t, "revokeAll")
    BY <1>1, <1>3, <2>1, <2>2, PlaceKept DEF FindSession, At
  <2>3. CASE Goto(t, "create") /\ ~(s <= expired) /\ s \in DOMAIN session /\ ~session[s].revoked
    <3>1. s \in Active
      BY <2>3 DEF Active, Live, TypeOK
    <3>2. pc'[t] = "create" /\ h < n
      BY <1>2, <2>1, <2>3, <3>1 DEF Goto, TypeOK
    <3> QED BY <1>1, <1>2, <2>1, <3>2, OnlyThisTab DEF HasPlace
  <2> QED BY <1>3, <2>2, <2>3 DEF FindSession
<1>4. CASE CreateAtRefresh(t)
  <2>1. /\ Issue(t, s) /\ Goto(t, "mark") /\ pc[t] = "create" /\ UNCHANGED <<expired, cut>>
    BY <1>4 DEF CreateAtRefresh, At
  <2>2. /\ pc'[t] = "mark" /\ Active' \subseteq Active \cup {issued + 1}
        /\ seen'[t].token = s /\ seen'[t].target = issued + 1 /\ issued + 1 \notin cut
    BY <2>1, IssueSteps DEF Issuing
  <2>3. h < n /\ k <= n
    BY <1>1, <1>2, <2>1 DEF HasPlace
  <2>4. /\ Cardinality(Active') \in Nat /\ Cardinality(Active') <= k + 1 /\ Places' = n
        /\ Cardinality(Active' \ {s}) \in Nat /\ Cardinality(Active' \ {s}) <= h + 1
    BY <1>1, <1>2, <2>2, OneMoreActive
  <2> HIDE DEF s
  <2>5. Cardinality(Active') <= Places' + 1 /\ Cardinality(Active' \ {s}) <= Places'
    BY <2>3, <2>4
  <2> QED BY <1>1, <2>2, <2>5, OnlyThisTab DEF HasPlace
<1>5. CASE MarkRotated(t)
  <2>1. /\ pc[t] = "mark" /\ UNCHANGED <<issued, parent, seen>>
        /\ pc'[t] \in {"tokens", "failed"}
    BY <1>5 DEF MarkRotated, At, Goto, TypeOK
  <2>2. Active' \subseteq Active
    BY <2>1, NoneAdded
  <2>3. s \notin Active'
    <3>1. CASE pc'[t] = "tokens"
      <4>1. issued' # issued + 1
        BY <2>1 DEF TypeOK
      <4>2. s \notin Live'
        BY <2>1, <3>1, <4>1, TokenSteps
      <4> QED BY <4>2 DEF Active
    <3>2. CASE s \notin DOMAIN session /\ UNCHANGED session
      BY <3>2 DEF Active, Live
    <3> QED BY <1>5, <3>1, <3>2 DEF MarkRotated, Goto, TypeOK
  <2>4. h <= n
    BY <1>1, <1>2, <2>1 DEF HasPlace
  <2> HIDE DEF s
  <2>5. Active' \ {s} = Active'
    BY <2>3
  <2>6. Cardinality(Active') \in Nat /\ Cardinality(Active') <= h /\ Places' = n
    BY <1>1, <1>2, <2>2, <2>5, FewerActive
  <2>7. Cardinality(Active') <= Places'
    BY <2>4, <2>6
  <2> QED BY <1>1, <2>1, <2>7, OnlyThisTab DEF HasPlace
<1> QED BY <1>3, <1>4, <1>5

\* A refresh that fails after it issued a session leaves one more in use.
LEMMA FailureFits ==
    ASSUME TypeOK, InPlace, [Next]_vars, NEW t \in Tabs, ApiFails(t)
    PROVE  InPlace'
<1>1. /\ Goto(t, "failed") /\ UNCHANGED <<session, issued, expired, seen>>
      /\ pc[t] # "idle" /\ t \in InFlight
      /\ pc'[t] = "failed" /\ \A x \in Tabs \ {t} : pc'[x] = pc[x]
  BY DEF ApiFails, Goto, TypeOK, tables, InFlight
<1>2. CASE pc[t] # "mark"
  BY <1>1, <1>2, PlaceKept DEF ApiFails
<1>3. CASE pc[t] = "mark"
  <2>1. /\ cut' = cut \cup {seen[t].target} /\ seen[t].target \notin cut
        /\ Cardinality(Active) <= Places + 1
    BY <1>1, <1>3 DEF ApiFails, InPlace, HasPlace
  <2>2. Cardinality(cut') = Cardinality(cut) + 1
    BY <2>1, PlacesCounted, FS_AddElement
  <2>3. Places' = Places + 1
    BY <2>2, PlacesCounted, SessionsAssumption DEF Places
  <2>4. Active' = Active
    BY <1>1 DEF Active, Live
  <2> QED BY <1>1, <2>1, <2>3, <2>4, OnlyThisTab DEF HasPlace
<1> QED BY <1>2, <1>3

\* A request is sent when there is no other.
LEMMA NoneInFlight ==
    ASSUME MaxInFlight = 1, OneAtATime, Cardinality(InFlight) < MaxInFlight
    PROVE  InFlight = {}
<1>1. ASSUME NEW x \in InFlight PROVE FALSE
  <2>1. InFlight = {x}
    BY <1>1 DEF OneAtATime
  <2>2. Cardinality(InFlight) = 1
    BY <2>1, FS_Singleton
  <2> QED BY <2>2
<1> QED BY <1>1

LEMMA InPlaceNext ==
    ASSUME MaxInFlight = 1, TypeOK, InPlace, [Next]_vars
    PROVE  InPlace'
<1>1. ASSUME NEW t \in Tabs, NEW op, NEW target, NEW label \in {"count", "find", "lookup"},
             Send(t, op, target, label)
      PROVE  InPlace'
  <2>1. InFlight = {}
    BY <1>1, NoneInFlight DEF Send, InPlace
  <2> QED BY <1>1, <2>1, PlaceKept DEF Send, tables
<1>2. ASSUME NEW t \in Tabs, LookUp(t) \/ Revoke(t) \/ RevokeAllActive(t) \/ Deliver(t) \/ AnswerLost(t)
      PROVE  InPlace'
  <2>1. PICK label : Goto(t, label) /\ label \in {"revoke", "done", "failed", "unauthorized", "idle"}
    BY <1>2 DEF LookUp, Revoke, RevokeAllActive, Deliver, AnswerLost, Forget
  <2>2. /\ pc[t] \notin {"idle", "mark"}
        /\ issued' = issued /\ cut' = cut
    BY <1>2 DEF LookUp, Revoke, RevokeAllActive, Deliver, AnswerLost, At, tables
  <2> QED BY <2>1, <2>2, PlaceKept
<1>3. CASE Expire \/ DeleteExpired \/ UNCHANGED vars
  <2>1. UNCHANGED <<issued, pc, seen, cut>>
    BY <1>3 DEF Expire, DeleteExpired, vars, tables
  <2>2. Active' \subseteq Active
    BY <2>1, NoneAdded
  <2>3. /\ Places' = Places /\ Cardinality(Active') \in Nat /\ Places \in Nat
        /\ Cardinality(Active) \in Nat /\ Cardinality(Active') <= Cardinality(Active)
        /\ \A s : /\ Cardinality(Active' \ {s}) \in Nat /\ Cardinality(Active \ {s}) \in Nat
                  /\ Cardinality(Active' \ {s}) <= Cardinality(Active \ {s})
    BY <2>1, <2>2, FewerActive, PlacesCounted
  <2>4. InFlight' = InFlight
    BY <2>1 DEF InFlight
  <2>5. ASSUME NEW t \in InFlight PROVE HasPlace(t)'
    <3>1. PICK n \in Nat, k \in Nat, m \in Nat :
              n = Places /\ k = Cardinality(Active) /\ m = Cardinality(Active') /\ m <= k
      BY <2>3
    <3>2. HasPlace(t)
      BY DEF InPlace
    <3>3. ASSUME NEW s
          PROVE  /\ Cardinality(Active \ {s}) <= n => Cardinality(Active' \ {s}) <= n
                 /\ Cardinality(Active \ {s}) < n => Cardinality(Active' \ {s}) < n
      <4>1. PICK a \in Nat, b \in Nat :
                a = Cardinality(Active \ {s}) /\ b = Cardinality(Active' \ {s}) /\ b <= a
        BY <2>3
      <4> QED BY <4>1
    <3>4. (k <= n => m <= n) /\ (k <= n + 1 => m <= n + 1) /\ (k < n => m < n)
      BY <3>1
    <3> QED BY <2>1, <2>3, <3>1, <3>2, <3>3, <3>4 DEF HasPlace
  <2>6. OneAtATime' /\ (InFlight' = {} => Cardinality(Active') <= Places')
    BY <2>3, <2>4 DEF InPlace, OneAtATime
  <2> QED BY <2>4, <2>5, <2>6 DEF InPlace
<1>4. ASSUME NEW t \in Tabs, Serve(t) PROVE InPlace'
  BY <1>2, <1>4, LoginsFit, RefreshesFit DEF Serve
<1> QED BY <1>1, <1>2, <1>3, <1>4, FailureFits DEF Next, Login, Refresh, Logout, SignOutDevice

-----------------------------------------------------------------------------
(* Heirs.                                                                  *)

\* A step that issues no session.
LEMMA HeirsKept ==
    ASSUME TypeOK, Heirs, [Next]_vars, NEW t \in Tabs,
           UNCHANGED <<issued, parent>>, cut \subseteq cut',
           \A x \in Tabs \ {t} : pc'[x] = pc[x] /\ seen'[x] = seen[x],
           pc[t] = "mark" => seen[t].target \in cut' \/ seen[t].token \notin Live',
           pc'[t] = "create" => \A s \in Ids \ cut : parent[s] # seen'[t].token
    PROVE  Heirs'
<1>1. OneHeir'
  BY DEF Heirs, OneHeir
<1>2. ASSUME NEW s \in Ids \ cut', parent[s] # 0, parent[s] \in Live'
      PROVE  \E y \in InFlight' : pc'[y] = "mark" /\ seen'[y].target = s
  <2>1. PICK y \in InFlight : pc[y] = "mark" /\ seen[y].target = s
    BY <1>2, NoneAdded DEF Heirs
  <2>2. parent[s] = seen[y].token /\ y \in Tabs
    BY <2>1 DEF TypeOK, InFlight
  <2>3. y # t
    BY <1>2, <2>1, <2>2
  <2> QED BY <2>1, <2>2, <2>3 DEF InFlight
<1>3. ASSUME NEW y \in InFlight', pc'[y] = "create", NEW s \in Ids \ cut'
      PROVE  parent[s] # seen'[y].token
  <2>1. CASE y = t
    BY <1>3, <2>1
  <2>2. CASE y # t
    BY <1>3, <2>2 DEF Heirs, InFlight
  <2> QED BY <2>1, <2>2
<1> QED BY <1>1, <1>2, <1>3 DEF Heirs

\* A step that issues one.
LEMMA HeirsIssued ==
    ASSUME TypeOK, InPlace, Heirs, NEW t \in Tabs, CreateAtLogin(t) \/ CreateAtRefresh(t)
    PROVE  Heirs'
<1> DEFINE n == issued + 1
<1>1. PICK token, label :
          /\ Issue(t, token) /\ Goto(t, label) /\ UNCHANGED <<expired, cut>>
          /\ \/ pc[t] = "login" /\ token = 0 /\ label = "tokens"
             \/ pc[t] = "create" /\ token = seen[t].token /\ label = "mark"
  BY DEF CreateAtLogin, CreateAtRefresh, At
<1>2. /\ n \in Ids /\ n \notin cut /\ issued \in Nat
      /\ parent'[n] = token
      /\ \A s \in Ids : s # n => parent'[s] = parent[s]
      /\ seen'[t].target = n
      /\ \A x \in Tabs \ {t} : pc'[x] = pc[x] /\ seen'[x] = seen[x]
      /\ pc'[t] = label
      /\ Live' \subseteq Live \cup {n}
  BY <1>1, IssueSteps DEF Issuing
<1>3. \A x \in InFlight : x = t
  BY <1>1 DEF InPlace, OneAtATime, InFlight
<1>4. token # 0 => \A s \in Ids \ cut : parent[s] # token
  BY <1>1 DEF Heirs, InFlight
<1>5. \A s \in Ids : parent[s] # n
  BY <1>2 DEF TypeOK
<1> HIDE DEF n
<1>6. OneHeir'
  <2> SUFFICES ASSUME NEW s \in Ids \ cut, NEW x \in Ids \ cut,
                      parent'[s] # 0, parent'[s] = parent'[x]
               PROVE  s = x
    BY <1>1 DEF OneHeir
  <2>1. CASE s # n /\ x # n
    BY <1>2, <2>1 DEF Heirs, OneHeir
  <2>2. CASE s = n \/ x = n
    BY <1>2, <1>4, <2>2
  <2> QED BY <2>1, <2>2
<1>7. ASSUME NEW s \in Ids \ cut, parent'[s] # 0, parent'[s] \in Live'
      PROVE  \E y \in InFlight' : pc'[y] = "mark" /\ seen'[y].target = s
  <2>1. CASE s = n
    <3>1. label = "mark"
      BY <1>1, <1>2, <1>7, <2>1
    <3> QED BY <1>2, <2>1, <3>1 DEF InFlight
  <2>2. CASE s # n
    <3>1. parent[s] # 0 /\ parent[s] \in Live
      BY <1>2, <1>5, <1>7, <2>2
    <3>2. PICK y \in InFlight : pc[y] = "mark"
      BY <3>1 DEF Heirs
    <3> QED BY <1>1, <1>3, <3>2
  <2> QED BY <2>1, <2>2
<1>8. \A y \in InFlight' : pc'[y] # "create"
  BY <1>1, <1>2, <1>3 DEF InFlight
<1> QED BY <1>1, <1>6, <1>7, <1>8 DEF Heirs

LEMMA HeirsNext ==
    ASSUME TypeOK, InPlace, Heirs, [Next]_vars
    PROVE  Heirs'
<1>0. DOMAIN pc = Tabs /\ DOMAIN seen = Tabs
  BY DEF TypeOK
<1>1. ASSUME NEW t \in Tabs, NEW op, NEW target, NEW label \in {"count", "find", "lookup"},
             Send(t, op, target, label)
      PROVE  Heirs'
  <2>1. /\ UNCHANGED <<issued, parent, cut>> /\ pc[t] # "mark" /\ pc'[t] # "create"
        /\ \A x \in Tabs \ {t} : pc'[x] = pc[x] /\ seen'[x] = seen[x]
    BY <1>0, <1>1 DEF Send, tables, Goto
  <2> QED BY <2>1, HeirsKept
<1>2. ASSUME NEW t \in Tabs,
             \/ CountActive(t) \/ FindOldest(t) \/ Evict(t) \/ RevokeAllActive(t)
             \/ LookUp(t) \/ Revoke(t) \/ Deliver(t) \/ AnswerLost(t)
      PROVE  Heirs'
  <2>1. /\ UNCHANGED <<issued, parent, cut>> /\ pc[t] # "mark" /\ pc'[t] # "create"
        /\ \A x \in Tabs \ {t} : pc'[x] = pc[x] /\ seen'[x] = seen[x]
    BY <1>0, <1>2 DEF CountActive, FindOldest, Evict, RevokeAllActive, LookUp, Revoke, Deliver,
                      AnswerLost, At, Forget, tables, Goto
  <2> QED BY <2>1, HeirsKept
<1>3. ASSUME NEW t \in Tabs, FindSession(t) PROVE Heirs'
  <2>1. /\ UNCHANGED <<issued, parent, cut, seen>> /\ pc[t] = "find"
        /\ \A x \in Tabs \ {t} : pc'[x] = pc[x]
    BY <1>0, <1>3 DEF FindSession, At, tables, Goto
  <2>2. ASSUME pc'[t] = "create", NEW s \in Ids \ cut PROVE parent[s] # seen[t].token
    <3>1. seen[t].token \in Live /\ seen[t].token # 0
      BY <1>0, <1>3, <2>2 DEF FindSession, Goto, Live, TypeOK
    <3>2. \A y \in InFlight : pc[y] # "mark"
      BY <2>1 DEF InPlace, OneAtATime, InFlight
    <3> QED BY <3>1, <3>2 DEF Heirs
  <2> QED BY <2>1, <2>2, HeirsKept
<1>4. ASSUME NEW t \in Tabs, MarkRotated(t) PROVE Heirs'
  <2>1. /\ UNCHANGED <<issued, parent, cut, seen>> /\ pc[t] = "mark" /\ pc'[t] \in {"tokens", "failed"}
        /\ \A x \in Tabs \ {t} : pc'[x] = pc[x]
    BY <1>0, <1>4 DEF MarkRotated, At, Goto
  <2>2. seen[t].token \notin Live'
    <3>1. CASE pc'[t] = "tokens"
      <4>1. issued' # issued + 1
        BY <2>1 DEF TypeOK
      <4> QED BY <2>1, <3>1, <4>1, TokenSteps
    <3>2. CASE seen[t].token \notin DOMAIN session /\ UNCHANGED session
      BY <3>2 DEF Live
    <3> QED BY <1>0, <1>4, <3>1, <3>2 DEF MarkRotated, Goto
  <2> QED BY <2>1, <2>2, HeirsKept
<1>5. ASSUME NEW t \in Tabs, ApiFails(t) PROVE Heirs'
  <2>1. /\ UNCHANGED <<issued, parent, seen>> /\ cut \subseteq cut' /\ pc'[t] = "failed"
        /\ pc[t] = "mark" => seen[t].target \in cut'
        /\ \A x \in Tabs \ {t} : pc'[x] = pc[x]
    BY <1>0, <1>5 DEF ApiFails, tables, Goto
  <2> QED BY <2>1, HeirsKept
<1>6. CASE Expire \/ DeleteExpired \/ UNCHANGED vars
  <2>1. UNCHANGED <<issued, parent, pc, seen, cut>>
    BY <1>6 DEF Expire, DeleteExpired, vars, tables
  <2>2. Live' \subseteq Live
    BY <2>1, NoneAdded
  <2> QED BY <2>1, <2>2 DEF Heirs, OneHeir, InFlight
<1>7. ASSUME NEW t \in Tabs, Serve(t) PROVE Heirs'
  BY <1>2, <1>3, <1>4, <1>7, HeirsIssued DEF Serve
<1> QED BY <1>1, <1>2, <1>5, <1>6, <1>7 DEF Next, Login, Refresh, Logout, SignOutDevice

-----------------------------------------------------------------------------
LEMMA TurnInvInit == MCInit => TurnInv
<1> SUFFICES ASSUME Init PROVE TypeOK /\ InPlace /\ Heirs
  BY DEF MCInit, TurnInv
<1>1. InFlight = {} /\ Active = {} /\ TypeOK
  BY TypeInit DEF Init, InFlight, Active, Live
<1>2. Cardinality(Active) <= Places
  BY <1>1, FS_EmptySet, PlacesCounted
<1>3. InPlace
  BY <1>1, <1>2 DEF InPlace, OneAtATime
<1>4. Heirs
  BY <1>1 DEF Init, Heirs, OneHeir
<1> QED BY <1>1, <1>3, <1>4

LEMMA TurnInvNext ==
    ASSUME MaxInFlight = 1, TurnInv, [MCNext]_<<vars, handling>>
    PROVE  TurnInv'
<1>1. handling' = handling /\ (handling = "in turn" => [Next]_vars)
  BY DEF MCNext
<1>2. CASE handling = "in turn"
  <2>1. TypeOK /\ InPlace /\ Heirs /\ [Next]_vars
    BY <1>1, <1>2 DEF TurnInv
  <2>2. TypeOK'
    BY <2>1, TypeNext
  <2>3. InPlace'
    BY <2>1, InPlaceNext
  <2>4. Heirs'
    BY <2>1, HeirsNext
  <2> QED BY <2>2, <2>3, <2>4 DEF TurnInv
<1>3. CASE handling # "in turn"
  BY <1>1, <1>3 DEF TurnInv
<1> QED BY <1>2, <1>3

LEMMA InPlaceFits ==
    ASSUME TypeOK, InPlace
    PROVE  WithinLimit
<1> DEFINE M == {t \in Tabs : pc[t] = "mark"}
<1>1. Places = Limit + Cardinality(cut) /\ Places \in Nat /\ Cardinality(Active) \in Nat
  BY PlacesCounted DEF Places
<1>2. CASE M = {}
  <2>1. Cardinality(M) = 0
    BY <1>2, FS_EmptySet
  <2>2. Cardinality(Active) <= Places
    BY <1>2 DEF InPlace, HasPlace, InFlight
  <2> HIDE DEF M
  <2>3. Cardinality(Active) <= Places + Cardinality(M)
    BY <1>1, <2>1, <2>2
  <2> QED BY <1>1, <2>3 DEF WithinLimit, M
<1>3. CASE M # {}
  <2>1. PICK t : t \in M
    BY <1>3
  <2>2. M = {t}
    BY <2>1 DEF InPlace, OneAtATime, InFlight
  <2>3. Cardinality(M) = 1
    BY <2>2, FS_Singleton
  <2>4. Cardinality(Active) <= Places + 1
    BY <2>1 DEF InPlace, HasPlace, InFlight
  <2> HIDE DEF M
  <2>5. Cardinality(Active) <= Places + Cardinality(M)
    BY <1>1, <2>3, <2>4
  <2> QED BY <1>1, <2>5 DEF WithinLimit, M
<1> QED BY <1>2, <1>3

\* Handled one at a time, and whichever of them fail, logins keep the user within
\* MAX_CONCURRENT_SESSIONS active sessions, but for those a refresh that failed
\* left behind (auth.service.ts, issueTokens).
THEOREM LimitInTurn == MaxInFlight = 1 => (MCSpec => []WithinLimitInTurn)
<1> SUFFICES ASSUME MaxInFlight = 1 PROVE MCSpec => []WithinLimitInTurn OBVIOUS
<1>1. MCInit => TurnInv
  BY TurnInvInit
<1>2. TurnInv /\ [MCNext]_<<vars, handling>> => TurnInv'
  BY TurnInvNext
<1>3. TurnInv => WithinLimitInTurn
  BY InPlaceFits DEF TurnInv, WithinLimitInTurn
<1> QED BY <1>1, <1>2, <1>3, PTL DEF MCSpec

\* Handled one at a time, a session is exchanged for one other, but for exchanges
\* that failed before the session was marked (auth.service.ts, refresh).
THEOREM HeirInTurn == MaxInFlight = 1 => (MCSpec => []OneHeirInTurn)
<1> SUFFICES ASSUME MaxInFlight = 1 PROVE MCSpec => []OneHeirInTurn OBVIOUS
<1>1. MCInit => TurnInv
  BY TurnInvInit
<1>2. TurnInv /\ [MCNext]_<<vars, handling>> => TurnInv'
  BY TurnInvNext
<1>3. TurnInv => OneHeirInTurn
  BY DEF TurnInv, OneHeirInTurn, Heirs
<1> QED BY <1>1, <1>2, <1>3, PTL DEF MCSpec
=============================================================================
