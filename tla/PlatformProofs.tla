--------------------------- MODULE PlatformProofs ---------------------------
(***************************************************************************)
(* Theorems about the parts of the platform that MCPlatform puts together, *)
(* for any requests, rows, readers and jobs, any limits and any times.     *)
(***************************************************************************)
EXTENDS MCPlatform, OrdersProofs, FiniteSetTheorems

-----------------------------------------------------------------------------
(* The parts.                                                              *)

LEMMA EachPart ==
    PlatformSpec => /\ Team!Spec /\ Notice!Spec /\ Replace!Spec /\ Failed!Spec
                    /\ Cached!Spec /\ Queue!Spec /\ Spec
<1>1. PlatformInit => /\ Team!Init /\ Notice!Init /\ Replace!Init /\ Failed!Init
                      /\ Cached!Init /\ Queue!Init /\ Init
  BY DEF PlatformInit
<1>2. [PlatformNext]_platformVars
          => /\ [Team!Next]_(Team!vars) /\ [Notice!Next]_(Notice!vars)
             /\ [Replace!Next]_(Replace!vars) /\ [Failed!Next]_(Failed!vars)
             /\ [Cached!Next]_(Cached!vars) /\ [Queue!Next]_(Queue!vars) /\ [Next]_vars
  BY DEF PlatformNext, platformVars, projectVars, notificationVars, replaceVars, loginVars,
     cacheVars, jobVars, Team!vars, Notice!vars, Replace!vars, Failed!vars, Cached!vars,
     Queue!vars
<1> QED BY <1>1, <1>2, PTL DEF PlatformSpec, Team!Spec, Notice!Spec, Replace!Spec,
           Failed!Spec, Cached!Spec, Queue!Spec, Spec

-----------------------------------------------------------------------------
(* Failed logins.                                                          *)

LoginSteps == {"idle", "compare", "right", "wrong"}

LoginRow == [pc : LoginSteps, seen : Failed!UserRow]

LEMMA FreshUserFits ==
    Failed!Fresh \in Failed!UserRow /\ Failed!At("idle") \in LoginRow
  BY PartsAssumption DEF Failed!LockoutAssumption, Failed!Fresh, Failed!UserRow, Failed!At,
     LoginRow, LoginSteps

\* What a failure makes of the row, whatever it read.
LEMMA FailedLoginFits ==
    ASSUME Failed!TypeOK, NEW r \in Logins, Failed!RecordFailure(r)
    PROVE  /\ user' \in Failed!UserRow
           /\ user'.attempts = login[r].seen.attempts + 1
           /\ login[r].seen.attempts \in Nat
           /\ Failed!WillLock(r) <=> user'.attempts >= MaxFailed
           /\ user'.lockedUntil = IF Failed!WillLock(r) THEN clock + Duration ELSE user.lockedUntil
<1>1. login[r].seen \in Failed!UserRow /\ user \in Failed!UserRow /\ clock \in 1..Horizon
  BY DEF Failed!TypeOK
<1>2. login[r].seen.attempts \in Nat /\ user.lockedUntil \in 0..(Horizon + Duration)
  BY <1>1 DEF Failed!UserRow
<1>3. clock + Duration \in 0..(Horizon + Duration)
  BY <1>1, PartsAssumption DEF Failed!LockoutAssumption
<1> QED BY <1>1, <1>2, <1>3, PartsAssumption DEF Failed!RecordFailure, Failed!WillLock,
           Failed!UserRow, Failed!LockoutAssumption

LEMMA LoginsTypedNext ==
    ASSUME Failed!TypeOK, [Failed!Next]_(Failed!vars)
    PROVE  Failed!TypeOK'
<1>1. user \in Failed!UserRow /\ clock \in 1..Horizon /\ login \in [Logins -> LoginRow]
  BY DEF Failed!TypeOK, LoginRow, LoginSteps
<1>2. Horizon \in Nat /\ MaxStreak \in Nat
  BY PartsAssumption DEF Failed!LockoutAssumption
<1>3. ASSUME NEW r \in Logins, Failed!ReadUser(r) PROVE Failed!TypeOK'
  BY <1>1, <1>3 DEF Failed!ReadUser, Failed!TypeOK
<1>4. ASSUME NEW r \in Logins, Failed!Compare(r) PROVE Failed!TypeOK'
  BY <1>1, <1>4 DEF Failed!Compare, Failed!Goto, Failed!TypeOK
<1>5. ASSUME NEW r \in Logins, Failed!RecordFailure(r) PROVE Failed!TypeOK'
  <2>1. user' \in Failed!UserRow
    BY <1>5, FailedLoginFits
  <2>2. login' \in [Logins -> LoginRow]
    BY <1>1, <1>5, FreshUserFits DEF Failed!RecordFailure
  <2>3. streak' \in 0..MaxStreak /\ clock' = clock /\ strayed' \in BOOLEAN
    BY <1>2, <1>5 DEF Failed!RecordFailure, Failed!TypeOK
  <2> QED BY <1>1, <2>1, <2>2, <2>3 DEF Failed!TypeOK, LoginRow, LoginSteps
<1>6. ASSUME NEW r \in Logins, Failed!RecordSuccess(r) PROVE Failed!TypeOK'
  <2>1. user' \in Failed!UserRow /\ login' \in [Logins -> LoginRow]
    BY <1>1, <1>6, FreshUserFits DEF Failed!RecordSuccess
  <2>2. streak' \in 0..MaxStreak
    BY <1>2, <1>6 DEF Failed!RecordSuccess
  <2>3. clock' = clock /\ strayed' \in BOOLEAN
    BY <1>6 DEF Failed!RecordSuccess
  <2> QED BY <1>1, <2>1, <2>2, <2>3 DEF Failed!TypeOK, LoginRow, LoginSteps
<1>7. ASSUME NEW r \in Logins, Failed!Crash(r) PROVE Failed!TypeOK'
  <2>1. login' \in [Logins -> LoginRow]
    BY <1>1, <1>7, FreshUserFits DEF Failed!Crash
  <2> QED BY <1>7, <2>1 DEF Failed!Crash, Failed!TypeOK, LoginRow, LoginSteps
<1>8. CASE Failed!Tick
  BY <1>2, <1>8 DEF Failed!Tick, Failed!TypeOK
<1>9. CASE UNCHANGED Failed!vars
  BY <1>9 DEF Failed!vars, Failed!TypeOK
<1> QED BY <1>3, <1>4, <1>5, <1>6, <1>7, <1>8, <1>9 DEF Failed!Next, Failed!Quiet

\* The counter, the lock and what a login read of them keep their types.
THEOREM LoginsTyped == Failed!Spec => []Failed!TypeOK
<1>1. Failed!Init => Failed!TypeOK
  <2> SUFFICES ASSUME Failed!Init PROVE Failed!TypeOK OBVIOUS
  <2>1. user \in Failed!UserRow /\ login \in [Logins -> LoginRow]
    BY FreshUserFits DEF Failed!Init
  <2>2. clock \in 1..Horizon /\ streak \in 0..MaxStreak
    BY PartsAssumption DEF Failed!Init, Failed!LockoutAssumption
  <2>3. strayed \in BOOLEAN
    BY DEF Failed!Init
  <2> QED BY <2>1, <2>2, <2>3 DEF Failed!TypeOK, LoginRow, LoginSteps
<1>2. Failed!TypeOK /\ [Failed!Next]_(Failed!vars) => Failed!TypeOK'
  BY LoginsTypedNext
<1> QED BY <1>1, <1>2, PTL DEF Failed!Spec

LEMMA CountedNext ==
    ASSUME Failed!TypeOK, Failed!FailuresCounted, [Failed!Next]_(Failed!vars)
    PROVE  Failed!FailuresCounted'
<1>1. ASSUME NEW r \in Logins, Failed!RecordFailure(r) PROVE Failed!FailuresCounted'
  <2>1. /\ user'.attempts = login[r].seen.attempts + 1
        /\ login[r].seen.attempts \in Nat
        /\ Failed!WillLock(r) <=> user'.attempts >= MaxFailed
        /\ user'.lockedUntil = IF Failed!WillLock(r) THEN clock + Duration ELSE user.lockedUntil
    BY <1>1, FailedLoginFits
  <2>2. clock + Duration # 0
    BY PartsAssumption DEF Failed!TypeOK, Failed!LockoutAssumption
  <2>3. user'.attempts >= MaxFailed => user'.lockedUntil # 0
    BY <2>1, <2>2
  <2>4. ASSUME ~strayed'
        PROVE  user'.attempts = streak' /\ (streak' >= MaxFailed <=> user'.lockedUntil # 0)
    <3>1. ~strayed /\ login[r].seen = user /\ streak' = streak + 1
      BY <1>1, <2>4 DEF Failed!RecordFailure
    <3>2. user.attempts = streak /\ (streak >= MaxFailed <=> user.lockedUntil # 0)
      BY <3>1 DEF Failed!FailuresCounted
    <3>3. streak \in Nat /\ MaxFailed \in Nat
      BY PartsAssumption DEF Failed!TypeOK, Failed!LockoutAssumption
    <3> QED BY <2>1, <2>2, <3>1, <3>2, <3>3
  <2> QED BY <2>3, <2>4 DEF Failed!FailuresCounted
<1>2. ASSUME NEW r \in Logins, Failed!RecordSuccess(r) PROVE Failed!FailuresCounted'
  BY <1>2, PartsAssumption DEF Failed!RecordSuccess, Failed!FailuresCounted, Failed!Fresh,
     Failed!LockoutAssumption
<1>3. ASSUME UNCHANGED <<user, streak, strayed>> PROVE Failed!FailuresCounted'
  BY <1>3 DEF Failed!FailuresCounted
<1>4. CASE \E r \in Logins : Failed!ReadUser(r) \/ Failed!Compare(r) \/ Failed!Crash(r)
  BY <1>3, <1>4 DEF Failed!ReadUser, Failed!Compare, Failed!Crash
<1>5. CASE Failed!Tick \/ UNCHANGED Failed!vars
  BY <1>3, <1>5 DEF Failed!Tick, Failed!vars
<1> QED BY <1>1, <1>2, <1>4, <1>5 DEF Failed!Next, Failed!Quiet

\* However logins overlap, a counter at its limit goes with a lock; and as long as
\* no failure was counted on an outdated reading, the counter is the number of
\* failures in a row, and exactly that many lock.
THEOREM FailuresAreCounted == PlatformSpec => []FailuresCounted
<1>1. Failed!Init => Failed!FailuresCounted
  BY PartsAssumption DEF Failed!Init, Failed!FailuresCounted, Failed!Fresh,
     Failed!LockoutAssumption
<1>2. Failed!TypeOK /\ Failed!FailuresCounted /\ [Failed!Next]_(Failed!vars)
          => Failed!FailuresCounted'
  BY CountedNext
<1> QED BY <1>1, <1>2, LoginsTyped, EachPart, PTL DEF Failed!Spec, FailuresCounted

-----------------------------------------------------------------------------
(* The cache.                                                              *)

LoadSteps == {"idle", "load", "store"}

\* A reader, when n is the value in the database.
ReaderRow(n) == [pc : LoadSteps, missed : 0..Horizon, loaded : 0..n]

\* A former value was replaced in the past.
EndedBefore == \A v \in 0..(value - 1) : ended[v] <= cacheNow

Sound == Cached!TypeOK /\ EndedBefore

LEMMA CacheNumbers ==
    ASSUME Cached!TypeOK
    PROVE  /\ TTL \in Nat /\ TTL > 0 /\ MaxLoad \in Nat /\ MaxValue \in Nat /\ Horizon \in Nat
           /\ cacheNow \in 0..Horizon /\ value \in 0..MaxValue /\ oldest \in 0..Horizon
           /\ \A v \in 0..(value - 1) : ended[v] \in 0..Horizon
           /\ reader \in [Readers -> ReaderRow(value)]
           /\ entry.value \in 0..value /\ entry.until \in 0..(Horizon + TTL)
  BY PartsAssumption DEF Cached!CacheAssumption, Cached!TypeOK, ReaderRow, LoadSteps

LEMMA AgeFits ==
    ASSUME Sound, NEW v \in 0..value, Cached!Serve(v)
    PROVE  oldest' \in 0..Horizon
<1>1. Cached!Age(v) \in 0..Horizon
  BY CacheNumbers DEF Cached!Age, EndedBefore, Sound
<1> QED BY <1>1, CacheNumbers DEF Cached!Serve, Sound

-----------------------------------------------------------------------------
(* What a step does to its reader, as whole rows.                          *)

LEMMA MissFits ==
    ASSUME Cached!TypeOK, NEW r \in Readers, Cached!Miss(r)
    PROVE  /\ reader' \in [Readers -> ReaderRow(value)]
           /\ reader'[r].pc = "load" /\ reader'[r].missed = cacheNow
           /\ \A x \in Readers : x # r => reader'[x] = reader[x]
<1>1. [pc |-> "load", missed |-> cacheNow, loaded |-> 0] \in ReaderRow(value)
  BY CacheNumbers DEF ReaderRow, LoadSteps
<1>2. reader' = [reader EXCEPT ![r] = [pc |-> "load", missed |-> cacheNow, loaded |-> 0]]
  BY DEF Cached!Miss
<1> QED BY <1>1, <1>2, CacheNumbers

LEMMA QueryFits ==
    ASSUME Cached!TypeOK, NEW r \in Readers, Cached!Query(r)
    PROVE  /\ reader' \in [Readers -> ReaderRow(value)]
           /\ reader'[r].missed = reader[r].missed /\ reader'[r].loaded = value
           /\ reader[r].pc = "load"
           /\ \A x \in Readers : x # r => reader'[x] = reader[x]
<1>1. reader[r] \in ReaderRow(value) /\ value \in 0..value
  BY CacheNumbers
<1>2. [pc |-> "store", missed |-> reader[r].missed, loaded |-> value] \in ReaderRow(value)
  BY <1>1 DEF ReaderRow, LoadSteps
<1>3. reader' = [reader EXCEPT ![r] = [pc     |-> "store",
                                       missed |-> reader[r].missed,
                                       loaded |-> value]]
  BY DEF Cached!Query
<1> QED BY <1>2, <1>3, CacheNumbers DEF Cached!Query

LEMMA IdleFits ==
    ASSUME Cached!TypeOK, NEW r \in Readers, Cached!Store(r) \/ Cached!Fail(r)
    PROVE  /\ reader' \in [Readers -> ReaderRow(value)]
           /\ reader'[r].pc = "idle"
           /\ \A x \in Readers : x # r => reader'[x] = reader[x]
<1>1. Cached!At("idle") \in ReaderRow(value) /\ Cached!At("idle").pc = "idle"
  BY CacheNumbers DEF Cached!At, ReaderRow, LoadSteps
<1>2. reader' = [reader EXCEPT ![r] = Cached!At("idle")]
  BY DEF Cached!Store, Cached!Fail
<1> QED BY <1>1, <1>2, CacheNumbers

LEMMA EntryKept ==
    ASSUME Cached!TypeOK, NEW r \in Readers, Cached!Store(r)
    PROVE  \/ entry' = entry
           \/ entry'.value = reader[r].loaded /\ entry'.until = cacheNow + TTL
  BY DEF Cached!Store

-----------------------------------------------------------------------------
LEMMA SoundNext == ASSUME Sound, [Cached!Next]_(Cached!vars) PROVE Sound'
<1>1. Cached!TypeOK /\ EndedBefore
  BY DEF Sound
<1>2. ASSUME UNCHANGED <<cacheNow, value, ended, entry>>,
             oldest' \in 0..Horizon, reader' \in [Readers -> ReaderRow(value)]
      PROVE  Sound'
  BY <1>1, <1>2 DEF Sound, Cached!TypeOK, EndedBefore, ReaderRow, LoadSteps
<1>3. ASSUME NEW r \in Readers, Cached!Hit(r) PROVE Sound'
  BY <1>1, <1>2, <1>3, AgeFits, CacheNumbers DEF Cached!Hit
<1>4. ASSUME NEW r \in Readers, Cached!Miss(r) PROVE Sound'
  BY <1>1, <1>2, <1>4, MissFits, CacheNumbers DEF Cached!Miss
<1>5. ASSUME NEW r \in Readers, Cached!Query(r) PROVE Sound'
  BY <1>1, <1>2, <1>5, QueryFits, CacheNumbers DEF Cached!Query
<1>6. ASSUME NEW r \in Readers, Cached!Store(r) PROVE Sound'
  <2>1. reader[r].loaded \in 0..value
    BY <1>1, CacheNumbers DEF ReaderRow
  <2>2. oldest' \in 0..Horizon
    BY <1>6, <2>1, AgeFits DEF Cached!Store
  <2>3. entry' \in [value : 0..value, until : 0..(Horizon + TTL)]
    <3>1. CASE entry' = entry
      BY <1>1, <3>1 DEF Cached!TypeOK
    <3>2. CASE entry' = [value |-> reader[r].loaded, until |-> cacheNow + TTL]
      BY <1>1, <2>1, <3>2, CacheNumbers
    <3> QED BY <1>6, <3>1, <3>2 DEF Cached!Store
  <2>4. reader' \in [Readers -> ReaderRow(value)]
    BY <1>1, <1>6, IdleFits
  <2>5. UNCHANGED <<cacheNow, value, ended>>
    BY <1>6 DEF Cached!Store
  <2> QED BY <1>1, <2>2, <2>3, <2>4, <2>5 DEF Sound, Cached!TypeOK, EndedBefore, ReaderRow,
             LoadSteps
<1>7. ASSUME NEW r \in Readers, Cached!Fail(r) PROVE Sound'
  BY <1>1, <1>2, <1>7, IdleFits, CacheNumbers DEF Cached!Fail
<1>8. CASE Cached!Change
  <2>1. value' = value + 1 /\ value' \in 0..MaxValue /\ value \in Nat
    BY <1>1, <1>8, CacheNumbers DEF Cached!Change
  <2>2. ended' = [v \in 0..value |-> IF v = value THEN cacheNow ELSE ended[v]]
    BY <1>8 DEF Cached!Change
  <2>3. ended' \in [0..(value' - 1) -> 0..Horizon] /\ EndedBefore'
    BY <1>1, <1>8, <2>1, <2>2, CacheNumbers DEF EndedBefore, Cached!Change
  <2>4. 0..value \subseteq 0..value'
    BY <2>1
  <2>5. entry' \in [value : 0..value', until : 0..(Horizon + TTL)]
    BY <1>1, <1>8, <2>4 DEF Cached!Change, Cached!TypeOK
  <2>6. reader' \in [Readers -> ReaderRow(value')]
    BY <1>1, <1>8, <2>4, CacheNumbers DEF Cached!Change, ReaderRow
  <2>7. UNCHANGED <<cacheNow, oldest>>
    BY <1>8 DEF Cached!Change
  <2> QED BY <1>1, <2>1, <2>3, <2>5, <2>6, <2>7, CacheNumbers DEF Sound, Cached!TypeOK,
             ReaderRow, LoadSteps
<1>9. CASE Cached!Tick
  BY <1>1, <1>9, CacheNumbers DEF Cached!Tick, Sound, Cached!TypeOK, EndedBefore
<1>10. CASE UNCHANGED Cached!vars
  BY <1>1, <1>10 DEF Cached!vars, Sound, Cached!TypeOK, EndedBefore
<1> QED BY <1>3, <1>4, <1>5, <1>6, <1>7, <1>8, <1>9, <1>10 DEF Cached!Next, Cached!Quiet

LEMMA SoundInit == ASSUME Cached!Init PROVE Sound
<1>1. reader \in [Readers -> ReaderRow(0)]
  BY PartsAssumption DEF Cached!Init, Cached!At, ReaderRow, LoadSteps,
     Cached!CacheAssumption
<1>2. ended \in [0..(value - 1) -> 0..Horizon] /\ EndedBefore
  BY DEF Cached!Init, EndedBefore
<1>3. entry \in [value : 0..value, until : 0..(Horizon + TTL)]
  BY PartsAssumption DEF Cached!Init, Cached!CacheAssumption
<1> QED BY <1>1, <1>2, <1>3, PartsAssumption DEF Cached!Init, Sound, Cached!TypeOK,
           ReaderRow, LoadSteps, Cached!CacheAssumption

\* What is in the database, in the cache and on its way between them keeps its
\* type, and no former value ended later than now.
THEOREM CacheSound == Cached!Spec => []Sound
<1>1. Cached!Init => Sound
  BY SoundInit
<1>2. Sound /\ [Cached!Next]_(Cached!vars) => Sound'
  BY SoundNext
<1> QED BY <1>1, <1>2, PTL DEF Cached!Spec

-----------------------------------------------------------------------------
(* How old a value is bounded by what it was in time for.                  *)

\* A load takes its time.
LoadsInTime ==
    \A r \in Readers :
        reader[r].pc # "idle" =>
            reader[r].missed <= cacheNow /\ cacheNow <= reader[r].missed + MaxLoad

\* What was loaded was still the value when the load began.
LoadedWasCurrent ==
    \A r \in Readers :
        reader[r].pc = "store" /\ reader[r].loaded # value
            => reader[r].missed <= ended[reader[r].loaded]

\* So was what the entry holds, a load and the life of an entry before its end.
EntryWasCurrent ==
    /\ entry.until <= cacheNow + TTL
    /\ entry.value # value => entry.until <= ended[entry.value] + TTL + MaxLoad

FreshEnough == LoadsInTime /\ LoadedWasCurrent /\ EntryWasCurrent /\ Cached!StalenessBounded

LEMMA FreshNext == ASSUME Sound, FreshEnough, [Cached!Next]_(Cached!vars) PROVE FreshEnough'
<1>1. Cached!TypeOK /\ EndedBefore /\ LoadsInTime /\ LoadedWasCurrent /\ EntryWasCurrent
      /\ Cached!StalenessBounded
  BY DEF Sound, FreshEnough
<1>2. ASSUME NEW r \in Readers, Cached!Hit(r) PROVE FreshEnough'
  <2>1. Cached!Age(entry.value) < TTL + MaxLoad
    BY <1>1, <1>2, CacheNumbers DEF Cached!Hit, Cached!Held, Cached!Age, EntryWasCurrent
  <2>2. Cached!StalenessBounded'
    BY <1>1, <1>2, <2>1 DEF Cached!Hit, Cached!Serve, Cached!StalenessBounded
  <2> QED BY <1>1, <1>2, <2>2 DEF Cached!Hit, FreshEnough, LoadsInTime, LoadedWasCurrent,
             EntryWasCurrent
<1>3. ASSUME NEW r \in Readers, Cached!Miss(r) PROVE FreshEnough'
  <2>1. LoadsInTime'
    BY <1>1, <1>3, MissFits, CacheNumbers DEF LoadsInTime, Cached!Miss
  <2>2. LoadedWasCurrent'
    BY <1>1, <1>3, MissFits DEF LoadedWasCurrent, Cached!Miss
  <2> QED BY <1>1, <1>3, <2>1, <2>2 DEF Cached!Miss, FreshEnough, EntryWasCurrent,
             Cached!StalenessBounded
<1>4. ASSUME NEW r \in Readers, Cached!Query(r) PROVE FreshEnough'
  <2>1. LoadsInTime'
    BY <1>1, <1>4, QueryFits DEF LoadsInTime, Cached!Query
  <2>2. LoadedWasCurrent'
    BY <1>1, <1>4, QueryFits DEF LoadedWasCurrent, Cached!Query
  <2> QED BY <1>1, <1>4, <2>1, <2>2 DEF Cached!Query, FreshEnough, EntryWasCurrent,
             Cached!StalenessBounded
<1>5. ASSUME NEW r \in Readers, Cached!Store(r) PROVE FreshEnough'
  <2>1. /\ reader[r].pc = "store" /\ reader[r].loaded \in 0..value
        /\ UNCHANGED <<cacheNow, value, ended>>
    BY <1>1, <1>5, CacheNumbers DEF Cached!Store, ReaderRow
  <2>2. /\ reader[r].missed \in Nat /\ cacheNow <= reader[r].missed + MaxLoad
        /\ reader[r].loaded # value
             => /\ reader[r].missed <= ended[reader[r].loaded]
                /\ ended[reader[r].loaded] \in Nat
    BY <1>1, <2>1, CacheNumbers DEF LoadsInTime, LoadedWasCurrent, ReaderRow
  <2>3. EntryWasCurrent'
    <3>1. CASE entry' = entry
      BY <1>1, <2>1, <3>1 DEF EntryWasCurrent
    <3>2. CASE entry'.value = reader[r].loaded /\ entry'.until = cacheNow + TTL
      BY <1>1, <2>1, <2>2, <3>2, CacheNumbers DEF EntryWasCurrent
    <3> QED BY <1>1, <1>5, <3>1, <3>2, EntryKept
  <2>4. Cached!Age(reader[r].loaded) < TTL + MaxLoad
    BY <1>1, <2>2, CacheNumbers DEF Cached!Age
  <2>5. Cached!StalenessBounded'
    BY <1>1, <1>5, <2>4 DEF Cached!Store, Cached!Serve, Cached!StalenessBounded
  <2>6. LoadsInTime' /\ LoadedWasCurrent'
    BY <1>1, <1>5, <2>1, IdleFits DEF LoadsInTime, LoadedWasCurrent
  <2> QED BY <2>3, <2>5, <2>6 DEF FreshEnough
<1>6. ASSUME NEW r \in Readers, Cached!Fail(r) PROVE FreshEnough'
  BY <1>1, <1>6, IdleFits DEF Cached!Fail, FreshEnough, LoadsInTime, LoadedWasCurrent,
     EntryWasCurrent,
     Cached!StalenessBounded
<1>7. CASE Cached!Change
  <2>1. /\ value \in Nat /\ value' = value + 1 /\ UNCHANGED <<cacheNow, entry, oldest, reader>>
        /\ \A v \in 0..value : ended'[v] = IF v = value THEN cacheNow ELSE ended[v]
    BY <1>1, <1>7, CacheNumbers DEF Cached!Change
  <2>2. LoadsInTime' /\ Cached!StalenessBounded'
    BY <1>1, <2>1 DEF LoadsInTime, Cached!StalenessBounded
  <2>3. LoadedWasCurrent'
    BY <1>1, <2>1, CacheNumbers DEF LoadedWasCurrent, LoadsInTime, ReaderRow
  <2>4. EntryWasCurrent'
    BY <1>1, <2>1, CacheNumbers DEF EntryWasCurrent
  <2> QED BY <2>2, <2>3, <2>4 DEF FreshEnough
<1>8. CASE Cached!Tick
  <2>1. cacheNow' = cacheNow + 1 /\ UNCHANGED <<value, ended, entry, oldest, reader>>
    BY <1>8 DEF Cached!Tick
  <2>2. LoadsInTime'
    BY <1>1, <1>8, <2>1, CacheNumbers DEF Cached!Tick, LoadsInTime, ReaderRow
  <2> QED BY <1>1, <2>1, <2>2, CacheNumbers
          DEF FreshEnough, LoadedWasCurrent, EntryWasCurrent, Cached!StalenessBounded
<1>9. CASE UNCHANGED Cached!vars
  BY <1>1, <1>9 DEF Cached!vars, FreshEnough, LoadsInTime, LoadedWasCurrent,
     EntryWasCurrent,
     Cached!StalenessBounded
<1> QED BY <1>2, <1>3, <1>4, <1>5, <1>6, <1>7, <1>8, <1>9 DEF Cached!Next, Cached!Quiet

\* However loads overlap and whatever fails, nobody is given a value longer after
\* it was replaced than an entry lives and a load takes.
THEOREM StalenessIsBounded == PlatformSpec => []StalenessBounded
<1>1. Cached!Init => FreshEnough
  BY PartsAssumption DEF Cached!Init, FreshEnough, LoadsInTime, LoadedWasCurrent,
     EntryWasCurrent, Cached!StalenessBounded,
     Cached!At, Cached!CacheAssumption
<1>2. Sound /\ FreshEnough /\ [Cached!Next]_(Cached!vars) => FreshEnough'
  BY FreshNext
<1>3. FreshEnough => Cached!StalenessBounded
  BY DEF FreshEnough
<1> QED BY <1>1, <1>2, <1>3, CacheSound, EachPart, PTL DEF Cached!Spec, StalenessBounded

-----------------------------------------------------------------------------
(* Notifications.                                                          *)

NoteStatus == {"PENDING", "QUEUED", "SENT", "FAILED"}
NoteRow    == [status : NoteStatus, retryCount : Nat, sent : BOOLEAN, failed : BOOLEAN]
NoteReq    == [pc : {"idle", "write", "audit", "done", "rejected", "failed"},
               op : {"queue", "markSent", "markFailed", "retry", "none"},
               id : Notifications \cup {"none"}, seen : NoteRow, updated : NoteRow]

Stamped(n) == (n.status = "SENT" => n.sent) /\ (n.status = "FAILED" => n.failed)

\* A request q about to write read no more retries than there are in the rows N
\* now; one about to write its audit record was given a number of its own.
NoticeReqFits(q, N) ==
    /\ q.pc = "write" =>
           q.op # "none" /\ q.id \in Notifications
           /\ q.seen.retryCount <= N[q.id].retryCount
    /\ q.pc = "audit" =>
           q.id \in Notifications /\ q.seen.retryCount < q.updated.retryCount

\* The retries of n with their numbers: audited, lost, and waiting for their audit.
About(A, n)   == {a \in A : a.id = n}
OnTheWay(Q, n) == {r \in Callers : Q[r].pc = "audit" /\ Q[r].id = n}

NumbersOf(Q, A, S, n) ==
    {a.after : a \in About(A, n)} \cup {s.after : s \in About(S, n)}
        \cup {Q[r].updated.retryCount : r \in OnTheWay(Q, n)}

RetriesOf(Q, A, S, n) ==
    Cardinality(About(A, n)) + Cardinality(About(S, n)) + Cardinality(OnTheWay(Q, n))

\* There are k of them, numbered from 1; the numbers of those that wait are of no
\* other.
Accounted(k, Q, A, S, n) ==
    /\ 1..k = NumbersOf(Q, A, S, n)
    /\ k = RetriesOf(Q, A, S, n)
    /\ \A r \in OnTheWay(Q, n) :
           /\ \A a \in About(A, n) \cup About(S, n) : a.after # Q[r].updated.retryCount
           /\ \A s \in OnTheWay(Q, n) : Q[s].updated.retryCount = Q[r].updated.retryCount => s = r

\* Every retry is of a request of its own.
Wrote(Q) == {r \in Callers : Q[r].pc \notin {"idle", "write"}}

NoticesTyped ==
    /\ notification \in [Notifications -> NoteRow]
    /\ notificationReq \in [Callers -> NoteReq]
    /\ \A n \in Notifications : Stamped(notification[n])
    /\ \A r \in Callers : NoticeReqFits(notificationReq[r], notification)
    /\ IsFiniteSet(audit) /\ IsFiniteSet(silent)
    /\ \A a \in audit : a.before < a.after

NoticesCounted ==
    \A n \in Notifications :
        /\ Accounted(notification[n].retryCount, notificationReq, audit, silent, n)
        /\ notification[n].retryCount <= Cardinality(Wrote(notificationReq))

NoticesFit == NoticesTyped /\ NoticesCounted

LEMMA CallersFinite == IsFiniteSet(Callers)
<1>1. Notice!IsFiniteSet(Callers) <=> IsFiniteSet(Callers)
  BY DEF Notice!IsFiniteSet, IsFiniteSet
<1> QED BY <1>1, PartsAssumption DEF Notice!NotificationsAssumption

LEMMA NoticeTerms ==
    /\ DOMAIN Notice!Accepts = {"queue", "markSent", "markFailed", "retry"}
    /\ Notice!Created \in NoteRow /\ Stamped(Notice!Created) /\ Notice!Created.retryCount = 0
    /\ \A l \in {"idle", "write", "audit", "done", "rejected", "failed"} :
           Notice!At(l) \in NoteReq /\ Notice!At(l).pc = l
<1>1. DOMAIN Notice!Accepts = {"queue", "markSent", "markFailed", "retry"}
  BY DEF Notice!Accepts
<1>2. /\ Notice!Created \in NoteRow /\ Stamped(Notice!Created)
      /\ Notice!Created.retryCount = 0
  BY DEF Notice!Created, NoteRow, NoteStatus, Stamped
<1>3. \A l \in {"idle", "write", "audit", "done", "rejected", "failed"} :
          Notice!At(l) \in NoteReq /\ Notice!At(l).pc = l
  BY <1>2 DEF Notice!At, NoteReq, Notice!NoNotification
<1> QED BY <1>1, <1>2, <1>3

\* What an operation makes of any row.
LEMMA NoticeWritten ==
    ASSUME NEW r, notificationReq[r].op \in {"queue", "markSent", "markFailed", "retry"},
           NEW n \in NoteRow
    PROVE  /\ Notice!Written(r, n) \in NoteRow /\ Stamped(Notice!Written(r, n))
           /\ Notice!Written(r, n).retryCount =
                  IF notificationReq[r].op = "retry" THEN n.retryCount + 1 ELSE n.retryCount
<1> USE DEF Notice!Written, Notice!Retried, NoteRow, NoteStatus, Stamped
<1>1. CASE notificationReq[r].op = "queue"
  BY <1>1
<1>2. CASE notificationReq[r].op = "markSent"
  BY <1>2
<1>3. CASE notificationReq[r].op = "markFailed"
  BY <1>3
<1>4. CASE notificationReq[r].op = "retry"
  <2> DEFINE new == [n EXCEPT !.status = "PENDING", !.retryCount = n.retryCount + 1,
                              !.failed = FALSE]
  <2>1. Notice!Written(r, n) = new
    BY <1>4
  <2>2. n.retryCount + 1 \in Nat
    OBVIOUS
  <2>3. new \in NoteRow
    BY <2>2, Zenon
  <2>4. new.status = "PENDING" /\ new.retryCount = n.retryCount + 1
    BY <2>2
  <2> QED BY <1>4, <2>1, <2>3, <2>4
<1> QED BY <1>1, <1>2, <1>3, <1>4

\* An account depends on what is about its notification alone.
LEMMA SameAccount ==
    ASSUME NEW k, NEW Q, NEW A, NEW S, NEW R, NEW B, NEW T, NEW n,
           OnTheWay(R, n) = OnTheWay(Q, n), About(B, n) = About(A, n), About(T, n) = About(S, n),
           \A r \in OnTheWay(Q, n) : R[r].updated = Q[r].updated,
           Accounted(k, Q, A, S, n)
    PROVE  Accounted(k, R, B, T, n)
<1>1. NumbersOf(R, B, T, n) = NumbersOf(Q, A, S, n)
  BY DEF NumbersOf
<1>2. RetriesOf(R, B, T, n) = RetriesOf(Q, A, S, n)
  BY DEF RetriesOf
<1> QED BY <1>1, <1>2 DEF Accounted

LEMMA AccountTurned ==
    ASSUME NEW k, NEW Q, NEW A, NEW S, NEW n, IsFiniteSet(A), IsFiniteSet(S),
           Accounted(k, Q, A, S, n)
    PROVE  Accounted(k, Q, S, A, n)
<1>1. NumbersOf(Q, A, S, n) = NumbersOf(Q, S, A, n)
  BY DEF NumbersOf
<1>2. /\ IsFiniteSet(About(A, n)) /\ IsFiniteSet(About(S, n)) /\ IsFiniteSet(OnTheWay(Q, n))
  BY FS_Subset, CallersFinite DEF About, OnTheWay
<1>3. RetriesOf(Q, A, S, n) = RetriesOf(Q, S, A, n)
  BY <1>2, FS_CardinalityType DEF RetriesOf
<1> QED BY <1>1, <1>3 DEF Accounted

\* One more retry, with the next number.
LEMMA OneMoreRetry ==
    ASSUME NEW k \in Nat, NEW Q, NEW A, NEW S, NEW R, NEW n, NEW r \in Callers,
           IsFiniteSet(A), IsFiniteSet(S), Accounted(k, Q, A, S, n),
           Q[r].pc # "audit", R[r].pc = "audit", R[r].id = n, R[r].updated.retryCount = k + 1,
           \A s \in Callers \ {r} : R[s] = Q[s]
    PROVE  Accounted(k + 1, R, A, S, n)
<1>1. OnTheWay(R, n) = OnTheWay(Q, n) \cup {r} /\ r \notin OnTheWay(Q, n)
  BY DEF OnTheWay
<1>2. \A s \in OnTheWay(Q, n) : R[s] = Q[s]
  BY <1>1 DEF OnTheWay
<1>3. NumbersOf(R, A, S, n) = NumbersOf(Q, A, S, n) \cup {k + 1}
  BY <1>1, <1>2 DEF NumbersOf
<1>4. 1..(k + 1) = (1..k) \cup {k + 1}
  OBVIOUS
<1>5. /\ IsFiniteSet(About(A, n)) /\ IsFiniteSet(About(S, n)) /\ IsFiniteSet(OnTheWay(Q, n))
  BY FS_Subset, CallersFinite DEF About, OnTheWay
<1>6. RetriesOf(R, A, S, n) = RetriesOf(Q, A, S, n) + 1
  <2>1. Cardinality(OnTheWay(R, n)) = Cardinality(OnTheWay(Q, n)) + 1
    BY <1>1, <1>5, FS_AddElement
  <2> QED BY <1>5, <2>1, FS_CardinalityType DEF RetriesOf
<1>7. \A s \in OnTheWay(Q, n) : Q[s].updated.retryCount \in 1..k
  BY DEF Accounted, NumbersOf
<1>8. \A a \in About(A, n) \cup About(S, n) : a.after \in 1..k
  BY DEF Accounted, NumbersOf
<1>9. k + 1 \notin 1..k
  OBVIOUS
<1>10. ASSUME NEW s \in OnTheWay(R, n)
       PROVE  /\ \A a \in About(A, n) \cup About(S, n) : a.after # R[s].updated.retryCount
              /\ \A t \in OnTheWay(R, n) :
                     R[t].updated.retryCount = R[s].updated.retryCount => t = s
  <2>1. CASE s = r
    BY <1>1, <1>2, <1>7, <1>8, <1>9, <2>1
  <2>2. CASE s # r
    BY <1>1, <1>2, <1>7, <1>9, <2>2 DEF Accounted
  <2> QED BY <2>1, <2>2
<1> QED BY <1>3, <1>4, <1>6, <1>10 DEF Accounted

\* A retry that waited is recorded, in one way or the other.
LEMMA RetryRecorded ==
    ASSUME NEW k \in Nat, NEW Q, NEW A, NEW S, NEW R, NEW n, NEW r \in Callers, NEW a,
           IsFiniteSet(A), IsFiniteSet(S), Accounted(k, Q, A, S, n),
           Q[r].pc = "audit", Q[r].id = n, R[r].pc # "audit",
           a.id = n, a.after = Q[r].updated.retryCount,
           \A s \in Callers \ {r} : R[s] = Q[s]
    PROVE  Accounted(k, R, A \cup {a}, S, n)
<1>1. OnTheWay(R, n) = OnTheWay(Q, n) \ {r} /\ r \in OnTheWay(Q, n)
  BY DEF OnTheWay
<1>2. \A s \in OnTheWay(R, n) : R[s] = Q[s]
  BY <1>1 DEF OnTheWay
<1>3. About(A \cup {a}, n) = About(A, n) \cup {a} /\ a \notin About(A, n)
  BY <1>1 DEF About, Accounted
<1>4. NumbersOf(R, A \cup {a}, S, n) = NumbersOf(Q, A, S, n)
  <2>1. {b.after : b \in About(A \cup {a}, n)}
            = {b.after : b \in About(A, n)} \cup {Q[r].updated.retryCount}
    BY <1>3
  <2>2. {Q[s].updated.retryCount : s \in OnTheWay(Q, n)}
            = {R[s].updated.retryCount : s \in OnTheWay(R, n)} \cup {Q[r].updated.retryCount}
    BY <1>1, <1>2
  <2> QED BY <2>1, <2>2 DEF NumbersOf
<1>5. /\ IsFiniteSet(About(A, n)) /\ IsFiniteSet(About(S, n)) /\ IsFiniteSet(OnTheWay(Q, n))
  BY FS_Subset, CallersFinite DEF About, OnTheWay
<1>6. RetriesOf(R, A \cup {a}, S, n) = RetriesOf(Q, A, S, n)
  <2>1. Cardinality(OnTheWay(R, n)) = Cardinality(OnTheWay(Q, n)) - 1
    BY <1>1, <1>5, FS_RemoveElement
  <2>2. Cardinality(About(A \cup {a}, n)) = Cardinality(About(A, n)) + 1
    BY <1>3, <1>5, FS_AddElement
  <2> QED BY <1>5, <2>1, <2>2, FS_CardinalityType DEF RetriesOf
<1>7. ASSUME NEW s \in OnTheWay(R, n)
      PROVE  /\ \A b \in About(A \cup {a}, n) \cup About(S, n) : b.after # R[s].updated.retryCount
             /\ \A t \in OnTheWay(R, n) :
                    R[t].updated.retryCount = R[s].updated.retryCount => t = s
  <2>1. R[s] = Q[s] /\ s \in OnTheWay(Q, n) /\ s # r
    BY <1>1, <1>2
  <2>2. \A t \in OnTheWay(Q, n) : Q[t].updated.retryCount = Q[s].updated.retryCount => t = s
    BY <2>1 DEF Accounted
  <2>3. a.after # R[s].updated.retryCount
    BY <1>1, <2>1, <2>2
  <2>4. \A b \in About(A, n) \cup About(S, n) : b.after # R[s].updated.retryCount
    BY <2>1 DEF Accounted
  <2> QED BY <1>1, <1>2, <1>3, <2>1, <2>2, <2>3, <2>4
<1> QED BY <1>4, <1>6, <1>7 DEF Accounted

\* A step of one request that neither retries nor waits for an audit.
LEMMA NoRetry ==
    ASSUME NoticesFit, NEW r \in Callers, NEW new \in NoteReq,
           notificationReq' = [notificationReq EXCEPT ![r] = new],
           notificationReq[r].pc # "audit", new.pc # "audit",
           new.pc \in {"idle", "write"} => notificationReq[r].pc \in {"idle", "write"},
           NoticeReqFits(new, notification),
           UNCHANGED <<audit, silent>>,
           notification' \in [Notifications -> NoteRow],
           \A n \in Notifications :
               Stamped(notification'[n]) /\ notification'[n].retryCount = notification[n].retryCount
    PROVE  NoticesFit'
<1>1. /\ notificationReq' \in [Callers -> NoteReq] /\ notificationReq'[r] = new
      /\ \A x \in Callers : x # r => notificationReq'[x] = notificationReq[x]
  BY DEF NoticesFit, NoticesTyped
<1>2. \A x \in Callers : NoticeReqFits(notificationReq'[x], notification')
  BY <1>1 DEF NoticesFit, NoticesTyped, NoticeReqFits
<1>3. NoticesTyped'
  BY <1>1, <1>2 DEF NoticesFit, NoticesTyped
<1>4. ASSUME NEW n \in Notifications
      PROVE  /\ Accounted(notification'[n].retryCount, notificationReq', audit', silent', n)
             /\ notification'[n].retryCount <= Cardinality(Wrote(notificationReq'))
  <2>1. OnTheWay(notificationReq', n) = OnTheWay(notificationReq, n)
    BY <1>1 DEF OnTheWay
  <2>2. \A x \in OnTheWay(notificationReq, n) :
            notificationReq'[x].updated = notificationReq[x].updated
    BY <1>1 DEF OnTheWay
  <2>3. Accounted(notification[n].retryCount, notificationReq, audit, silent, n)
    BY DEF NoticesFit, NoticesCounted
  <2>4. Accounted(notification[n].retryCount, notificationReq', audit, silent, n)
    BY <2>1, <2>2, <2>3, SameAccount
  <2>5. Wrote(notificationReq) \subseteq Wrote(notificationReq') /\ IsFiniteSet(Wrote(notificationReq'))
    BY <1>1, CallersFinite, FS_Subset DEF Wrote
  <2>6. /\ Cardinality(Wrote(notificationReq)) <= Cardinality(Wrote(notificationReq'))
        /\ Cardinality(Wrote(notificationReq)) \in Nat /\ Cardinality(Wrote(notificationReq')) \in Nat
    BY <2>5, FS_Subset, FS_CardinalityType
  <2>7. notification[n].retryCount <= Cardinality(Wrote(notificationReq))
    BY DEF NoticesFit, NoticesCounted
  <2>8. notification[n].retryCount \in Nat
    BY DEF NoticesFit, NoticesTyped, NoteRow
  <2> QED BY <2>4, <2>6, <2>7, <2>8
<1>5. NoticesCounted'
  BY <1>4 DEF NoticesCounted
<1> QED BY <1>3, <1>5 DEF NoticesFit

LEMMA NoticeArrives ==
    ASSUME NoticesFit, NEW r \in Callers, NEW n \in Notifications, NEW op \in DOMAIN Notice!Accepts,
           Notice!Arrive(r, n, op)
    PROVE  NoticesFit'
<1> DEFINE asked == [Notice!At("write") EXCEPT !.op = op, !.id = n, !.seen = notification[n]]
           new   == IF notification[n].status \in Notice!Accepts[op] THEN asked
                    ELSE Notice!At("rejected")
<1>1. /\ notification \in [Notifications -> NoteRow] /\ notificationReq \in [Callers -> NoteReq]
      /\ notification[n] \in NoteRow /\ op \in {"queue", "markSent", "markFailed", "retry"}
  BY NoticeTerms DEF NoticesFit, NoticesTyped
<1>2. asked \in NoteReq /\ asked.pc = "write" /\ asked.op = op /\ asked.id = n
      /\ asked.seen = notification[n]
  BY <1>1, NoticeTerms DEF NoteReq
<1>3. NoticeReqFits(asked, notification)
  BY <1>1, <1>2 DEF NoticeReqFits, NoteRow
<1>4. /\ notificationReq' = [notificationReq EXCEPT ![r] = new] /\ notificationReq[r].pc = "idle"
      /\ UNCHANGED <<notification, audit, silent>>
  BY DEF Notice!Arrive
<1>5. new \in NoteReq /\ new.pc \in {"write", "rejected"} /\ NoticeReqFits(new, notification)
  BY <1>2, <1>3, NoticeTerms DEF NoticeReqFits
<1> HIDE DEF new
<1>6. \A m \in Notifications : Stamped(notification'[m])
  BY <1>4 DEF NoticesFit, NoticesTyped
<1> QED BY <1>1, <1>4, <1>5, <1>6, NoRetry

\* The write of a retry, which gives it its number.
LEMMA RetryFits ==
    ASSUME NoticesFit, NEW r \in Callers, Notice!Write(r), notificationReq[r].op = "retry"
    PROVE  NoticesFit'
<1> DEFINE q == notificationReq[r]
           m == q.id
           k == notification[m].retryCount
           row2 == Notice!Written(r, notification[m])
           new == [notificationReq[r] EXCEPT !.pc = "audit", !.updated = row2]
<1>1. /\ notification \in [Notifications -> NoteRow] /\ notificationReq \in [Callers -> NoteReq]
      /\ q \in NoteReq /\ NoticeReqFits(q, notification) /\ q.pc = "write"
  BY DEF NoticesFit, NoticesTyped, Notice!Write
<1>2. m \in Notifications /\ q.seen.retryCount <= k /\ notification[m] \in NoteRow
      /\ k \in Nat /\ q.seen.retryCount \in Nat
  BY <1>1 DEF NoticeReqFits, NoteReq, NoteRow
<1>3. row2 \in NoteRow /\ Stamped(row2) /\ row2.retryCount = k + 1
  BY <1>2, NoticeWritten
<1>4. /\ notification' = [notification EXCEPT ![m] = row2]
      /\ notificationReq' = [notificationReq EXCEPT ![r] = new]
      /\ UNCHANGED <<audit, silent>>
  BY DEF Notice!Write
<1> HIDE DEF row2
<1>5. new \in NoteReq /\ new.pc = "audit" /\ new.id = m /\ new.updated = row2 /\ new.seen = q.seen
  BY <1>1, <1>3 DEF NoteReq
<1> HIDE DEF new
<1>6. /\ notificationReq' \in [Callers -> NoteReq] /\ notificationReq'[r] = new
      /\ \A x \in Callers \ {r} : notificationReq'[x] = notificationReq[x]
      /\ notification' \in [Notifications -> NoteRow] /\ notification'[m] = row2
      /\ \A x \in Notifications \ {m} : notification'[x] = notification[x]
  BY <1>1, <1>2, <1>3, <1>4, <1>5
<1>7. \A x \in Notifications : notification[x].retryCount <= notification'[x].retryCount
                               /\ notification[x].retryCount \in Nat
  BY <1>1, <1>2, <1>3, <1>6 DEF NoteRow
<1>8. ASSUME NEW x \in Callers PROVE NoticeReqFits(notificationReq'[x], notification')
  <2>1. CASE x = r
    <3>1. q.seen.retryCount < row2.retryCount
      BY <1>2, <1>3
    <3> QED BY <1>2, <1>5, <1>6, <2>1, <3>1 DEF NoticeReqFits
  <2>2. CASE x # r
    <3>1. notificationReq'[x] = notificationReq[x] /\ notificationReq[x] \in NoteReq
          /\ NoticeReqFits(notificationReq[x], notification)
      BY <1>1, <1>6, <2>2 DEF NoticesFit, NoticesTyped
    <3>2. notificationReq[x].seen.retryCount \in Nat
      BY <3>1 DEF NoteReq, NoteRow
    <3>3. \A y \in Notifications : notification'[y].retryCount \in Nat
      BY <1>6 DEF NoteRow
    <3> QED BY <1>7, <3>1, <3>2, <3>3 DEF NoticeReqFits
  <2> QED BY <2>1, <2>2
<1>9. NoticesTyped'
  BY <1>3, <1>4, <1>6, <1>8 DEF NoticesFit, NoticesTyped
<1>10. /\ IsFiniteSet(audit) /\ IsFiniteSet(silent)
       /\ Wrote(notificationReq') = Wrote(notificationReq) \cup {r} /\ r \notin Wrote(notificationReq)
       /\ IsFiniteSet(Wrote(notificationReq))
  BY <1>1, <1>5, <1>6, CallersFinite, FS_Subset DEF Wrote, NoticesFit, NoticesTyped
<1>11. /\ Cardinality(Wrote(notificationReq')) = Cardinality(Wrote(notificationReq)) + 1
       /\ Cardinality(Wrote(notificationReq)) \in Nat
  BY <1>10, FS_AddElement, FS_CardinalityType
<1>12. ASSUME NEW n \in Notifications
       PROVE  /\ Accounted(notification'[n].retryCount, notificationReq', audit', silent', n)
              /\ notification'[n].retryCount <= Cardinality(Wrote(notificationReq'))
  <2>1. /\ Accounted(notification[n].retryCount, notificationReq, audit, silent, n)
        /\ notification[n].retryCount <= Cardinality(Wrote(notificationReq))
        /\ notification[n].retryCount \in Nat
    BY <1>1 DEF NoticesFit, NoticesCounted, NoteRow
  <2>2. CASE n = m
    <3>1. Accounted(k + 1, notificationReq', audit, silent, n)
      BY <1>1, <1>2, <1>3, <1>5, <1>6, <1>10, <2>1, <2>2, OneMoreRetry
    <3> QED BY <1>3, <1>4, <1>6, <1>11, <2>1, <2>2, <3>1
  <2>3. CASE n # m
    <3>1. OnTheWay(notificationReq', n) = OnTheWay(notificationReq, n)
      BY <1>1, <1>5, <1>6, <2>3 DEF OnTheWay
    <3>2. \A x \in OnTheWay(notificationReq, n) : notificationReq'[x] = notificationReq[x]
      BY <1>1, <1>6 DEF OnTheWay
    <3>3. Accounted(notification[n].retryCount, notificationReq', audit, silent, n)
      BY <2>1, <3>1, <3>2, SameAccount
    <3> QED BY <1>4, <1>6, <1>11, <2>1, <2>3, <3>3
  <2> QED BY <2>2, <2>3
<1>13. NoticesCounted'
  BY <1>12 DEF NoticesCounted
<1> QED BY <1>9, <1>13 DEF NoticesFit

LEMMA OtherWriteFits ==
    ASSUME NoticesFit, NEW r \in Callers, Notice!Write(r), notificationReq[r].op # "retry"
    PROVE  NoticesFit'
<1> DEFINE m == notificationReq[r].id
           row2 == Notice!Written(r, notification[m])
<1>1. /\ notification \in [Notifications -> NoteRow] /\ notificationReq[r] \in NoteReq
      /\ NoticeReqFits(notificationReq[r], notification) /\ notificationReq[r].pc = "write"
  BY DEF NoticesFit, NoticesTyped, Notice!Write
<1>2. /\ m \in Notifications /\ notification[m] \in NoteRow
      /\ notificationReq[r].op \in {"queue", "markSent", "markFailed"}
  BY <1>1 DEF NoticeReqFits, NoteReq
<1>3. row2 \in NoteRow /\ Stamped(row2) /\ row2.retryCount = notification[m].retryCount
  BY <1>2, NoticeWritten
<1>4. /\ notification' = [notification EXCEPT ![m] = row2]
      /\ notificationReq' = [notificationReq EXCEPT ![r] = Notice!At("done")]
      /\ UNCHANGED <<audit, silent>>
  BY DEF Notice!Write
<1> HIDE DEF row2
<1>5. /\ notification' \in [Notifications -> NoteRow]
      /\ \A n \in Notifications : /\ Stamped(notification'[n])
                                  /\ notification'[n].retryCount = notification[n].retryCount
  BY <1>1, <1>2, <1>3, <1>4 DEF NoticesFit, NoticesTyped
<1>6. Notice!At("done") \in NoteReq /\ Notice!At("done").pc = "done"
  BY NoticeTerms
<1> QED BY <1>1, <1>4, <1>5, <1>6, NoRetry DEF NoticeReqFits

\* A retry no longer waits: what is recorded about its notification, there or in
\* the history, accounts for it.
LEMMA WaitsNoMore ==
    ASSUME NoticesFit, NEW r \in Callers, NEW new \in NoteReq,
           notificationReq' = [notificationReq EXCEPT ![r] = new],
           notificationReq[r].pc = "audit", new.pc \in {"done", "failed"}, UNCHANGED notification,
           IsFiniteSet(audit'), IsFiniteSet(silent'), \A a \in audit' : a.before < a.after,
           \A n \in Notifications \ {notificationReq[r].id} :
               About(audit', n) = About(audit, n) /\ About(silent', n) = About(silent, n),
           Accounted(notification[notificationReq[r].id].retryCount, notificationReq', audit',
                     silent', notificationReq[r].id)
    PROVE  NoticesFit'
<1>1. /\ notificationReq' \in [Callers -> NoteReq] /\ notificationReq'[r] = new
      /\ \A x \in Callers : x # r => notificationReq'[x] = notificationReq[x]
  BY DEF NoticesFit, NoticesTyped
<1>2. \A x \in Callers : NoticeReqFits(notificationReq'[x], notification')
  BY <1>1 DEF NoticesFit, NoticesTyped, NoticeReqFits
<1>3. NoticesTyped'
  BY <1>1, <1>2 DEF NoticesFit, NoticesTyped
<1>4. Wrote(notificationReq') = Wrote(notificationReq)
  BY <1>1 DEF Wrote
<1>5. ASSUME NEW n \in Notifications
      PROVE  Accounted(notification'[n].retryCount, notificationReq', audit', silent', n)
  <2>1. CASE n = notificationReq[r].id
    BY <2>1
  <2>2. CASE n # notificationReq[r].id
    <3>1. OnTheWay(notificationReq', n) = OnTheWay(notificationReq, n)
      BY <1>1, <2>2 DEF OnTheWay
    <3>2. \A x \in OnTheWay(notificationReq, n) : notificationReq'[x] = notificationReq[x]
      BY <1>1, <2>2 DEF OnTheWay
    <3>3. Accounted(notification[n].retryCount, notificationReq, audit, silent, n)
      BY DEF NoticesFit, NoticesCounted
    <3> QED BY <2>2, <3>1, <3>2, <3>3, SameAccount
  <2> QED BY <2>1, <2>2
<1>6. NoticesCounted'
  BY <1>4, <1>5 DEF NoticesFit, NoticesCounted
<1> QED BY <1>3, <1>6 DEF NoticesFit

LEMMA AuditFits ==
    ASSUME NoticesFit, NEW r \in Callers, Notice!Audit(r)
    PROVE  NoticesFit'
<1> DEFINE q == notificationReq[r]
           a == [id |-> q.id, by |-> r, before |-> q.seen.retryCount, after |-> q.updated.retryCount]
<1>1. /\ q \in NoteReq /\ q.pc = "audit" /\ NoticeReqFits(q, notification)
      /\ notificationReq \in [Callers -> NoteReq] /\ notification \in [Notifications -> NoteRow]
      /\ IsFiniteSet(audit) /\ IsFiniteSet(silent)
  BY DEF NoticesFit, NoticesTyped, Notice!Audit
<1>2. /\ notificationReq' = [notificationReq EXCEPT ![r] = Notice!At("done")]
      /\ audit' = audit \cup {a} /\ UNCHANGED <<notification, silent>>
  BY DEF Notice!Audit
<1>3. /\ q.id \in Notifications /\ q.seen.retryCount < q.updated.retryCount
      /\ notification[q.id].retryCount \in Nat
  BY <1>1 DEF NoticeReqFits, NoteRow
<1>4. a.id = q.id /\ a.after = q.updated.retryCount /\ a.before < a.after
  BY <1>3
<1> HIDE DEF a
<1>5. Notice!At("done") \in NoteReq /\ Notice!At("done").pc = "done"
  BY NoticeTerms
<1>6. Accounted(notification[q.id].retryCount, notificationReq, audit, silent, q.id)
  BY <1>3 DEF NoticesFit, NoticesCounted
<1>7. /\ notificationReq'[r].pc = "done"
      /\ \A s \in Callers \ {r} : notificationReq'[s] = notificationReq[s]
  BY <1>1, <1>2, <1>5
<1>8. Accounted(notification[q.id].retryCount, notificationReq', audit \cup {a}, silent, q.id)
  BY <1>1, <1>3, <1>4, <1>6, <1>7, RetryRecorded
<1>9. IsFiniteSet(audit') /\ IsFiniteSet(silent')
  BY <1>1, <1>2, FS_AddElement
<1>10. \A n \in Notifications \ {q.id} :
           About(audit', n) = About(audit, n) /\ About(silent', n) = About(silent, n)
  BY <1>2, <1>4 DEF About
<1>11. \A b \in audit' : b.before < b.after
  BY <1>2, <1>4 DEF NoticesFit, NoticesTyped
<1>12. Accounted(notification[q.id].retryCount, notificationReq', audit', silent', q.id)
  BY <1>2, <1>8
<1> QED BY <1>1, <1>2, <1>5, <1>9, <1>10, <1>11, <1>12, WaitsNoMore

LEMMA NoticeCrashFits ==
    ASSUME NoticesFit, NEW r \in Callers, Notice!Crash(r)
    PROVE  NoticesFit'
<1> DEFINE q == notificationReq[r]
           s == [id |-> q.id, after |-> q.updated.retryCount]
<1>1. /\ q \in NoteReq /\ q.pc \in {"write", "audit"} /\ NoticeReqFits(q, notification)
      /\ notificationReq \in [Callers -> NoteReq] /\ notification \in [Notifications -> NoteRow]
      /\ IsFiniteSet(audit) /\ IsFiniteSet(silent)
      /\ \A n \in Notifications : Stamped(notification[n])
  BY DEF NoticesFit, NoticesTyped, Notice!Crash, Notice!InFlight
<1>2. /\ notificationReq' = [notificationReq EXCEPT ![r] = Notice!At("failed")]
      /\ silent' = IF q.pc = "audit" THEN silent \cup {s} ELSE silent
      /\ UNCHANGED <<notification, audit>>
  BY DEF Notice!Crash
<1>3. Notice!At("failed") \in NoteReq /\ Notice!At("failed").pc = "failed"
  BY NoticeTerms
<1>4. CASE q.pc = "write"
  BY <1>1, <1>2, <1>3, <1>4, NoRetry DEF NoticeReqFits
<1>5. CASE q.pc = "audit"
  <2>1. q.id \in Notifications /\ notification[q.id].retryCount \in Nat
    BY <1>1, <1>5 DEF NoticeReqFits, NoteRow
  <2>2. s.id = q.id /\ s.after = q.updated.retryCount /\ silent' = silent \cup {s}
    BY <1>2, <1>5
  <2> HIDE DEF s
  <2>3. Accounted(notification[q.id].retryCount, notificationReq, silent, audit, q.id)
    BY <1>1, <2>1, AccountTurned DEF NoticesFit, NoticesCounted
  <2>4. notificationReq'[r].pc = "failed"
        /\ \A x \in Callers \ {r} : notificationReq'[x] = notificationReq[x]
    BY <1>1, <1>2, <1>3
  <2>5. Accounted(notification[q.id].retryCount, notificationReq', silent \cup {s}, audit, q.id)
    BY <1>1, <1>5, <2>1, <2>2, <2>3, <2>4, RetryRecorded
  <2>6. IsFiniteSet(audit') /\ IsFiniteSet(silent')
    BY <1>1, <1>2, <2>2, FS_AddElement
  <2>7. Accounted(notification[q.id].retryCount, notificationReq', audit', silent', q.id)
    BY <1>2, <2>2, <2>5, <2>6, AccountTurned
  <2>8. \A n \in Notifications \ {q.id} :
            About(audit', n) = About(audit, n) /\ About(silent', n) = About(silent, n)
    BY <1>2, <2>2 DEF About
  <2>9. \A b \in audit' : b.before < b.after
    BY <1>2 DEF NoticesFit, NoticesTyped
  <2> QED BY <1>1, <1>2, <1>3, <1>5, <2>6, <2>7, <2>8, <2>9, WaitsNoMore
<1> QED BY <1>1, <1>4, <1>5

LEMMA NoticesFitNext == ASSUME NoticesFit, [Notice!Next]_(Notice!vars) PROVE NoticesFit'
<1>1. ASSUME NEW r \in Callers, NEW n \in Notifications, NEW op \in DOMAIN Notice!Accepts,
             Notice!Arrive(r, n, op)
      PROVE  NoticesFit'
  BY <1>1, NoticeArrives
<1>2. ASSUME NEW r \in Callers, Notice!Write(r) PROVE NoticesFit'
  BY <1>2, RetryFits, OtherWriteFits
<1>3. ASSUME NEW r \in Callers, Notice!Audit(r) PROVE NoticesFit'
  BY <1>3, AuditFits
<1>4. ASSUME NEW r \in Callers, Notice!Crash(r) PROVE NoticesFit'
  BY <1>4, NoticeCrashFits
<1>5. CASE UNCHANGED Notice!vars
  BY <1>5 DEF Notice!vars, NoticesFit, NoticesTyped, NoticesCounted
<1> QED BY <1>1, <1>2, <1>3, <1>4, <1>5 DEF Notice!Next, Notice!Quiet

LEMMA NoticesFitInit == ASSUME Notice!Init PROVE NoticesFit
<1>1. /\ notification = [n \in Notifications |-> Notice!Created] /\ audit = {} /\ silent = {}
      /\ notificationReq = [r \in Callers |-> Notice!At("idle")]
  BY DEF Notice!Init
<1>2. \A r \in Callers : notificationReq[r] \in NoteReq /\ notificationReq[r].pc = "idle"
  BY <1>1, NoticeTerms
<1>3. NoticesTyped
  BY <1>1, <1>2, NoticeTerms, FS_EmptySet DEF NoticesTyped, NoticeReqFits
<1>4. ASSUME NEW n \in Notifications
      PROVE  /\ Accounted(notification[n].retryCount, notificationReq, audit, silent, n)
             /\ notification[n].retryCount <= Cardinality(Wrote(notificationReq))
  <2>1. notification[n].retryCount = 0
    BY <1>1, NoticeTerms
  <2>2. OnTheWay(notificationReq, n) = {} /\ About(audit, n) = {} /\ About(silent, n) = {}
    BY <1>1, <1>2 DEF OnTheWay, About
  <2>3. NumbersOf(notificationReq, audit, silent, n) = {} /\ 1..0 = {}
    BY <2>2 DEF NumbersOf
  <2>4. RetriesOf(notificationReq, audit, silent, n) = 0
    BY <2>2, FS_EmptySet DEF RetriesOf
  <2>5. Cardinality(Wrote(notificationReq)) \in Nat
    BY CallersFinite, FS_Subset, FS_CardinalityType DEF Wrote
  <2> QED BY <2>1, <2>2, <2>3, <2>4, <2>5 DEF Accounted
<1> QED BY <1>3, <1>4 DEF NoticesFit, NoticesCounted

LEMMA NoticesAlwaysFit == PlatformSpec => []NoticesFit
<1>1. Notice!Init => NoticesFit
  BY NoticesFitInit
<1>2. NoticesFit /\ [Notice!Next]_(Notice!vars) => NoticesFit'
  BY NoticesFitNext
<1> QED BY <1>1, <1>2, EachPart, PTL DEF Notice!Spec

LEMMA NoticesTypeOK == ASSUME NoticesFit PROVE Notice!TypeOK
<1>1. \A S : Notice!Cardinality(S) = Cardinality(S)
  BY DEF Notice!Cardinality, Cardinality
<1>2. Cardinality(Callers) \in Nat /\ Cardinality(Wrote(notificationReq)) \in Nat
      /\ Cardinality(Wrote(notificationReq)) <= Cardinality(Callers)
  BY CallersFinite, FS_Subset, FS_CardinalityType DEF Wrote
<1>3. \A n \in Notifications :
          /\ notification[n] \in NoteRow /\ notification[n].retryCount \in 0..Cardinality(Callers)
          /\ Stamped(notification[n])
  BY <1>2 DEF NoticesFit, NoticesTyped, NoticesCounted, NoteRow
<1>4. notification \in [Notifications ->
          [status : NoteStatus, retryCount : 0..Cardinality(Callers),
           sent : BOOLEAN, failed : BOOLEAN]]
  <2>1. ASSUME NEW x \in NoteRow, x.retryCount \in 0..Cardinality(Callers)
        PROVE  x \in [status : NoteStatus, retryCount : 0..Cardinality(Callers),
                      sent : BOOLEAN, failed : BOOLEAN]
    BY <2>1 DEF NoteRow
  <2> QED BY <1>3, <2>1 DEF NoticesFit, NoticesTyped
<1>5. \A r \in Callers : notificationReq[r].pc \in
          {"idle", "write", "audit", "done", "rejected", "failed"}
  BY DEF NoticesFit, NoticesTyped, NoteReq
<1> QED BY <1>1, <1>3, <1>4, <1>5 DEF Notice!TypeOK, NoteStatus, Stamped

\* However retries of a notification overlap and whatever fails between the two
\* statements of each, every retry has a number of its own, and the audit trail
\* accounts for all of them but those a failure interrupted.
THEOREM RetriesAudited == PlatformSpec => []RetriesAreAudited
<1>1. NoticesFit => RetriesAreAudited
  <2> SUFFICES ASSUME NoticesFit, NEW n \in Notifications
               PROVE  LET waiting == {r \in Notice!InFlight : notificationReq[r].pc = "audit"
                                                              /\ notificationReq[r].id = n}
                          lost    == {s \in silent : s.id = n}
                      IN  /\ 1..notification[n].retryCount
                                 = {a.after : a \in Notice!AuditOf(n)} \cup {s.after : s \in lost}
                                   \cup {notificationReq[r].updated.retryCount : r \in waiting}
                          /\ notification[n].retryCount
                                 = Notice!Cardinality(Notice!AuditOf(n)) + Notice!Cardinality(lost)
                                   + Notice!Cardinality(waiting)
                          /\ \A a \in Notice!AuditOf(n) : a.before < a.after
    BY DEF RetriesAreAudited, Notice!RetriesAreAudited
  <2>1. \A S : Notice!Cardinality(S) = Cardinality(S)
    BY DEF Notice!Cardinality, Cardinality
  <2>2. {r \in Notice!InFlight : notificationReq[r].pc = "audit" /\ notificationReq[r].id = n}
            = OnTheWay(notificationReq, n)
    BY DEF Notice!InFlight, OnTheWay
  <2>3. Notice!AuditOf(n) = About(audit, n) /\ {s \in silent : s.id = n} = About(silent, n)
    BY DEF Notice!AuditOf, About
  <2>4. Accounted(notification[n].retryCount, notificationReq, audit, silent, n)
    BY DEF NoticesFit, NoticesCounted
  <2>5. \A a \in About(audit, n) : a.before < a.after
    BY DEF NoticesFit, NoticesTyped, About
  <2> QED BY <2>1, <2>2, <2>3, <2>4, <2>5 DEF Accounted, NumbersOf, RetriesOf
<1> QED BY <1>1, NoticesAlwaysFit, PTL

-----------------------------------------------------------------------------
(* Jobs.                                                                   *)

JobSteps == {"new", "execute", "sleep", "succeeded", "dead_letter", "lost"}
JobRow   == [pc : JobSteps, attempt : 0..MaxAttempts, effects : 0..MaxAttempts]

\* A job has its effect once per attempt at most, and the attempt it is at has not
\* had it yet.
JobFits(x) ==
    /\ x.effects <= x.attempt
    /\ x.pc = "execute" => x.effects < x.attempt
    /\ x.pc = "sleep" => x.attempt < MaxAttempts
    /\ x.pc = "new" => x.effects = 0

JobsFit ==
    /\ job \in [Jobs -> JobRow]
    /\ \A j \in Jobs : JobFits(job[j])
    /\ \A j \in deadLetters : j \in Jobs /\ job[j].pc = "dead_letter"
    /\ gauge = Queue!Cardinality(deadLetters)

\* A job becomes another row.
LEMMA JobBecomes ==
    ASSUME JobsFit, NEW j \in Jobs, NEW x \in JobRow, JobFits(x), job' = [job EXCEPT ![j] = x],
           deadLetters' = deadLetters \/ (deadLetters' = deadLetters \cup {j} /\ x.pc = "dead_letter"),
           job[j].pc # "dead_letter", gauge' = Queue!Cardinality(deadLetters')
    PROVE  JobsFit'
  BY DEF JobsFit

LEMMA JobsFitNext == ASSUME JobsFit, [Queue!Next]_(Queue!vars) PROVE JobsFit'
<1>1. MaxAttempts \in Nat \ {0}
  BY OrdersAssumption
<1>2. \A j \in Jobs : job[j] \in JobRow /\ JobFits(job[j])
  BY DEF JobsFit
<1>3. ASSUME NEW j \in Jobs, Queue!Start(j) PROVE JobsFit'
  <2> DEFINE x == [job[j] EXCEPT !.pc = "execute", !.attempt = 1]
  <2>1. /\ job' = [job EXCEPT ![j] = x] /\ job[j].pc = "new"
        /\ UNCHANGED <<deadLetters, gauge>>
    BY <1>3 DEF Queue!Start, JobsFit
  <2> PICK one \in 0..MaxAttempts : one = 1
    BY <1>1
  <2>2. x \in JobRow /\ x.pc = "execute" /\ x.attempt = 1 /\ x.effects = job[j].effects
    <3> DEFINE y == [job[j] EXCEPT !.pc = "execute", !.attempt = one]
    <3>1. y \in JobRow /\ y.pc = "execute" /\ y.attempt = one /\ y.effects = job[j].effects
      BY <1>2 DEF JobRow, JobSteps
    <3> QED BY <3>1
  <2> HIDE DEF x
  <2>3. JobFits(x)
    BY <1>2, <2>1, <2>2 DEF JobFits
  <2>4. gauge' = Queue!Cardinality(deadLetters')
    BY <2>1 DEF JobsFit
  <2> QED BY <2>1, <2>2, <2>3, <2>4, JobBecomes
<1>4. ASSUME NEW j \in Jobs, NEW effect \in {0, 1}, NEW label \in {"succeeded", "sleep", "dead_letter"},
             job[j].pc = "execute", label = "sleep" => job[j].attempt < MaxAttempts,
             job' = [job EXCEPT ![j].pc = label, ![j].effects = @ + effect],
             deadLetters' = deadLetters
                 \/ (deadLetters' = deadLetters \cup {j} /\ label = "dead_letter"),
             gauge' = Queue!Cardinality(deadLetters')
      PROVE  JobsFit'
  <2> DEFINE x == [job[j] EXCEPT !.pc = label, !.effects = job[j].effects + effect]
  <2>1. job' = [job EXCEPT ![j] = x]
    BY <1>4 DEF JobsFit
  <2>2. job[j] \in JobRow /\ job[j].effects < job[j].attempt
    BY <1>2, <1>4 DEF JobFits
  <2>3. job[j].effects + effect \in 0..job[j].attempt /\ job[j].attempt \in 0..MaxAttempts
    BY <2>2 DEF JobRow
  <2>4. job[j].effects + effect \in 0..MaxAttempts
    BY <1>1, <2>3
  <2>5. x \in JobRow /\ x.pc = label /\ x.attempt = job[j].attempt
        /\ x.effects = job[j].effects + effect
    BY <1>2, <2>4 DEF JobRow, JobSteps
  <2> HIDE DEF x
  <2>6. JobFits(x)
    BY <1>4, <2>3, <2>5 DEF JobFits
  <2> QED BY <1>4, <2>1, <2>5, <2>6, JobBecomes
<1>5. ASSUME NEW j \in Jobs, Queue!Succeed(j) PROVE JobsFit'
  <2>1. /\ job' = [job EXCEPT ![j].pc = "succeeded", ![j].effects = @ + 1]
        /\ job[j].pc = "execute" /\ UNCHANGED <<deadLetters, gauge>>
    BY <1>5 DEF Queue!Succeed
  <2>2. gauge' = Queue!Cardinality(deadLetters')
    BY <2>1 DEF JobsFit
  <2> QED BY <1>4, <2>1, <2>2
<1>6. ASSUME NEW j \in Jobs, Queue!FailAttempt(j) PROVE JobsFit'
  <2>1. PICK effect \in {0, 1} : Queue!Throw(j, effect, "sleep")
    BY <1>6 DEF Queue!FailAttempt
  <2>2. job[j].attempt < MaxAttempts /\ UNCHANGED <<deadLetters, gauge>>
    BY <1>6 DEF Queue!FailAttempt, Queue!AttemptsRemain
  <2>3. /\ job' = [job EXCEPT ![j].pc = "sleep", ![j].effects = @ + effect]
        /\ job[j].pc = "execute"
    BY <2>1 DEF Queue!Throw
  <2>4. gauge' = Queue!Cardinality(deadLetters')
    BY <2>2 DEF JobsFit
  <2> QED BY <1>4, <2>2, <2>3, <2>4
<1>7. ASSUME NEW j \in Jobs, Queue!GiveUp(j) PROVE JobsFit'
  <2>1. PICK effect \in {0, 1} : Queue!Throw(j, effect, "dead_letter")
    BY <1>7 DEF Queue!GiveUp
  <2>2. /\ job' = [job EXCEPT ![j].pc = "dead_letter", ![j].effects = @ + effect]
        /\ job[j].pc = "execute"
    BY <2>1 DEF Queue!Throw
  <2>3. deadLetters' = deadLetters \cup {j} /\ gauge' = Queue!Cardinality(deadLetters')
    BY <1>7 DEF Queue!GiveUp
  <2> QED BY <1>4, <2>2, <2>3
<1>8. ASSUME NEW j \in Jobs, Queue!Wake(j) PROVE JobsFit'
  <2> DEFINE x == [job[j] EXCEPT !.pc = "execute", !.attempt = job[j].attempt + 1]
  <2>1. /\ job' = [job EXCEPT ![j] = x] /\ job[j].pc = "sleep"
        /\ UNCHANGED <<deadLetters, gauge>>
    BY <1>8 DEF Queue!Wake, JobsFit
  <2>2. /\ job[j].attempt \in 0..MaxAttempts /\ job[j].attempt < MaxAttempts
        /\ job[j].effects \in 0..MaxAttempts /\ job[j].effects <= job[j].attempt
    BY <1>2, <2>1 DEF JobFits, JobRow
  <2>3. job[j].attempt + 1 \in 0..MaxAttempts
    BY <1>1, <2>2
  <2>4. x \in JobRow /\ x.pc = "execute" /\ x.attempt = job[j].attempt + 1
        /\ x.effects = job[j].effects
    BY <1>2, <2>3 DEF JobRow, JobSteps
  <2> HIDE DEF x
  <2>5. JobFits(x)
    BY <1>1, <2>2, <2>4 DEF JobFits
  <2>6. gauge' = Queue!Cardinality(deadLetters')
    BY <2>1 DEF JobsFit
  <2> QED BY <2>1, <2>4, <2>5, <2>6, JobBecomes
<1>9. CASE Queue!Restart
  <2>1. /\ job' = [j \in Jobs |-> IF j \in Queue!Running THEN [job[j] EXCEPT !.pc = "lost"]
                                  ELSE job[j]]
        /\ deadLetters' = {} /\ gauge' = 0
    BY <1>9 DEF Queue!Restart
  <2>2. ASSUME NEW j \in Jobs PROVE job'[j] \in JobRow /\ JobFits(job'[j])
    <3>1. job[j] \in JobRow /\ JobFits(job[j])
      BY <1>2
    <3> DEFINE x == [job[j] EXCEPT !.pc = "lost"]
    <3>2. x \in JobRow /\ x.pc = "lost" /\ x.attempt = job[j].attempt /\ x.effects = job[j].effects
      BY <3>1 DEF JobRow, JobSteps
    <3> HIDE DEF x
    <3>3. JobFits(x)
      BY <3>1, <3>2 DEF JobFits
    <3>4. job'[j] = x \/ job'[j] = job[j]
      BY <2>1 DEF x
    <3> QED BY <3>1, <3>2, <3>3, <3>4
  <2>3. Queue!Cardinality({}) = Cardinality({})
    BY DEF Queue!Cardinality, Cardinality
  <2>4. gauge' = Queue!Cardinality(deadLetters')
    BY <2>1, <2>3, FS_EmptySet
  <2>5. job' \in [Jobs -> JobRow]
    BY <2>1, <2>2
  <2> QED BY <2>1, <2>2, <2>4, <2>5 DEF JobsFit
<1>10. CASE UNCHANGED Queue!vars
  BY <1>10 DEF Queue!vars, JobsFit
<1> QED BY <1>3, <1>5, <1>6, <1>7, <1>8, <1>9, <1>10 DEF Queue!Next, Queue!Step, Queue!Quiet

LEMMA JobsAlwaysFit == PlatformSpec => []JobsFit
<1>1. Queue!Init => JobsFit
  <2> SUFFICES ASSUME Queue!Init PROVE JobsFit OBVIOUS
  <2>1. MaxAttempts \in Nat \ {0}
    BY OrdersAssumption
  <2> DEFINE x == [pc |-> "new", attempt |-> 0, effects |-> 0]
  <2>2. x \in JobRow /\ JobFits(x)
    BY <2>1 DEF JobRow, JobSteps, JobFits
  <2>3. job = [j \in Jobs |-> x] /\ deadLetters = {} /\ gauge = 0
    BY DEF Queue!Init
  <2>4. Queue!Cardinality({}) = Cardinality({})
    BY DEF Queue!Cardinality, Cardinality
  <2> QED BY <2>2, <2>3, <2>4, FS_EmptySet DEF JobsFit
<1>2. JobsFit /\ [Queue!Next]_(Queue!vars) => JobsFit'
  BY JobsFitNext
<1> QED BY <1>1, <1>2, EachPart, PTL DEF Queue!Spec

LEMMA JobsTypeOK == ASSUME JobsFit PROVE Queue!TypeOK
  BY DEF JobsFit, JobRow, JobSteps, Queue!TypeOK

-----------------------------------------------------------------------------
(* Lists that are replaced.                                                *)

ListReq == [pc : {"idle", "update", "replace", "done", "failed"}, owner : Owners \cup {"seed"},
            keys : SUBSET Keys, delete : {"none", "start", "done", "failed"},
            create : {"none", "start", "done", "failed"}]

\* A list of rows with one row for each key.
KeyedOnce(rs) == \A x, y \in rs : x.key = y.key => x = y
RowsFit(rs)   == \A x \in rs : x.by \in Requests \cup {"seed"} /\ x.key \in Keys

ListsFit ==
    /\ text \in [Owners -> Requests \cup {"seed"}]
    /\ rows = [o \in Owners |-> rows[o]] /\ \A o \in Owners : RowsFit(rows[o])
    /\ \A o \in Keyed : KeyedOnce(rows[o])
    /\ replaceReq \in [Requests -> ListReq]
    /\ \A r \in Requests :
           replaceReq[r].pc \in {"update", "replace"} => replaceReq[r].owner \in Owners

LEMMA ListFits ==
    ASSUME NEW by \in Requests \cup {"seed"}, NEW keys \in SUBSET Keys
    PROVE  /\ RowsFit(Replace!List(by, keys)) /\ KeyedOnce(Replace!List(by, keys))
           /\ \A x \in Replace!List(by, keys) : x.key \in keys
  BY DEF Replace!List, RowsFit, KeyedOnce

\* One request goes on, and at most the rows of its owner change.
LEMMA ListChanges ==
    ASSUME ListsFit, NEW r \in Requests, NEW q \in ListReq,
           replaceReq' = [replaceReq EXCEPT ![r] = q],
           q.pc \in {"update", "replace"} => q.owner \in Owners,
           UNCHANGED text \/ (replaceReq[r].owner \in Owners
                              /\ text' = [text EXCEPT ![replaceReq[r].owner] = r]),
           NEW o \in Owners, NEW rs, RowsFit(rs), o \in Keyed => KeyedOnce(rs),
           rows' = rows \/ rows' = [rows EXCEPT ![o] = rs]
    PROVE  ListsFit'
<1>1. /\ rows' = [x \in Owners |-> rows'[x]]
      /\ \A x \in Owners : rows'[x] = rows[x] \/ (x = o /\ rows'[x] = rs)
  BY DEF ListsFit
<1>2. Keyed \subseteq Owners
  BY PartsAssumption DEF Replace!ReplacementsAssumption
<1>3. /\ \A x \in Owners : RowsFit(rows'[x])
      /\ \A x \in Keyed : KeyedOnce(rows'[x])
  BY <1>1, <1>2 DEF ListsFit
<1>4. text' \in [Owners -> Requests \cup {"seed"}]
  BY DEF ListsFit
<1>5. /\ replaceReq' \in [Requests -> ListReq]
      /\ \A x \in Requests : replaceReq'[x].pc \in {"update", "replace"}
                                 => replaceReq'[x].owner \in Owners
  BY DEF ListsFit
<1> QED BY <1>1, <1>3, <1>4, <1>5 DEF ListsFit, RowsFit, KeyedOnce

LEMMA ListsFitNext == ASSUME ListsFit, [Replace!Next]_(Replace!vars) PROVE ListsFit'
<1>1. ASSUME NEW l \in {"idle", "update", "done", "failed"}
      PROVE  Replace!At(l) \in ListReq /\ Replace!At(l).pc = l
  BY DEF Replace!At, Replace!Seed, ListReq
<1>2. ASSUME NEW r \in Requests, NEW o \in Owners, NEW keys \in SUBSET Keys \ {{}},
             Replace!Update(r, o, keys)
      PROVE  ListsFit'
  <2> DEFINE q == [Replace!At("update") EXCEPT !.owner = o, !.keys = keys]
  <2>1. q \in ListReq /\ q.owner = o
    BY <1>1 DEF ListReq
  <2>2. replaceReq' = [replaceReq EXCEPT ![r] = q] /\ UNCHANGED <<text, rows>>
    BY <1>2 DEF Replace!Update
  <2> HIDE DEF q
  <2>3. RowsFit({}) /\ KeyedOnce({})
    BY DEF RowsFit, KeyedOnce
  <2> QED BY <2>1, <2>2, <2>3, ListChanges
<1>3. ASSUME NEW r \in Requests, replaceReq[r].pc \in {"update", "replace"}
      PROVE  /\ replaceReq[r] \in ListReq /\ replaceReq[r].owner \in Owners
             /\ RowsFit({}) /\ KeyedOnce({})
  BY <1>3 DEF ListsFit, RowsFit, KeyedOnce
<1>4. ASSUME NEW r \in Requests, Replace!WriteOwner(r) PROVE ListsFit'
  <2> DEFINE q == [replaceReq[r] EXCEPT !.pc = "replace", !.delete = "start", !.create = "start"]
  <2>1. replaceReq[r].pc = "update" /\ UNCHANGED rows
        /\ text' = [text EXCEPT ![replaceReq[r].owner] = r]
    BY <1>4 DEF Replace!WriteOwner
  <2>2. replaceReq' = [replaceReq EXCEPT ![r] = q]
    BY <1>4 DEF Replace!WriteOwner, ListsFit
  <2>3. q \in ListReq /\ q.owner = replaceReq[r].owner
    BY <1>3, <2>1 DEF ListReq
  <2> HIDE DEF q
  <2> QED BY <1>3, <2>1, <2>2, <2>3, ListChanges
<1>5. ASSUME NEW r \in Requests, NEW d \in {"start", "done", "failed", "none"},
             NEW c \in {"start", "done", "failed", "none"},
             replaceReq[r].pc = "replace",
             replaceReq' = [replaceReq EXCEPT ![r] = [replaceReq[r] EXCEPT !.delete = d, !.create = c]],
             UNCHANGED text, NEW rs, RowsFit(rs), replaceReq[r].owner \in Keyed => KeyedOnce(rs),
             rows' = rows \/ rows' = [rows EXCEPT ![replaceReq[r].owner] = rs]
      PROVE  ListsFit'
  <2> DEFINE q == [replaceReq[r] EXCEPT !.delete = d, !.create = c]
  <2>1. q \in ListReq /\ q.owner = replaceReq[r].owner
    BY <1>3, <1>5 DEF ListReq
  <2>2. replaceReq' = [replaceReq EXCEPT ![r] = q]
    BY <1>5
  <2> HIDE DEF q
  <2> QED BY <1>3, <1>5, <2>1, <2>2, ListChanges
<1>6. ASSUME NEW r \in Requests, Replace!Delete(r) PROVE ListsFit'
  <2>1. /\ replaceReq[r].pc = "replace" /\ UNCHANGED text
        /\ rows' = [rows EXCEPT ![replaceReq[r].owner] = {}]
        /\ replaceReq' = [replaceReq EXCEPT ![r].delete = "done"]
    BY <1>6 DEF Replace!Delete
  <2>2. replaceReq[r] \in ListReq
    BY <1>3, <2>1
  <2>3. replaceReq[r].create \in {"start", "done", "failed", "none"}
    BY <2>2 DEF ListReq
  <2>4. [replaceReq[r] EXCEPT !.delete = "done"]
            = [replaceReq[r] EXCEPT !.delete = "done", !.create = replaceReq[r].create]
    BY <2>2 DEF ListReq
  <2>5. replaceReq' = [replaceReq EXCEPT ![r] =
            [replaceReq[r] EXCEPT !.delete = "done", !.create = replaceReq[r].create]]
    BY <2>1, <2>4 DEF ListsFit
  <2> QED BY <1>3, <1>5, <2>1, <2>3, <2>5
<1>7. ASSUME NEW r \in Requests, replaceReq[r].pc = "replace", NEW c \in {"done", "failed"},
             replaceReq' = [replaceReq EXCEPT ![r].create = c], UNCHANGED text,
             NEW rs, RowsFit(rs), replaceReq[r].owner \in Keyed => KeyedOnce(rs),
             rows' = rows \/ rows' = [rows EXCEPT ![replaceReq[r].owner] = rs]
      PROVE  ListsFit'
  <2>1. replaceReq[r] \in ListReq
    BY <1>3, <1>7
  <2>2. replaceReq[r].delete \in {"start", "done", "failed", "none"}
    BY <2>1 DEF ListReq
  <2>3. [replaceReq[r] EXCEPT !.create = c]
            = [replaceReq[r] EXCEPT !.delete = replaceReq[r].delete, !.create = c]
    BY <2>1 DEF ListReq
  <2>4. replaceReq' = [replaceReq EXCEPT ![r] =
            [replaceReq[r] EXCEPT !.delete = replaceReq[r].delete, !.create = c]]
    BY <1>7, <2>3 DEF ListsFit
  <2> QED BY <1>5, <1>7, <2>2, <2>4
<1>8. ASSUME NEW r \in Requests, Replace!Insert(r) PROVE ListsFit'
  <2>1. replaceReq[r].pc = "replace" /\ UNCHANGED text
    BY <1>8 DEF Replace!Insert
  <2>2. replaceReq[r] \in ListReq /\ replaceReq[r].owner \in Owners /\ RowsFit({}) /\ KeyedOnce({})
    BY <1>3, <2>1
  <2>3. CASE Replace!Clash(r)
    BY <1>7, <1>8, <2>1, <2>2, <2>3 DEF Replace!Insert
  <2>4. CASE ~Replace!Clash(r)
    <3> DEFINE old == rows[replaceReq[r].owner]
               new == Replace!List(r, replaceReq[r].keys)
    <3>1. /\ rows' = [rows EXCEPT ![replaceReq[r].owner] = old \cup new]
          /\ replaceReq' = [replaceReq EXCEPT ![r].create = "done"]
      BY <1>8, <2>2, <2>4 DEF Replace!Insert, ListsFit
    <3>2. replaceReq[r].keys \in SUBSET Keys
      BY <2>2 DEF ListReq
    <3>3. RowsFit(new) /\ KeyedOnce(new) /\ \A x \in new : x.key \in replaceReq[r].keys
      BY <3>2, ListFits
    <3>4. RowsFit(old) /\ (replaceReq[r].owner \in Keyed => KeyedOnce(old))
      BY <2>2 DEF ListsFit
    <3>5. replaceReq[r].owner \in Keyed => \A x \in old : x.key \notin replaceReq[r].keys
      BY <2>4 DEF Replace!Clash
    <3> HIDE DEF new
    <3>6. RowsFit(old \cup new)
      BY <3>3, <3>4 DEF RowsFit
    <3>7. replaceReq[r].owner \in Keyed => KeyedOnce(old \cup new)
      BY <3>3, <3>4, <3>5 DEF KeyedOnce
    <3> QED BY <1>7, <2>1, <3>1, <3>6, <3>7
  <2> QED BY <2>3, <2>4
<1>9. ASSUME NEW r \in Requests, NEW l \in {"done", "failed"},
             replaceReq' = [replaceReq EXCEPT ![r] = Replace!At(l)], UNCHANGED <<text, rows>>,
             replaceReq[r].pc \in {"update", "replace"}
      PROVE  ListsFit'
  BY <1>1, <1>3, <1>9, ListChanges
<1>10. ASSUME NEW r \in Requests, Replace!Reply(r) \/ Replace!Crash(r) PROVE ListsFit'
  BY <1>9, <1>10 DEF Replace!Reply, Replace!Crash, Replace!Answer, Replace!InFlight
<1>11. ASSUME NEW r \in Requests, Replace!FailQuery(r) PROVE ListsFit'
  <2>1. replaceReq[r].pc = "replace" /\ UNCHANGED <<text, rows>>
    BY <1>11 DEF Replace!FailQuery
  <2>2. /\ replaceReq[r] \in ListReq /\ RowsFit({}) /\ KeyedOnce({})
    BY <1>3, <2>1
  <2>3. CASE replaceReq' = [replaceReq EXCEPT ![r].create = "failed"]
    BY <1>7, <2>1, <2>2, <2>3
  <2>4. CASE replaceReq' = [replaceReq EXCEPT ![r].delete = "failed"]
    <3>1. replaceReq[r].create \in {"start", "done", "failed", "none"}
      BY <2>2 DEF ListReq
    <3>2. [replaceReq[r] EXCEPT !.delete = "failed"]
              = [replaceReq[r] EXCEPT !.delete = "failed", !.create = replaceReq[r].create]
      BY <2>2 DEF ListReq
    <3>3. replaceReq' = [replaceReq EXCEPT ![r] =
              [replaceReq[r] EXCEPT !.delete = "failed", !.create = replaceReq[r].create]]
      BY <2>4, <3>2 DEF ListsFit
    <3> QED BY <1>5, <2>1, <2>2, <3>1, <3>3
  <2> QED BY <1>11, <2>3, <2>4 DEF Replace!FailQuery
<1>12. CASE UNCHANGED Replace!vars
  BY <1>12 DEF Replace!vars, ListsFit, RowsFit, KeyedOnce
<1> QED BY <1>2, <1>4, <1>6, <1>8, <1>10, <1>11, <1>12 DEF Replace!Next, Replace!Quiet

LEMMA ListsAlwaysFit == PlatformSpec => []ListsFit
<1>1. Replace!Init => ListsFit
  <2> SUFFICES ASSUME Replace!Init PROVE ListsFit OBVIOUS
  <2>1. /\ text = [o \in Owners |-> "seed"]
        /\ rows = [o \in Owners |-> Replace!List("seed", Keys)]
        /\ replaceReq = [r \in Requests |-> Replace!At("idle")]
    BY DEF Replace!Init, Replace!Seed
  <2>2. RowsFit(Replace!List("seed", Keys)) /\ KeyedOnce(Replace!List("seed", Keys))
    BY ListFits
  <2>3. Replace!At("idle") \in ListReq /\ Replace!At("idle").pc = "idle"
    BY DEF Replace!At, Replace!Seed, ListReq
  <2>4. Keyed \subseteq Owners
    BY PartsAssumption DEF Replace!ReplacementsAssumption
  <2> QED BY <2>1, <2>2, <2>3, <2>4 DEF ListsFit
<1>2. ListsFit /\ [Replace!Next]_(Replace!vars) => ListsFit'
  BY ListsFitNext
<1> QED BY <1>1, <1>2, EachPart, PTL DEF Replace!Spec

LEMMA ListsTypeOK == ASSUME ListsFit PROVE Replace!TypeOK
  BY DEF ListsFit, RowsFit, KeyedOnce, ListReq, Replace!TypeOK, Replace!Seed

-----------------------------------------------------------------------------
(* Projects.                                                               *)

Words    == {"absent", "none", "DRAFT", "PENDING", "TODO", "made", "READY", "member", "ACTIVE",
             "CHANGES_REQUESTED", "APPROVED", "DONE", "ARCHIVED"}
TeamRow  == [status : Words, completed : BOOLEAN]
TeamReq  == [pc : {"idle", "upload", "write", "log", "done", "failed"},
             about : Team!Rows \cup {"none"}, to : Words, seen : TeamRow]

\* The rows that the entries about them name.
Named(x) == x \in Team!Rows /\ Team!Kind(x) \in Team!Titled

\* A request q may write what it is about to, to a row that there is and that was
\* not archived; it makes or removes only what can be; a document has its object in
\* the store U first.
TeamReqFits(q, U) ==
    /\ q.pc \in Team!Pending =>
           /\ q.about \in Team!Rows /\ q.to \in Team!Statuses(q.about)
           /\ q.seen.status # "ARCHIVED"
           /\ q.seen.status = "absent" /\ q.to # "ARCHIVED" => q.to = Team!Initial[Team!Kind(q.about)]
           /\ q.to = "absent" => Team!Kind(q.about) \in {"document", "member"}
    /\ q.pc = "write" /\ Team!Kind(q.about) = "document" => q.to = "absent" \/ q.about \in U

TeamTyped ==
    /\ row \in [Team!Rows -> TeamRow]
    /\ \A x \in Team!Rows :
           /\ row[x].status \in Team!Statuses(x)
           /\ Team!Kind(x) = "document" /\ row[x].status # "absent" => x \in store
    /\ projectReq \in [Callers -> TeamReq]
    /\ \A r \in Callers : TeamReqFits(projectReq[r], store)

\* The entries about x, of requests Q: those in the log L, and those on their way.
Silent(Q, x)  == {r \in Callers : Q[r].pc = "log" /\ Q[r].about = x}
Telling(q, r) ==
    [id |-> r, kind |-> Team!Kind(q.about), verb |-> Team!Verb(q),
     name |-> IF Team!Kind(q.about) \in Team!Titled THEN q.about ELSE "none",
     from |-> IF Team!Verb(q) = "status_changed" THEN q.seen.status ELSE "none",
     to   |-> IF Team!Verb(q) = "status_changed" THEN q.to ELSE "none"]
Told(Q, L, x) ==
    {e \in L : e.name = x} \cup {Telling(Q[r], r) : r \in Silent(Q, x)}

\* Entries T about x tell how it got from its first status to status s, and whether
\* it was completed.
Arrived(T, x, s)  == {e \in T : Team!Reached(x, e) = s}
Departed(T, x, s) == {e \in T : Team!Left(x, e) = s}

Explains(T, x, s) ==
    /\ IsFiniteSet(T)
    /\ \A w \in Words \ {"none"} : (s.status = "ARCHIVED" => w = "ARCHIVED") =>
           Cardinality(Arrived(T, x, w)) - Cardinality(Departed(T, x, w))
               = (IF s.status = w THEN 1 ELSE 0) - (IF Team!First(x) = w THEN 1 ELSE 0)
    /\ s.completed <=> \E e \in T : Team!Reached(x, e) \in Team!Completed

TeamTold ==
    /\ \A r \in Callers : projectReq[r].pc \in {"idle", "upload", "write", "log"} =>
           \A e \in log : e.id # r
    /\ \A x \in Team!Rows \ stray : Named(x) => Explains(Told(projectReq, log, x), x, row[x])

TeamFits == TeamTyped /\ TeamTold

LEMMA TeamTerms ==
    /\ Project \in Team!Rows /\ Things \subseteq Team!Rows /\ Team!Kind(Project) = "project"
    /\ \A x \in Team!Rows : Team!Kind(x) \in Team!Kinds \cup {"project"}
    /\ \A x \in Team!Rows : Team!Kind(x) = "project" => x = Project
    /\ \A x \in Team!Rows : Team!Statuses(x) \subseteq Words \ {"none"}
    /\ \A x \in Team!Rows : Team!Kind(x) = "document" => Team!Updatable[Team!Kind(x)] = {}
    /\ \A x \in Team!Rows : Team!First(x) \in Team!Statuses(x)
    /\ \A x \in Team!Rows : "ARCHIVED" \in Team!Statuses(x) => x = Project
    /\ \A x \in Team!Rows : \A s \in Team!Updatable[Team!Kind(x)] : s \notin {"absent", "ARCHIVED"}
    /\ \A x \in Team!Rows : Team!Initial[Team!Kind(x)] \notin {"absent", "ARCHIVED"} \cup Team!Completed
    /\ "none" \notin Team!Rows
<1>1. Project \notin Things /\ KindOf \in [Things -> Team!Kinds] /\ "none" \notin Things \cup {Project}
  BY PartsAssumption DEF Team!ProjectsAssumption
<1>2. /\ Project \in Team!Rows /\ Things \subseteq Team!Rows /\ Team!Kind(Project) = "project"
      /\ \A x \in Team!Rows : Team!Kind(x) \in Team!Kinds \cup {"project"}
      /\ \A x \in Team!Rows : Team!Kind(x) = "project" => x = Project
      /\ "none" \notin Team!Rows
  BY <1>1 DEF Team!Rows, Team!Kind, Team!Kinds
<1>3. \A k \in Team!Kinds \cup {"project"} :
          /\ Team!Updatable[k] \cup {"absent", Team!Initial[k], "ARCHIVED"} \subseteq Words \ {"none"}
          /\ \A s \in Team!Updatable[k] : s \notin {"absent", "ARCHIVED"}
          /\ Team!Initial[k] \notin {"absent", "ARCHIVED"} \cup Team!Completed
  BY DEF Team!Kinds, Team!Updatable, Team!Initial, Team!Completed, Words
<1>4. Team!Updatable["document"] = {} /\ "DRAFT" \in Team!Updatable["project"]
  BY DEF Team!Updatable
<1>5. \A x \in Team!Rows :
          /\ Team!Statuses(x) \subseteq Team!Updatable[Team!Kind(x)]
                                      \cup {"absent", Team!Initial[Team!Kind(x)], "ARCHIVED"}
          /\ "absent" \in Team!Statuses(x)
          /\ Team!Updatable[Team!Kind(x)] \subseteq Team!Statuses(x)
  BY DEF Team!Statuses, Team!Absent
<1>6. \A x \in Team!Rows : "ARCHIVED" \in Team!Statuses(x) => x = Project
  BY <1>2, <1>3 DEF Team!Statuses, Team!Absent
<1>7. \A x \in Team!Rows : Team!First(x) \in Team!Statuses(x)
  BY <1>2, <1>4, <1>5 DEF Team!First, Team!Absent
<1> QED BY <1>2, <1>3, <1>4, <1>5, <1>6, <1>7

\* What the entry of a request that read the row as it is lets a reader know.
LEMMA TellingTells ==
    ASSUME NEW x, Named(x), NEW q \in TeamReq, NEW r, q.pc \in Team!Pending, q.about = x,
           NEW U, TeamReqFits(q, U), q.seen.status \in Team!Statuses(x), q.to # q.seen.status
    PROVE  /\ Team!Reached(x, Telling(q, r)) = q.to
           /\ Team!Left(x, Telling(q, r)) = IF q.to = "ARCHIVED" THEN "none" ELSE q.seen.status
           /\ Telling(q, r).id = r /\ Telling(q, r).name = x
<1> DEFINE e == Telling(q, r)
<1>1. /\ e.id = r /\ e.name = x /\ e.verb = Team!Verb(q)
      /\ e.from = IF Team!Verb(q) = "status_changed" THEN q.seen.status ELSE "none"
      /\ e.to = IF Team!Verb(q) = "status_changed" THEN q.to ELSE "none"
  BY DEF Telling, Named
<1> HIDE DEF e
<1>2. /\ q.seen.status = "absent" /\ q.to # "ARCHIVED" => q.to = Team!Initial[Team!Kind(x)]
      /\ q.to = "absent" => Team!Kind(x) \in {"document", "member"}
  BY DEF TeamReqFits
<1>3. CASE q.to = "ARCHIVED"
  <2>1. Team!Verb(q) = "archived"
    BY <1>3 DEF Team!Verb
  <2> QED BY <1>1, <1>3, <2>1 DEF e, Team!Reached, Team!Left, Team!None
<1>4. CASE q.to = "absent"
  <2>1. Team!Verb(q) = "removed"
    BY <1>4 DEF Team!Verb, Team!Absent
  <2>2. Team!Kind(x) = "document"
    BY <1>2, <1>4 DEF Named, Team!Titled
  <2>3. q.seen.status = Team!Initial[Team!Kind(x)]
    BY <1>4, <2>2, TeamTerms DEF Team!Statuses, Team!Absent, Named, Team!Rows
  <2> QED BY <1>1, <1>4, <2>1, <2>3 DEF e, Team!Reached, Team!Left, Team!Absent
<1>5. CASE q.to \notin {"absent", "ARCHIVED"} /\ q.seen.status = "absent"
  <2>1. Team!Verb(q) = "created"
    BY <1>5 DEF Team!Verb, Team!Absent
  <2> QED BY <1>1, <1>2, <1>5, <2>1 DEF e, Team!Reached, Team!Left, Team!Absent
<1>6. CASE q.to \notin {"absent", "ARCHIVED"} /\ q.seen.status # "absent"
  <2>1. Team!Verb(q) = "status_changed"
    BY <1>6 DEF Team!Verb, Team!Absent
  <2> QED BY <1>1, <1>6, <2>1 DEF e, Team!Reached, Team!Left
<1> QED BY <1>3, <1>4, <1>5, <1>6

\* One more entry.
LEMMA OneMoreEntry ==
    ASSUME NEW T, NEW x, NEW s \in TeamRow, NEW n \in TeamRow, NEW e,
           Explains(T, x, s), e \notin T, Team!Reached(x, e) = n.status,
           Team!Left(x, e) = IF n.status = "ARCHIVED" THEN "none" ELSE s.status,
           n.status # s.status, s.status # "ARCHIVED",
           n.completed <=> s.completed \/ n.status \in Team!Completed
    PROVE  Explains(T \cup {e}, x, n)
<1> DEFINE to == Team!Reached(x, e)
           from == Team!Left(x, e)
<1>1. IsFiniteSet(T) /\ IsFiniteSet(T \cup {e})
  BY FS_AddElement DEF Explains
<1>2. ASSUME NEW w \in Words
      PROVE  /\ Cardinality(Arrived(T \cup {e}, x, w))
                    = Cardinality(Arrived(T, x, w)) + (IF to = w THEN 1 ELSE 0)
             /\ Cardinality(Departed(T \cup {e}, x, w))
                    = Cardinality(Departed(T, x, w)) + (IF from = w THEN 1 ELSE 0)
             /\ Cardinality(Arrived(T, x, w)) \in Nat /\ Cardinality(Departed(T, x, w)) \in Nat
  <2>1. IsFiniteSet(Arrived(T, x, w)) /\ IsFiniteSet(Departed(T, x, w))
    BY <1>1, FS_Subset DEF Arrived, Departed
  <2>2. Arrived(T \cup {e}, x, w)
            = IF to = w THEN Arrived(T, x, w) \cup {e} ELSE Arrived(T, x, w)
    BY DEF Arrived
  <2>3. Departed(T \cup {e}, x, w)
            = IF from = w THEN Departed(T, x, w) \cup {e} ELSE Departed(T, x, w)
    BY DEF Departed
  <2>4. e \notin Arrived(T, x, w) /\ e \notin Departed(T, x, w)
    BY DEF Arrived, Departed
  <2>5. /\ Cardinality(Arrived(T, x, w) \cup {e}) = Cardinality(Arrived(T, x, w)) + 1
        /\ Cardinality(Departed(T, x, w) \cup {e}) = Cardinality(Departed(T, x, w)) + 1
        /\ Cardinality(Arrived(T, x, w)) \in Nat /\ Cardinality(Departed(T, x, w)) \in Nat
    BY <2>1, <2>4, FS_AddElement, FS_CardinalityType
  <2> QED BY <2>2, <2>3, <2>5
<1>3. \A w \in Words \ {"none"} : (n.status = "ARCHIVED" => w = "ARCHIVED") =>
          Cardinality(Arrived(T \cup {e}, x, w)) - Cardinality(Departed(T \cup {e}, x, w))
              = (IF n.status = w THEN 1 ELSE 0) - (IF Team!First(x) = w THEN 1 ELSE 0)
  <2> SUFFICES ASSUME NEW w \in Words \ {"none"}, n.status = "ARCHIVED" => w = "ARCHIVED"
               PROVE  Cardinality(Arrived(T \cup {e}, x, w)) - Cardinality(Departed(T \cup {e}, x, w))
                          = (IF n.status = w THEN 1 ELSE 0) - (IF Team!First(x) = w THEN 1 ELSE 0)
    OBVIOUS
  <2>1. PICK a \in Nat : a = Cardinality(Arrived(T, x, w))
    BY <1>2
  <2>2. PICK d \in Nat : d = Cardinality(Departed(T, x, w))
    BY <1>2
  <2>3. a - d = (IF s.status = w THEN 1 ELSE 0) - (IF Team!First(x) = w THEN 1 ELSE 0)
    BY <2>1, <2>2 DEF Explains
  <2>4. /\ Cardinality(Arrived(T \cup {e}, x, w)) = a + (IF to = w THEN 1 ELSE 0)
        /\ Cardinality(Departed(T \cup {e}, x, w)) = d + (IF from = w THEN 1 ELSE 0)
    BY <1>2, <2>1, <2>2
  <2>5. /\ (to = w) = (n.status = w)
        /\ (from = w) = (s.status = w)
    <3> HIDE DEF to, from
    <3>1. to = n.status /\ from = IF n.status = "ARCHIVED" THEN "none" ELSE s.status
      BY DEF to, from
    <3> QED BY <3>1
  <2> HIDE DEF to, from
  <2> QED BY <2>3, <2>4, <2>5
<1>4. n.completed <=> \E d \in T \cup {e} : Team!Reached(x, d) \in Team!Completed
  BY DEF Explains
<1> QED BY <1>1, <1>3, <1>4 DEF Explains

\* A step of one request that writes no row and no entry.
LEMMA TeamMoves ==
    ASSUME TeamFits, NEW r \in Callers, NEW q \in TeamReq,
           projectReq' = [projectReq EXCEPT ![r] = q],
           UNCHANGED <<row, log>>, store \subseteq store', TeamReqFits(q, store'),
           projectReq[r].pc \in {"idle", "upload", "write"}, q.pc # "log", stray' = stray
    PROVE  TeamFits'
<1>1. /\ projectReq' \in [Callers -> TeamReq] /\ projectReq'[r] = q
      /\ \A x \in Callers : x # r => projectReq'[x] = projectReq[x]
  BY DEF TeamFits, TeamTyped
<1>2. \A x \in Callers : TeamReqFits(projectReq'[x], store')
  BY <1>1 DEF TeamFits, TeamTyped, TeamReqFits
<1>3. TeamTyped'
  BY <1>1, <1>2 DEF TeamFits, TeamTyped, Team!Statuses
<1>4. ASSUME NEW x PROVE Told(projectReq', log', x) = Told(projectReq, log, x)
  <2>1. Silent(projectReq', x) = Silent(projectReq, x)
    BY <1>1 DEF Silent
  <2>2. \A y \in Silent(projectReq, x) : projectReq'[y] = projectReq[y]
    BY <1>1 DEF Silent
  <2> QED BY <2>1, <2>2 DEF Told
<1>5. TeamTold'
  BY <1>1, <1>4 DEF TeamFits, TeamTold
<1> QED BY <1>3, <1>5 DEF TeamFits

LEMMA TeamArrives ==
    ASSUME TeamFits, NEW r \in Callers, NEW x \in Team!Rows, NEW to \in Team!Statuses(x),
           NEW label \in {"upload", "write"}, Team!Arrive(r, x, to, label),
           Team!Kind(x) = "document" => to = "absent" \/ label = "upload",
           row[x].status # "ARCHIVED",
           row[x].status = "absent" /\ to # "ARCHIVED" => to = Team!Initial[Team!Kind(x)],
           to = "absent" => Team!Kind(x) \in {"document", "member"}
    PROVE  TeamFits'
<1> DEFINE q == [pc |-> label, about |-> x, to |-> to, seen |-> row[x]]
<1>1. q \in TeamReq
  BY TeamTerms DEF TeamFits, TeamTyped, TeamReq
<1>2. /\ projectReq' = [projectReq EXCEPT ![r] = q] /\ projectReq[r].pc = "idle"
      /\ UNCHANGED <<row, log, store, stray>>
  BY DEF Team!Arrive
<1>3. TeamReqFits(q, store')
  BY DEF TeamReqFits
<1>4. q.pc # "log"
  OBVIOUS
<1> HIDE DEF q
<1> QED BY <1>1, <1>2, <1>3, <1>4, TeamMoves

\* The end of a request, as it is seen by all that have to do with it.
LEMMA TeamAnswer ==
    ASSUME NEW l \in {"idle", "done", "failed"}
    PROVE  /\ Team!At(l) \in TeamReq /\ Team!At(l).pc = l
           /\ \A U : TeamReqFits(Team!At(l), U)
  BY DEF Team!At, Team!None, Team!Unwritten, Team!Absent, TeamReq, TeamRow, Words,
     TeamReqFits,
     Team!Pending

LEMMA HandlersArrive ==
    ASSUME TeamFits, NEW r \in Callers,
           \/ \E x \in Things : Team!Create(r, x) \/ Team!Remove(r, x)
           \/ \E x \in Team!Rows :
                  \E status \in Team!Updatable[Team!Kind(x)] : Team!Update(r, x, status)
           \/ Team!Archive(r)
    PROVE  TeamFits'
<1>1. ASSUME NEW x \in Things, Team!Create(r, x) PROVE TeamFits'
  <2>1. /\ x \in Team!Rows /\ Team!Initial[Team!Kind(x)] \in Team!Statuses(x)
        /\ row[x].status = "absent" /\ Team!Initial[Team!Kind(x)] # "absent"
    BY <1>1, TeamTerms DEF Team!Statuses, Team!Create, Team!Absent
  <2>2. CASE Team!Kind(x) = "document"
    <3>1. Team!Arrive(r, x, Team!Initial[Team!Kind(x)], "upload")
      BY <1>1, <2>2 DEF Team!Create
    <3> QED BY <2>1, <3>1, TeamArrives
  <2>3. CASE Team!Kind(x) # "document"
    <3>1. Team!Arrive(r, x, Team!Initial[Team!Kind(x)], "write")
      BY <1>1, <2>3 DEF Team!Create
    <3> QED BY <2>1, <2>3, <3>1, TeamArrives
  <2> QED BY <2>2, <2>3
<1>2. ASSUME NEW x \in Things, Team!Remove(r, x) PROVE TeamFits'
  <2>1. /\ x \in Team!Rows /\ "absent" \in Team!Statuses(x)
        /\ Team!Arrive(r, x, "absent", "write") /\ row[x].status # "absent"
        /\ Team!Kind(x) \in {"document", "member"}
    BY <1>2, TeamTerms DEF Team!Statuses, Team!Remove, Team!Absent
  <2>2. row[x].status # "ARCHIVED"
    <3>1. row[x].status \in Team!Statuses(x) /\ x # Project
      BY <2>1, TeamTerms DEF TeamFits, TeamTyped
    <3> QED BY <2>1, <3>1, TeamTerms
  <2> QED BY <2>1, <2>2, TeamArrives
<1>3. ASSUME NEW x \in Team!Rows, NEW status \in Team!Updatable[Team!Kind(x)],
             Team!Update(r, x, status)
      PROVE  TeamFits'
  <2>1. /\ status \in Team!Statuses(x) /\ Team!Arrive(r, x, status, "write")
        /\ Team!Kind(x) # "document" /\ row[x].status \notin {"absent", "ARCHIVED"}
    BY <1>3, TeamTerms DEF Team!Statuses, Team!Update, Team!Absent
  <2>2. status # "absent"
    BY TeamTerms
  <2> QED BY <2>1, <2>2, TeamArrives
<1>4. CASE Team!Archive(r)
  <2>1. /\ Project \in Team!Rows /\ "ARCHIVED" \in Team!Statuses(Project)
        /\ Team!Kind(Project) # "document" /\ Team!Arrive(r, Project, "ARCHIVED", "write")
        /\ row[Project].status # "ARCHIVED"
    BY <1>4, TeamTerms DEF Team!Statuses, Team!Archive
  <2> QED BY <2>1, TeamArrives
<1> QED BY <1>1, <1>2, <1>3, <1>4

LEMMA TeamUploadFits ==
    ASSUME TeamFits, NEW r \in Callers, Team!Upload(r)
    PROVE  TeamFits'
<1> DEFINE q == [projectReq[r] EXCEPT !.pc = "write"]
<1>1. /\ projectReq[r] \in TeamReq /\ projectReq[r].pc = "upload"
      /\ TeamReqFits(projectReq[r], store)
  BY DEF TeamFits, TeamTyped, Team!Upload
<1>2. /\ projectReq' = [projectReq EXCEPT ![r] = q] /\ store' = store \cup {projectReq[r].about}
      /\ UNCHANGED <<row, log, stray>>
  BY DEF Team!Upload, Team!Goto, TeamFits, TeamTyped
<1>3. /\ q \in TeamReq /\ q.pc = "write" /\ q.about = projectReq[r].about
      /\ q.to = projectReq[r].to /\ q.seen = projectReq[r].seen
  BY <1>1 DEF TeamReq
<1> HIDE DEF q
<1>4. TeamReqFits(q, store')
  BY <1>1, <1>2, <1>3 DEF TeamReqFits, Team!Pending
<1> QED BY <1>1, <1>2, <1>3, <1>4, TeamMoves

\* A write, with what it leaves for the log.
LEMMA TeamWriteFits ==
    ASSUME TeamFits, NEW r \in Callers, Team!Write(r)
    PROVE  TeamFits'
<1> DEFINE q == projectReq[r]
           x == q.about
<1>1. /\ q \in TeamReq /\ q.pc = "write" /\ TeamReqFits(q, store)
      /\ projectReq \in [Callers -> TeamReq] /\ row \in [Team!Rows -> TeamRow]
      /\ UNCHANGED <<log, store>>
  BY DEF TeamFits, TeamTyped, Team!Write
<1>2. x \in Team!Rows /\ q.to \in Team!Statuses(x) /\ q.to \in Words /\ row[x] \in TeamRow
      /\ q.seen \in TeamRow
  BY <1>1 DEF TeamReqFits, Team!Pending, TeamReq
<1>3. CASE Team!Refused(r)
  <2>1. projectReq' = [projectReq EXCEPT ![r] = Team!At("failed")] /\ UNCHANGED <<row, stray>>
    BY <1>3 DEF Team!Write, Team!Answer
  <2> QED BY <1>1, <2>1, TeamAnswer, TeamMoves
<1>4. CASE ~Team!Refused(r)
  <2> DEFINE n == [status |-> q.to, completed |-> Team!IsCompleted(r)]
             goes == [q EXCEPT !.pc = "log"]
             q2 == IF Team!News(r) THEN goes ELSE Team!At("done")
  <2>1. /\ row' = [row EXCEPT ![x] = n]
        /\ stray' = IF q.seen = row[x] THEN stray ELSE stray \cup {x}
    BY <1>4 DEF Team!Write
  <2>2. projectReq' = [projectReq EXCEPT ![r] = q2]
    <3>1. Team!News(r) => projectReq' = [projectReq EXCEPT ![r].pc = "log"]
      BY <1>4 DEF Team!Write, Team!Goto
    <3>2. ~Team!News(r) => projectReq' = [projectReq EXCEPT ![r] = Team!At("done")]
      BY <1>4 DEF Team!Write, Team!Answer
    <3> QED BY <1>1, <3>1, <3>2
  <2>3. /\ n.status = q.to
        /\ n.completed <=> \/ row[x].completed
                           \/ q.to # q.seen.status /\ q.to \in Team!Completed
        /\ n \in TeamRow
    BY <1>2 DEF Team!IsCompleted, Team!News, TeamRow
  <2>4. goes \in TeamReq /\ goes.pc = "log" /\ goes.about = x /\ goes.to = q.to
        /\ goes.seen = q.seen
    BY <1>1 DEF TeamReq
  <2> HIDE DEF n, goes
  <2>5. q2 \in TeamReq /\ q2.pc \in {"log", "done"}
    BY <2>4, TeamAnswer
  <2>6. TeamReqFits(q2, store)
    BY <1>1, <1>2, <2>4, TeamAnswer DEF TeamReqFits, Team!Pending
  <2> HIDE DEF q2
  <2>7. /\ projectReq' \in [Callers -> TeamReq] /\ projectReq'[r] = q2
        /\ \A y \in Callers \ {r} : projectReq'[y] = projectReq[y]
        /\ row' \in [Team!Rows -> TeamRow] /\ row'[x] = n
        /\ \A y \in Team!Rows \ {x} : row'[y] = row[y]
    BY <1>1, <1>2, <2>1, <2>2, <2>3, <2>5
  <2>8. ASSUME NEW y \in Team!Rows
        PROVE  /\ row'[y].status \in Team!Statuses(y)
               /\ Team!Kind(y) = "document" /\ row'[y].status # "absent" => y \in store
    <3>1. CASE y = x
      BY <1>1, <1>2, <2>3, <2>7, <3>1 DEF TeamReqFits
    <3>2. CASE y # x
      BY <2>7, <3>2 DEF TeamFits, TeamTyped
    <3> QED BY <3>1, <3>2
  <2>9. \A y \in Callers : TeamReqFits(projectReq'[y], store)
    BY <2>6, <2>7 DEF TeamFits, TeamTyped
  <2>10. TeamTyped'
    BY <1>1, <2>7, <2>8, <2>9 DEF TeamTyped, Team!Statuses
  <2>11. \A y \in Callers : projectReq'[y].pc \in {"idle", "upload", "write", "log"} =>
             \A e \in log' : e.id # y
    BY <1>1, <2>5, <2>7 DEF TeamFits, TeamTold
  <2>12. ASSUME NEW y \in Team!Rows \ stray', Named(y)
         PROVE  Explains(Told(projectReq', log', y), y, row'[y])
    <3>1. Explains(Told(projectReq, log, y), y, row[y])
      BY <2>1, <2>12 DEF TeamFits, TeamTold
    <3>2. CASE y # x \/ ~Team!News(r)
      <4>1. Silent(projectReq', y) = Silent(projectReq, y)
        <5>1. r \notin Silent(projectReq, y) /\ r \notin Silent(projectReq', y)
          BY <1>1, <2>4, <2>7, <3>2, TeamAnswer DEF Silent, q2
        <5> QED BY <2>7, <5>1 DEF Silent
      <4>2. \A s \in Silent(projectReq, y) : projectReq'[s] = projectReq[s]
        BY <1>1, <2>7 DEF Silent
      <4>3. Told(projectReq', log', y) = Told(projectReq, log, y)
        BY <1>1, <4>1, <4>2 DEF Told
      <4>4. row'[y].status = row[y].status /\ (row'[y].completed <=> row[y].completed)
        <5>1. CASE y # x
          BY <2>7, <5>1
        <5>2. CASE y = x
          <6>1. q.seen = row[x] /\ q.to = q.seen.status
            BY <2>1, <3>2, <5>2 DEF Team!News
          <6> QED BY <2>3, <2>7, <5>2, <6>1
        <5> QED BY <5>1, <5>2
      <4> QED BY <3>1, <4>3, <4>4 DEF Explains
    <3>3. CASE y = x /\ Team!News(r)
      <4> DEFINE e == Telling(q, r)
      <4>1. q.seen = row[x] /\ q.to # q.seen.status
        BY <2>1, <3>3 DEF Team!News
      <4>2. projectReq'[r] = goes
        BY <2>7, <3>3 DEF q2
      <4>3. /\ Silent(projectReq', y) = Silent(projectReq, y) \cup {r}
            /\ r \notin Silent(projectReq, y)
        BY <1>1, <2>4, <2>7, <3>3, <4>2 DEF Silent
      <4>4. Telling(projectReq'[r], r) = e
        BY <2>4, <4>2 DEF Telling, Team!Verb
      <4>5. \A s \in Silent(projectReq, y) : projectReq'[s] = projectReq[s]
        BY <1>1, <2>7 DEF Silent
      <4>6. Told(projectReq', log', y) = Told(projectReq, log, y) \cup {e}
        <5>1. {Telling(projectReq'[s], s) : s \in Silent(projectReq', y)}
                  = {Telling(projectReq[s], s) : s \in Silent(projectReq, y)} \cup {e}
          BY <4>3, <4>4, <4>5
        <5> QED BY <1>1, <5>1 DEF Told
      <4>7. /\ e.id = r /\ Team!Reached(y, e) = n.status
            /\ Team!Left(y, e) = IF n.status = "ARCHIVED" THEN "none" ELSE row[x].status
        <5>1. q.seen.status \in Team!Statuses(y) /\ q.pc \in Team!Pending
          BY <1>1, <1>2, <3>3, <4>1 DEF TeamFits, TeamTyped, Team!Pending
        <5>2. q.about = y /\ n.status = q.to
          BY <2>3, <3>3
        <5> HIDE DEF q
        <5> QED BY <1>1, <2>12, <4>1, <5>1, <5>2, TellingTells
      <4>8. \A d \in Told(projectReq, log, y) : d.id # r
        <5>1. \A d \in log : d.id # r
          BY <1>1 DEF TeamFits, TeamTold
        <5>2. \A s \in Silent(projectReq, y) : Telling(projectReq[s], s).id # r
          BY <4>3 DEF Telling
        <5> QED BY <5>1, <5>2 DEF Told
      <4> HIDE DEF e
      <4>9. e \notin Told(projectReq, log, y)
        BY <4>7, <4>8
      <4>10. /\ n.completed <=> row[x].completed \/ n.status \in Team!Completed
             /\ n.status # row[x].status /\ row[x].status # "ARCHIVED"
        BY <1>1, <2>3, <4>1 DEF TeamReqFits, Team!Pending
      <4>11. Explains(Told(projectReq, log, y) \cup {e}, y, n)
        BY <1>2, <2>3, <3>1, <3>3, <4>7, <4>9, <4>10, OneMoreEntry
      <4> QED BY <2>7, <3>3, <4>6, <4>11
    <3> QED BY <3>2, <3>3
  <2> QED BY <2>10, <2>11, <2>12 DEF TeamFits, TeamTold
<1> QED BY <1>3, <1>4

\* The entry of a request is written, and what was told stays.
LEMMA TeamRecordFits ==
    ASSUME TeamFits, NEW r \in Callers, Team!Record(r)
    PROVE  TeamFits'
<1> DEFINE q == projectReq[r]
           e == Telling(q, r)
           done == Team!At("done")
<1>1. /\ q.pc = "log" /\ projectReq \in [Callers -> TeamReq]
      /\ projectReq' = [projectReq EXCEPT ![r] = done] /\ log' = log \cup {e}
      /\ UNCHANGED <<row, store, stray>>
  BY DEF TeamFits, TeamTyped, Team!Record, Team!Answer, Team!Entry, Team!EntryOf, Telling, Team!None
<1>2. done \in TeamReq /\ done.pc = "done" /\ TeamReqFits(done, store)
  BY TeamAnswer
<1> HIDE DEF done
<1>3. /\ projectReq' \in [Callers -> TeamReq] /\ projectReq'[r] = done
      /\ \A s \in Callers \ {r} : projectReq'[s] = projectReq[s]
  BY <1>1, <1>2
<1>4. TeamTyped'
  BY <1>1, <1>2, <1>3 DEF TeamFits, TeamTyped, Team!Statuses
<1>5. e.id = r /\ e.name = IF Team!Kind(q.about) \in Team!Titled THEN q.about ELSE "none"
  BY DEF Telling
<1>6. \A s \in Callers : projectReq'[s].pc \in {"idle", "upload", "write", "log"} =>
          \A d \in log' : d.id # s
  BY <1>1, <1>2, <1>3, <1>5 DEF TeamFits, TeamTold
<1>7. ASSUME NEW x \in Team!Rows, Named(x)
      PROVE  Told(projectReq', log', x) = Told(projectReq, log, x)
  <2>1. CASE x = q.about
    <3>1. /\ Silent(projectReq, x) = Silent(projectReq', x) \cup {r}
          /\ r \notin Silent(projectReq', x)
      BY <1>1, <1>2, <1>3, <2>1 DEF Silent
    <3>2. \A s \in Silent(projectReq', x) : projectReq'[s] = projectReq[s]
      BY <1>3, <3>1 DEF Silent
    <3>3. {Telling(projectReq[s], s) : s \in Silent(projectReq, x)}
              = {Telling(projectReq'[s], s) : s \in Silent(projectReq', x)} \cup {e}
      BY <3>1, <3>2
    <3>4. {d \in log' : d.name = x} = {d \in log : d.name = x} \cup {e}
      BY <1>1, <1>5, <1>7, <2>1 DEF Named
    <3> QED BY <3>3, <3>4 DEF Told
  <2>2. CASE x # q.about
    <3>1. Silent(projectReq, x) = Silent(projectReq', x) /\ r \notin Silent(projectReq, x)
      BY <1>1, <1>2, <1>3, <2>2 DEF Silent
    <3>2. \A s \in Silent(projectReq', x) : projectReq'[s] = projectReq[s]
      BY <1>3, <3>1 DEF Silent
    <3>3. {d \in log' : d.name = x} = {d \in log : d.name = x}
      BY <1>1, <1>5, <1>7, <2>2, TeamTerms
    <3> QED BY <3>1, <3>2, <3>3 DEF Told
  <2> QED BY <2>1, <2>2
<1>8. TeamTold'
  BY <1>1, <1>6, <1>7 DEF TeamFits, TeamTold
<1> QED BY <1>4, <1>8 DEF TeamFits

\* An entry that is lost leaves its row to those that are not accounted for.
LEMMA TeamCrashFits ==
    ASSUME TeamFits, NEW r \in Callers, Team!Crash(r)
    PROVE  TeamFits'
<1> DEFINE q == projectReq[r]
           failed == Team!At("failed")
<1>1. /\ q.pc \in {"upload", "write", "log"} /\ projectReq \in [Callers -> TeamReq]
      /\ projectReq' = [projectReq EXCEPT ![r] = failed]
      /\ stray' = IF q.pc = "log" THEN stray \cup {q.about} ELSE stray
      /\ UNCHANGED <<row, log, store>>
  BY DEF TeamFits, TeamTyped, Team!Crash, Team!Answer, Team!Pending
<1>2. failed \in TeamReq /\ failed.pc = "failed" /\ TeamReqFits(failed, store)
  BY TeamAnswer
<1> HIDE DEF failed
<1>3. CASE q.pc # "log"
  <2>1. stray' = stray /\ store \subseteq store' /\ TeamReqFits(failed, store')
    BY <1>1, <1>2, <1>3
  <2> QED BY <1>1, <1>2, <1>3, <2>1, TeamMoves
<1>4. CASE q.pc = "log"
  <2>1. /\ projectReq' \in [Callers -> TeamReq] /\ projectReq'[r] = failed
        /\ \A s \in Callers \ {r} : projectReq'[s] = projectReq[s]
    BY <1>1, <1>2
  <2>2. TeamTyped'
    BY <1>1, <1>2, <2>1 DEF TeamFits, TeamTyped, Team!Statuses
  <2>3. \A s \in Callers : projectReq'[s].pc \in {"idle", "upload", "write", "log"} =>
            \A d \in log' : d.id # s
    BY <1>1, <1>2, <2>1 DEF TeamFits, TeamTold
  <2>4. ASSUME NEW x \in Team!Rows \ stray', Named(x)
        PROVE  Explains(Told(projectReq', log', x), x, row'[x])
    <3>1. x \notin stray /\ x # q.about
      BY <1>1, <1>4
    <3>2. Silent(projectReq, x) = Silent(projectReq', x) /\ r \notin Silent(projectReq, x)
      BY <1>1, <1>2, <2>1, <3>1 DEF Silent
    <3>3. \A s \in Silent(projectReq', x) : projectReq'[s] = projectReq[s]
      BY <2>1, <3>2 DEF Silent
    <3>4. Told(projectReq', log', x) = Told(projectReq, log, x)
      BY <1>1, <3>2, <3>3 DEF Told
    <3> QED BY <1>1, <2>4, <3>1, <3>4 DEF TeamFits, TeamTold
  <2> QED BY <2>2, <2>3, <2>4 DEF TeamFits, TeamTold
<1> QED BY <1>3, <1>4

LEMMA TeamFitsNext == ASSUME TeamFits, [Team!Next]_(Team!vars) PROVE TeamFits'
<1>1. ASSUME NEW r \in Callers,
             \/ \E x \in Things : Team!Create(r, x) \/ Team!Remove(r, x)
             \/ \E x \in Team!Rows :
                    \E status \in Team!Updatable[Team!Kind(x)] : Team!Update(r, x, status)
             \/ Team!Archive(r)
      PROVE  TeamFits'
  BY <1>1, HandlersArrive
<1>2. ASSUME NEW r \in Callers, Team!Upload(r) \/ Team!Write(r) \/ Team!Record(r) \/ Team!Crash(r)
      PROVE  TeamFits'
  BY <1>2, TeamUploadFits, TeamWriteFits, TeamRecordFits, TeamCrashFits
<1>3. CASE Team!Quiet \/ UNCHANGED Team!vars
  <2>1. UNCHANGED <<row, log, store, stray, projectReq>>
    BY <1>3 DEF Team!Quiet, Team!vars
  <2> QED BY <2>1 DEF TeamFits, TeamTyped, TeamTold, Team!Statuses
<1> QED BY <1>1, <1>2, <1>3 DEF Team!Next

LEMMA TeamFitsInit == ASSUME Team!Init PROVE TeamFits
<1>1. /\ \A x \in Team!Rows : row[x] \in TeamRow /\ row[x].status = Team!First(x)
                             /\ row[x].completed = FALSE
      /\ row \in [Team!Rows -> TeamRow]
      /\ log = {} /\ projectReq = [r \in Callers |-> Team!At("idle")]
  BY DEF Team!Init, Team!Unwritten, Team!Absent, Team!First, TeamRow, Words
<1>2. /\ projectReq \in [Callers -> TeamReq]
      /\ \A r \in Callers : projectReq[r].pc = "idle" /\ TeamReqFits(projectReq[r], store)
  BY <1>1, TeamAnswer
<1>3. \A x \in Team!Rows : Team!Kind(x) = "document" => row[x].status = "absent"
  BY <1>1, TeamTerms DEF Team!First, Team!Absent
<1>4. TeamTyped
  BY <1>1, <1>2, <1>3, TeamTerms DEF TeamTyped
<1>5. \A x : Told(projectReq, log, x) = {}
  BY <1>1, <1>2 DEF Told, Silent
<1>6. \A x \in Team!Rows : Explains({}, x, row[x])
  <2> TAKE x \in Team!Rows
  <2>1. IsFiniteSet({}) /\ Cardinality({}) = 0
        /\ \A w : Arrived({}, x, w) = {} /\ Departed({}, x, w) = {}
    BY FS_EmptySet DEF Arrived, Departed
  <2>2. \A w : Cardinality(Arrived({}, x, w)) = 0 /\ Cardinality(Departed({}, x, w)) = 0
    BY <2>1
  <2>3. row[x].status = Team!First(x) /\ ~row[x].completed
    BY <1>1
  <2> QED BY <2>1, <2>2, <2>3 DEF Explains
<1> QED BY <1>1, <1>4, <1>5, <1>6 DEF TeamFits, TeamTold

LEMMA TeamAlwaysFit == PlatformSpec => []TeamFits
<1>1. Team!Init => TeamFits
  BY TeamFitsInit
<1>2. TeamFits /\ [Team!Next]_(Team!vars) => TeamFits'
  BY TeamFitsNext
<1> QED BY <1>1, <1>2, EachPart, PTL DEF Team!Spec

LEMMA TeamTypeOK == ASSUME TeamFits PROVE Team!TypeOK
<1>1. \A x \in Team!Rows :
          /\ row[x].status \in Team!Statuses(x) /\ row[x].completed \in BOOLEAN
          /\ Team!Kind(x) = "document" /\ row[x].status # "absent" => x \in store
  BY DEF TeamFits, TeamTyped, TeamRow
<1>2. \A r \in Callers :
          projectReq[r].pc \in {"idle", "upload", "write", "log", "done", "failed"}
  BY DEF TeamFits, TeamTyped, TeamReq
<1> QED BY <1>1, <1>2 DEF Team!TypeOK, Team!Absent, Team!Pending, Team!Finished

\* The activity log tells how a row got where it is, in whatever order entries
\* are written: those that name a row which no request wrote on an outdated
\* reading and none failed to tell of add up to its status, or to its archival,
\* and tell whether it has a completion time.
THEOREM ActivityIsTold == PlatformSpec => []ActivityTells
<1>1. TeamFits => ActivityTells
  <2> SUFFICES ASSUME TeamFits, NEW x \in Team!Rows \ stray,
                      Team!Kind(x) \in Team!Titled, ~Team!Unlogged(x)
               PROVE  /\ \A s \in Team!Statuses(x) :
                             (row[x].status = "ARCHIVED" => s = "ARCHIVED") =>
                             Team!Arrivals(x, s) - Team!Departures(x, s)
                                 = Team!One(row[x].status = s) - Team!One(Team!First(x) = s)
                      /\ row[x].completed
                             <=> \E e \in Team!About(x) : Team!Reached(x, e) \in Team!Completed
    BY DEF ActivityTells, Team!ActivityTells
  <2> DEFINE T == Team!About(x)
  <2>1. Silent(projectReq, x) = {}
    BY DEF Team!Unlogged, Team!InFlight, Team!Pending, Silent
  <2>2. Told(projectReq, log, x) = T
    BY <2>1 DEF Told, Team!About
  <2>3. Explains(T, x, row[x])
    BY <2>2 DEF TeamFits, TeamTold, Named
  <2>4. \A s : /\ Team!Arrivals(x, s) = Cardinality(Arrived(T, x, s))
               /\ Team!Departures(x, s) = Cardinality(Departed(T, x, s))
    <3> TAKE s
    <3>1. \A S : Team!Cardinality(S) = Cardinality(S)
      BY DEF Team!Cardinality, Cardinality
    <3> QED BY <3>1 DEF Team!Arrivals, Team!Departures, Arrived, Departed
  <2> HIDE DEF T
  <2>5. \A s \in Team!Statuses(x) : s \in Words \ {"none"}
    BY TeamTerms
  <2>6. ASSUME NEW s \in Team!Statuses(x), row[x].status = "ARCHIVED" => s = "ARCHIVED"
        PROVE  Team!Arrivals(x, s) - Team!Departures(x, s)
                   = Team!One(row[x].status = s) - Team!One(Team!First(x) = s)
    BY <2>3, <2>4, <2>5, <2>6 DEF Explains, Team!One
  <2>7. row[x].completed
            <=> \E e \in Team!About(x) : Team!Reached(x, e) \in Team!Completed
    BY <2>3 DEF Explains, T
  <2> QED BY <2>6, <2>7
<1> QED BY <1>1, TeamAlwaysFit, PTL

-----------------------------------------------------------------------------
(* All of the parts.                                                       *)

\* Every part keeps its tables: types, checks, unique keys, one default of an
\* owner, a document with its object, and the numbers of retries and of failures.
THEOREM AllTablesTyped == PlatformSpec => []TablesTyped
<1>1. TeamFits /\ NoticesFit /\ ListsFit /\ JobsFit /\ Failed!TypeOK /\ Sound /\ TypeOK
          => TablesTyped
  BY TeamTypeOK, NoticesTypeOK, ListsTypeOK, JobsTypeOK DEF Sound, TablesTyped
<1> QED BY <1>1, EachPart, TeamAlwaysFit, NoticesAlwaysFit, ListsAlwaysFit, JobsAlwaysFit,
           LoginsTyped, CacheSound, TypeCorrect, PTL
=============================================================================
