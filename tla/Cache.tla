------------------------------- MODULE Cache -------------------------------
(***************************************************************************)
(* CacheService.getOrLoad over RedisCacheStore, for one key.  A reader     *)
(* that misses loads the value and stores it; nothing coordinates readers, *)
(* and nothing invalidates an entry when the value changes.  Redis may     *)
(* fail at any time: a read that fails is a miss, a write that fails is    *)
(* skipped.                                                                *)
(*                                                                         *)
(* The value in the database is a number that grows with each change.      *)
(***************************************************************************)
EXTENDS Naturals

CONSTANTS
    Readers,        \* requests that need the value, over and over
    TTL,            \* ttlMs, in ticks
    MaxLoad,        \* ticks a load takes at most (the statement timeout)
    MaxValue,       \* bound: changes of the value
    Horizon         \* bound: ticks

\* What the constants are: the modules that give them values assume it.
CacheAssumption ==
    /\ TTL \in Nat \ {0} /\ MaxLoad \in Nat /\ MaxValue \in Nat /\ Horizon \in Nat

VARIABLES
    now,
    value,          \* in the database
    ended,          \* history: when each former value was replaced
    entry,          \* in Redis: a value and when it expires; none at tick 0
    oldest,         \* history: the longest anyone was given a value after its end
    reader          \* requests: next step, when it missed, what it loaded

vars == <<now, value, ended, entry, oldest, reader>>

At(label) == [pc |-> label, missed |-> 0, loaded |-> 0]

Init ==
    /\ now = 0
    /\ value = 0
    /\ ended = [v \in {} |-> 0]
    /\ entry = [value |-> 0, until |-> 0]
    /\ oldest = 0
    /\ reader = [r \in Readers |-> At("idle")]

Age(v) == IF v = value THEN 0 ELSE now - ended[v]

Serve(v) == oldest' = IF Age(v) > oldest THEN Age(v) ELSE oldest

\* Mutant: the entry is served once more when it has just expired.
HeldTooLong == now <= entry.until /\ entry.until # 0

\* PX: gone when its time is over.
Held == now < entry.until

Hit(r) ==
    /\ reader[r].pc = "idle"
    /\ Held
    /\ Serve(entry.value)
    /\ UNCHANGED <<now, value, ended, entry, reader>>

\* No entry, or an error of Redis.
Miss(r) ==
    /\ reader[r].pc = "idle"
    /\ reader' = [reader EXCEPT ![r] = [pc |-> "load", missed |-> now, loaded |-> 0]]
    /\ UNCHANGED <<now, value, ended, entry, oldest>>

\* The query reads the database at some moment of the load.
Query(r) ==
    /\ reader[r].pc = "load"
    /\ reader' = [reader EXCEPT ![r] = [pc |-> "store", missed |-> @.missed, loaded |-> value]]
    /\ UNCHANGED <<now, value, ended, entry, oldest>>

\* The value is stored, unless Redis fails, over whatever is there by now, and
\* given to the caller.
Store(r) ==
    /\ reader[r].pc = "store"
    /\ \/ entry' = [value |-> reader[r].loaded, until |-> now + TTL]
       \/ UNCHANGED entry
    /\ Serve(reader[r].loaded)
    /\ reader' = [reader EXCEPT ![r] = At("idle")]
    /\ UNCHANGED <<now, value, ended>>

\* The load fails, and with it the request.
Fail(r) ==
    /\ reader[r].pc # "idle"
    /\ reader' = [reader EXCEPT ![r] = At("idle")]
    /\ UNCHANGED <<now, value, ended, entry, oldest>>

\* The rows the value is computed from change.
Change ==
    /\ value < MaxValue
    /\ value' = value + 1
    /\ ended' = [v \in 0..value |-> IF v = value THEN now ELSE ended[v]]
    /\ UNCHANGED <<now, entry, oldest, reader>>

Tick ==
    /\ now < Horizon
    /\ \A r \in Readers : reader[r].pc # "idle" => now < reader[r].missed + MaxLoad
    /\ now' = now + 1
    /\ UNCHANGED <<value, ended, entry, oldest, reader>>

Quiet ==
    /\ now = Horizon
    /\ UNCHANGED vars

Next ==
    \/ \E r \in Readers : Hit(r) \/ Miss(r) \/ Query(r) \/ Store(r) \/ Fail(r)
    \/ Change
    \/ Tick
    \/ Quiet

Spec == Init /\ [][Next]_vars

-----------------------------------------------------------------------------
(* Properties.                                                             *)

TypeOK ==
    /\ now \in 0..Horizon /\ value \in 0..MaxValue /\ oldest \in 0..Horizon
    /\ ended \in [0..(value - 1) -> 0..Horizon]
    /\ entry \in [value : 0..value, until : 0..(Horizon + TTL)]
    /\ reader \in [Readers -> [pc : {"idle", "load", "store"}, missed : 0..Horizon,
                               loaded : 0..value]]

\* "never stale for more than a minute even with no explicit invalidation call
\* anywhere" (README of the cache).  The minute is the time an entry lives, and
\* a load begun before a change may be stored after it, so what holds is weaker:
\* however loads overlap and whatever Redis does, nobody is given a value as long
\* as TTL and the longest load together after it was replaced.
StalenessBounded == oldest < TTL + MaxLoad \/ oldest = 0
=============================================================================
