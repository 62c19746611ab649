---------------------------- MODULE Replacements ----------------------------
(***************************************************************************)
(* Rows that are replaced as a whole when their owner is updated: the      *)
(* addresses of a customer, the measurements of a profile, the products of *)
(* a fabric or a supplier, the adjustments and monograms of a              *)
(* customization, the incompatibilities of a style option.                 *)
(*                                                                         *)
(* The owner's row is written first.  The replacement is an array of two   *)
(* queries, deleteMany and createMany, given to PrismaService.$transaction *)
(* which passes it on; but within a request each model query goes through  *)
(* the hook of the constructor, which runs it in a transaction of its own, *)
(* retried on its own.  Nothing orders the two.                            *)
(***************************************************************************)
EXTENDS Naturals, FiniteSets

CONSTANTS
    Owners,
    Keyed,          \* owners whose rows have a unique key: measurements by name,
                    \* products of a fabric
    Keys,           \* what rows are about
    Requests,       \* PATCH requests with a list, each handled once
    MaxInFlight     \* bound: requests handled at the same time

\* What the constants are: the modules that give them values assume it.
ReplacementsAssumption == Keyed \subseteq Owners /\ MaxInFlight \in Nat

VARIABLES
    text,           \* the owner's own columns: by whom they were written
    rows,           \* the rows of each owner: by whom, and about what
    req             \* requests: owner, list, next step of each of its two queries

vars == <<text, rows, req>>

Seed == "seed"

\* The rows a request has to insert.
List(r, keys) == {[by |-> r, key |-> k] : k \in keys}

At(label) == [pc |-> label, owner |-> Seed, keys |-> {}, delete |-> "none", create |-> "none"]

Init ==
    /\ text = [o \in Owners |-> Seed]
    /\ rows = [o \in Owners |-> List(Seed, Keys)]
    /\ req = [r \in Requests |-> At("idle")]

InFlight == {r \in Requests : req[r].pc \in {"update", "replace"}}

Answer(r, outcome) == req' = [req EXCEPT ![r] = At(outcome)]

\* update: the owner exists, the list is valid (no name twice, ...).
Update(r, o, keys) ==
    /\ req[r].pc = "idle"
    /\ Cardinality(InFlight) < MaxInFlight
    /\ req' = [req EXCEPT ![r] = [At("update") EXCEPT !.owner = o, !.keys = keys]]
    /\ UNCHANGED <<text, rows>>

\* updateWithRelations: committed by itself.
WriteOwner(r) ==
    /\ req[r].pc = "update"
    /\ text' = [text EXCEPT ![req[r].owner] = r]
    /\ req' = [req EXCEPT ![r].pc = "replace", ![r].delete = "start", ![r].create = "start"]
    /\ UNCHANGED rows

\* deleteMany, in its own transaction.
Delete(r) ==
    /\ req[r].pc = "replace"
    /\ req[r].delete = "start"
    /\ rows' = [rows EXCEPT ![req[r].owner] = {}]
    /\ req' = [req EXCEPT ![r].delete = "done"]
    /\ UNCHANGED text

\* A unique key that is already there.
Clash(r) ==
    /\ req[r].owner \in Keyed
    /\ \E x \in rows[req[r].owner] : x.key \in req[r].keys

\* createMany, in its own transaction.
Insert(r) ==
    /\ req[r].pc = "replace"
    /\ req[r].create = "start"
    /\ IF Clash(r)
       THEN UNCHANGED rows /\ req' = [req EXCEPT ![r].create = "failed"]
       ELSE /\ rows' = [rows EXCEPT ![req[r].owner] = @ \cup List(r, req[r].keys)]
            /\ req' = [req EXCEPT ![r].create = "done"]
    /\ UNCHANGED text

\* Both have ended: 200, or what became of the error (409, 500).
Reply(r) ==
    /\ req[r].pc = "replace"
    /\ req[r].delete # "start" /\ req[r].create # "start"
    /\ Answer(r, IF {req[r].delete, req[r].create} = {"done"} THEN "done" ELSE "failed")
    /\ UNCHANGED <<text, rows>>

\* One of the two fails for good (its retries used up, a timeout).
FailQuery(r) ==
    /\ req[r].pc = "replace"
    /\ \/ req[r].delete = "start" /\ req' = [req EXCEPT ![r].delete = "failed"]
       \/ req[r].create = "start" /\ req' = [req EXCEPT ![r].create = "failed"]
    /\ UNCHANGED <<text, rows>>

\* The pod dies.
Crash(r) ==
    /\ r \in InFlight
    /\ Answer(r, "failed")
    /\ UNCHANGED <<text, rows>>

Quiet ==
    /\ InFlight = {}
    /\ UNCHANGED vars

Next ==
    \/ \E r \in Requests :
           \/ \E o \in Owners, keys \in SUBSET Keys \ {{}} : Update(r, o, keys)
           \/ WriteOwner(r) \/ Delete(r) \/ Insert(r) \/ Reply(r)
           \/ FailQuery(r) \/ Crash(r)
    \/ Quiet

Spec == Init /\ [][Next]_vars

-----------------------------------------------------------------------------
(* Properties.                                                             *)

\* Rows keep their types and unique keys.
TypeOK ==
    /\ text \in [Owners -> Requests \cup {Seed}]
    /\ \A o \in Owners : \A x \in rows[o] : x.by \in Requests \cup {Seed} /\ x.key \in Keys
    /\ \A o \in Keyed : \A x, y \in rows[o] : x.key = y.key => x = y
    /\ \A r \in Requests : req[r].pc \in {"idle", "update", "replace", "done", "failed"}

\* "Delete-then-create in one transaction ... avoids a transiently-inconsistent
\* link set under concurrent reads" (fabric.repository.ts): whoever reads the
\* rows of an owner finds one whole list.
OneWholeList == \A o \in Owners : rows[o] # {} /\ \A x, y \in rows[o] : x.by = y.by
=============================================================================
