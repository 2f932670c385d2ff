----------------------------- MODULE ProjectQuota -----------------------------
(***************************************************************************)
(* The project quota of the teams: the rows that count (infra/database),   *)
(* the counter each team has in the cache (infra/quota), the quota events, *)
(* and the handlers that create, restore, delete and transfer a project.   *)
(*                                                                         *)
(* A handler takes one step per call to the cache or transaction of the    *)
(* database, so that the steps of several requests interleave.  reserve    *)
(* is seed_get, seed_set and consume; the business transaction is tx; then *)
(* comes the event of the commit, or the rollback of the reservation.      *)
(* Releasing a deleted project is event, usage and set.                    *)
(*                                                                         *)
(* A request charges the projects counter and the counter of the project's *)
(* runtime by one each, in one call: one counter stands for both.  The     *)
(* durable aggregate of the events is not read for this dimension, whose   *)
(* usage is the count of the rows, and is left out.  The bounds are        *)
(* MaxGenerations and MaxFaults.                                           *)
(***************************************************************************)
EXTENDS Integers, FiniteSets

CONSTANTS
    Teams, Projects, Requests,
    Limit,            \* Limit[t]: projects of the team's plan; negative: unlimited
    Absent,           \* the cache has no counter
    MaxGenerations,   \* bound on the deletions of one project
    MaxFaults         \* bound on the lost counters and the handlers dropped half-way

ASSUME QuotaAssumption ==
    /\ IsFiniteSet(Teams) /\ IsFiniteSet(Projects) /\ IsFiniteSet(Requests)
    /\ Limit \in [Teams -> Int]
    /\ Absent \notin Int
    /\ MaxGenerations \in Nat /\ MaxFaults \in Nat

VARIABLES
    project,          \* rows of the project table
    counter,          \* quota:team:{id}:projects in the cache
    op,               \* the request handlers
    ledger,           \* sum of the deltas of the quota events
    released,         \* idempotency keys of the release events
    faults,
    unwritten,        \* history: deltas of the events that dropped handlers never wrote
    disturbed         \* history: teams whose counter a named step made unreliable

vars == <<project, counter, op, ledger, released, faults, unwritten, disturbed>>

Project == [state : {"none", "live", "deleted"}, team : Teams, generation : 0..MaxGenerations]

Kinds == {"create", "restore", "delete", "transfer"}

Steps == {"seed_get", "seed_set", "consume", "tx", "rollback", "confirm",
          "adjust", "release", "event", "usage", "set"}

(* team: the team charged, or released by a delete; from: the team a       *)
(* transfer takes the project from; seen: the usage read.                  *)
Op == [kind : Kinds, pc : Steps, project : Projects, team : Teams, from : Teams,
       generation : 0..MaxGenerations, seen : Nat]

Idle == [pc |-> "idle"]

Live(t) == Cardinality({p \in Projects : project[p].state = "live" /\ project[p].team = t})

(* The reservations consumed and neither committed nor rolled back.        *)
Reserved(t) == Cardinality({r \in Requests : op[r].pc \in {"tx", "rollback"} /\ op[r].team = t})

(* The projects transferred away whose counter is still to be decremented. *)
Leaving(t) ==
    Cardinality({r \in Requests : /\ op[r].pc \in {"confirm", "adjust"}
                                  /\ op[r].kind = "transfer"
                                  /\ op[r].from = t})

(* What a counter that misses nothing counts.                              *)
Charged(t) == Live(t) + Reserved(t) + Leaving(t)

Value(c) == IF c = Absent THEN 0 ELSE c

Goto(r, pc) == op' = [op EXCEPT ![r].pc = pc]
End(r) == op' = [op EXCEPT ![r] = Idle]

(* An absolute value is written to t's counter: it may miss something.     *)
Wrote(t, seen) ==
    disturbed' = IF seen < Charged(t) THEN disturbed \cup {t} ELSE disturbed \ {t}

-------------------------------------------------------------------------------
Init ==
    /\ project \in [Projects -> {p \in Project : p.state # "deleted" /\ p.generation = 0}]
    /\ counter = [t \in Teams |-> Absent]
    /\ op = [r \in Requests |-> Idle]
    /\ ledger = Cardinality({p \in Projects : project[p].state = "live"})
    /\ released = {}
    /\ faults = 0
    /\ unwritten = 0
    /\ disturbed = {}

(* What a handler reads and checks before it touches the quota.            *)
Start(r, kind, p, t, pc) ==
    /\ op[r] = Idle
    /\ op' = [op EXCEPT ![r] = [kind |-> kind, pc |-> pc, project |-> p, team |-> t,
                                from |-> project[p].team, generation |-> 0, seen |-> 0]]
    /\ UNCHANGED <<project, counter, ledger, released, faults, unwritten, disturbed>>

(* The id of a new project is its own: no two requests create one row.     *)
Create(r, p, t) ==
    /\ project[p].state = "none"
    /\ \A s \in Requests : op[s] # Idle => op[s].project # p
    /\ Start(r, "create", p, t, "seed_get")

Restore(r, p) ==
    /\ project[p].state = "deleted"
    /\ Start(r, "restore", p, project[p].team, "seed_get")

Transfer(r, p, t) ==
    /\ project[p].state = "live"
    /\ project[p].team # t
    /\ Start(r, "transfer", p, t, "seed_get")

(* soft_delete_project_records: the tombstone and its generation, or the   *)
(* generation of the tombstone that is there.                              *)
Tombstone(row) ==
    IF row.state = "live"
        THEN [row EXCEPT !.state = "deleted", !.generation = row.generation + 1]
        ELSE row

Delete(r, p) ==
    /\ op[r] = Idle
    /\ project[p].state # "none"
    /\ project[p].state = "live" => project[p].generation < MaxGenerations
    /\ project' = [project EXCEPT ![p] = Tombstone(@)]
    /\ op' = [op EXCEPT ![r] = [kind |-> "delete", pc |-> "event", project |-> p,
                                team |-> project[p].team, from |-> project[p].team,
                                generation |-> project'[p].generation, seen |-> 0]]
    /\ UNCHANGED <<counter, ledger, released, faults, unwritten, disturbed>>

-------------------------------------------------------------------------------
(* seed_counter: the usage is read when the cache has no value ...         *)
SeedGet(r) ==
    /\ op[r].pc = "seed_get"
    /\ IF counter[op[r].team] # Absent
         THEN Goto(r, "consume")
         ELSE op' = [op EXCEPT ![r].pc = "seed_set", ![r].seen = Live(op[r].team)]
    /\ UNCHANGED <<project, counter, ledger, released, faults, unwritten, disturbed>>

(* ... and stored if there still is none.                                  *)
SeedSet(r) ==
    LET t == op[r].team IN
    /\ op[r].pc = "seed_set"
    /\ Goto(r, "consume")
    /\ IF counter[t] = Absent
         THEN /\ counter' = [counter EXCEPT ![t] = op[r].seen]
              /\ Wrote(t, op[r].seen)
         ELSE UNCHANGED <<counter, disturbed>>
    /\ UNCHANGED <<project, ledger, released, faults, unwritten>>

(* Mutant: the check compares the value before the increment.              *)
Consume_OffByOne(r) ==
    LET t == op[r].team IN
    /\ op[r].pc = "consume"
    /\ IF Limit[t] >= 0 /\ Value(counter[t]) > Limit[t]
         THEN /\ End(r)
              /\ UNCHANGED <<counter, disturbed>>
         ELSE /\ Goto(r, "tx")
              /\ counter' = [counter EXCEPT ![t] = Value(@) + 1]
              /\ IF counter[t] = Absent THEN Wrote(t, 0) ELSE UNCHANGED disturbed
    /\ UNCHANGED <<project, ledger, released, faults, unwritten>>

(* check_and_consume, atomic in both backends.  A counter that is not      *)
(* there counts as zero, and the increment creates it.                     *)
Consume(r) ==
    LET t == op[r].team IN
    /\ op[r].pc = "consume"
    /\ IF Limit[t] >= 0 /\ Value(counter[t]) + 1 > Limit[t]
         THEN /\ End(r)
              /\ UNCHANGED <<counter, disturbed>>
         ELSE /\ Goto(r, "tx")
              /\ counter' = [counter EXCEPT ![t] = Value(@) + 1]
              /\ IF counter[t] = Absent THEN Wrote(t, 0) ELSE UNCHANGED disturbed
    /\ UNCHANGED <<project, ledger, released, faults, unwritten>>

(* A database or cache error before the reservation ends the request.      *)
Refuse(r) ==
    /\ op[r].pc \in {"seed_get", "seed_set", "consume"}
    /\ End(r)
    /\ UNCHANGED <<project, counter, ledger, released, faults, unwritten, disturbed>>

-------------------------------------------------------------------------------
(* The business transaction of a reservation.  It may fail instead, as may *)
(* any statement in it (a slug already in use, an unreachable database).   *)
Tx(r) ==
    LET p == op[r].project
        row == project[p]
    IN
    /\ op[r].pc = "tx"
    /\ Goto(r, "confirm")
    /\ \/ /\ op[r].kind = "create"
          /\ project' = [project EXCEPT ![p].state = "live", ![p].team = op[r].team]
          /\ UNCHANGED disturbed
       \/ /\ op[r].kind = "restore"
          /\ row.state = "deleted"
          /\ project' = [project EXCEPT ![p].state = "live"]
          /\ disturbed' = IF row.team = op[r].team THEN disturbed ELSE disturbed \cup {row.team}
       \/ /\ op[r].kind = "transfer"
          /\ project' = [project EXCEPT ![p].team = op[r].team]
          /\ disturbed' = IF row.state = "live" /\ row.team = op[r].from
                            THEN disturbed ELSE disturbed \cup {op[r].from}
    /\ UNCHANGED <<counter, ledger, released, faults, unwritten>>

TxFails(r) ==
    /\ op[r].pc = "tx"
    /\ Goto(r, "rollback")
    /\ UNCHANGED <<project, counter, ledger, released, faults, unwritten, disturbed>>

(* Mutant: no clamp at zero.                                               *)
Decrement_NoClamp(t) ==
    /\ counter' = [counter EXCEPT ![t] = Value(@) - 1]
    /\ disturbed' = IF counter[t] = Absent /\ Charged(t) > 0
                      THEN disturbed \cup {t} ELSE disturbed

(* adjust_counter clamps at zero, and creates the counter if there is none.*)
Decrement(t) ==
    /\ counter' = [counter EXCEPT ![t] = IF Value(@) = 0 THEN 0 ELSE @ - 1]
    /\ disturbed' = IF counter[t] = Absent /\ Charged(t) > 0
                      THEN disturbed \cup {t} ELSE disturbed

Rollback(r) ==
    /\ op[r].pc = "rollback"
    /\ Decrement(op[r].team)
    /\ End(r)
    /\ UNCHANGED <<project, ledger, released, faults, unwritten>>

(* The event of a committed reservation, and of a finished transfer the    *)
(* release of the source team: its counter first, then the event.          *)
Confirm(r) ==
    /\ op[r].pc = "confirm"
    /\ ledger' = ledger + 1
    /\ IF op[r].kind = "transfer" THEN Goto(r, "adjust") ELSE End(r)
    /\ UNCHANGED <<project, counter, released, faults, unwritten, disturbed>>

(* Mutant: the team that receives the project gives its place back.        *)
Adjust_WrongTeam(r) ==
    /\ op[r].pc = "adjust"
    /\ Decrement(op[r].team)
    /\ Goto(r, "release")
    /\ UNCHANGED <<project, ledger, released, faults, unwritten>>

(* A transfer gives back the place in the team it took the project from.   *)
Adjust(r) ==
    /\ op[r].pc = "adjust"
    /\ Decrement(op[r].from)
    /\ Goto(r, "release")
    /\ UNCHANGED <<project, ledger, released, faults, unwritten>>

ReleaseSource(r) ==
    /\ op[r].pc = "release"
    /\ ledger' = ledger - 1
    /\ End(r)
    /\ UNCHANGED <<project, counter, released, faults, unwritten, disturbed>>

(* Mutant: the key of release_once, which has no generation.               *)
ReleaseKey_OncePerProject(r) == <<op[r].project, 1>>

-------------------------------------------------------------------------------
(* release_once_with_key: record_event_once inserts the event under the    *)
(* key of the project and its deletion, or finds it there ...              *)
ReleaseKey(r) == <<op[r].project, op[r].generation>>

RecordEventOnce(r) ==
    /\ op[r].pc = "event"
    /\ ledger' = IF ReleaseKey(r) \in released THEN ledger ELSE ledger - 1
    /\ released' = released \cup {ReleaseKey(r)}
    /\ Goto(r, "usage")
    /\ UNCHANGED <<project, counter, faults, unwritten, disturbed>>

(* ... and the counter is overwritten with the usage the rows show.        *)
ReadUsage(r) ==
    /\ op[r].pc = "usage"
    /\ op' = [op EXCEPT ![r].pc = "set", ![r].seen = Live(op[r].team)]
    /\ UNCHANGED <<project, counter, ledger, released, faults, unwritten, disturbed>>

SetCounter(r) ==
    /\ op[r].pc = "set"
    /\ counter' = [counter EXCEPT ![op[r].team] = op[r].seen]
    /\ Wrote(op[r].team, op[r].seen)
    /\ End(r)
    /\ UNCHANGED <<project, ledger, released, faults, unwritten>>

-------------------------------------------------------------------------------
(* The TTL, an eviction or a restart of the cache loses a counter.         *)
Expire(t) ==
    /\ counter[t] # Absent
    /\ faults < MaxFaults
    /\ faults' = faults + 1
    /\ counter' = [counter EXCEPT ![t] = Absent]
    /\ disturbed' = disturbed \ {t}
    /\ UNCHANGED <<project, op, ledger, released, unwritten>>

(* The sum of the deltas the rest of a handler writes, but for the         *)
(* idempotent ones, which a later request writes.                          *)
Owed(o) ==
    CASE o.pc = "confirm" -> IF o.kind = "transfer" THEN 0 ELSE 1
      [] o.pc \in {"adjust", "release"} -> -1
      [] OTHER -> 0

(* A crash, a client that goes away, or an error after the reservation     *)
(* that the handler answers without rolling back (a cache error of         *)
(* rollback is logged, a database error of commit is returned).            *)
Drop(r) ==
    /\ op[r].pc \notin {"idle", "seed_get", "seed_set", "consume"}
    /\ faults < MaxFaults
    /\ faults' = faults + 1
    /\ unwritten' = unwritten + Owed(op[r])
    /\ End(r)
    /\ UNCHANGED <<project, counter, ledger, released, disturbed>>

Next ==
    \/ \E r \in Requests, p \in Projects :
          \/ Restore(r, p)
          \/ Delete(r, p)
          \/ \E t \in Teams : Create(r, p, t) \/ Transfer(r, p, t)
    \/ \E r \in Requests :
          \/ SeedGet(r) \/ SeedSet(r) \/ Consume(r) \/ Refuse(r)
          \/ Tx(r) \/ TxFails(r) \/ Rollback(r)
          \/ Confirm(r) \/ Adjust(r) \/ ReleaseSource(r)
          \/ RecordEventOnce(r) \/ ReadUsage(r) \/ SetCounter(r)
          \/ Drop(r)
    \/ \E t \in Teams : Expire(t)

Spec == Init /\ [][Next]_vars

-------------------------------------------------------------------------------
(* Every value has its type; a step a request is at belongs to its kind,   *)
(* and a request to delete carries the generation of a tombstone.          *)
TypeOK ==
    /\ project \in [Projects -> Project]
    /\ counter \in [Teams -> Nat \cup {Absent}]
    /\ op \in [Requests -> Op \cup {Idle}]
    /\ \A r \in Requests : op[r] # Idle =>
          /\ (op[r].kind = "delete") <=> op[r].pc \in {"event", "usage", "set"}
          /\ op[r].kind = "delete" => op[r].generation > 0
          /\ op[r].pc \in {"adjust", "release"} => op[r].kind = "transfer"
    /\ ledger \in Int
    /\ released \subseteq Projects \X (1..MaxGenerations)
    /\ faults \in 0..MaxFaults
    /\ unwritten \in Int
    /\ disturbed \subseteq Teams

(* A counter covers the rows, the reservations and the projects leaving    *)
(* its team, however requests interleave, fail and are dropped.  The ways  *)
(* it can miss some are those that put the team in disturbed: a usage that *)
(* is stale when it is written, an increment or decrement of a counter     *)
(* that is not there, and a row moved after its request last read it.      *)
CounterCovers ==
    \A t \in Teams \ disturbed :
        counter[t] # Absent => counter[t] >= Charged(t)

(* A reservation granted on a counter that covers keeps the team, its      *)
(* other reservations included, within the limit of its plan.              *)
GrantedWithinLimit ==
    [][ \A t \in Teams :
          /\ t \notin disturbed' /\ Limit[t] >= 0
          /\ Reserved(t)' > Reserved(t)
          => Live(t)' + Reserved(t)' <= Limit[t] ]_vars

(* The tombstones whose release is not in the events.                      *)
Unreleased ==
    {k \in Projects \X (1..MaxGenerations) : k[2] <= project[k[1]].generation /\ k \notin released}

(* ... and has no request at it any more.                                  *)
Unattended ==
    {k \in Unreleased :
        ~ \E r \in Requests : op[r].pc = "event" /\ k = <<op[r].project, op[r].generation>>}

(* The requests that are still to write a delta to the events.             *)
Owing(delta) == {r \in Requests : Owed(op[r]) = delta}

LiveProjects == {p \in Projects : project[p].state = "live"}

(* The events add up to the live projects: those yet to be written by a    *)
(* running request, or lost with a dropped one, make up the difference     *)
(* with the unreleased tombstones.  Each deletion of a project, repeated   *)
(* or retried, is released once, and no deletion is taken for an earlier   *)
(* one: an unreleased tombstone has a request at it, or lost it.           *)
LedgerTracksRows ==
    /\ ledger + unwritten + Cardinality(Owing(1)) - Cardinality(Owing(-1))
         = Cardinality(LiveProjects) + Cardinality(Unreleased)
    /\ Cardinality(Unattended) <= faults

(* Stated by infra/quota/mod.rs:6-8, of a cache that was lost: once the    *)
(* counter is there again and no request is running, it has the value of   *)
(* the database.  Without requests that overlap or are dropped.            *)
ColdCacheConverges ==
    (\A r \in Requests : op[r] = Idle) =>
        \A t \in Teams : counter[t] \in {Absent, Live(t)}

===============================================================================
