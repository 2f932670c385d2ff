-------------------------- MODULE ProjectQuota_proofs --------------------------
(***************************************************************************)
(* The cached counter of a team covers its projects, its reservations and  *)
(* the projects that are leaving it, and no grant on a counter that covers *)
(* passes the limit; the quota events add up to the live projects.  For    *)
(* any teams, projects, limits and requests.                               *)
(*                                                                         *)
(* CounterCovers is inductive next to the types: a step changes at most    *)
(* one member of each of the three sets the counter covers, and the proof  *)
(* compares what it does to them with what it does to the counter.  The    *)
(* one strengthening is that a tombstone has a generation, which makes the *)
(* key of its release one.                                                 *)
(*                                                                         *)
(* The ledger needs two more: the request that creates a project has the   *)
(* row to itself, so that its transaction adds a project, and a key is     *)
(* released, or about to be, only after its deletion took place, so that   *)
(* the key of the next deletion is a new one.  Every step then changes the *)
(* sum of the deltas, the live projects and the unreleased keys by as much *)
(* on one side of the equation as on the other.                            *)
(***************************************************************************)
EXTENDS ProjectQuota, FiniteSetTheorems, TLAPS

(* What one row, or one request, adds to a team.                           *)
LiveIn(row, t) == row.state = "live" /\ row.team = t
Reserving(o, t) == o.pc \in {"tx", "rollback"} /\ o.team = t
LeavingFrom(o, t) == o.pc \in {"confirm", "adjust"} /\ o.kind = "transfer" /\ o.from = t

(* A request at work is at a step of its kind.                             *)
OpInv(o) ==
    o # Idle =>
        /\ (o.kind = "delete") <=> o.pc \in {"event", "usage", "set"}
        /\ o.kind = "delete" => o.generation > 0
        /\ o.pc \in {"adjust", "release"} => o.kind = "transfer"

TombstoneInv == \A p \in Projects : project[p].state = "deleted" => project[p].generation > 0

IInv == TypeOK /\ TombstoneInv /\ CounterCovers

-------------------------------------------------------------------------------
(* How the size of a finite set changes with one member.                   *)
LEMMA OneMember ==
    ASSUME NEW S, IsFiniteSet(S), NEW A \in SUBSET S, NEW B \in SUBSET S, NEW x,
           \A y \in S \ {x} : y \in B => y \in A
    PROVE  /\ Cardinality(A) \in Nat /\ Cardinality(B) \in Nat
           /\ Cardinality(B) <= Cardinality(A) + 1
           /\ (x \in B => x \in A) => Cardinality(B) <= Cardinality(A)
           /\ x \in A /\ x \notin B => Cardinality(B) <= Cardinality(A) - 1
  <1>1. IsFiniteSet(A) /\ IsFiniteSet(B)
    BY FS_Subset
  <1>2. Cardinality(A) \in Nat /\ Cardinality(B) \in Nat
    BY <1>1, FS_CardinalityType
  <1>3. Cardinality(B) <= Cardinality(A) + 1
    <2>1. B \in SUBSET (A \cup {x})
      OBVIOUS
    <2>2. IsFiniteSet(A \cup {x}) /\ Cardinality(A \cup {x}) \in {Cardinality(A), Cardinality(A) + 1}
      BY <1>1, FS_AddElement
    <2>3. Cardinality(B) <= Cardinality(A \cup {x})
      BY <2>1, <2>2, FS_Subset
    <2> QED BY <1>2, <2>2, <2>3
  <1>4. ASSUME x \in B => x \in A
        PROVE  Cardinality(B) <= Cardinality(A)
    <2>1. B \in SUBSET A
      BY <1>4
    <2> QED BY <1>1, <2>1, FS_Subset
  <1>5. ASSUME x \in A, x \notin B
        PROVE  Cardinality(B) <= Cardinality(A) - 1
    <2>1. B \in SUBSET (A \ {x})
      BY <1>5
    <2>2. IsFiniteSet(A \ {x}) /\ Cardinality(A \ {x}) = Cardinality(A) - 1
      BY <1>1, <1>5, FS_RemoveElement
    <2> QED BY <2>1, <2>2, FS_Subset
  <1> QED BY <1>2, <1>3, <1>4, <1>5

(* What a step of request r does to the counts of a team.                  *)
LEMMA OpCounts ==
    ASSUME NEW t, NEW r \in Requests, \A s \in Requests \ {r} : op'[s] = op[s]
    PROVE  /\ Reserved(t) \in Nat /\ Reserved(t)' \in Nat
           /\ Reserved(t)' <= Reserved(t) + 1
           /\ (Reserving(op'[r], t) => Reserving(op[r], t)) => Reserved(t)' <= Reserved(t)
           /\ Reserving(op[r], t) /\ ~Reserving(op'[r], t) => Reserved(t)' <= Reserved(t) - 1
           /\ Leaving(t) \in Nat /\ Leaving(t)' \in Nat
           /\ Leaving(t)' <= Leaving(t) + 1
           /\ (LeavingFrom(op'[r], t) => LeavingFrom(op[r], t)) => Leaving(t)' <= Leaving(t)
           /\ LeavingFrom(op[r], t) /\ ~LeavingFrom(op'[r], t) => Leaving(t)' <= Leaving(t) - 1
  <1>1. IsFiniteSet(Requests)
    BY QuotaAssumption
  <1> DEFINE A == {s \in Requests : Reserving(op[s], t)}
             B == {s \in Requests : Reserving(op'[s], t)}
             C == {s \in Requests : LeavingFrom(op[s], t)}
             D == {s \in Requests : LeavingFrom(op'[s], t)}
  <1>2. Reserved(t) = Cardinality(A) /\ Reserved(t)' = Cardinality(B)
    BY DEF Reserved, Reserving
  <1>3. Leaving(t) = Cardinality(C) /\ Leaving(t)' = Cardinality(D)
    BY DEF Leaving, LeavingFrom
  <1>4. /\ r \in A <=> Reserving(op[r], t)
        /\ r \in B <=> Reserving(op'[r], t)
        /\ r \in C <=> LeavingFrom(op[r], t)
        /\ r \in D <=> LeavingFrom(op'[r], t)
    OBVIOUS
  <1>5. \A s \in Requests \ {r} : (s \in B => s \in A) /\ (s \in D => s \in C)
    OBVIOUS
  <1>6. A \in SUBSET Requests /\ B \in SUBSET Requests /\ C \in SUBSET Requests /\ D \in SUBSET Requests
    OBVIOUS
  <1> HIDE DEF A, B, C, D
  <1>7. /\ Cardinality(A) \in Nat /\ Cardinality(B) \in Nat
        /\ Cardinality(B) <= Cardinality(A) + 1
        /\ (r \in B => r \in A) => Cardinality(B) <= Cardinality(A)
        /\ r \in A /\ r \notin B => Cardinality(B) <= Cardinality(A) - 1
    BY <1>1, <1>5, <1>6, OneMember
  <1>8. /\ Cardinality(C) \in Nat /\ Cardinality(D) \in Nat
        /\ Cardinality(D) <= Cardinality(C) + 1
        /\ (r \in D => r \in C) => Cardinality(D) <= Cardinality(C)
        /\ r \in C /\ r \notin D => Cardinality(D) <= Cardinality(C) - 1
    BY <1>1, <1>5, <1>6, OneMember
  <1> QED BY <1>2, <1>3, <1>4, <1>7, <1>8

(* What a transaction on project p does to them.                           *)
LEMMA LiveCounts ==
    ASSUME NEW t, NEW p \in Projects, \A q \in Projects \ {p} : project'[q] = project[q]
    PROVE  /\ Live(t) \in Nat /\ Live(t)' \in Nat
           /\ Live(t)' <= Live(t) + 1
           /\ (LiveIn(project'[p], t) => LiveIn(project[p], t)) => Live(t)' <= Live(t)
           /\ LiveIn(project[p], t) /\ ~LiveIn(project'[p], t) => Live(t)' <= Live(t) - 1
  <1>1. IsFiniteSet(Projects)
    BY QuotaAssumption
  <1> DEFINE A == {q \in Projects : LiveIn(project[q], t)}
             B == {q \in Projects : LiveIn(project'[q], t)}
  <1>2. Live(t) = Cardinality(A) /\ Live(t)' = Cardinality(B)
    BY DEF Live, LiveIn
  <1>3. (p \in A <=> LiveIn(project[p], t)) /\ (p \in B <=> LiveIn(project'[p], t))
    OBVIOUS
  <1>4. A \in SUBSET Projects /\ B \in SUBSET Projects /\ \A q \in Projects \ {p} : q \in B => q \in A
    OBVIOUS
  <1> HIDE DEF A, B
  <1>5. /\ Cardinality(A) \in Nat /\ Cardinality(B) \in Nat
        /\ Cardinality(B) <= Cardinality(A) + 1
        /\ (p \in B => p \in A) => Cardinality(B) <= Cardinality(A)
        /\ p \in A /\ p \notin B => Cardinality(B) <= Cardinality(A) - 1
    BY <1>1, <1>4, OneMember
  <1> QED BY <1>2, <1>3, <1>5

(* The counts are natural numbers, and stay as they are with what they     *)
(* count.                                                                  *)
LEMMA CountsNat ==
    ASSUME NEW t
    PROVE  Live(t) \in Nat /\ Reserved(t) \in Nat /\ Leaving(t) \in Nat /\ Charged(t) \in Nat
  <1> DEFINE A == {p \in Projects : LiveIn(project[p], t)}
             B == {r \in Requests : Reserving(op[r], t)}
             C == {r \in Requests : LeavingFrom(op[r], t)}
  <1>1. IsFiniteSet(Projects) /\ IsFiniteSet(Requests)
    BY QuotaAssumption
  <1>2. A \in SUBSET Projects /\ B \in SUBSET Requests /\ C \in SUBSET Requests
    OBVIOUS
  <1>3. Live(t) = Cardinality(A) /\ Reserved(t) = Cardinality(B) /\ Leaving(t) = Cardinality(C)
    BY DEF Live, LiveIn, Reserved, Reserving, Leaving, LeavingFrom
  <1> HIDE DEF A, B, C
  <1>4. IsFiniteSet(A) /\ IsFiniteSet(B) /\ IsFiniteSet(C)
    BY <1>1, <1>2, FS_Subset
  <1>5. Cardinality(A) \in Nat /\ Cardinality(B) \in Nat /\ Cardinality(C) \in Nat
    BY <1>4, FS_CardinalityType
  <1> QED BY <1>3, <1>5 DEF Charged

-------------------------------------------------------------------------------
(* What a step does to its request, and leaves of the others.              *)
Others(r) == \A s \in Requests \ {r} : op'[s] = op[s]

OpsOK == op \in [Requests -> Op \cup {Idle}] /\ \A r \in Requests : OpInv(op[r])

NoGrant == \A t \in Teams : Reserved(t)' <= Reserved(t)

LEMMA TypeParts ==
    TypeOK <=> /\ OpsOK
               /\ project \in [Projects -> Project]
               /\ counter \in [Teams -> Nat \cup {Absent}]
               /\ ledger \in Int /\ unwritten \in Int
               /\ released \subseteq Projects \X (1..MaxGenerations)
               /\ faults \in 0..MaxFaults
               /\ disturbed \subseteq Teams
  BY DEF TypeOK, OpsOK, OpInv

LEMMA BusyOp ==
    ASSUME OpsOK, NEW r \in Requests, op[r].pc # "idle"
    PROVE  op[r] \in Op /\ op[r] # Idle /\ OpInv(op[r])
  BY DEF OpsOK, Idle

LEMMA SetOp ==
    ASSUME OpsOK, NEW r \in Requests, NEW o \in Op \cup {Idle}, OpInv(o), op' = [op EXCEPT ![r] = o]
    PROVE  OpsOK' /\ Others(r) /\ op'[r] = o
  <1>1. op' \in [Requests -> Op \cup {Idle}] /\ op'[r] = o /\ \A s \in Requests \ {r} : op'[s] = op[s]
    BY DEF OpsOK
  <1>2. \A s \in Requests : OpInv(op'[s])
    BY <1>1 DEF OpsOK
  <1> QED BY <1>1, <1>2 DEF OpsOK, Others, OpInv

(* The next step of a request.                                             *)
LEMMA GotoOp ==
    ASSUME OpsOK, NEW r \in Requests, op[r].pc # "idle", NEW pc \in Steps, Goto(r, pc),
           (op[r].kind = "delete") <=> pc \in {"event", "usage", "set"},
           pc \in {"adjust", "release"} => op[r].kind = "transfer"
    PROVE  /\ OpsOK' /\ Others(r) /\ op'[r].pc = pc
           /\ op'[r].kind = op[r].kind /\ op'[r].team = op[r].team /\ op'[r].from = op[r].from
  <1> DEFINE o == [op[r] EXCEPT !.pc = pc]
  <1>1. op[r] \in Op /\ OpInv(op[r]) /\ op[r] # Idle
    BY BusyOp
  <1>2. /\ o \in Op /\ o.pc = pc /\ o.kind = op[r].kind /\ o.team = op[r].team /\ o.from = op[r].from
        /\ o.generation = op[r].generation
    BY <1>1 DEF Op
  <1>3. op' = [op EXCEPT ![r] = o]
    BY DEF Goto, OpsOK
  <1> HIDE DEF o
  <1>4. OpInv(o)
    BY <1>1, <1>2 DEF OpInv
  <1> QED BY <1>2, <1>3, <1>4, SetOp

LEMMA EndOp ==
    ASSUME OpsOK, NEW r \in Requests, End(r)
    PROVE  OpsOK' /\ Others(r) /\ op'[r] = Idle
  BY SetOp DEF End, OpInv

(* A request that has ended, or has not started, charges nothing.          *)
LEMMA IdleCharges ==
    ASSUME NEW t
    PROVE  ~Reserving(Idle, t) /\ ~LeavingFrom(Idle, t)
  BY DEF Idle, Reserving, LeavingFrom

(* A step that takes nothing from a counter and charges nothing to it.     *)
LEMMA QuietStep ==
    ASSUME IInv, NEW r \in Requests, Others(r), OpsOK',
           \A t \in Teams : Reserving(op'[r], t) => Reserving(op[r], t),
           \A t \in Teams : LeavingFrom(op'[r], t) => LeavingFrom(op[r], t),
           UNCHANGED <<project, counter, disturbed>>,
           ledger' \in Int, unwritten' \in Int,
           released' \subseteq Projects \X (1..MaxGenerations), faults' \in 0..MaxFaults
    PROVE  IInv' /\ NoGrant
  <1>1. TypeOK'
    BY TypeParts DEF IInv, TypeOK, OpsOK, OpInv
  <1>2. TombstoneInv'
    BY DEF IInv, TombstoneInv
  <1>3. ASSUME NEW t \in Teams
        PROVE  Charged(t)' <= Charged(t) /\ Reserved(t)' <= Reserved(t)
    <2>1. Reserved(t)' <= Reserved(t) /\ Leaving(t)' <= Leaving(t)
      BY OpCounts DEF Others
    <2>2. Live(t)' = Live(t)
      BY DEF Live
    <2>3. Live(t) \in Nat /\ Reserved(t) \in Nat /\ Leaving(t) \in Nat
      BY CountsNat
    <2>4. Reserved(t)' \in Nat /\ Leaving(t)' \in Nat
      BY OpCounts DEF Others
    <2> QED BY <2>1, <2>2, <2>3, <2>4 DEF Charged
  <1>4. CounterCovers'
    <2> SUFFICES ASSUME NEW t \in Teams \ disturbed, counter[t] # Absent
                 PROVE  counter[t] >= Charged(t)'
      BY DEF CounterCovers
    <2>1. counter[t] >= Charged(t) /\ counter[t] \in Nat
      BY DEF IInv, CounterCovers, TypeOK
    <2>2. Charged(t) \in Nat
      BY CountsNat
    <2>3. Charged(t)' \in Nat
      <3>1. Reserved(t)' \in Nat /\ Leaving(t)' \in Nat
        BY OpCounts DEF Others
      <3>2. Live(t)' = Live(t) /\ Live(t) \in Nat
        BY CountsNat DEF Live
      <3> QED BY <3>1, <3>2 DEF Charged
    <2> QED BY <1>3, <2>1, <2>2, <2>3
  <1> QED BY <1>1, <1>2, <1>3, <1>4 DEF IInv, NoGrant

(* A step of one request that moves one team's counter.                    *)
LEMMA CounterStep ==
    ASSUME IInv, NEW r \in Requests, Others(r), OpsOK', NEW team \in Teams,
           NEW c \in Nat \cup {Absent}, counter' = [counter EXCEPT ![team] = c],
           \A t \in Teams \ {team} : /\ Reserving(op'[r], t) => Reserving(op[r], t)
                                     /\ LeavingFrom(op'[r], t) => LeavingFrom(op[r], t),
           \A t \in Teams \ {team} : t \notin disturbed' => t \notin disturbed,
           team \notin disturbed' /\ c # Absent => c >= Charged(team)',
           disturbed' \subseteq Teams,
           UNCHANGED <<project, ledger, unwritten, released, faults>>
    PROVE  IInv'
  <1>1. TypeOK'
    BY TypeParts DEF IInv, TypeOK, OpsOK, OpInv
  <1>2. TombstoneInv'
    BY DEF IInv, TombstoneInv
  <1>3. CounterCovers'
    <2> SUFFICES ASSUME NEW t \in Teams, t \notin disturbed', counter'[t] # Absent
                 PROVE  counter'[t] >= Charged(t)'
      BY DEF CounterCovers
    <2>1. CASE t = team
      BY <2>1 DEF IInv, TypeOK
    <2>2. CASE t # team
      <3>1. counter'[t] = counter[t] /\ counter[t] \in Nat /\ t \notin disturbed
        BY <2>2 DEF IInv, TypeOK
      <3>2. counter[t] >= Charged(t)
        BY <3>1 DEF IInv, CounterCovers
      <3>3. Reserved(t)' <= Reserved(t) /\ Leaving(t)' <= Leaving(t)
        BY <2>2, OpCounts DEF Others
      <3>4. Reserved(t)' \in Nat /\ Leaving(t)' \in Nat
        BY OpCounts DEF Others
      <3>5. Live(t) \in Nat /\ Reserved(t) \in Nat /\ Leaving(t) \in Nat /\ Live(t)' = Live(t)
        BY CountsNat DEF Live
      <3> QED BY <3>1, <3>2, <3>3, <3>4, <3>5 DEF Charged
    <2> QED BY <2>1, <2>2
  <1> QED BY <1>1, <1>2, <1>3 DEF IInv

-------------------------------------------------------------------------------
(* The handlers, one step at a time.                                       *)

LEMMA Facts ==
    ASSUME IInv
    PROVE  /\ OpsOK /\ project \in [Projects -> Project]
           /\ counter \in [Teams -> Nat \cup {Absent}]
           /\ ledger \in Int /\ unwritten \in Int
           /\ released \subseteq Projects \X (1..MaxGenerations)
           /\ faults \in 0..MaxFaults /\ disturbed \subseteq Teams
           /\ Absent \notin Int
  BY TypeParts, QuotaAssumption DEF IInv

LEMMA Working ==
    ASSUME IInv, NEW r \in Requests, op[r].pc # "idle"
    PROVE  /\ op[r] \in Op /\ op[r] # Idle /\ OpInv(op[r])
           /\ op[r].team \in Teams /\ op[r].from \in Teams /\ op[r].project \in Projects
           /\ op[r].kind \in Kinds /\ op[r].seen \in Nat /\ op[r].generation \in 0..MaxGenerations
  BY Facts, BusyOp DEF Op

(* The guards of a request that starts.                                    *)
LEMMA StartStep ==
    ASSUME IInv, NEW r \in Requests, NEW kind \in {"create", "restore", "transfer"},
           NEW p \in Projects, NEW t \in Teams, Start(r, kind, p, t, "seed_get")
    PROVE  IInv' /\ NoGrant
  <1> DEFINE o == [kind |-> kind, pc |-> "seed_get", project |-> p, team |-> t,
                   from |-> project[p].team, generation |-> 0, seen |-> 0]
  <1>1. project[p].team \in Teams
    BY Facts DEF Project
  <1>2. 0 \in 0..MaxGenerations
    BY QuotaAssumption
  <1>3. o \in Op /\ o.pc = "seed_get" /\ o.kind = kind
    BY <1>1, <1>2 DEF Op, Kinds, Steps
  <1>4. op' = [op EXCEPT ![r] = o]
    BY DEF Start
  <1> HIDE DEF o
  <1>5. OpInv(o)
    BY <1>3 DEF OpInv
  <1>6. OpsOK' /\ Others(r) /\ op'[r] = o
    BY <1>3, <1>4, <1>5, Facts, SetOp
  <1>7. ~Reserving(o, t) /\ \A u \in Teams : ~Reserving(o, u) /\ ~LeavingFrom(o, u)
    BY <1>3 DEF Reserving, LeavingFrom
  <1>8. /\ UNCHANGED <<project, counter, disturbed>>
        /\ ledger' \in Int /\ unwritten' \in Int
        /\ released' \subseteq Projects \X (1..MaxGenerations) /\ faults' \in 0..MaxFaults
    BY Facts DEF Start
  <1> QED BY <1>6, <1>7, <1>8, QuietStep

(* A step that goes on without charging more.                              *)
LEMMA GotoStep ==
    ASSUME IInv, NEW r \in Requests, op[r].pc # "idle", NEW pc \in Steps, Goto(r, pc),
           (op[r].kind = "delete") <=> pc \in {"event", "usage", "set"},
           pc \in {"adjust", "release"} => op[r].kind = "transfer",
           pc \in {"tx", "rollback"} => op[r].pc \in {"tx", "rollback"},
           pc \in {"confirm", "adjust"} => op[r].pc \in {"confirm", "adjust"},
           UNCHANGED <<project, counter, disturbed>>,
           ledger' \in Int, unwritten' \in Int,
           released' \subseteq Projects \X (1..MaxGenerations), faults' \in 0..MaxFaults
    PROVE  IInv' /\ NoGrant
  <1>1. /\ OpsOK' /\ Others(r) /\ op'[r].pc = pc
        /\ op'[r].kind = op[r].kind /\ op'[r].team = op[r].team /\ op'[r].from = op[r].from
    BY Facts, GotoOp
  <1>2. \A t \in Teams : /\ Reserving(op'[r], t) => Reserving(op[r], t)
                         /\ LeavingFrom(op'[r], t) => LeavingFrom(op[r], t)
    BY <1>1 DEF Reserving, LeavingFrom
  <1> QED BY <1>1, <1>2, QuietStep

(* A request that ends gives up what it charges.                           *)
LEMMA EndStep ==
    ASSUME IInv, NEW r \in Requests, End(r), UNCHANGED <<project, counter, disturbed>>,
           ledger' \in Int, unwritten' \in Int,
           released' \subseteq Projects \X (1..MaxGenerations), faults' \in 0..MaxFaults
    PROVE  IInv' /\ NoGrant
  <1>1. OpsOK' /\ Others(r) /\ op'[r] = Idle
    BY Facts, EndOp
  <1> QED BY <1>1, IdleCharges, QuietStep

(* The steps of the cache and of the events that move no counter.          *)
LEMMA PlainSteps ==
    ASSUME IInv, NEW r \in Requests,
           \/ Refuse(r) \/ TxFails(r) \/ Confirm(r)
           \/ ReleaseSource(r) \/ RecordEventOnce(r) \/ Drop(r)
    PROVE  IInv' /\ NoGrant
  <1>1. CASE Refuse(r)
    BY <1>1, Facts, EndStep DEF Refuse
  <1>2. CASE TxFails(r)
    <2>1. op[r].pc = "tx" /\ op[r].kind # "delete"
      BY <1>2, Working DEF TxFails, OpInv
    <2> QED BY <1>2, <2>1, Facts, GotoStep DEF TxFails, Steps
  <1>3. CASE Confirm(r)
    <2>1. op[r].pc = "confirm" /\ op[r].kind # "delete" /\ ledger' \in Int
      BY <1>3, Working, Facts DEF Confirm, OpInv
    <2>2. CASE op[r].kind = "transfer"
      BY <1>3, <2>1, <2>2, Facts, GotoStep DEF Confirm, Steps
    <2>3. CASE op[r].kind # "transfer"
      BY <1>3, <2>1, <2>3, Facts, EndStep DEF Confirm
    <2> QED BY <2>2, <2>3
  <1>4. CASE ReleaseSource(r)
    <2>1. ledger' \in Int
      BY <1>4, Facts DEF ReleaseSource
    <2> QED BY <1>4, <2>1, Facts, EndStep DEF ReleaseSource
  <1>5. CASE RecordEventOnce(r)
    <2>1. op[r].pc = "event" /\ op[r].kind = "delete" /\ op[r].generation > 0
      BY <1>5, Working DEF RecordEventOnce, OpInv
    <2>2. ReleaseKey(r) \in Projects \X (1..MaxGenerations)
      <3>1. op[r].project \in Projects /\ op[r].generation \in 1..MaxGenerations
        BY <2>1, Working, QuotaAssumption
      <3> QED BY <3>1 DEF ReleaseKey
    <2>3. ledger' \in Int /\ released' \subseteq Projects \X (1..MaxGenerations)
      BY <1>5, <2>2, Facts DEF RecordEventOnce
    <2> QED BY <1>5, <2>1, <2>3, Facts, GotoStep DEF RecordEventOnce, Steps
  <1>6. CASE Drop(r)
    <2>1. Owed(op[r]) \in Int
      <3>1. op[r].pc \in Steps
        BY <1>6, Working DEF Drop, Op
      <3> QED BY <3>1 DEF Owed, Steps
    <2>2. unwritten' \in Int /\ faults' \in 0..MaxFaults
      BY <1>6, <2>1, Facts, QuotaAssumption DEF Drop
    <2> QED BY <1>6, <2>2, Facts, EndStep DEF Drop
  <1> QED BY <1>1, <1>2, <1>3, <1>4, <1>5, <1>6

(* Two steps read the usage of the rows for a later write.                 *)
LEMMA ReadSteps ==
    ASSUME IInv, NEW r \in Requests, SeedGet(r) \/ ReadUsage(r)
    PROVE  IInv' /\ NoGrant
  <1>1. /\ op[r].pc \in {"seed_get", "usage"}
        /\ UNCHANGED <<project, counter, ledger, released, faults, unwritten, disturbed>>
    BY DEF SeedGet, ReadUsage
  <1>2. CASE Goto(r, "consume") /\ SeedGet(r)
    <2>1. op[r].pc = "seed_get" /\ op[r].kind # "delete"
      BY <1>2, Working DEF SeedGet, OpInv
    <2> QED BY <1>1, <1>2, <2>1, Facts, GotoStep DEF Steps
  <1>3. ASSUME NEW pc \in {"seed_set", "set"}, pc = "set" <=> op[r].kind = "delete",
               op' = [op EXCEPT ![r].pc = pc, ![r].seen = Live(op[r].team)]
        PROVE  IInv' /\ NoGrant
    <2> DEFINE o == [op[r] EXCEPT !.pc = pc, !.seen = Live(op[r].team)]
    <2>1. op[r] \in Op /\ OpInv(op[r]) /\ op[r] # Idle
      BY <1>1, Working
    <2>2. Live(op[r].team) \in Nat
      BY CountsNat
    <2>3. o \in Op /\ o.pc = pc /\ o.kind = op[r].kind /\ o.generation = op[r].generation
      BY <2>1, <2>2 DEF Op, Steps
    <2>4. op' = [op EXCEPT ![r] = o]
      BY <1>3, Facts DEF OpsOK
    <2> HIDE DEF o
    <2>5. OpInv(o)
      BY <1>3, <2>1, <2>3 DEF OpInv
    <2>6. OpsOK' /\ Others(r) /\ op'[r] = o
      BY <2>3, <2>4, <2>5, Facts, SetOp
    <2>7. \A t \in Teams : ~Reserving(o, t) /\ ~LeavingFrom(o, t)
      BY <2>3 DEF Reserving, LeavingFrom
    <2> QED BY <1>1, <2>6, <2>7, Facts, QuietStep
  <1>4. CASE SeedGet(r) /\ ~Goto(r, "consume")
    <2>1. op[r].kind # "delete"
      BY <1>4, Working DEF SeedGet, OpInv
    <2> QED BY <1>3, <1>4, <2>1 DEF SeedGet
  <1>5. CASE ReadUsage(r)
    <2>1. op[r].kind = "delete"
      BY <1>5, Working DEF ReadUsage, OpInv
    <2> QED BY <1>3, <1>5, <2>1 DEF ReadUsage
  <1> QED BY <1>2, <1>4, <1>5

-------------------------------------------------------------------------------
(* The steps that move a counter.                                          *)

(* An absolute value is marked unless it covers the team.                  *)
LEMMA SeedSetStep ==
    ASSUME IInv, NEW r \in Requests, SeedSet(r)
    PROVE  IInv' /\ NoGrant
  <1>0. PICK team \in Teams : team = op[r].team
    BY Working DEF SeedSet
  <1>1. op[r].pc = "seed_set" /\ op[r].kind # "delete" /\ team \in Teams /\ op[r].seen \in Nat
    BY <1>0, Working DEF SeedSet, OpInv
  <1>2. CASE counter[team] # Absent
    BY <1>0, <1>1, <1>2, Facts, GotoStep DEF SeedSet, Steps
  <1>3. CASE counter[team] = Absent
    <2>1. /\ OpsOK' /\ Others(r) /\ op'[r].pc = "consume"
          /\ op'[r].kind = op[r].kind /\ op'[r].team = op[r].team /\ op'[r].from = op[r].from
      BY <1>1, Facts, GotoOp DEF SeedSet, Steps
    <2>2. \A t \in Teams : ~Reserving(op'[r], t) /\ ~LeavingFrom(op'[r], t)
      BY <2>1 DEF Reserving, LeavingFrom
    <2>3. /\ counter' = [counter EXCEPT ![team] = op[r].seen]
          /\ Wrote(team, op[r].seen)
          /\ UNCHANGED <<project, ledger, released, faults, unwritten>>
      BY <1>0, <1>3 DEF SeedSet
    <2>4. Charged(team)' <= Charged(team) /\ Charged(team) \in Nat /\ Charged(team)' \in Nat
      <3>1. Reserved(team)' <= Reserved(team) /\ Leaving(team)' <= Leaving(team)
        BY <1>1, <2>1, <2>2, OpCounts DEF Others
      <3>2. Reserved(team)' \in Nat /\ Leaving(team)' \in Nat
        BY <2>1, OpCounts DEF Others
      <3>3. Live(team)' = Live(team)
        BY <2>3 DEF Live
      <3> QED BY <3>1, <3>2, <3>3, CountsNat DEF Charged
    <2>5. /\ team \notin disturbed' => op[r].seen >= Charged(team)'
          /\ disturbed' \subseteq Teams
          /\ \A t \in Teams \ {team} : t \notin disturbed' => t \notin disturbed
      BY <1>1, <2>3, <2>4, Facts DEF Wrote
    <2>6. IInv'
      BY <1>1, <2>1, <2>2, <2>3, <2>5, CounterStep
    <2>7. NoGrant
      BY <2>1, <2>2, OpCounts DEF NoGrant, Others
    <2> QED BY <2>6, <2>7
  <1> QED BY <1>2, <1>3

LEMMA SetCounterStep ==
    ASSUME IInv, NEW r \in Requests, SetCounter(r)
    PROVE  IInv' /\ NoGrant
  <1>0. PICK team \in Teams : team = op[r].team
    BY Working DEF SetCounter
  <1>1. op[r].pc = "set" /\ team \in Teams /\ op[r].seen \in Nat
    BY <1>0, Working DEF SetCounter
  <1>2. OpsOK' /\ Others(r) /\ op'[r] = Idle
    BY Facts, EndOp DEF SetCounter
  <1>3. \A t \in Teams : ~Reserving(op'[r], t) /\ ~LeavingFrom(op'[r], t)
    BY <1>2, IdleCharges
  <1>4. /\ counter' = [counter EXCEPT ![team] = op[r].seen]
        /\ Wrote(team, op[r].seen)
        /\ UNCHANGED <<project, ledger, released, faults, unwritten>>
    BY <1>0 DEF SetCounter
  <1>5. Charged(team)' <= Charged(team) /\ Charged(team) \in Nat /\ Charged(team)' \in Nat
    <2>1. Reserved(team)' <= Reserved(team) /\ Leaving(team)' <= Leaving(team)
      BY <1>1, <1>2, <1>3, OpCounts DEF Others
    <2>2. Reserved(team)' \in Nat /\ Leaving(team)' \in Nat
      BY <1>2, OpCounts DEF Others
    <2>3. Live(team)' = Live(team)
      BY <1>4 DEF Live
    <2> QED BY <2>1, <2>2, <2>3, CountsNat DEF Charged
  <1>6. /\ team \notin disturbed' => op[r].seen >= Charged(team)'
        /\ disturbed' \subseteq Teams
        /\ \A t \in Teams \ {team} : t \notin disturbed' => t \notin disturbed
    BY <1>1, <1>4, <1>5, Facts DEF Wrote
  <1>7. IInv'
    BY <1>1, <1>2, <1>3, <1>4, <1>6, CounterStep
  <1>8. NoGrant
    BY <1>2, <1>3, OpCounts DEF NoGrant, Others
  <1> QED BY <1>7, <1>8

(* A reservation: what it adds to the charges it adds to the counter, and  *)
(* the check was made of the counter it raises.                            *)
Granted ==
    \A t \in Teams :
        /\ t \notin disturbed' /\ Limit[t] >= 0
        /\ Reserved(t)' > Reserved(t)
        => Live(t)' + Reserved(t)' <= Limit[t]

(* A step of one request that reserves nothing.                            *)
LEMMA NothingGranted ==
    ASSUME NEW r \in Requests, Others(r), NoGrant
    PROVE  Granted
  BY OpCounts DEF NoGrant, Granted, Others

LEMMA ConsumeStep ==
    ASSUME IInv, NEW r \in Requests, Consume(r)
    PROVE  IInv' /\ Granted
  <1>0. PICK team \in Teams : team = op[r].team
    BY Working DEF Consume
  <1> DEFINE value == Value(counter[team])
  <1>1. op[r].pc = "consume" /\ op[r].kind # "delete" /\ team \in Teams
    BY <1>0, Working DEF Consume, OpInv
  <1>2. value \in Nat /\ (counter[team] # Absent => value = counter[team])
        /\ (counter[team] = Absent => value = 0)
    BY <1>1, Facts DEF Value
  <1>3. CASE Limit[team] >= 0 /\ value + 1 > Limit[team]
    <2>1. IInv' /\ NoGrant
      BY <1>0, <1>3, Facts, EndStep DEF Consume
    <2>2. OpsOK' /\ Others(r)
      BY <1>0, <1>3, Facts, EndOp DEF Consume
    <2> QED BY <2>1, <2>2, NothingGranted
  <1>4. CASE ~(Limit[team] >= 0 /\ value + 1 > Limit[team])
    <2>1. /\ OpsOK' /\ Others(r) /\ op'[r].pc = "tx"
          /\ op'[r].kind = op[r].kind /\ op'[r].team = op[r].team /\ op'[r].from = op[r].from
      BY <1>0, <1>1, <1>4, Facts, GotoOp DEF Consume, Steps
    <2>2. /\ counter' = [counter EXCEPT ![team] = value + 1]
          /\ IF counter[team] = Absent THEN Wrote(team, 0) ELSE UNCHANGED disturbed
          /\ UNCHANGED <<project, ledger, released, faults, unwritten>>
      BY <1>0, <1>1, <1>4, Facts DEF Consume
    <2>3. \A t \in Teams : /\ ~LeavingFrom(op'[r], t)
                           /\ t # team => ~Reserving(op'[r], t)
      BY <1>0, <2>1 DEF Reserving, LeavingFrom
    <2>4. /\ Reserved(team)' <= Reserved(team) + 1 /\ Leaving(team)' <= Leaving(team)
          /\ Reserved(team)' \in Nat /\ Leaving(team)' \in Nat
          /\ Live(team)' = Live(team)
          /\ Live(team) \in Nat /\ Reserved(team) \in Nat /\ Leaving(team) \in Nat
      <3>1. Reserved(team)' <= Reserved(team) + 1 /\ Reserved(team)' \in Nat /\ Leaving(team)' \in Nat
        BY <2>1, OpCounts DEF Others
      <3>2. Leaving(team)' <= Leaving(team)
        BY <1>1, <2>1, <2>3, OpCounts DEF Others
      <3>3. Live(team)' = Live(team)
        BY <2>2 DEF Live
      <3> QED BY <3>1, <3>2, <3>3, CountsNat
    <2>5. team \notin disturbed' => value >= Charged(team)
      <3>1. CASE counter[team] = Absent
        BY <1>1, <1>2, <2>2, <2>4, <3>1 DEF Wrote, Charged
      <3>2. CASE counter[team] # Absent
        <4>1. team \notin disturbed => counter[team] >= Charged(team)
          BY <1>1, <3>2 DEF IInv, CounterCovers
        <4> QED BY <1>2, <2>2, <3>2, <4>1
      <3> QED BY <3>1, <3>2
    <2>6. /\ Charged(team) = Live(team) + Reserved(team) + Leaving(team)
          /\ Charged(team)' = Live(team)' + Reserved(team)' + Leaving(team)'
      BY DEF Charged
    <2>7. team \notin disturbed' => value + 1 >= Charged(team)'
      BY <1>2, <2>4, <2>5, <2>6
    <2>8. /\ disturbed' \subseteq Teams
          /\ \A t \in Teams \ {team} : t \notin disturbed' => t \notin disturbed
      BY <1>1, <2>2, Facts DEF Wrote
    <2>9. value + 1 \in Nat \cup {Absent}
      BY <1>2
    <2>10. IInv'
      <3> HIDE DEF value
      <3> QED BY <1>1, <2>1, <2>2, <2>3, <2>7, <2>8, <2>9, CounterStep
    <2>11. ASSUME NEW t \in Teams, t # team
           PROVE  ~(Reserved(t)' > Reserved(t))
      <3>1. Reserved(t)' <= Reserved(t) /\ Reserved(t)' \in Nat /\ Reserved(t) \in Nat
        BY <2>1, <2>3, <2>11, OpCounts DEF Others
      <3> QED BY <3>1
    <2>12. team \notin disturbed' /\ Limit[team] >= 0 => Live(team)' + Reserved(team)' <= Limit[team]
      <3>1. Limit[team] \in Int
        BY <1>1, QuotaAssumption
      <3> QED BY <1>2, <1>4, <2>4, <2>5, <2>6, <3>1
    <2> QED BY <2>10, <2>11, <2>12 DEF Granted
  <1> QED BY <1>3, <1>4

(* A decrement takes away what the request gives up.                       *)
LEMMA DecrementStep ==
    ASSUME IInv, NEW r \in Requests, NEW team \in Teams, Decrement(team), Others(r), OpsOK',
           \A t \in Teams : /\ Reserving(op'[r], t) => Reserving(op[r], t)
                            /\ LeavingFrom(op'[r], t) => LeavingFrom(op[r], t),
           \/ Reserving(op[r], team) /\ ~Reserving(op'[r], team)
           \/ LeavingFrom(op[r], team) /\ ~LeavingFrom(op'[r], team),
           UNCHANGED <<project, ledger, unwritten, released, faults>>
    PROVE  IInv' /\ NoGrant
  <1> DEFINE c == IF Value(counter[team]) = 0 THEN 0 ELSE counter[team] - 1
  <1>1. \/ counter[team] = Absent /\ c = 0
        \/ counter[team] \in Nat /\ counter[team] # Absent /\ c \in Nat /\ c >= counter[team] - 1
    BY Facts DEF Value
  <1>2. counter' = [counter EXCEPT ![team] = c]
    BY Facts DEF Decrement
  <1>3. /\ disturbed \subseteq disturbed' /\ disturbed' \subseteq Teams
        /\ counter[team] = Absent /\ Charged(team) > 0 => team \in disturbed'
    BY Facts DEF Decrement
  <1>4. /\ Reserved(team)' <= Reserved(team) /\ Leaving(team)' <= Leaving(team)
        /\ Reserved(team)' <= Reserved(team) - 1 \/ Leaving(team)' <= Leaving(team) - 1
        /\ Reserved(team)' \in Nat /\ Leaving(team)' \in Nat
    BY OpCounts DEF Others
  <1>5. /\ Live(team)' = Live(team)
        /\ Live(team) \in Nat /\ Reserved(team) \in Nat /\ Leaving(team) \in Nat
    BY CountsNat DEF Live
  <1>6. /\ Charged(team) = Live(team) + Reserved(team) + Leaving(team)
        /\ Charged(team)' = Live(team)' + Reserved(team)' + Leaving(team)'
    BY DEF Charged
  <1>7. Charged(team)' <= Charged(team) - 1 /\ Charged(team) \in Nat /\ Charged(team)' \in Nat
    BY <1>4, <1>5, <1>6
  <1>8. team \notin disturbed' => c >= Charged(team)'
    <2>1. CASE counter[team] = Absent /\ c = 0
      BY <1>3, <1>7, <2>1
    <2>2. CASE counter[team] \in Nat /\ counter[team] # Absent /\ c \in Nat /\ c >= counter[team] - 1
      <3>1. team \notin disturbed => counter[team] >= Charged(team)
        BY <2>2 DEF IInv, CounterCovers
      <3> QED BY <1>3, <1>7, <2>2, <3>1
    <2> QED BY <1>1, <2>1, <2>2
  <1>9. c \in Nat
    BY <1>1
  <1> HIDE DEF c
  <1>10. IInv'
    BY <1>2, <1>3, <1>8, <1>9, CounterStep
  <1>11. NoGrant
    BY OpCounts DEF NoGrant, Others
  <1> QED BY <1>10, <1>11

LEMMA DecrementSteps ==
    ASSUME IInv, NEW r \in Requests, Rollback(r) \/ Adjust(r)
    PROVE  IInv' /\ NoGrant
  <1>1. CASE Rollback(r)
    <2>1. op[r].pc = "rollback" /\ op[r].team \in Teams
      BY <1>1, Working DEF Rollback
    <2>2. OpsOK' /\ Others(r) /\ op'[r] = Idle
      BY <1>1, Facts, EndOp DEF Rollback
    <2>3. Reserving(op[r], op[r].team)
      BY <2>1 DEF Reserving
    <2>4. Decrement(op[r].team) /\ UNCHANGED <<project, ledger, unwritten, released, faults>>
      BY <1>1 DEF Rollback
    <2> QED BY <2>1, <2>2, <2>3, <2>4, IdleCharges, DecrementStep
  <1>2. CASE Adjust(r)
    <2>1. op[r].pc = "adjust" /\ op[r].kind = "transfer" /\ op[r].from \in Teams
      BY <1>2, Working DEF Adjust, OpInv
    <2>2. /\ OpsOK' /\ Others(r) /\ op'[r].pc = "release"
          /\ op'[r].kind = op[r].kind /\ op'[r].team = op[r].team /\ op'[r].from = op[r].from
      BY <1>2, <2>1, Facts, GotoOp DEF Adjust, Steps
    <2>3. LeavingFrom(op[r], op[r].from)
      BY <2>1 DEF LeavingFrom
    <2>4. \A t \in Teams : ~Reserving(op'[r], t) /\ ~LeavingFrom(op'[r], t)
      BY <2>2 DEF Reserving, LeavingFrom
    <2>5. Decrement(op[r].from) /\ UNCHANGED <<project, ledger, unwritten, released, faults>>
      BY <1>2 DEF Adjust
    <2> QED BY <2>1, <2>2, <2>3, <2>4, <2>5, DecrementStep
  <1> QED BY <1>1, <1>2

-------------------------------------------------------------------------------
(* The transactions.                                                       *)

(* One project row changed in a step of one request.                       *)
LEMMA ProjectStep ==
    ASSUME IInv, NEW r \in Requests, Others(r), OpsOK',
           NEW p \in Projects, NEW row \in Project, project' = [project EXCEPT ![p] = row],
           row.state = "deleted" => row.generation > 0,
           disturbed \subseteq disturbed', disturbed' \subseteq Teams,
           \A t \in Teams : t \notin disturbed' => Charged(t)' <= Charged(t),
           UNCHANGED <<counter, ledger, unwritten, released, faults>>
    PROVE  IInv'
  <1>1. project' \in [Projects -> Project]
    BY Facts
  <1>2. TypeOK'
    BY <1>1, TypeParts DEF IInv, TypeOK, OpsOK, OpInv
  <1>3. TombstoneInv'
    BY Facts DEF IInv, TombstoneInv
  <1>4. CounterCovers'
    <2> SUFFICES ASSUME NEW t \in Teams, t \notin disturbed', counter[t] # Absent
                 PROVE  counter[t] >= Charged(t)'
      BY DEF CounterCovers
    <2>1. counter[t] >= Charged(t) /\ counter[t] \in Nat
      BY Facts DEF IInv, CounterCovers
    <2>2. Charged(t)' \in Nat
      <3>1. Reserved(t)' \in Nat /\ Leaving(t)' \in Nat
        BY OpCounts DEF Others
      <3>2. \A q \in Projects \ {p} : project'[q] = project[q]
        BY Facts
      <3>3. Live(t)' \in Nat
        BY <3>2, LiveCounts
      <3> QED BY <3>1, <3>3 DEF Charged
    <2> QED BY <2>1, <2>2, CountsNat
  <1> QED BY <1>2, <1>3, <1>4 DEF IInv

(* soft_delete_project_records: a project is live no more.                 *)
LEMMA DeleteStep ==
    ASSUME IInv, NEW r \in Requests, NEW p \in Projects, Delete(r, p)
    PROVE  IInv' /\ NoGrant
  <1> DEFINE row == Tombstone(project[p])
  <1>1. /\ project[p] \in Project /\ project[p].state # "none"
        /\ project[p].state = "live" => project[p].generation < MaxGenerations
        /\ project[p].state = "deleted" => project[p].generation > 0
        /\ op[r] = Idle
    BY Facts DEF Delete, IInv, TombstoneInv
  <1>2. row \in Project /\ row.state = "deleted" /\ row.generation > 0 /\ row.team = project[p].team
    <2>1. CASE project[p].state = "live"
      <3>1. /\ project[p].generation + 1 \in 0..MaxGenerations
            /\ project[p].generation + 1 > 0
        BY <1>1, <2>1, QuotaAssumption DEF Project
      <3> DEFINE g == project[p].generation + 1
      <3>2. row = [project[p] EXCEPT !.state = "deleted", !.generation = g]
        BY <2>1 DEF Tombstone
      <3>3. g \in 0..MaxGenerations /\ g > 0
        BY <3>1
      <3> HIDE DEF g, row
      <3> QED BY <1>1, <3>2, <3>3 DEF Project
    <2>2. CASE project[p].state = "deleted"
      BY <1>1, <2>2 DEF Tombstone
    <2> QED BY <1>1, <2>1, <2>2 DEF Project
  <1>3. project' = [project EXCEPT ![p] = row]
    BY Facts DEF Delete
  <1>4. project'[p] = row /\ \A q \in Projects \ {p} : project'[q] = project[q]
    BY <1>3, Facts
  <1> HIDE DEF row
  <1> DEFINE o == [kind |-> "delete", pc |-> "event", project |-> p,
                   team |-> project[p].team, from |-> project[p].team,
                   generation |-> row.generation, seen |-> 0]
  <1>5. op' = [op EXCEPT ![r] = o]
    BY <1>4 DEF Delete
  <1>6. o \in Op /\ o.pc = "event" /\ o.kind = "delete" /\ o.generation = row.generation
    BY <1>1, <1>2 DEF Op, Project, Kinds, Steps
  <1> HIDE DEF o
  <1>7. OpInv(o)
    BY <1>2, <1>6 DEF OpInv
  <1>8. OpsOK' /\ Others(r) /\ op'[r] = o
    BY <1>5, <1>6, <1>7, Facts, SetOp
  <1>9. \A t \in Teams : ~Reserving(op'[r], t) /\ ~LeavingFrom(op'[r], t)
    BY <1>6, <1>8 DEF Reserving, LeavingFrom
  <1>10. ASSUME NEW t \in Teams
         PROVE  Charged(t)' <= Charged(t) /\ Reserved(t)' <= Reserved(t)
    <2>1. /\ Reserved(t)' <= Reserved(t) /\ Leaving(t)' <= Leaving(t)
          /\ Reserved(t)' \in Nat /\ Leaving(t)' \in Nat
      BY <1>8, <1>9, OpCounts DEF Others
    <2>2. LiveIn(project'[p], t) => LiveIn(project[p], t)
      BY <1>2, <1>4 DEF LiveIn
    <2>3. Live(t)' <= Live(t) /\ Live(t)' \in Nat
      BY <1>4, <2>2, LiveCounts
    <2> QED BY <2>1, <2>3, CountsNat DEF Charged
  <1>11. UNCHANGED <<counter, ledger, unwritten, released, faults, disturbed>>
    BY DEF Delete
  <1>12. IInv'
    BY <1>2, <1>3, <1>8, <1>10, <1>11, Facts, ProjectStep
  <1> QED BY <1>10, <1>12 DEF NoGrant

(* The business transaction: the reservation becomes a project of the      *)
(* team, or moves there, and the source of a transfer is charged until it  *)
(* is decremented.  A row that is not as it was read is marked.            *)
LEMMA TxStep ==
    ASSUME IInv, NEW r \in Requests, Tx(r)
    PROVE  IInv' /\ NoGrant
  <1>0. PICK p \in Projects, team \in Teams, from \in Teams :
            p = op[r].project /\ team = op[r].team /\ from = op[r].from
    BY Working DEF Tx
  <1>1. op[r].pc = "tx" /\ op[r].kind # "delete" /\ op[r].kind \in Kinds
    BY Working DEF Tx, OpInv
  <1>2. /\ OpsOK' /\ Others(r) /\ op'[r].pc = "confirm"
        /\ op'[r].kind = op[r].kind /\ op'[r].team = op[r].team /\ op'[r].from = op[r].from
    BY <1>1, Facts, GotoOp DEF Tx, Steps
  <1>3. project[p] \in Project
    BY Facts
  <1>4. UNCHANGED <<counter, ledger, released, faults, unwritten>>
    BY DEF Tx
  <1>5. Reserving(op[r], team) /\ \A t \in Teams : ~Reserving(op'[r], t)
    BY <1>0, <1>1, <1>2 DEF Reserving
  <1>6. /\ Reserved(team)' <= Reserved(team) - 1
        /\ \A t \in Teams : Reserved(t)' <= Reserved(t) /\ Reserved(t)' \in Nat
    BY <1>2, <1>5, OpCounts DEF Others
  <1>7. NoGrant
    BY <1>6 DEF NoGrant
  <1>8. CASE op[r].kind \in {"create", "restore"}
    <2> DEFINE owner == IF op[r].kind = "create" THEN team ELSE project[p].team
               row == [project[p] EXCEPT !.state = "live", !.team = owner]
    <2>1. project[p].team \in Teams
      BY <1>3 DEF Project
    <2>2. /\ row \in Project /\ row.state = "live" /\ row.team = owner
      BY <1>3, <2>1 DEF Project
    <2>3. project' = [project EXCEPT ![p] = row]
      <3>1. CASE op[r].kind = "create"
        BY <1>0, <3>1, Facts DEF Tx
      <3>2. CASE op[r].kind = "restore"
        <4>1. project' = [project EXCEPT ![p].state = "live"]
          BY <1>0, <3>2 DEF Tx
        <4>2. row = [project[p] EXCEPT !.state = "live"]
          BY <1>3, <3>2 DEF Project
        <4> HIDE DEF row
        <4> QED BY <4>1, <4>2, Facts
      <3> QED BY <1>8, <3>1, <3>2
    <2>4. /\ disturbed \subseteq disturbed' /\ disturbed' \subseteq Teams
          /\ owner # team => owner \in disturbed'
      BY <1>0, <1>8, <2>1, Facts DEF Tx
    <2> HIDE DEF row, owner
    <2>5. project'[p] = row /\ \A q \in Projects \ {p} : project'[q] = project[q]
      BY <2>3, Facts
    <2>6. ASSUME NEW t \in Teams, t \notin disturbed'
          PROVE  Charged(t)' <= Charged(t)
      <3>1. Leaving(t)' <= Leaving(t) /\ Leaving(t)' \in Nat
        <4>1. ~LeavingFrom(op'[r], t)
          BY <1>2, <1>8 DEF LeavingFrom
        <4> QED BY <1>2, <4>1, OpCounts DEF Others
      <3>2. Live(t)' <= Live(t) + 1 /\ Live(t)' \in Nat
        BY <2>5, LiveCounts
      <3>3. t # team => Live(t)' <= Live(t)
        <4>1. t # team => ~LiveIn(project'[p], t)
          BY <2>2, <2>4, <2>5, <2>6 DEF LiveIn
        <4> QED BY <2>5, <4>1, LiveCounts
      <3>4. Charged(t)' = Live(t)' + Reserved(t)' + Leaving(t)'
        BY DEF Charged
      <3>5. Charged(t) = Live(t) + Reserved(t) + Leaving(t)
        BY DEF Charged
      <3> QED BY <1>6, <3>1, <3>2, <3>3, <3>4, <3>5, CountsNat
    <2> QED BY <1>2, <1>4, <1>7, <2>2, <2>3, <2>4, <2>6, ProjectStep
  <1>9. CASE op[r].kind = "transfer"
    <2> DEFINE row == [project[p] EXCEPT !.team = team]
    <2>1. /\ row \in Project /\ row.state = project[p].state /\ row.team = team
          /\ row.generation = project[p].generation
      BY <1>3 DEF Project
    <2>2. project' = [project EXCEPT ![p] = row]
      BY <1>0, <1>9, Facts DEF Tx
    <2>3. /\ disturbed \subseteq disturbed' /\ disturbed' \subseteq Teams
          /\ from \notin disturbed' => LiveIn(project[p], from)
      BY <1>0, <1>9, Facts DEF Tx, LiveIn
    <2> HIDE DEF row
    <2>4. project'[p] = row /\ \A q \in Projects \ {p} : project'[q] = project[q]
      BY <2>2, Facts
    <2>5. row.state = "deleted" => row.generation > 0
      BY <2>1 DEF IInv, TombstoneInv
    <2>6. ASSUME NEW t \in Teams, t \notin disturbed'
          PROVE  Charged(t)' <= Charged(t)
      <3>1. /\ Leaving(t)' <= Leaving(t) + 1 /\ Leaving(t)' \in Nat
            /\ t # from => Leaving(t)' <= Leaving(t)
        <4>1. t # from => ~LeavingFrom(op'[r], t)
          BY <1>0, <1>2 DEF LeavingFrom
        <4> QED BY <1>2, <4>1, OpCounts DEF Others
      <3>2. /\ Live(t)' <= Live(t) + 1 /\ Live(t)' \in Nat
            /\ t # team => Live(t)' <= Live(t)
            /\ t = from => Live(t)' <= Live(t)
            /\ t = from /\ t # team => Live(t)' <= Live(t) - 1
        <4>1. /\ t # team => ~LiveIn(project'[p], t)
              /\ t = from => LiveIn(project[p], t)
          BY <2>1, <2>3, <2>4, <2>6 DEF LiveIn
        <4> QED BY <2>4, <4>1, LiveCounts
      <3>3. Charged(t)' = Live(t)' + Reserved(t)' + Leaving(t)'
        BY DEF Charged
      <3>4. Charged(t) = Live(t) + Reserved(t) + Leaving(t)
        BY DEF Charged
      <3> QED BY <1>6, <3>1, <3>2, <3>3, <3>4, CountsNat
    <2> QED BY <1>2, <1>4, <1>7, <2>1, <2>2, <2>3, <2>5, <2>6, ProjectStep
  <1> QED BY <1>1, <1>8, <1>9 DEF Kinds

(* A counter that is lost covers what it will be read to cover.            *)
LEMMA ExpireStep ==
    ASSUME IInv, NEW t \in Teams, Expire(t)
    PROVE  IInv' /\ NoGrant
  <1>1. /\ counter' = [counter EXCEPT ![t] = Absent]
        /\ disturbed' = disturbed \ {t} /\ faults' = faults + 1 /\ faults < MaxFaults
        /\ UNCHANGED <<project, op, ledger, released, unwritten>>
    BY DEF Expire
  <1>2. TypeOK'
    BY <1>1, Facts, QuotaAssumption, TypeParts DEF TypeOK, OpsOK, OpInv
  <1>3. \A u \in Teams : Charged(u)' = Charged(u) /\ Reserved(u)' = Reserved(u)
    BY <1>1 DEF Charged, Live, Reserved, Leaving
  <1>4. CounterCovers'
    BY <1>1, <1>3, Facts DEF CounterCovers, IInv
  <1>5. TombstoneInv'
    BY <1>1 DEF TombstoneInv, IInv
  <1> QED BY <1>2, <1>3, <1>4, <1>5, CountsNat DEF IInv, NoGrant

-------------------------------------------------------------------------------
LEMMA InitInv == Init => IInv
  <1> SUFFICES ASSUME Init PROVE IInv
    OBVIOUS
  <1>1. IsFiniteSet({p \in Projects : project[p].state = "live"})
    BY QuotaAssumption, FS_Subset
  <1>2. ledger \in Int
    BY <1>1, FS_CardinalityType DEF Init
  <1>3. 0 \in 0..MaxFaults
    BY QuotaAssumption
  <1>4. TypeOK
    BY <1>2, <1>3, TypeParts DEF Init, OpsOK, OpInv
  <1>5. TombstoneInv
    BY DEF Init, TombstoneInv
  <1>6. CounterCovers
    BY DEF Init, CounterCovers
  <1> QED BY <1>4, <1>5, <1>6 DEF IInv

LEMMA NextInv ==
    ASSUME IInv, [Next]_vars
    PROVE  IInv' /\ Granted
  <1>1. ASSUME NoGrant PROVE Granted
    <2> SUFFICES ASSUME NEW t \in Teams, Reserved(t)' > Reserved(t) PROVE FALSE
      BY DEF Granted
    <2>1. Reserved(t)' <= Reserved(t)
      BY <1>1 DEF NoGrant
    <2>2. Reserved(t) \in Nat
      BY CountsNat
    <2>3. Reserved(t)' \in Nat
      <3> DEFINE B == {r \in Requests : Reserving(op'[r], t)}
      <3>1. Reserved(t)' = Cardinality(B) /\ B \in SUBSET Requests
        BY DEF Reserved, Reserving
      <3>2. IsFiniteSet(B)
        BY <3>1, QuotaAssumption, FS_Subset
      <3> QED BY <3>1, <3>2, FS_CardinalityType
    <2> QED BY <2>1, <2>2, <2>3
  <1>2. ASSUME NEW r \in Requests, NEW p \in Projects, Restore(r, p)
        PROVE  IInv' /\ NoGrant
    <2>1. project[p].team \in Teams
      BY Facts DEF Project
    <2>2. PICK t \in Teams : t = project[p].team
      BY <2>1
    <2>3. Start(r, "restore", p, t, "seed_get")
      BY <1>2, <2>2 DEF Restore
    <2> QED BY <2>3, StartStep
  <1>3. ASSUME NEW r \in Requests, NEW p \in Projects, NEW t \in Teams, Create(r, p, t) \/ Transfer(r, p, t)
        PROVE  IInv' /\ NoGrant
    <2>1. Start(r, "create", p, t, "seed_get") \/ Start(r, "transfer", p, t, "seed_get")
      BY <1>3 DEF Create, Transfer
    <2> QED BY <2>1, StartStep
  <1>4. ASSUME NEW r \in Requests, NEW p \in Projects, Delete(r, p)
        PROVE  IInv' /\ NoGrant
    BY <1>4, DeleteStep
  <1>5. ASSUME NEW r \in Requests, SeedGet(r) \/ ReadUsage(r)
        PROVE  IInv' /\ NoGrant
    BY <1>5, ReadSteps
  <1>6. ASSUME NEW r \in Requests,
               \/ Refuse(r) \/ TxFails(r) \/ Confirm(r)
               \/ ReleaseSource(r) \/ RecordEventOnce(r) \/ Drop(r)
        PROVE  IInv' /\ NoGrant
    BY <1>6, PlainSteps
  <1>7. ASSUME NEW r \in Requests, SeedSet(r) \/ SetCounter(r) \/ Rollback(r) \/ Adjust(r) \/ Tx(r)
        PROVE  IInv' /\ NoGrant
    BY <1>7, SeedSetStep, SetCounterStep, DecrementSteps, TxStep
  <1>8. ASSUME NEW r \in Requests, Consume(r)
        PROVE  IInv' /\ Granted
    BY <1>8, ConsumeStep
  <1>9. ASSUME NEW t \in Teams, Expire(t)
        PROVE  IInv' /\ NoGrant
    BY <1>9, ExpireStep
  <1>10. CASE UNCHANGED vars
    <2>1. IInv'
      BY <1>10
         DEF vars, IInv, TypeOK, TombstoneInv, CounterCovers, Charged, Live, Reserved, Leaving
    <2>2. \A t \in Teams : Reserved(t)' = Reserved(t)
      BY <1>10 DEF vars, Reserved
    <2>3. NoGrant
      BY <2>2, CountsNat DEF NoGrant
    <2> QED BY <1>1, <2>1, <2>3
  <1>11. CASE Next
    BY <1>1, <1>2, <1>3, <1>4, <1>5, <1>6, <1>7, <1>8, <1>9, <1>11 DEF Next
  <1> QED BY <1>10, <1>11

(* The types, the generations of the tombstones and the covering counters  *)
(* of the quota hold in every reachable state.                             *)
THEOREM Invariance == Spec => []IInv
  <1>1. IInv /\ [Next]_vars => IInv'
    BY NextInv
  <1> QED BY <1>1, InitInv, PTL DEF Spec

(* The types, and the steps that belong to a kind of request.              *)
THEOREM TypeCorrect == Spec => []TypeOK
  <1>1. IInv => TypeOK
    BY DEF IInv
  <1> QED BY <1>1, Invariance, PTL

(* A counter covers the rows, the reservations and the projects leaving    *)
(* its team, unless a named step has marked the team (infra/quota).        *)
THEOREM CounterCoversHolds == Spec => []CounterCovers
  <1>1. IInv => CounterCovers
    BY DEF IInv
  <1> QED BY <1>1, Invariance, PTL

(* What check_and_consume grants on a counter that covers keeps the team   *)
(* within the limit of its plan.                                           *)
THEOREM GrantedWithinLimitHolds == Spec => GrantedWithinLimit
  <1>1. IInv /\ [Next]_vars => [Granted]_vars
    BY NextInv
  <1>2. [Granted]_vars => [ \A t \in Teams :
          /\ t \notin disturbed' /\ Limit[t] >= 0
          /\ Reserved(t)' > Reserved(t)
          => Live(t)' + Reserved(t)' <= Limit[t] ]_vars
    BY DEF Granted
  <1> QED BY <1>1, <1>2, Invariance, PTL DEF Spec, GrantedWithinLimit

-------------------------------------------------------------------------------
(* The ledger.  What the events lack of the live projects changes with one *)
(* request, one project and one tombstone at a time.                       *)

NetOwed == Cardinality(Owing(1)) - Cardinality(Owing(-1))

(* A request that creates a project has its id to itself.                  *)
Creating(o) == o.pc \in {"seed_get", "seed_set", "consume", "tx"} /\ o.kind = "create"

CreateInv ==
    \A r \in Requests : Creating(op[r]) =>
        /\ project[op[r].project].state = "none"
        /\ \A s \in Requests \ {r} : op[s] # Idle => op[s].project # op[r].project

(* A deletion is released, or about to be, only after it has taken place.  *)
KeysInv ==
    /\ \A k \in released : k[2] <= project[k[1]].generation
    /\ \A r \in Requests : op[r].pc = "event" => op[r].generation <= project[op[r].project].generation

LedgerInv == IInv /\ CreateInv /\ KeysInv /\ LedgerTracksRows

LEMMA MemberDelta ==
    ASSUME NEW S, IsFiniteSet(S), NEW A \in SUBSET S, NEW B \in SUBSET S, NEW x,
           \A y \in S \ {x} : y \in B <=> y \in A
    PROVE  /\ Cardinality(A) \in Nat /\ Cardinality(B) \in Nat
           /\ (x \in B <=> x \in A) => Cardinality(B) = Cardinality(A)
           /\ x \in A /\ x \notin B => Cardinality(B) = Cardinality(A) - 1
           /\ x \notin A /\ x \in B => Cardinality(B) = Cardinality(A) + 1
  <1>1. IsFiniteSet(A) /\ IsFiniteSet(B)
    BY FS_Subset
  <1>2. Cardinality(A) \in Nat /\ Cardinality(B) \in Nat
    BY <1>1, FS_CardinalityType
  <1>3. ASSUME x \in B <=> x \in A
        PROVE  Cardinality(B) = Cardinality(A)
    <2>1. A = B
      BY <1>3
    <2> QED BY <2>1
  <1>4. ASSUME x \in A, x \notin B
        PROVE  Cardinality(B) = Cardinality(A) - 1
    <2>1. B = A \ {x}
      BY <1>4
    <2> QED BY <1>1, <1>4, <2>1, FS_RemoveElement
  <1>5. ASSUME x \notin A, x \in B
        PROVE  Cardinality(B) = Cardinality(A) + 1
    <2>1. B = A \cup {x}
      BY <1>5
    <2> QED BY <1>1, <1>5, <2>1, FS_AddElement
  <1> QED BY <1>2, <1>3, <1>4, <1>5

LEMMA OwedRange == \A o : Owed(o) \in {-1, 0, 1} /\ (o.pc = "idle" => Owed(o) = 0)
  BY DEF Owed

(* What a step of request r does to the sum of the deltas still owed.      *)
LEMMA OwedDelta ==
    ASSUME NEW r \in Requests, Others(r)
    PROVE  /\ NetOwed \in Int
           /\ NetOwed' = NetOwed + Owed(op'[r]) - Owed(op[r])
  <1> DEFINE A(n) == {s \in Requests : Owed(op[s]) = n}
             B(n) == {s \in Requests : Owed(op'[s]) = n}
  <1>1. /\ Owing(1) = A(1) /\ Owing(-1) = A(-1)
        /\ Owing(1)' = B(1) /\ Owing(-1)' = B(-1)
    BY DEF Owing, Owed
  <1>2. ASSUME NEW n \in {-1, 1}
        PROVE  /\ A(n) \in SUBSET Requests /\ B(n) \in SUBSET Requests
               /\ \A s \in Requests \ {r} : s \in B(n) <=> s \in A(n)
               /\ r \in A(n) <=> Owed(op[r]) = n
               /\ r \in B(n) <=> Owed(op'[r]) = n
    BY DEF Others
  <1>3. IsFiniteSet(Requests)
    BY QuotaAssumption
  <1> HIDE DEF A, B
  <1>4. ASSUME NEW n \in {-1, 1}
        PROVE  /\ Cardinality(A(n)) \in Nat /\ Cardinality(B(n)) \in Nat
               /\ (Owed(op[r]) = n <=> Owed(op'[r]) = n) => Cardinality(B(n)) = Cardinality(A(n))
               /\ Owed(op[r]) = n /\ Owed(op'[r]) # n => Cardinality(B(n)) = Cardinality(A(n)) - 1
               /\ Owed(op[r]) # n /\ Owed(op'[r]) = n => Cardinality(B(n)) = Cardinality(A(n)) + 1
    BY <1>2, <1>3, MemberDelta
  <1>5. PICK a \in {-1, 0, 1}, b \in {-1, 0, 1} : a = Owed(op[r]) /\ b = Owed(op'[r])
    BY OwedRange
  <1> QED BY <1>1, <1>4, <1>5 DEF NetOwed

(* What a transaction on project p does to the number of live projects.    *)
LEMMA LiveDelta ==
    ASSUME NEW p \in Projects, \A q \in Projects \ {p} : project'[q] = project[q]
    PROVE  /\ Cardinality(LiveProjects) \in Nat /\ Cardinality(LiveProjects)' \in Nat
           /\ (project[p].state = "live" <=> project'[p].state = "live")
                => Cardinality(LiveProjects)' = Cardinality(LiveProjects)
           /\ project[p].state # "live" /\ project'[p].state = "live"
                => Cardinality(LiveProjects)' = Cardinality(LiveProjects) + 1
           /\ project[p].state = "live" /\ project'[p].state # "live"
                => Cardinality(LiveProjects)' = Cardinality(LiveProjects) - 1
  <1> DEFINE A == {q \in Projects : project[q].state = "live"}
             B == {q \in Projects : project'[q].state = "live"}
  <1>1. LiveProjects = A /\ LiveProjects' = B
    BY DEF LiveProjects
  <1>2. /\ A \in SUBSET Projects /\ B \in SUBSET Projects
        /\ \A q \in Projects \ {p} : q \in B <=> q \in A
        /\ p \in A <=> project[p].state = "live"
        /\ p \in B <=> project'[p].state = "live"
    OBVIOUS
  <1>3. IsFiniteSet(Projects)
    BY QuotaAssumption
  <1> HIDE DEF A, B
  <1> QED BY <1>1, <1>2, <1>3, MemberDelta

(* The keys of the deletions.                                              *)
Keys == Projects \X (1..MaxGenerations)

LEMMA KeysFinite == IsFiniteSet(Keys)
  <1>1. IsFiniteSet(1..MaxGenerations)
    BY QuotaAssumption, FS_Interval
  <1> QED BY <1>1, QuotaAssumption, FS_Product DEF Keys

LEMMA UnreleasedFinite ==
    /\ Unreleased \in SUBSET Keys /\ Unattended \in SUBSET Keys
    /\ Cardinality(Unreleased) \in Nat /\ Cardinality(Unattended) \in Nat
  <1>1. Unreleased \in SUBSET Keys /\ Unattended \in SUBSET Keys
    BY DEF Unreleased, Unattended, Keys
  <1> QED BY <1>1, KeysFinite, FS_Subset, FS_CardinalityType

(* The equation of the ledger, from what a step adds to each side.         *)
LEMMA LedgerStep ==
    ASSUME LedgerInv, IInv', NEW r \in Requests, Others(r), CreateInv', KeysInv',
           NEW live \in Int, Cardinality(LiveProjects)' = Cardinality(LiveProjects) + live,
           NEW keys \in Int, Cardinality(Unreleased)' = Cardinality(Unreleased) + keys,
           ledger' + unwritten' + Owed(op'[r]) = ledger + unwritten + Owed(op[r]) + live + keys,
           \/ faults' >= faults /\ Unattended' \subseteq Unattended
           \/ faults' = faults + 1 /\ \E k : Unattended' \subseteq Unattended \cup {k}
    PROVE  LedgerInv'
  <1>1. NetOwed \in Int /\ NetOwed' = NetOwed + Owed(op'[r]) - Owed(op[r])
    BY OwedDelta
  <1>2. /\ ledger \in Int /\ unwritten \in Int /\ ledger' \in Int /\ unwritten' \in Int
        /\ faults \in Int /\ faults' \in Int
    BY DEF LedgerInv, IInv, TypeOK
  <1>3. PICK a \in {-1, 0, 1}, b \in {-1, 0, 1} : a = Owed(op[r]) /\ b = Owed(op'[r])
    BY OwedRange
  <1>4. PICK l \in Int, u \in Int : l = Cardinality(LiveProjects) /\ u = Cardinality(Unreleased)
    <2>1. LiveProjects \in SUBSET Projects
      BY DEF LiveProjects
    <2> QED BY <2>1, QuotaAssumption, FS_Subset, FS_CardinalityType, UnreleasedFinite
  <1>5. Owing(1) \in SUBSET Requests /\ Owing(-1) \in SUBSET Requests
    BY DEF Owing
  <1>6. PICK m \in Int, n \in Int : m = Cardinality(Owing(1)) /\ n = Cardinality(Owing(-1))
    BY <1>5, QuotaAssumption, FS_Subset, FS_CardinalityType
  <1>7. ledger + unwritten + NetOwed = l + u
    BY <1>2, <1>4, <1>6 DEF LedgerInv, LedgerTracksRows, NetOwed
  <1>8. ledger' + unwritten' + NetOwed' = (l + live) + (u + keys)
    BY <1>1, <1>2, <1>3, <1>7
  <1>9. (ledger + unwritten + Cardinality(Owing(1)) - Cardinality(Owing(-1))
             = Cardinality(LiveProjects) + Cardinality(Unreleased))'
    <2>1. Owing(1)' \in SUBSET Requests /\ Owing(-1)' \in SUBSET Requests
      BY DEF Owing
    <2>2. PICK mm \in Int, nn \in Int : mm = Cardinality(Owing(1))' /\ nn = Cardinality(Owing(-1))'
      BY <2>1, QuotaAssumption, FS_Subset, FS_CardinalityType
    <2>3. NetOwed' = mm - nn
      BY <2>2 DEF NetOwed
    <2>4. ledger' + unwritten' + mm - nn = (l + live) + (u + keys)
      BY <1>2, <1>8, <2>3
    <2> QED BY <1>4, <2>2, <2>4
  <1>10. Cardinality(Unattended)' <= faults'
    <2>1. /\ IsFiniteSet(Unattended) /\ Cardinality(Unattended) \in Nat
          /\ Cardinality(Unattended) <= faults
      BY UnreleasedFinite, KeysFinite, FS_Subset DEF LedgerInv, LedgerTracksRows
    <2>2. CASE faults' >= faults /\ Unattended' \subseteq Unattended
      <3>1. Cardinality(Unattended') <= Cardinality(Unattended) /\ Cardinality(Unattended') \in Nat
        BY <2>1, <2>2, FS_Subset, FS_CardinalityType
      <3> QED BY <1>2, <2>1, <2>2, <3>1
    <2>3. ASSUME faults' = faults + 1, NEW k, Unattended' \subseteq Unattended \cup {k}
          PROVE  Cardinality(Unattended') <= faults'
      <3>1. IsFiniteSet(Unattended \cup {k}) /\ Cardinality(Unattended \cup {k}) <= Cardinality(Unattended) + 1
        BY <2>1, FS_AddElement
      <3>2. Cardinality(Unattended') <= Cardinality(Unattended \cup {k}) /\ Cardinality(Unattended') \in Nat
        BY <2>3, <3>1, FS_Subset, FS_CardinalityType
      <3>3. Cardinality(Unattended \cup {k}) \in Nat
        BY <3>1, FS_CardinalityType
      <3> QED BY <1>2, <2>1, <2>3, <3>1, <3>2, <3>3
    <2> QED BY <2>2, <2>3
  <1> QED BY <1>9, <1>10 DEF LedgerInv, LedgerTracksRows

(* The request goes on with its project, or ends.                          *)
Continues(r) ==
    /\ Others(r)
    /\ \/ op'[r] = Idle
       \/ /\ op'[r].project = op[r].project
          /\ op'[r].generation = op[r].generation
          /\ Creating(op'[r]) => Creating(op[r])
          /\ op[r] # Idle

(* A step that changes no row and no key: if the request gives up a        *)
(* deletion, that is a fault.                                              *)
LEMMA QuietLedger ==
    ASSUME LedgerInv, IInv', NEW r \in Requests, Continues(r),
           op'[r].pc # "event",
           op[r].pc = "event" => faults' = faults + 1,
           faults' >= faults,
           ledger' + unwritten' + Owed(op'[r]) = ledger + unwritten + Owed(op[r]),
           UNCHANGED <<project, released>>
    PROVE  LedgerInv'
  <1>1. KeysInv'
    BY DEF LedgerInv, KeysInv, Others, Continues
  <1>2. Unreleased' = Unreleased /\ LiveProjects' = LiveProjects
    BY DEF Unreleased, LiveProjects
  <1>3. CreateInv'
    <2> SUFFICES ASSUME NEW s \in Requests, Creating(op'[s])
                 PROVE  /\ project[op'[s].project].state = "none"
                        /\ \A t \in Requests \ {s} : op'[t] # Idle => op'[t].project # op'[s].project
      BY DEF CreateInv
    <2>1. \A t \in Requests : op'[t] # Idle => op[t] # Idle /\ op'[t].project = op[t].project
      BY DEF Continues, Others
    <2>2. op'[s] # Idle
      BY DEF Creating, Idle
    <2>3. Creating(op[s])
      BY <2>2 DEF Continues, Others
    <2> QED BY <2>1, <2>2, <2>3 DEF LedgerInv, CreateInv
  <1>4. \/ Unattended' \subseteq Unattended
        \/ /\ op[r].pc = "event"
           /\ Unattended' \subseteq Unattended \cup {<<op[r].project, op[r].generation>>}
    BY <1>2 DEF Unattended, Continues, Others
  <1>5. PICK a \in {-1, 0, 1}, b \in {-1, 0, 1} : a = Owed(op[r]) /\ b = Owed(op'[r])
    BY OwedRange
  <1>6. /\ ledger \in Int /\ unwritten \in Int /\ ledger' \in Int /\ unwritten' \in Int
        /\ Cardinality(LiveProjects) \in Int /\ Cardinality(Unreleased) \in Int
    <2>1. LiveProjects \in SUBSET Projects
      BY DEF LiveProjects
    <2>2. Cardinality(LiveProjects) \in Int
      BY <2>1, QuotaAssumption, FS_Subset, FS_CardinalityType
    <2> QED BY <2>2, UnreleasedFinite DEF LedgerInv, IInv, TypeOK
  <1>7. /\ Cardinality(LiveProjects)' = Cardinality(LiveProjects) + 0
        /\ Cardinality(Unreleased)' = Cardinality(Unreleased) + 0
    BY <1>2, <1>6
  <1>8. ledger' + unwritten' + Owed(op'[r]) = ledger + unwritten + Owed(op[r]) + 0 + 0
    BY <1>5, <1>6
  <1>9. Others(r)
    BY DEF Continues
  <1>10. \/ faults' >= faults /\ Unattended' \subseteq Unattended
         \/ faults' = faults + 1 /\ \E k : Unattended' \subseteq Unattended \cup {k}
    BY <1>4
  <1> QED BY <1>1, <1>3, <1>7, <1>8, <1>9, <1>10, LedgerStep

Before == {"seed_get", "seed_set", "consume", "tx"}

LEMMA GotoContinues ==
    ASSUME IInv, NEW r \in Requests, op[r].pc # "idle", NEW pc \in Steps,
           \/ Goto(r, pc)
           \/ \E n \in Nat : op' = [op EXCEPT ![r].pc = pc, ![r].seen = n],
           pc \in Before => op[r].pc \in Before
    PROVE  /\ Continues(r) /\ op'[r].pc = pc /\ op'[r].kind = op[r].kind
           /\ op'[r].project = op[r].project /\ op'[r].generation = op[r].generation
  <1>1. op[r] \in Op /\ op[r] # Idle /\ op \in [Requests -> Op \cup {Idle}]
    BY Working, Facts DEF OpsOK
  <1>2. /\ op'[r].pc = pc /\ op'[r].kind = op[r].kind /\ op'[r].project = op[r].project
        /\ op'[r].generation = op[r].generation
        /\ Others(r)
    BY <1>1 DEF Goto, Op, Others
  <1> QED BY <1>1, <1>2 DEF Continues, Creating, Before

LEMMA EndContinues ==
    ASSUME IInv, NEW r \in Requests, End(r)
    PROVE  Continues(r) /\ op'[r] = Idle /\ op'[r].pc = "idle" /\ Owed(op'[r]) = 0
  BY Facts, EndOp, OwedRange DEF Continues, Idle

(* The steps of the cache and of the events.                               *)
LEMMA QuietSteps ==
    ASSUME LedgerInv, IInv', NEW r \in Requests,
           \/ SeedGet(r) \/ SeedSet(r) \/ Consume(r) \/ Refuse(r) \/ TxFails(r) \/ Rollback(r)
           \/ Confirm(r) \/ Adjust(r) \/ ReleaseSource(r) \/ ReadUsage(r) \/ SetCounter(r) \/ Drop(r)
    PROVE  LedgerInv'
  <1>0. IInv
    BY DEF LedgerInv
  <1>1. ledger \in Int /\ unwritten \in Int /\ faults \in Int
    BY <1>0, Facts
  <1>2. CASE SeedGet(r) \/ ReadUsage(r)
    <2>1. /\ op[r].pc \in {"seed_get", "usage"}
          /\ UNCHANGED <<project, ledger, released, faults, unwritten>>
      BY <1>2 DEF SeedGet, ReadUsage
    <2>2. ASSUME NEW pc \in {"consume", "seed_set", "set"},
                 \/ Goto(r, pc)
                 \/ \E n \in Nat : op' = [op EXCEPT ![r].pc = pc, ![r].seen = n],
                 pc \in Before => op[r].pc \in Before
          PROVE  LedgerInv'
      <3>0. op[r].pc # "idle" /\ pc \in Steps
        BY <2>1 DEF Steps
      <3>1. Continues(r) /\ op'[r].pc = pc
        BY <1>0, <2>2, <3>0, GotoContinues
      <3>2. Owed(op[r]) = 0 /\ Owed(op'[r]) = 0
        BY <2>1, <3>1 DEF Owed
      <3> QED BY <1>1, <2>1, <3>1, <3>2, QuietLedger
    <2>3. Live(op[r].team) \in Nat
      BY CountsNat
    <2>4. CASE SeedGet(r)
      <3>1. Goto(r, "consume") \/ \E n \in Nat : op' = [op EXCEPT ![r].pc = "seed_set", ![r].seen = n]
        BY <2>3, <2>4 DEF SeedGet
      <3>2. op[r].pc \in Before
        BY <2>4 DEF SeedGet, Before
      <3> QED BY <2>2, <3>1, <3>2
    <2>5. CASE ReadUsage(r)
      <3>1. \E n \in Nat : op' = [op EXCEPT ![r].pc = "set", ![r].seen = n]
        BY <2>3, <2>5 DEF ReadUsage
      <3> QED BY <2>2, <3>1 DEF Before
    <2> QED BY <1>2, <2>4, <2>5
  <1>3. CASE SeedSet(r) \/ (Consume(r) /\ Goto(r, "tx")) \/ TxFails(r) \/ Adjust(r) \/ (Confirm(r) /\ Goto(r, "adjust"))
    <2>1. /\ op[r].pc \in {"seed_set", "consume", "tx", "adjust", "confirm"}
          /\ UNCHANGED <<project, released, faults, unwritten>>
      BY <1>3 DEF SeedSet, Consume, TxFails, Adjust, Confirm
    <2>2. ASSUME NEW pc \in {"consume", "tx", "rollback", "release", "adjust"}, Goto(r, pc),
                 pc \in Before => op[r].pc \in Before,
                 pc \in {"consume", "tx", "rollback"} => op[r].pc \in Before /\ ledger' = ledger,
                 pc = "release" => op[r].pc = "adjust" /\ ledger' = ledger,
                 pc = "adjust" => op[r].pc = "confirm" /\ op[r].kind = "transfer" /\ ledger' = ledger + 1
          PROVE  LedgerInv'
      <3>1. Continues(r) /\ op'[r].pc = pc
        BY <1>0, <2>1, <2>2, GotoContinues DEF Steps
      <3>2. ledger' + unwritten' + Owed(op'[r]) = ledger + unwritten + Owed(op[r])
        BY <1>1, <2>1, <2>2, <3>1 DEF Owed, Before
      <3> QED BY <1>1, <2>1, <2>2, <3>1, <3>2, QuietLedger
    <2>3. CASE SeedSet(r)
      BY <2>2, <2>3 DEF SeedSet, Before
    <2>4. CASE Consume(r) /\ Goto(r, "tx")
      BY <2>2, <2>4 DEF Consume, Before
    <2>5. CASE TxFails(r)
      BY <2>2, <2>5 DEF TxFails, Before
    <2>6. CASE Adjust(r)
      BY <2>2, <2>6 DEF Adjust, Before
    <2>7. CASE Confirm(r) /\ Goto(r, "adjust")
      <3>1. op[r].kind = "transfer"
        <4>1. op[r] \in Op /\ op'[r].pc = "adjust"
          BY <1>0, <2>1, <2>7, Working, GotoContinues DEF Steps, Before
        <4>2. SUFFICES ASSUME op[r].kind # "transfer" PROVE FALSE
          OBVIOUS
        <4>3. op'[r] = Idle
          BY <1>0, <2>7, <4>2, EndContinues DEF Confirm
        <4> QED BY <4>1, <4>3 DEF Idle
      <3> QED BY <2>2, <2>7, <3>1 DEF Confirm, Before
    <2> QED BY <1>3, <2>3, <2>4, <2>5, <2>6, <2>7
  <1>4. CASE End(r) /\ (Consume(r) \/ Refuse(r) \/ Rollback(r) \/ Confirm(r) \/ ReleaseSource(r) \/ SetCounter(r))
    <2>1. Continues(r) /\ op'[r].pc = "idle" /\ Owed(op'[r]) = 0
      BY <1>0, <1>4, EndContinues
    <2>2. UNCHANGED <<project, released, faults, unwritten>>
      BY <1>4 DEF Consume, Refuse, Rollback, Confirm, ReleaseSource, SetCounter
    <2>3. op[r].pc # "event" /\ ledger' = ledger + Owed(op[r])
      <3>1. CASE Confirm(r)
        <4>1. op[r].kind # "transfer"
          <5> SUFFICES ASSUME op[r].kind = "transfer" PROVE FALSE
            OBVIOUS
          <5>1. op'[r].pc = "adjust"
            BY <1>0, <3>1, GotoContinues DEF Confirm, Steps, Before
          <5> QED BY <2>1, <5>1
        <4> QED BY <3>1, <4>1 DEF Confirm, Owed
      <3>2. CASE ReleaseSource(r)
        BY <1>1, <3>2 DEF ReleaseSource, Owed
      <3>3. CASE Consume(r) \/ Refuse(r) \/ Rollback(r) \/ SetCounter(r)
        BY <1>1, <3>3 DEF Consume, Refuse, Rollback, SetCounter, Owed
      <3> QED BY <1>4, <3>1, <3>2, <3>3
    <2>4. PICK a \in {-1, 0, 1} : a = Owed(op[r])
      BY OwedRange
    <2> QED BY <1>1, <2>1, <2>2, <2>3, <2>4, QuietLedger
  <1>5. CASE Drop(r)
    <2>1. Continues(r) /\ op'[r].pc = "idle" /\ Owed(op'[r]) = 0
      BY <1>0, <1>5, EndContinues DEF Drop
    <2>2. PICK a \in {-1, 0, 1} : a = Owed(op[r])
      BY OwedRange
    <2>3. /\ unwritten' = unwritten + Owed(op[r]) /\ faults' = faults + 1
          /\ UNCHANGED <<project, released, ledger>>
      BY <1>5 DEF Drop
    <2> QED BY <1>1, <2>1, <2>2, <2>3, QuietLedger
  <1>6. Consume(r) => Goto(r, "tx") \/ End(r)
    BY DEF Consume
  <1>7. Confirm(r) => Goto(r, "adjust") \/ End(r)
    BY DEF Confirm
  <1>8. (Refuse(r) \/ Rollback(r) \/ ReleaseSource(r) \/ SetCounter(r)) => End(r)
    BY DEF Refuse, Rollback, ReleaseSource, SetCounter
  <1> QED BY <1>2, <1>3, <1>4, <1>5, <1>6, <1>7, <1>8

(* A request that starts is at its project alone if it creates it.         *)
LEMMA StartLedger ==
    ASSUME LedgerInv, IInv', NEW r \in Requests, NEW p \in Projects,
           \/ Restore(r, p)
           \/ \E t \in Teams : Create(r, p, t) \/ Transfer(r, p, t)
    PROVE  LedgerInv'
  <1>0. IInv
    BY DEF LedgerInv
  <1> DEFINE Started ==
        /\ op[r] = Idle /\ op'[r] # Idle /\ op'[r].pc = "seed_get" /\ op'[r].project = p /\ Others(r)
        /\ UNCHANGED <<project, ledger, released, faults, unwritten>>
        /\ op'[r].kind = "create" =>
              /\ project[p].state = "none"
              /\ \A s \in Requests : op[s] # Idle => op[s].project # p
        /\ op'[r].kind # "create" => project[p].state # "none"
  <1>1. Started
    <2>1. ASSUME NEW kind \in Kinds, NEW t, Start(r, kind, p, t, "seed_get")
          PROVE  /\ op[r] = Idle /\ op'[r].pc = "seed_get" /\ op'[r].project = p /\ op'[r].kind = kind
                 /\ Others(r)
                 /\ UNCHANGED <<project, ledger, released, faults, unwritten>>
      <3> DEFINE o == [kind |-> kind, pc |-> "seed_get", project |-> p, team |-> t,
                       from |-> project[p].team, generation |-> 0, seen |-> 0]
      <3>1. o.pc = "seed_get" /\ o.project = p /\ o.kind = kind
        OBVIOUS
      <3>2. op' = [op EXCEPT ![r] = o] /\ op[r] = Idle
            /\ UNCHANGED <<project, ledger, released, faults, unwritten>>
        BY <2>1 DEF Start
      <3> HIDE DEF o
      <3> QED BY <1>0, <3>1, <3>2, Facts DEF OpsOK, Others
    <2>2. CASE Restore(r, p)
      BY <2>1, <2>2 DEF Restore, Kinds, Idle
    <2>3. ASSUME NEW t \in Teams, Create(r, p, t)
          PROVE  Started
      BY <2>1, <2>3 DEF Create, Kinds, Idle
    <2>4. ASSUME NEW t \in Teams, Transfer(r, p, t)
          PROVE  Started
      BY <2>1, <2>4 DEF Transfer, Kinds, Idle
    <2> QED BY <2>2, <2>3, <2>4
  <1>2. KeysInv'
    BY <1>1 DEF LedgerInv, KeysInv, Others
  <1>3. Unreleased' = Unreleased /\ LiveProjects' = LiveProjects
    BY <1>1 DEF Unreleased, LiveProjects
  <1>4. CreateInv'
    <2>1. \A s \in Requests \ {r} : Creating(op[s]) => op'[r].project # op[s].project
      <3> SUFFICES ASSUME NEW s \in Requests \ {r}, Creating(op[s]), op[s].project = p PROVE FALSE
        BY <1>1
      <3>1. project[p].state = "none" /\ op[s] # Idle
        BY DEF LedgerInv, CreateInv, Creating, Idle
      <3> QED BY <1>1, <3>1
    <2> QED BY <1>1, <2>1 DEF LedgerInv, CreateInv, Creating, Others
  <1>5. Unattended' \subseteq Unattended
    BY <1>1, <1>3 DEF Unattended, Others, Idle
  <1>6. Owed(op[r]) = 0 /\ Owed(op'[r]) = 0
    BY <1>1 DEF Owed, Idle
  <1>7. ledger \in Int /\ unwritten \in Int /\ faults \in Int
    BY <1>0, Facts
  <1>8. Cardinality(LiveProjects) \in Int /\ Cardinality(Unreleased) \in Int
    <2>1. LiveProjects \in SUBSET Projects
      BY DEF LiveProjects
    <2> QED BY <2>1, QuotaAssumption, FS_Subset, FS_CardinalityType, UnreleasedFinite
  <1>9. /\ Cardinality(LiveProjects)' = Cardinality(LiveProjects) + 0
        /\ Cardinality(Unreleased)' = Cardinality(Unreleased) + 0
    BY <1>3, <1>8
  <1>10. ledger' + unwritten' + Owed(op'[r]) = ledger + unwritten + Owed(op[r]) + 0 + 0
    BY <1>1, <1>6, <1>7
  <1>11. Others(r) /\ faults' >= faults
    BY <1>1, <1>7
  <1> QED BY <1>2, <1>4, <1>5, <1>9, <1>10, <1>11, LedgerStep

(* The transaction: a project more, for which the request owes an event.   *)
LEMMA TxLedger ==
    ASSUME LedgerInv, IInv', NEW r \in Requests, Tx(r)
    PROVE  LedgerInv'
  <1>0. IInv
    BY DEF LedgerInv
  <1>1. op[r].pc = "tx" /\ op[r].kind # "delete" /\ op[r].kind \in Kinds /\ op[r].project \in Projects
    BY <1>0, Working DEF Tx, OpInv
  <1>2. PICK p \in Projects : p = op[r].project
    BY <1>1
  <1>3. /\ Continues(r) /\ op'[r].pc = "confirm" /\ op'[r].kind = op[r].kind
        /\ op'[r].project = op[r].project
    BY <1>0, <1>1, GotoContinues DEF Tx, Steps, Before
  <1>4. /\ UNCHANGED <<ledger, released, faults, unwritten>>
        /\ project \in [Projects -> Project]
    BY <1>0, Facts DEF Tx
  <1>5. /\ \A q \in Projects \ {p} : project'[q] = project[q]
        /\ project'[p].generation = project[p].generation
        /\ op[r].kind = "transfer" => project'[p].state = project[p].state
        /\ op[r].kind # "transfer" => project[p].state # "live" /\ project'[p].state = "live"
    <2>1. CASE op[r].kind = "create"
      <3>1. project[p].state = "none"
        BY <1>1, <1>2, <2>1 DEF LedgerInv, CreateInv, Creating
      <3>2. project' = [project EXCEPT ![p].state = "live", ![p].team = op[r].team]
        BY <1>2, <2>1 DEF Tx
      <3> QED BY <1>4, <2>1, <3>1, <3>2 DEF Project
    <2>2. CASE op[r].kind = "restore"
      <3>1. project[p].state = "deleted" /\ project' = [project EXCEPT ![p].state = "live"]
        BY <1>2, <2>2 DEF Tx
      <3> QED BY <1>4, <2>2, <3>1 DEF Project
    <2>3. CASE op[r].kind = "transfer"
      <3>1. project' = [project EXCEPT ![p].team = op[r].team]
        BY <1>2, <2>3 DEF Tx
      <3> QED BY <1>4, <2>3, <3>1 DEF Project
    <2> QED BY <1>1, <2>1, <2>2, <2>3 DEF Kinds
  <1>6. \A q \in Projects : project'[q].generation = project[q].generation
    BY <1>5
  <1>7. Unreleased' = Unreleased
    <2>1. \A k \in Keys : project'[k[1]].generation = project[k[1]].generation
      BY <1>6 DEF Keys
    <2> QED BY <1>4, <2>1 DEF Unreleased, Keys
  <1>8. Unattended' \subseteq Unattended
    BY <1>1, <1>7, <1>3 DEF Unattended, Continues, Others
  <1>9. KeysInv'
    <2>1. \A k \in released : k[1] \in Projects
      BY <1>0, Facts
    <2>2. \A s \in Requests : op'[s].pc = "event" =>
              /\ op[s].pc = "event" /\ op[s].project \in Projects
              /\ op'[s].generation = op[s].generation /\ op'[s].project = op[s].project
      BY <1>0, <1>3, Working DEF Continues, Others
    <2> QED BY <1>4, <1>6, <2>1, <2>2 DEF LedgerInv, KeysInv
  <1>10. CreateInv'
    <2> SUFFICES ASSUME NEW s \in Requests, Creating(op'[s])
                 PROVE  /\ project'[op'[s].project].state = "none"
                        /\ \A t \in Requests \ {s} : op'[t] # Idle => op'[t].project # op'[s].project
      BY DEF CreateInv
    <2>1. s # r /\ Creating(op[s]) /\ op'[s] = op[s] /\ op[r] # Idle /\ op[s].project \in Projects
      BY <1>0, <1>1, <1>3, Working DEF Creating, Continues, Others, Idle
    <2>2. op[s].project # p /\ project[op[s].project].state = "none"
      BY <1>2, <2>1 DEF LedgerInv, CreateInv
    <2> QED BY <1>2, <1>3, <1>5, <2>1, <2>2 DEF LedgerInv, CreateInv, Continues, Others
  <1>11. ledger \in Int /\ unwritten \in Int /\ faults \in Int /\ Cardinality(Unreleased) \in Int
    BY <1>0, Facts, UnreleasedFinite
  <1>12. Others(r)
    BY <1>3 DEF Continues
  <1>13. Owed(op[r]) = 0 /\ Owed(op'[r]) = IF op[r].kind = "transfer" THEN 0 ELSE 1
    BY <1>1, <1>3 DEF Owed
  <1>14. CASE op[r].kind = "transfer"
    <2>1. Cardinality(LiveProjects)' = Cardinality(LiveProjects) + 0
      BY <1>5, <1>14, LiveDelta
    <2> QED BY <1>4, <1>7, <1>8, <1>9, <1>10, <1>11, <1>12, <1>13, <1>14, <2>1, LedgerStep
  <1>15. CASE op[r].kind # "transfer"
    <2>1. Cardinality(LiveProjects)' = Cardinality(LiveProjects) + 1
      BY <1>5, <1>15, LiveDelta
    <2> QED BY <1>4, <1>7, <1>8, <1>9, <1>10, <1>11, <1>12, <1>13, <1>15, <2>1, LedgerStep
  <1> QED BY <1>14, <1>15

(* A deletion: a project less and a key more, or the tombstone it finds.   *)
LEMMA DeleteLedger ==
    ASSUME LedgerInv, IInv', NEW r \in Requests, NEW p \in Projects, Delete(r, p)
    PROVE  LedgerInv'
  <1>0. IInv /\ IInv'
    BY DEF LedgerInv
  <1>1. /\ op[r] = Idle /\ project[p].state \in {"live", "deleted"}
        /\ project \in [Projects -> Project] /\ project[p] \in Project
        /\ UNCHANGED <<ledger, released, faults, unwritten>>
    BY <1>0, Facts DEF Delete, Project
  <1>2. /\ op'[r].pc = "event" /\ op'[r].kind = "delete" /\ op'[r].project = p
        /\ op'[r].generation = project'[p].generation
        /\ Others(r)
    BY <1>0, Facts DEF Delete, OpsOK, Others
  <1>3. /\ project' = [project EXCEPT ![p] = Tombstone(project[p])]
        /\ \A q \in Projects \ {p} : project'[q] = project[q]
        /\ project'[p] = Tombstone(project[p])
    BY <1>1 DEF Delete
  <1>4. project[p].generation \in Nat /\ project[p].generation \in Int
    BY <1>1 DEF Project
  <1>5. /\ project'[p].state = "deleted"
        /\ project[p].state = "live" => project'[p].generation = project[p].generation + 1
        /\ project[p].state = "deleted" => project'[p].generation = project[p].generation
    BY <1>1, <1>3 DEF Tombstone, Project
  <1>6. project'[p].generation \in 0..MaxGenerations
    <2>1. project' \in [Projects -> Project]
      BY <1>0, Facts DEF IInv, TypeOK
    <2> QED BY <2>1 DEF Project
  <1>7. KeysInv'
    <2>1. \A q \in Projects : /\ project[q].generation \in Int /\ project'[q].generation \in Int
                              /\ project'[q].generation >= project[q].generation
      BY <1>1, <1>3, <1>4, <1>5 DEF Project
    <2>2. \A k \in released : k[1] \in Projects /\ k[2] \in Int
      BY <1>0, Facts
    <2>3. \A k \in released' : k[2] <= project'[k[1]].generation
      BY <1>1, <2>1, <2>2 DEF LedgerInv, KeysInv
    <2>4. ASSUME NEW s \in Requests, op'[s].pc = "event"
          PROVE  op'[s].generation <= project'[op'[s].project].generation
      <3>1. CASE s = r
        BY <1>2, <1>6, <3>1
      <3>2. CASE s # r
        <4>1. op'[s] = op[s] /\ op[s].project \in Projects /\ op[s].generation \in Int
          BY <1>0, <1>2, <2>4, <3>2, Working DEF Others
        <4> QED BY <2>1, <2>4, <4>1 DEF LedgerInv, KeysInv
      <3> QED BY <3>1, <3>2
    <2> QED BY <2>3, <2>4 DEF KeysInv
  <1>8. CreateInv'
    <2> SUFFICES ASSUME NEW s \in Requests, Creating(op'[s])
                 PROVE  /\ project'[op'[s].project].state = "none"
                        /\ \A t \in Requests \ {s} : op'[t] # Idle => op'[t].project # op'[s].project
      BY DEF CreateInv
    <2>1. s # r /\ Creating(op[s]) /\ op'[s] = op[s] /\ op[s].project \in Projects
      BY <1>0, <1>2, Working DEF Creating, Others, Idle
    <2>2. project[op[s].project].state = "none"
      BY <2>1 DEF LedgerInv, CreateInv
    <2>3. op[s].project # p
      BY <1>1, <2>2
    <2> QED BY <1>2, <1>3, <2>1, <2>2, <2>3 DEF LedgerInv, CreateInv, Others
  <1>9. Owed(op[r]) = 0 /\ Owed(op'[r]) = 0
    BY <1>1, <1>2 DEF Owed, Idle
  <1>10. ledger \in Int /\ unwritten \in Int /\ faults \in Int
    BY <1>0, Facts
  <1>11. Cardinality(LiveProjects) \in Int /\ Cardinality(Unreleased) \in Int
    BY <1>3, LiveDelta, UnreleasedFinite
  <1>12. CASE project[p].state = "live"
    <2> DEFINE k == <<p, project'[p].generation>>
    <2>1. Cardinality(LiveProjects)' = Cardinality(LiveProjects) + (-1)
      BY <1>3, <1>5, <1>11, <1>12, LiveDelta
    <2>2. k \in Keys /\ k \notin Unreleased /\ k \notin released
      <3>1. project'[p].generation \in 1..MaxGenerations
        BY <1>4, <1>5, <1>6, <1>12, QuotaAssumption
      <3>2. k \notin released
        <4>1. project'[p].generation > project[p].generation
          BY <1>4, <1>5, <1>12
        <4> QED BY <1>4, <1>6, <4>1 DEF LedgerInv, KeysInv
      <3>3. k \notin Unreleased
        BY <1>4, <1>5, <1>12 DEF Unreleased
      <3> QED BY <3>1, <3>2, <3>3 DEF Keys
    <2>3. Unreleased' = Unreleased \cup {k}
      <3>1. ASSUME NEW j \in Keys, j # k
            PROVE  j[2] <= project'[j[1]].generation <=> j[2] <= project[j[1]].generation
        <4>1. CASE j[1] # p
          BY <1>3, <4>1 DEF Keys
        <4>2. CASE j[1] = p
          <5>1. j[2] # project'[p].generation /\ j[2] \in Int
            BY <3>1, <4>2 DEF Keys
          <5> QED BY <1>4, <1>5, <1>12, <4>2, <5>1
        <4> QED BY <4>1, <4>2
      <3>2. k \in Unreleased'
        <4>1. k[2] <= project'[k[1]].generation
          BY <1>6
        <4> QED BY <1>1, <2>2, <4>1 DEF Unreleased, Keys
      <3>3. \A j \in Keys : j # k => (j \in Unreleased' <=> j \in Unreleased)
        BY <1>1, <3>1 DEF Unreleased, Keys
      <3>4. Unreleased \in SUBSET Keys /\ Unreleased' \in SUBSET Keys
        BY DEF Unreleased, Keys
      <3> HIDE DEF k
      <3> QED BY <3>2, <3>3, <3>4
    <2>4. Cardinality(Unreleased)' = Cardinality(Unreleased) + 1
      <3>1. IsFiniteSet(Unreleased)
        BY UnreleasedFinite, KeysFinite, FS_Subset
      <3> HIDE DEF k
      <3> QED BY <2>2, <2>3, <3>1, FS_AddElement
    <2>5. Unattended' \subseteq Unattended
      <3>1. op'[r].pc = "event" /\ k = <<op'[r].project, op'[r].generation>>
        BY <1>2
      <3> HIDE DEF k
      <3> QED BY <1>1, <1>2, <2>3, <3>1 DEF Unattended, Others, Idle
    <2>6. ledger' + unwritten' + Owed(op'[r]) = ledger + unwritten + Owed(op[r]) + (-1) + 1
      BY <1>1, <1>9, <1>10
    <2> QED BY <1>1, <1>2, <1>7, <1>8, <1>10, <2>1, <2>4, <2>5, <2>6, LedgerStep
  <1>13. CASE project[p].state = "deleted"
    <2>1. Cardinality(LiveProjects)' = Cardinality(LiveProjects) + 0
      BY <1>3, <1>5, <1>11, <1>13, LiveDelta
    <2>2. \A j \in Keys : project'[j[1]].generation = project[j[1]].generation
      BY <1>3, <1>5, <1>13 DEF Keys
    <2>3. Unreleased' = Unreleased
      BY <1>1, <2>2 DEF Unreleased, Keys
    <2>4. Cardinality(Unreleased)' = Cardinality(Unreleased) + 0
      BY <1>11, <2>3
    <2>5. Unattended' \subseteq Unattended
      BY <1>1, <1>2, <2>3 DEF Unattended, Others, Idle
    <2> QED BY <1>1, <1>2, <1>7, <1>8, <1>9, <1>10, <2>1, <2>4, <2>5, LedgerStep
  <1> QED BY <1>1, <1>12, <1>13

(* The release of a deletion: its key, and one off the events, or neither. *)
LEMMA RecordLedger ==
    ASSUME LedgerInv, IInv', NEW r \in Requests, RecordEventOnce(r)
    PROVE  LedgerInv'
  <1> DEFINE k == ReleaseKey(r)
  <1>0. IInv
    BY DEF LedgerInv
  <1>1. op[r].pc = "event" /\ op[r].kind = "delete" /\ op[r].generation > 0
    BY <1>0, Working DEF RecordEventOnce, OpInv
  <1>2. /\ k = <<op[r].project, op[r].generation>> /\ k \in Keys
        /\ k[1] = op[r].project /\ k[2] = op[r].generation
    <2>1. op[r].project \in Projects /\ op[r].generation \in 1..MaxGenerations
      BY <1>0, <1>1, Working, QuotaAssumption
    <2> QED BY <2>1 DEF ReleaseKey, Keys
  <1>3. Continues(r) /\ op'[r].pc = "usage"
    BY <1>0, <1>1, GotoContinues DEF RecordEventOnce, Steps, Before
  <1>4. /\ ledger' = IF k \in released THEN ledger ELSE ledger - 1
        /\ released' = released \cup {k}
        /\ UNCHANGED <<project, faults, unwritten>>
    BY DEF RecordEventOnce
  <1> HIDE DEF k
  <1>5. k[2] <= project[k[1]].generation
    BY <1>1, <1>2 DEF LedgerInv, KeysInv
  <1>6. KeysInv'
    BY <1>3, <1>4, <1>5 DEF LedgerInv, KeysInv, Continues, Others
  <1>7. CreateInv'
    <2> SUFFICES ASSUME NEW s \in Requests, Creating(op'[s])
                 PROVE  /\ project[op'[s].project].state = "none"
                        /\ \A t \in Requests \ {s} : op'[t] # Idle => op'[t].project # op'[s].project
      BY <1>4 DEF CreateInv
    <2>1. \A t \in Requests : op'[t] # Idle => op[t] # Idle /\ op'[t].project = op[t].project
      BY <1>3 DEF Continues, Others
    <2>2. op'[s] # Idle
      BY DEF Creating, Idle
    <2>3. Creating(op[s])
      BY <1>3, <2>2 DEF Continues, Others
    <2> QED BY <2>1, <2>2, <2>3 DEF LedgerInv, CreateInv
  <1>8. Owed(op[r]) = 0 /\ Owed(op'[r]) = 0
    BY <1>1, <1>3 DEF Owed
  <1>9. ledger \in Int /\ unwritten \in Int /\ faults \in Int
    BY <1>0, Facts
  <1>10. LiveProjects' = LiveProjects /\ Cardinality(LiveProjects) \in Int
    <2>1. LiveProjects \in SUBSET Projects
      BY DEF LiveProjects
    <2> QED BY <1>4, <2>1, QuotaAssumption, FS_Subset, FS_CardinalityType DEF LiveProjects
  <1>11. Cardinality(LiveProjects)' = Cardinality(LiveProjects) + 0
    BY <1>10
  <1>12. Unreleased' = Unreleased \ {k}
    BY <1>4 DEF Unreleased
  <1>13. Unattended' \subseteq Unattended
    BY <1>2, <1>3, <1>12 DEF Unattended, Continues, Others
  <1>14. IsFiniteSet(Unreleased) /\ Cardinality(Unreleased) \in Int
    BY UnreleasedFinite, KeysFinite, FS_Subset
  <1>15. Others(r)
    BY <1>3 DEF Continues
  <1>16. CASE k \in released
    <2>1. Unreleased' = Unreleased
      BY <1>12, <1>16 DEF Unreleased
    <2>2. Cardinality(Unreleased)' = Cardinality(Unreleased) + 0
      BY <1>14, <2>1
    <2> QED BY <1>4, <1>6, <1>7, <1>8, <1>9, <1>11, <1>13, <1>15, <1>16, <2>2, LedgerStep
  <1>17. CASE k \notin released
    <2>1. k \in Unreleased
      BY <1>2, <1>5, <1>17 DEF Unreleased, Keys
    <2>2. Cardinality(Unreleased)' = Cardinality(Unreleased) + (-1)
      BY <1>12, <1>14, <2>1, FS_RemoveElement
    <2>3. ledger' + unwritten' + Owed(op'[r]) = ledger + unwritten + Owed(op[r]) + 0 + (-1)
      BY <1>4, <1>8, <1>9, <1>17
    <2> QED BY <1>4, <1>6, <1>7, <1>9, <1>11, <1>13, <1>15, <2>2, <2>3, LedgerStep
  <1> QED BY <1>16, <1>17

(* Nothing of the ledger changes; a fault at most is counted.              *)
LEMMA SameLedger ==
    ASSUME LedgerInv, IInv', UNCHANGED <<project, op, ledger, released, unwritten>>, faults' >= faults
    PROVE  LedgerInv'
  <1>1. CreateInv' /\ KeysInv'
    BY DEF LedgerInv, CreateInv, KeysInv
  <1>2. /\ LiveProjects' = LiveProjects /\ Unreleased' = Unreleased /\ Unattended' = Unattended
        /\ Owing(1)' = Owing(1) /\ Owing(-1)' = Owing(-1)
    BY DEF LiveProjects, Unreleased, Unattended, Owing
  <1>3. faults \in Int /\ faults' \in Int /\ Cardinality(Unattended) \in Int
    BY UnreleasedFinite DEF LedgerInv, IInv, TypeOK
  <1> QED BY <1>1, <1>2, <1>3 DEF LedgerInv, LedgerTracksRows

LEMMA LedgerInit == Init => LedgerInv
  <1> SUFFICES ASSUME Init PROVE LedgerInv
    OBVIOUS
  <1>1. IInv
    BY InitInv
  <1>2. CreateInv /\ KeysInv
    BY DEF Init, CreateInv, KeysInv, Creating, Idle
  <1>3. Owing(1) = {} /\ Owing(-1) = {}
    BY OwedRange DEF Init, Owing, Idle
  <1>4. Unreleased = {} /\ Unattended = {}
    <2>1. \A p \in Projects : project[p].generation = 0
      BY DEF Init
    <2>2. \A k \in Keys : ~ (k[2] <= project[k[1]].generation)
      BY <2>1 DEF Keys
    <2> QED BY <2>2 DEF Unreleased, Unattended, Keys
  <1>5. ledger = Cardinality(LiveProjects) /\ unwritten = 0 /\ faults = 0 /\ ledger \in Int
    BY <1>1, Facts DEF Init, LiveProjects
  <1>6. Cardinality({}) = 0
    BY FS_EmptySet
  <1> QED BY <1>1, <1>2, <1>3, <1>4, <1>5, <1>6 DEF LedgerInv, LedgerTracksRows

LEMMA LedgerNext ==
    ASSUME LedgerInv, [Next]_vars
    PROVE  LedgerInv'
  <1>1. IInv'
    BY NextInv DEF LedgerInv
  <1>2. faults \in Int
    BY DEF LedgerInv, IInv, TypeOK
  <1>3. CASE UNCHANGED vars
    BY <1>1, <1>2, <1>3, SameLedger DEF vars
  <1>4. ASSUME NEW t \in Teams, Expire(t)
        PROVE  LedgerInv'
    BY <1>1, <1>2, <1>4, SameLedger DEF Expire
  <1>5. CASE Next
    BY <1>1, <1>4, <1>5, StartLedger, DeleteLedger, QuietSteps, TxLedger, RecordLedger DEF Next
  <1> QED BY <1>3, <1>5

(* The quota events add up to the live projects and the unreleased         *)
(* tombstones, and every deletion is released once (infra/quota,           *)
(* release_once_with_key and domain/projects).                             *)
THEOREM LedgerTracksRowsHolds == Spec => []LedgerTracksRows
  <1>1. LedgerInv /\ [Next]_vars => LedgerInv'
    BY LedgerNext
  <1>2. LedgerInv => LedgerTracksRows
    BY DEF LedgerInv
  <1> QED BY <1>1, <1>2, LedgerInit, PTL DEF Spec
===============================================================================
