------------------------------- MODULE SsrLeases -------------------------------
(***************************************************************************)
(* The leases of a team's SSR processes, as the control API keeps them:    *)
(* acquire, renew, release and the sweep of expired leases, and the usage  *)
(* events each of them owes to the quota ledger.                           *)
(*                                                                         *)
(* A lease of 90 seconds is held for one deployment on one node.  Acquire  *)
(* locks the deployment's row and the expired lease it replaces, and only  *)
(* reads the team's other leases: it is two actions, the lock being        *)
(* acquiring[d].  Renew compares the clock it read on arrival, so it is    *)
(* two actions as well.  A release is one locked transaction.  The sweep   *)
(* lists the expired leases, then releases them one by one.                *)
(*                                                                         *)
(* Usage events are written after the commit, one transaction each, in the *)
(* order of owed[i]; a handler that is dropped loses the rest of them.     *)
(* Every event has an idempotency key, so the events are a set.            *)
(*                                                                         *)
(* The assignment of a deployment to a node changes between any two of its *)
(* acquisitions (Delivery), so an acquisition is for any node.             *)
(* Whether an hour block is over at a clock reading is a free choice, and  *)
(* so is a refusal by the monthly limit, which only disables.  The bounds  *)
(* are Generations and the constants named Max.                            *)
(***************************************************************************)
EXTENDS Integers, FiniteSets, Sequences, SequencesExt

CONSTANTS
    Deployments, Nodes,
    NoNode,           \* no acquisition holds the deployment's row
    Generations,      \* numbers the successive leases of a process
    MaxLeases,        \* bound on the leases there ever are
    ProcessLimit,     \* SSR processes of the team
    MaxBlock,         \* bound on the hours one lease lives
    MaxRenewing,      \* bound on the renewals in progress
    MaxOwing,         \* bound on the handlers that still have events to write
    MaxLost           \* bound on the leases with a lost event

ASSUME SsrAssumption ==
    /\ NoNode \notin Nodes
    /\ ProcessLimit \in Nat \ {0} /\ MaxBlock \in Nat
    /\ Generations \subseteq Nat /\ MaxLeases \in Nat /\ MaxRenewing \in Nat /\ MaxOwing \in Nat /\ MaxLost \in Nat
    /\ IsFiniteSet(Deployments) /\ IsFiniteSet(Nodes) /\ IsFiniteSet(Generations)

VARIABLES
    lease,            \* the ssr_process_lease table
    acquiring,        \* deployment rows locked by an acquisition
    renewing,         \* renewals that read the clock and not yet the row
    sweeping,         \* leases the running sweep still has to release
    owed,             \* events still to be written by running handlers
    events,           \* quota events written
    lost,             \* history: leases with an event that was never written
    late              \* history: leases held that were renewed after their expiry

vars == <<lease, acquiring, renewing, sweeping, owed, events, lost, late>>

Lease == Deployments \X Nodes \X Generations

(* A process is the container of one deployment on one node.               *)
SameProcess(l, m) == l[1] = m[1] /\ l[2] = m[2]

(* expired: held, its ninety seconds being over; block: the hour charged.  *)
Row == [state : {"absent", "live", "expired", "released"}, block : 0..MaxBlock]

Event == [kind : {"process", "process_release", "hour", "hour_release"}, lease : Lease, block : 0..MaxBlock]

ProcessEvent(l) == [kind |-> "process", lease |-> l, block |-> 0]
ProcessRelease(l) == [kind |-> "process_release", lease |-> l, block |-> 0]
HourEvent(l, b) == [kind |-> "hour", lease |-> l, block |-> b]
HourRelease(l, b) == [kind |-> "hour_release", lease |-> l, block |-> b]

Free == [node |-> NoNode, replaced |-> {}]

Held(l) == lease[l].state \in {"live", "expired"}

(* Ids grow with time (UUID v7): a new lease takes the next generation.    *)
IsNext(l) ==
    /\ lease[l].state = "absent"
    /\ \A m \in Lease : SameProcess(l, m) /\ m[3] < l[3] => lease[m].state # "absent"
    /\ Cardinality({m \in Lease : lease[m].state # "absent"}) < MaxLeases

(* The leases the process limit counts. *)
Live == {l \in Lease : lease[l].state = "live"}

Locked(l) == \E d \in Deployments : l \in acquiring[d].replaced

Owe(s) ==
    /\ Cardinality(owed) < MaxOwing
    /\ owed' = owed \cup {s}

-------------------------------------------------------------------------------
Init ==
    /\ lease = [l \in Lease |-> [state |-> "absent", block |-> 0]]
    /\ acquiring = [d \in Deployments |-> Free]
    /\ renewing = [l \in Lease |-> "none"]
    /\ sweeping = {}
    /\ owed = {}
    /\ events = {}
    /\ lost = {}
    /\ late = {}

AcquireCheck_PerNode(d, n) ==
    /\ acquiring[d] = Free
    /\ \A l \in Live : ~(l[1] = d /\ l[2] = n)
    /\ Cardinality({l \in Live : l[2] = n}) < ProcessLimit
    /\ acquiring' = [acquiring EXCEPT ![d] =
           [node |-> n, replaced |-> {l \in Lease : l[1] = d /\ l[2] = n /\ Held(l)}]]
    /\ UNCHANGED <<lease, renewing, sweeping, owed, events, lost, late>>

(* acquire, up to the count: an unexpired lease is returned as it is (no   *)
(* step here), an expired one is replaced, and the team's other leases are *)
(* counted without a lock.                                                 *)
AcquireCheck(d, n) ==
    /\ acquiring[d] = Free
    /\ \A l \in Live : ~(l[1] = d /\ l[2] = n)
    /\ Cardinality(Live) < ProcessLimit
    /\ acquiring' = [acquiring EXCEPT ![d] =
           [node |-> n, replaced |-> {l \in Lease : l[1] = d /\ l[2] = n /\ Held(l)}]]
    /\ UNCHANGED <<lease, renewing, sweeping, owed, events, lost, late>>

NewLease_KeepsReplaced(d, g) ==
    LET new == <<d, acquiring[d].node, g>>
    IN  /\ acquiring[d] # Free
        /\ IsNext(new)
        /\ lease' = [lease EXCEPT ![new] = [state |-> "live", block |-> 0]]
        /\ acquiring' = [acquiring EXCEPT ![d] = Free]
        /\ UNCHANGED <<renewing, sweeping, events, lost, late>>

NewLease(d, g) ==
    LET new == <<d, acquiring[d].node, g>>
    IN  /\ acquiring[d] # Free
        /\ IsNext(new)
        /\ lease' = [l \in Lease |->
               IF l = new THEN [state |-> "live", block |-> 0]
               ELSE IF l \in acquiring[d].replaced THEN [lease[l] EXCEPT !.state = "released"]
               ELSE lease[l]]
        /\ late' = late \ acquiring[d].replaced
        /\ acquiring' = [acquiring EXCEPT ![d] = Free]
        /\ UNCHANGED <<renewing, sweeping, events, lost>>

Consume(l) == <<ProcessEvent(l), HourEvent(l, 0)>>

AcquireCommit_ForgetsReplaced(d, g) ==
    /\ NewLease(d, g)
    /\ Owe(Consume(<<d, acquiring[d].node, g>>))

(* ... and its commit: a fresh row; the release of the replaced lease is   *)
(* recorded, its hour is not given back.                                   *)
AcquireCommit(d, g) ==
    LET new == <<d, acquiring[d].node, g>>
    IN  /\ NewLease(d, g)
        /\ \/ acquiring[d].replaced = {} /\ Owe(Consume(new))
           \/ \E l \in acquiring[d].replaced : Owe(<<ProcessRelease(l)>> \o Consume(new))

(* Refused by the monthly limit, or rolled back. *)
AcquireAbort(d) ==
    /\ acquiring[d] # Free
    /\ acquiring' = [acquiring EXCEPT ![d] = Free]
    /\ UNCHANGED <<lease, renewing, sweeping, owed, events, lost, late>>

(* renew reads the clock; block is "next" when the hour was over by then.  *)
RenewBegin(l, block) ==
    /\ renewing[l] = "none"
    /\ l \in Live
    /\ Cardinality({m \in Lease : renewing[m] # "none"}) < MaxRenewing
    /\ block = "next" => lease[l].block < MaxBlock
    /\ renewing' = [renewing EXCEPT ![l] = block]
    /\ UNCHANGED <<lease, acquiring, sweeping, owed, events, lost, late>>

RenewRow_StaysPending(l) ==
    /\ renewing[l] # "none" /\ ~Locked(l)
    /\ IF renewing[l] = "next"
       THEN /\ lease' = [lease EXCEPT ![l].state = "live", ![l].block = @ + 1]
            /\ Owe(<<HourEvent(l, lease[l].block + 1)>>)
       ELSE /\ lease' = [lease EXCEPT ![l].state = "live"]
            /\ UNCHANGED owed
    /\ UNCHANGED <<acquiring, renewing, sweeping, events, lost, late>>

RenewRow(l) ==
    /\ renewing[l] # "none" /\ ~Locked(l)
    /\ IF renewing[l] = "next"
       THEN /\ lease' = [lease EXCEPT ![l].state = "live", ![l].block = @ + 1]
            /\ Owe(<<HourEvent(l, lease[l].block + 1)>>)
       ELSE /\ lease' = [lease EXCEPT ![l].state = "live"]
            /\ UNCHANGED owed
    /\ late' = IF lease[l].state = "expired" THEN late \cup {l} ELSE late
    /\ renewing' = [renewing EXCEPT ![l] = "none"]
    /\ UNCHANGED <<acquiring, sweeping, events, lost>>

RenewCommit_Released(l) == lease[l].state # "absent" /\ RenewRow(l)

(* renew, under the lock of the lease's row: the lease may have expired    *)
(* since the clock was read, or been released.                             *)
RenewCommit(l) == Held(l) /\ RenewRow(l)

(* Released meanwhile (NotFound), refused by the monthly limit, or dropped *)
RenewRefused(l) ==
    /\ renewing[l] # "none"
    /\ renewing' = [renewing EXCEPT ![l] = "none"]
    /\ UNCHANGED <<lease, acquiring, sweeping, owed, events, lost, late>>

(* release: mark the row and give the running hour back, if it still runs. *)
EndLease(l, refund) ==
    /\ Held(l) /\ ~Locked(l)
    /\ lease' = [lease EXCEPT ![l].state = "released"]
    /\ late' = late \ {l}
    /\ Owe(IF refund THEN <<ProcessRelease(l), HourRelease(l, lease[l].block)>> ELSE <<ProcessRelease(l)>>)

(* The node's request; a repeated one finds the lease released.            *)
Release(l, refund) ==
    /\ EndLease(l, refund)
    /\ UNCHANGED <<acquiring, renewing, sweeping, events, lost>>

(* release_expired lists ... *)
SweepList ==
    /\ sweeping = {}
    /\ sweeping' = {l \in Lease : lease[l].state = "expired"}
    /\ sweeping' # {}
    /\ UNCHANGED <<lease, acquiring, renewing, owed, events, lost, late>>

(* ... and releases each, without looking at its expiry again.             *)
SweepRelease(l, refund) ==
    /\ l \in sweeping
    /\ sweeping' = sweeping \ {l}
    /\ \/ EndLease(l, refund)
       \/ lease[l].state = "released" /\ UNCHANGED <<lease, owed, late>>
    /\ UNCHANGED <<acquiring, renewing, events, lost>>

(* record_event_once: one transaction per event, the next only after it.   *)
RecordEvent(s) ==
    /\ s \in owed
    /\ events' = events \cup {Head(s)}
    /\ owed' = (owed \ {s}) \cup (IF Len(s) = 1 THEN {} ELSE {Tail(s)})
    /\ UNCHANGED <<lease, acquiring, renewing, sweeping, lost, late>>

(* The process ends, the client disconnects or the database refuses.       *)
DropHandler(s) ==
    /\ s \in owed
    /\ Cardinality(lost) < MaxLost
    /\ owed' = owed \ {s}
    /\ lost' = lost \cup {e.lease : e \in ToSet(s)}
    /\ UNCHANGED <<lease, acquiring, renewing, sweeping, events, late>>

(* Ninety seconds without a renewal. *)
Expire(l) ==
    /\ l \in Live
    /\ lease' = [lease EXCEPT ![l].state = "expired"]
    /\ UNCHANGED <<acquiring, renewing, sweeping, owed, events, lost, late>>

Next ==
    \/ \E d \in Deployments :
          \/ \E n \in Nodes : AcquireCheck(d, n)
          \/ \E g \in Generations : AcquireCommit(d, g)
          \/ AcquireAbort(d)
    \/ \E l \in Lease :
          \/ \E block \in {"same", "next"} : RenewBegin(l, block)
          \/ RenewCommit(l) \/ RenewRefused(l) \/ Expire(l)
          \/ \E refund \in BOOLEAN : Release(l, refund) \/ SweepRelease(l, refund)
    \/ SweepList
    \/ \E s \in owed : RecordEvent(s) \/ DropHandler(s)

Spec == Init /\ [][Next]_vars

-------------------------------------------------------------------------------
(* Properties. *)

TypeOK ==
    /\ lease \in [Lease -> Row]
    /\ acquiring \in [Deployments -> [node : Nodes \cup {NoNode}, replaced : SUBSET Lease]]
    /\ renewing \in [Lease -> {"none", "same", "next"}]
    /\ sweeping \subseteq Lease
    /\ owed \subseteq Seq(Event)
    /\ events \subseteq Event
    /\ lost \subseteq Lease /\ late \subseteq Lease

(* A process never has two leases: an acquisition replaces the expired one *)
(* in its own transaction, under the lock of the deployment's row, while   *)
(* renewals, releases and the sweep go on (acquire).                       *)
OneLeasePerProcess ==
    \A l, m \in Lease : Held(l) /\ Held(m) /\ SameProcess(l, m) => l = m

(* The limit is counted without a lock on the team, so acquisitions of     *)
(* different deployments can pass it together: one deployment never has    *)
(* more processes than the team may have, and the team at most one more    *)
(* for each other deployment, besides the leases whose renewal began       *)
(* before and ended after their expiry (acquire, renew).                   *)
OvercommitBounded ==
    /\ \A d \in Deployments : Cardinality({l \in Live \ late : l[1] = d}) <= ProcessLimit
    /\ Cardinality(Live \ late) <= ProcessLimit - 1 + Cardinality(Deployments)

(* An hour is given back at most once in the life of a lease, only when it *)
(* has ended, and it is the last hour it was charged (renew, release).     *)
RefundIsLastHour ==
    \A e \in events \cup UNION {ToSet(s) : s \in owed} :
        e.kind = "hour_release" =>
            lease[e.lease].state = "released" /\ e.block = lease[e.lease].block

(* Every process, hour and end of a process is in the ledger, or about to  *)
(* be, unless the handler that owed it was dropped (acquire, renew and     *)
(* release write their events after the commit).                           *)
Accounted(e) ==
    \/ e \in events
    \/ e.lease \in lost
    \/ \E s \in owed : e \in ToSet(s)

LeasesAccounted ==
    \A l \in Lease :
        /\ lease[l].state # "absent" =>
              Accounted(ProcessEvent(l)) /\ \A b \in 0..lease[l].block : Accounted(HourEvent(l, b))
        /\ lease[l].state = "released" => Accounted(ProcessRelease(l))
===============================================================================
