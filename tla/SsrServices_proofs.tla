--------------------------- MODULE SsrServices_proofs ---------------------------
(***************************************************************************)
(* Starting and stopping the SSR service of a deployment, for any number   *)
(* of requests, start locks, leases and faults.                            *)
(*                                                                         *)
(* IInv adds what the tasks know of what they hold: a task that starts the *)
(* service holds the lock it asked for, and nobody else has that one, the  *)
(* route refresh included; one past the acquisition has a lease.           *)
(***************************************************************************)
EXTENDS SsrServices, TLAPS

TaskInv(t) ==
    /\ t \in Task
    /\ t.pc = "waiting" \/ Starting(t) => t.lock \in Locks
    /\ t.pc \in {"leased", "started", "undo"} => t.lease \in Leases

RefreshHolds == refresh.pc \in {"releasing", "stopping"} /\ refresh.lock # NoLock

LocksInv ==
    /\ held \subseteq Locks
    /\ \A r \in Requests : Starting(request[r]) => request[r].lock \in held
    /\ \A r, q \in Requests :
          r # q /\ Starting(request[r]) /\ Starting(request[q]) => request[r].lock # request[q].lock
    /\ RefreshHolds => /\ refresh.lock \in held
                       /\ \A r \in Requests : Starting(request[r]) => request[r].lock # refresh.lock

Ends(t) == t.pc \in {"started", "stopping"}

(* ContainerOwned, one task at a time.                                     *)
Owned ==
    \/ entry # NoLease
    \/ \E r \in Requests : Ends(request[r])
    \/ Ends(reaper)
    \/ refresh.pc \in {"releasing", "stopping"}
    \/ orphaned

OwnedInv == container => Owned

Types ==
    /\ routed \in BOOLEAN /\ container \in BOOLEAN /\ orphaned \in BOOLEAN
    /\ lease \in [Leases -> {"absent", "live", "over"}]
    /\ entry \in Leases \cup {NoLease}
    /\ start_lock \in Locks \cup {NoLock}
    /\ reaper \in Task /\ reaper.pc \in {"idle", "renewing", "stopping", "releasing"}
    /\ refresh \in Task /\ refresh.pc \in {"idle", "waiting", "releasing", "stopping"}
    /\ faults \in 0..MaxFaults

RequestsInv ==
    /\ request \in [Requests -> Task]
    /\ \A r \in Requests : TaskInv(request[r])

(* The conjunction that every step preserves.                              *)
IInv == Types /\ RequestsInv /\ LocksInv /\ OwnedInv

-------------------------------------------------------------------------------
(* Tasks, and the lease they release.                                      *)
LEMMA TaskAt ==
    ASSUME NEW pc \in {"idle", "waiting", "locked", "leased", "started", "undo", "stopping", "releasing", "renewing"},
           NEW k \in Locks \cup {NoLock}, NEW l \in Leases \cup {NoLease}
    PROVE  /\ At(pc, k, l) \in Task
           /\ At(pc, k, l).pc = pc /\ At(pc, k, l).lock = k /\ At(pc, k, l).lease = l
  BY DEF At, Task

(* Releasing a lease, or none, keeps the type of the leases.               *)
LEMMA ReleasedType ==
    ASSUME Types, NEW l
    PROVE  Released(l) \in [Leases -> {"absent", "live", "over"}]
  BY DEF Types, Released

(* The bound on the faults.                                                *)
LEMMA FaultCounted ==
    ASSUME Types, faults < MaxFaults
    PROVE  faults + 1 \in 0..MaxFaults
  BY ServicesAssumption DEF Types

(* A task moves on, and gives back its start lock when it is done with it. *)
LEMMA RequestMoves ==
    ASSUME IInv, NEW r \in Requests, NEW t, TaskInv(t),
           request' = [request EXCEPT ![r] = t],
           Starting(t) => Starting(request[r]) /\ t.lock = request[r].lock,
           held' = IF Starting(request[r]) /\ ~Starting(t) THEN held \ {request[r].lock} ELSE held,
           UNCHANGED refresh
    PROVE  RequestsInv' /\ LocksInv'
  <1>1. /\ request'[r] = t /\ \A q \in Requests \ {r} : request'[q] = request[q]
        /\ request' \in [Requests -> Task]
    BY DEF IInv, RequestsInv, TaskInv
  <1>2. RequestsInv'
    BY <1>1 DEF IInv, RequestsInv, TaskInv, Starting
  <1>3. held' \subseteq held
    OBVIOUS
  <1>4. \A q \in Requests : Starting(request'[q]) =>
            Starting(request[q]) /\ request'[q].lock = request[q].lock
    BY <1>1
  <1>5. \A q \in Requests : Starting(request'[q]) => request'[q].lock \in held'
    <2> SUFFICES ASSUME NEW q \in Requests, Starting(request'[q])
                 PROVE  request'[q].lock \in held'
      OBVIOUS
    <2>1. request[q].lock \in held /\ request'[q].lock = request[q].lock /\ Starting(request[q])
      BY <1>4 DEF IInv, LocksInv
    <2>2. CASE q = r
      BY <1>1, <2>1, <2>2
    <2>3. CASE q # r
      BY <2>1, <2>3 DEF IInv, LocksInv
    <2> QED BY <2>2, <2>3
  <1>6. RefreshHolds => refresh.lock \in held'
    BY DEF IInv, LocksInv
  <1>7. LocksInv'
    BY <1>3, <1>4, <1>5, <1>6 DEF IInv, LocksInv, RefreshHolds, Starting
  <1> QED BY <1>2, <1>7

(* What a step leaves alone.                                               *)
LEMMA RequestsKept ==
    ASSUME IInv, UNCHANGED <<request, held, refresh>>
    PROVE  RequestsInv' /\ LocksInv'
  BY DEF IInv, RequestsInv, TaskInv, LocksInv, RefreshHolds, Starting

-------------------------------------------------------------------------------
(* The requests.                                                           *)

(* An idle task holds nothing.                                             *)
LEMMA IdleTask == TaskInv(Idle) /\ Idle \in Task /\ Idle.pc = "idle" /\ ~Starting(Idle) /\ ~Ends(Idle)
  BY DEF TaskInv, Task, Idle, At, Starting, Ends

(* A request that ends gives back its lock.                                *)
LEMMA FinishMoves ==
    ASSUME IInv, NEW r \in Requests, Finish(r), UNCHANGED refresh
    PROVE  RequestsInv' /\ LocksInv'
  BY RequestMoves, IdleTask DEF Finish

(* No entry: wait for the lock of the moment.                              *)
LEMMA RequestStartInv ==
    ASSUME IInv, NEW r \in Requests, RequestStart(r)
    PROVE  IInv'
  <1>1. start_lock' \in Locks
    BY DEF RequestStart, UnusedLocks, IInv, Types
  <1>2. Types'
    BY <1>1 DEF RequestStart, IInv, Types
  <1> DEFINE t == At("waiting", start_lock', NoLease)
  <1>3. /\ TaskInv(t) /\ ~Starting(t) /\ ~Starting(request[r])
    BY <1>1, TaskAt, IdleTask DEF TaskInv, Starting, RequestStart
  <1>4. RequestsInv' /\ LocksInv'
    <2>1. request' = [request EXCEPT ![r] = t] /\ UNCHANGED <<refresh, held>>
      BY DEF RequestStart
    <2> HIDE DEF t
    <2> QED BY <1>3, <2>1, RequestMoves
  <1>5. OwnedInv'
    BY IdleTask DEF RequestStart, IInv, OwnedInv, Owned, RequestsInv, Ends
  <1> QED BY <1>2, <1>4, <1>5 DEF IInv

(* The entry of a service that does not answer is taken.                   *)
LEMMA RequestConnectFailedInv ==
    ASSUME IInv, NEW r \in Requests, RequestConnectFailed(r)
    PROVE  IInv'
  <1> DEFINE t == At("stopping", NoLock, entry)
  <1>1. TaskInv(t) /\ ~Starting(t) /\ ~Starting(request[r])
    BY TaskAt, IdleTask DEF TaskInv, Starting, RequestConnectFailed, IInv, Types
  <1>2. RequestsInv' /\ LocksInv'
    <2>1. request' = [request EXCEPT ![r] = t] /\ UNCHANGED <<refresh, held>>
      BY DEF RequestConnectFailed
    <2> HIDE DEF t
    <2> QED BY <1>1, <2>1, RequestMoves
  <1> QED BY <1>2 DEF RequestConnectFailed, IInv, Types, OwnedInv

(* The lock is free: start, unless somebody else did.                      *)
LEMMA RequestLockInv ==
    ASSUME IInv, NEW r \in Requests, RequestLock(r)
    PROVE  IInv'
  <1>1. Types'
    BY DEF RequestLock, IInv, Types
  <1>2. OwnedInv'
    <2>1. \A q \in Requests : Ends(request[q]) => Ends(request'[q])
      BY DEF RequestLock, Ends, IInv, RequestsInv
    <2> QED BY <2>1 DEF RequestLock, IInv, OwnedInv, Owned
  <1>3. CASE entry # NoLease
    BY <1>1, <1>2, <1>3, RequestMoves, IdleTask DEF RequestLock, Starting, IInv
  <1>4. CASE entry = NoLease
    <2> DEFINE t == [request[r] EXCEPT !.pc = "locked"]
    <2>1. /\ request' = [request EXCEPT ![r] = t] /\ held' = held \cup {request[r].lock}
          /\ request[r].pc = "waiting" /\ request[r].lock \notin held /\ UNCHANGED refresh
      BY <1>4 DEF RequestLock
    <2>2. /\ request[r] \in Task /\ request[r].lock \in Locks /\ ~Starting(request[r])
      BY <2>1 DEF IInv, RequestsInv, TaskInv, Starting
    <2>3. TaskInv(t) /\ t.lock = request[r].lock
      BY <2>2 DEF TaskInv, Task
    <2> HIDE DEF t
    <2>4. /\ request'[r] = t /\ \A q \in Requests \ {r} : request'[q] = request[q]
          /\ request' \in [Requests -> Task]
      BY <2>1, <2>3 DEF IInv, RequestsInv, TaskInv
    <2>5. RequestsInv'
      BY <2>3, <2>4 DEF IInv, RequestsInv, TaskInv, Starting
    <2>6. \A q \in Requests \ {r} : Starting(request[q]) => request[q].lock # t.lock
      BY <2>1, <2>3 DEF IInv, LocksInv
    <2>7. RefreshHolds => refresh.lock # t.lock
      BY <2>1, <2>3 DEF IInv, LocksInv
    <2>8. LocksInv'
      BY <2>1, <2>2, <2>3, <2>4, <2>6, <2>7 DEF IInv, LocksInv, RefreshHolds, Starting
    <2> QED BY <1>1, <1>2, <2>5, <2>8 DEF IInv
  <1> QED BY <1>3, <1>4

(* A step of one request that neither takes an entry nor the container.    *)
LEMMA OwnedKept ==
    ASSUME IInv, NEW r \in Requests, NEW t, request' = [request EXCEPT ![r] = t],
           ~Ends(request[r]) \/ Ends(t),
           UNCHANGED <<entry, container, reaper, refresh, orphaned>>
    PROVE  OwnedInv'
  <1>1. request'[r] = t /\ \A q \in Requests \ {r} : request'[q] = request[q]
    BY DEF IInv, RequestsInv
  <1>2. \A q \in Requests : Ends(request[q]) => Ends(request'[q])
    BY <1>1
  <1> QED BY <1>2 DEF IInv, OwnedInv, Owned, Ends

(* A lease, or none.                                                       *)
LEMMA RequestAcquireInv ==
    ASSUME IInv, NEW r \in Requests, RequestAcquire(r)
    PROVE  IInv'
  <1>1. CASE Finish(r) /\ UNCHANGED lease
    <2>1. Types'
      BY <1>1 DEF RequestAcquire, IInv, Types
    <2>2. RequestsInv' /\ LocksInv'
      BY <1>1, FinishMoves DEF RequestAcquire
    <2>3. OwnedInv'
      BY <1>1, OwnedKept, IdleTask DEF RequestAcquire, Finish, Ends
    <2> QED BY <2>1, <2>2, <2>3 DEF IInv
  <1>2. ASSUME NEW l \in Leases,
               lease' = lease \/ lease' = [lease EXCEPT ![l] = "live"],
               request' = [request EXCEPT ![r].pc = "leased", ![r].lease = l],
               UNCHANGED held
        PROVE  IInv'
    <2> DEFINE t == [request[r] EXCEPT !.pc = "leased", !.lease = l]
    <2>1. Types'
      BY <1>2 DEF RequestAcquire, IInv, Types
    <2>2. /\ request[r] \in Task /\ request[r].lock \in Locks /\ request[r].pc = "locked"
          /\ Starting(request[r])
      BY DEF RequestAcquire, IInv, RequestsInv, TaskInv, Starting
    <2>3. TaskInv(t) /\ t.lock = request[r].lock /\ Starting(t)
      BY <2>2 DEF TaskInv, Task, Starting
    <2>4. request' = [request EXCEPT ![r] = t]
      BY <1>2 DEF IInv, RequestsInv
    <2> HIDE DEF t
    <2>5. RequestsInv' /\ LocksInv'
      BY <1>2, <2>2, <2>3, <2>4, RequestMoves DEF RequestAcquire
    <2>6. OwnedInv'
      BY <2>2, <2>4, OwnedKept DEF RequestAcquire, Ends
    <2> QED BY <2>1, <2>5, <2>6 DEF IInv
  <1> QED BY <1>1, <1>2 DEF RequestAcquire

(* The container is started, or nothing is.                                *)
LEMMA RequestRunInv ==
    ASSUME IInv, NEW r \in Requests, RequestRun(r)
    PROVE  IInv'
  <1>1. Types'
    BY DEF RequestRun, IInv, Types
  <1>2. ASSUME NEW pc \in {"undo", "started"}, request' = [request EXCEPT ![r].pc = pc]
        PROVE  RequestsInv' /\ LocksInv' /\ request'[r].pc = pc /\ \A q \in Requests \ {r} : request'[q] = request[q]
    <2> DEFINE t == [request[r] EXCEPT !.pc = pc]
    <2>1. /\ request[r] \in Task /\ request[r].lock \in Locks /\ request[r].lease \in Leases
          /\ Starting(request[r])
      BY DEF RequestRun, IInv, RequestsInv, TaskInv, Starting
    <2>2. TaskInv(t) /\ t.lock = request[r].lock /\ Starting(t) /\ t.pc = pc
      BY <2>1 DEF TaskInv, Task, Starting
    <2>3. request' = [request EXCEPT ![r] = t]
      BY <1>2 DEF IInv, RequestsInv
    <2> HIDE DEF t
    <2>4. RequestsInv' /\ LocksInv'
      BY <2>1, <2>2, <2>3, RequestMoves DEF RequestRun
    <2> QED BY <2>2, <2>3, <2>4 DEF IInv, RequestsInv
  <1>3. CASE request' = [request EXCEPT ![r].pc = "undo"] /\ UNCHANGED <<container, orphaned>>
    <2>1. \A q \in Requests : Ends(request[q]) => Ends(request'[q])
      BY <1>2, <1>3 DEF RequestRun, Ends
    <2>2. OwnedInv'
      BY <1>3, <2>1 DEF RequestRun, IInv, OwnedInv, Owned
    <2> QED BY <1>1, <1>2, <1>3, <2>2 DEF IInv
  <1>4. CASE request' = [request EXCEPT ![r].pc = "started"]
    <2>1. Ends(request'[r])
      BY <1>2, <1>4 DEF Ends
    <2> QED BY <1>1, <1>2, <1>4, <2>1 DEF IInv, OwnedInv, Owned
  <1> QED BY <1>3, <1>4 DEF RequestRun

(* The entry is made, or the container removed again.                      *)
LEMMA RequestReadyInv ==
    ASSUME IInv, NEW r \in Requests, RequestReady(r)
    PROVE  IInv'
  <1>1. /\ request[r] \in Task /\ request[r].lock \in Locks /\ request[r].lease \in Leases
        /\ Starting(request[r])
    BY DEF RequestReady, IInv, RequestsInv, TaskInv, Starting
  <1>2. Types'
    BY <1>1 DEF RequestReady, IInv, Types
  <1>3. CASE entry' = request[r].lease /\ Finish(r)
    <2>1. RequestsInv' /\ LocksInv'
      BY <1>3, FinishMoves DEF RequestReady
    <2>2. entry' # NoLease
      BY <1>1, <1>3, ServicesAssumption
    <2> QED BY <1>2, <2>1, <2>2 DEF IInv, OwnedInv, Owned
  <1>4. CASE request' = [request EXCEPT ![r].pc = "undo"] /\ container' = FALSE /\ UNCHANGED held
    <2> DEFINE t == [request[r] EXCEPT !.pc = "undo"]
    <2>1. TaskInv(t) /\ t.lock = request[r].lock /\ Starting(t)
      BY <1>1 DEF TaskInv, Task, Starting
    <2>2. request' = [request EXCEPT ![r] = t]
      BY <1>4 DEF IInv, RequestsInv
    <2> HIDE DEF t
    <2>3. RequestsInv' /\ LocksInv'
      BY <1>1, <1>4, <2>1, <2>2, RequestMoves DEF RequestReady
    <2> QED BY <1>2, <1>4, <2>3 DEF IInv, OwnedInv
  <1> QED BY <1>3, <1>4 DEF RequestReady

(* The lease goes back.                                                    *)
LEMMA RequestUndoInv ==
    ASSUME IInv, NEW r \in Requests, RequestUndo(r)
    PROVE  IInv'
  <1>1. Types'
    BY ReleasedType DEF RequestUndo, IInv, Types
  <1>2. RequestsInv' /\ LocksInv'
    BY FinishMoves DEF RequestUndo
  <1>3. OwnedInv'
    BY OwnedKept DEF RequestUndo, Finish, Ends
  <1> QED BY <1>1, <1>2, <1>3 DEF IInv

(* invalidate, in a request.                                               *)
LEMMA RequestInvalidateInv ==
    ASSUME IInv, NEW r \in Requests, RequestInvalidate(r)
    PROVE  IInv'
  <1>1. Types'
    BY ReleasedType DEF RequestInvalidate, StopContainer, ReleaseEntry, IInv, Types
  <1>2. CASE StopContainer(request[r]) /\ request' = [request EXCEPT ![r].pc = "releasing"]
    <2> DEFINE t == [request[r] EXCEPT !.pc = "releasing"]
    <2>1. request[r] \in Task /\ ~Starting(request[r])
      BY <1>2 DEF StopContainer, Starting, IInv, RequestsInv
    <2>2. TaskInv(t) /\ ~Starting(t)
      BY <2>1 DEF TaskInv, Task, Starting
    <2>3. request' = [request EXCEPT ![r] = t]
      BY <1>2 DEF IInv, RequestsInv
    <2> HIDE DEF t
    <2>4. RequestsInv' /\ LocksInv'
      BY <2>1, <2>2, <2>3, RequestMoves DEF RequestInvalidate
    <2> QED BY <1>1, <1>2, <2>4 DEF StopContainer, IInv, OwnedInv
  <1>3. CASE /\ ReleaseEntry(request[r]) /\ request' = [request EXCEPT ![r] = Idle]
             /\ UNCHANGED <<container, orphaned>>
    <2>1. RequestsInv' /\ LocksInv'
      BY <1>3, RequestMoves, IdleTask DEF RequestInvalidate, ReleaseEntry, Starting
    <2>2. OwnedInv'
      BY <1>3, OwnedKept DEF RequestInvalidate, ReleaseEntry, Ends
    <2> QED BY <1>1, <2>1, <2>2 DEF IInv
  <1> QED BY <1>2, <1>3 DEF RequestInvalidate

(* The client is gone.                                                     *)
LEMMA RequestDroppedInv ==
    ASSUME IInv, NEW r \in Requests, RequestDropped(r)
    PROVE  IInv'
  <1>1. Types'
    <2>1. faults' \in 0..MaxFaults
      BY FaultCounted DEF IInv, RequestDropped
    <2>2. orphaned' \in BOOLEAN
      BY DEF RequestDropped
    <2> QED BY <2>1, <2>2 DEF RequestDropped, IInv, Types
  <1>2. RequestsInv' /\ LocksInv'
    BY FinishMoves DEF RequestDropped
  <1>3. OwnedInv'
    <2>1. CASE Ends(request[r]) /\ container
      BY <2>1 DEF RequestDropped, Ends, OwnedInv, Owned
    <2>2. CASE ~container
      BY <2>2 DEF RequestDropped, OwnedInv
    <2>3. CASE ~Ends(request[r]) /\ container
      <3>1. \A q \in Requests : Ends(request[q]) => Ends(request'[q])
        BY <2>3 DEF RequestDropped, Finish, IInv, RequestsInv
      <3> QED BY <3>1 DEF RequestDropped, IInv, OwnedInv, Owned
    <2> QED BY <2>1, <2>2, <2>3
  <1> QED BY <1>1, <1>2, <1>3 DEF IInv

-------------------------------------------------------------------------------
(* The reaper, the refresh and the faults.                                 *)

(* A lease is renewed, or the entry taken and its container stopped.       *)
LEMMA ReaperInv ==
    ASSUME IInv, ReaperStep
    PROVE  IInv'
  <1>1. RequestsInv' /\ LocksInv'
    BY RequestsKept DEF ReaperStep, ReaperRead, ReaperRenew, ReaperIdle, ReaperStop
  <1>2. CASE ReaperRead
    <2> DEFINE t == At("renewing", NoLock, entry)
    <2>1. t \in Task /\ t.pc = "renewing"
      <3>1. entry \in Leases \cup {NoLease}
        BY DEF IInv, Types
      <3> QED BY <3>1, TaskAt
    <2>2. reaper' = t /\ ~Ends(reaper)
      BY <1>2, IdleTask DEF ReaperRead
    <2> HIDE DEF t
    <2>3. Types'
      BY <1>2, <2>1, <2>2 DEF ReaperRead, IInv, Types
    <2>4. OwnedInv'
      BY <1>2, <2>2 DEF ReaperRead, IInv, OwnedInv, Owned
    <2> QED BY <1>1, <2>3, <2>4 DEF IInv
  <1>3. ASSUME TakeEntry, ~Ends(reaper),
               UNCHANGED <<routed, lease, container, start_lock, held, request, refresh, orphaned, faults>>
        PROVE  IInv'
    <2> DEFINE t == At("stopping", NoLock, entry)
    <2>1. t \in Task /\ t.pc = "stopping" /\ Ends(t)
      <3>1. entry \in Leases \cup {NoLease}
        BY DEF IInv, Types
      <3> QED BY <3>1, TaskAt DEF Ends
    <2>2. entry' = NoLease /\ reaper' = IF entry = NoLease THEN Idle ELSE t
      BY <1>3 DEF TakeEntry
    <2> HIDE DEF t
    <2>3. Types'
      BY <1>3, <2>1, <2>2, IdleTask DEF IInv, Types
    <2>4. OwnedInv'
      BY <1>3, <2>1, <2>2 DEF IInv, OwnedInv, Owned
    <2> QED BY <1>1, <2>3, <2>4 DEF IInv
  <1>4. CASE ReaperRenew
    <2>1. ~Ends(reaper)
      BY <1>4 DEF ReaperRenew, Ends
    <2>2. CASE TakeEntry
      BY <1>3, <1>4, <2>1, <2>2 DEF ReaperRenew
    <2>3. CASE reaper' = Idle /\ UNCHANGED entry
      <3>1. Types'
        BY <1>4, <2>3, IdleTask DEF ReaperRenew, IInv, Types
      <3>2. OwnedInv'
        BY <1>4, <2>1, <2>3 DEF ReaperRenew, IInv, OwnedInv, Owned
      <3> QED BY <1>1, <3>1, <3>2 DEF IInv
    <2> QED BY <1>4, <2>2, <2>3 DEF ReaperRenew
  <1>5. CASE ReaperIdle
    BY <1>3, <1>5, IdleTask DEF ReaperIdle
  <1>6. CASE ReaperStop
    <2>1. CASE StopContainer(reaper) /\ reaper' = [reaper EXCEPT !.pc = "releasing"] /\ UNCHANGED lease
      <3>1. Types'
        BY <1>6, <2>1 DEF ReaperStop, StopContainer, IInv, Types, Task
      <3> QED BY <1>1, <2>1, <3>1 DEF StopContainer, IInv, OwnedInv
    <2>2. CASE ReleaseEntry(reaper) /\ reaper' = Idle /\ UNCHANGED <<container, orphaned>>
      <3>1. Types'
        BY <1>6, <2>2, ReleasedType, IdleTask DEF ReaperStop, ReleaseEntry, IInv, Types
      <3>2. OwnedInv'
        BY <1>6, <2>2 DEF ReaperStop, ReleaseEntry, IInv, OwnedInv, Owned, Ends
      <3> QED BY <1>1, <3>1, <3>2 DEF IInv
    <2> QED BY <1>6, <2>1, <2>2 DEF ReaperStop
  <1> QED BY <1>2, <1>4, <1>5, <1>6 DEF ReaperStep

(* reconcile_routes.                                                       *)
LEMMA RefreshInv ==
    ASSUME IInv, RefreshStep
    PROVE  IInv'
  <1>1. RequestsInv'
    BY
       DEF RefreshStep, RefreshBegin, RefreshLock, RefreshRelease, RefreshStop, IInv, RequestsInv, TaskInv, Starting
  <1>2. CASE RefreshBegin
    <2> DEFINE t == At("waiting", start_lock, NoLease)
    <2>1. t \in Task /\ t.pc = "waiting"
      BY TaskAt DEF IInv, Types
    <2>2. refresh' = t
      BY <1>2 DEF RefreshBegin
    <2> HIDE DEF t
    <2>3. Types'
      BY <1>2, <2>1, <2>2 DEF RefreshBegin, IInv, Types
    <2>4. LocksInv'
      BY <1>2, <2>1, <2>2 DEF RefreshBegin, IInv, LocksInv, RefreshHolds, Starting
    <2>5. OwnedInv'
      BY <1>2 DEF RefreshBegin, IInv, OwnedInv, Owned, Ends
    <2> QED BY <1>1, <2>3, <2>4, <2>5 DEF IInv
  <1>3. CASE RefreshLock
    <2> DEFINE t == At("releasing", refresh.lock, entry)
    <2>1. refresh.lock \in Locks \cup {NoLock} /\ entry \in Leases \cup {NoLease}
      BY DEF IInv, Types, Task
    <2>2. t \in Task /\ t.pc = "releasing" /\ t.lock = refresh.lock
      BY <2>1, TaskAt
    <2>3. refresh' = t
      BY <1>3 DEF RefreshLock
    <2> HIDE DEF t
    <2>4. Types'
      BY <1>3, <2>2, <2>3 DEF RefreshLock, IInv, Types
    <2>5. LocksInv'
      BY <1>3, <2>1, <2>2, <2>3 DEF RefreshLock, IInv, LocksInv, RefreshHolds, Starting
    <2>6. OwnedInv'
      BY <2>2, <2>3 DEF OwnedInv, Owned
    <2> QED BY <1>1, <2>4, <2>5, <2>6 DEF IInv
  <1>4. CASE RefreshRelease
    <2> DEFINE t == [refresh EXCEPT !.pc = "stopping"]
    <2>1. t \in Task /\ t.pc = "stopping" /\ t.lock = refresh.lock
      BY DEF IInv, Types, Task
    <2>2. refresh' = t
      BY <1>4 DEF RefreshRelease
    <2> HIDE DEF t
    <2>3. Types'
      BY <1>4, <2>1, <2>2, ReleasedType DEF RefreshRelease, IInv, Types
    <2>4. LocksInv'
      BY <1>4, <2>1, <2>2 DEF RefreshRelease, IInv, LocksInv, RefreshHolds, Starting
    <2>5. OwnedInv'
      BY <2>1, <2>2 DEF OwnedInv, Owned
    <2> QED BY <1>1, <2>3, <2>4, <2>5 DEF IInv
  <1>5. CASE RefreshStop
    <2>1. refresh' = Idle /\ container' = FALSE
      BY <1>5 DEF RefreshStop, StopContainer, Idle
    <2>2. Types'
      BY <1>5, <2>1, IdleTask DEF RefreshStop, StopContainer, IInv, Types
    <2>3. \A r \in Requests : Starting(request[r]) => request[r].lock \in held \ {refresh.lock}
      BY <1>5, ServicesAssumption DEF RefreshStop, StopContainer, IInv, LocksInv, RefreshHolds
    <2>4. LocksInv'
      BY <1>5, <2>1, <2>3, IdleTask DEF RefreshStop, IInv, LocksInv, RefreshHolds, Starting
    <2> QED BY <1>1, <2>1, <2>2, <2>4 DEF IInv, OwnedInv
  <1> QED BY <1>2, <1>3, <1>4, <1>5 DEF RefreshStep

(* A restart of the node forgets all but the container.                    *)
LEMMA RestartInv ==
    ASSUME IInv, Crash \/ Shutdown
    PROVE  IInv'
  <1>1. request' = [r \in Requests |-> Idle] /\ refresh' = Idle /\ reaper' = Idle /\ held' = {}
    BY DEF Crash, Shutdown, LoseMemory, Idle
  <1>2. RequestsInv' /\ LocksInv'
    BY <1>1, IdleTask DEF RequestsInv, LocksInv, RefreshHolds, TaskInv, Starting
  <1>3. Types'
    <2>1. faults' \in 0..MaxFaults
      BY FaultCounted DEF IInv, Crash, Shutdown, LoseMemory
    <2>2. lease' \in [Leases -> {"absent", "live", "over"}]
      BY ReleasedType DEF Crash, Shutdown, IInv, Types
    <2>3. /\ entry' = NoLease /\ start_lock' = NoLock /\ routed' = routed
          /\ container' \in BOOLEAN /\ orphaned' \in BOOLEAN
      BY DEF Crash, Shutdown, LoseMemory, IInv, Types
    <2> QED BY <1>1, <2>1, <2>2, <2>3, IdleTask DEF IInv, Types
  <1>4. OwnedInv'
    <2>1. orphaned' = container'
      BY DEF Crash, Shutdown
    <2> QED BY <2>1 DEF OwnedInv, Owned
  <1> QED BY <1>2, <1>3, <1>4 DEF IInv

(* A stop that fails leaves the container to nobody.                       *)
LEMMA StopFailsInv ==
    ASSUME IInv, StopFails
    PROVE  IInv'
  <1>1. OwnedInv'
    BY DEF StopFails, OwnedInv, Owned
  <1>2. faults' \in 0..MaxFaults /\ orphaned' \in BOOLEAN
    <2>1. faults' \in 0..MaxFaults
      BY FaultCounted DEF IInv, StopFails
    <2>2. orphaned' \in BOOLEAN
      BY DEF StopFails
    <2> QED BY <2>1, <2>2
  <1>3. CASE /\ refresh.pc = "stopping"
             /\ refresh' = At("idle", NoLock, NoLease) /\ held' = held \ {refresh.lock}
             /\ UNCHANGED <<request, reaper>>
    <2>1. refresh' = Idle
      BY <1>3 DEF Idle
    <2>2. Types'
      BY <1>2, <1>3, <2>1, IdleTask DEF StopFails, IInv, Types
    <2>3. RequestsInv'
      BY <1>3 DEF IInv, RequestsInv, TaskInv, Starting
    <2>4. \A r \in Requests : Starting(request[r]) => request[r].lock \in held \ {refresh.lock}
      BY <1>3, ServicesAssumption DEF IInv, LocksInv, RefreshHolds
    <2>5. LocksInv'
      BY <1>3, <2>1, <2>4, IdleTask DEF IInv, LocksInv, RefreshHolds, Starting
    <2> QED BY <1>1, <2>2, <2>3, <2>5 DEF IInv
  <1>4. CASE /\ reaper.pc = "stopping" /\ reaper' = [reaper EXCEPT !.pc = "releasing"]
             /\ UNCHANGED <<request, refresh, held>>
    <2>1. RequestsInv' /\ LocksInv'
      BY <1>4, RequestsKept
    <2>2. Types'
      BY <1>2, <1>4 DEF StopFails, IInv, Types, Task
    <2> QED BY <1>1, <2>1, <2>2 DEF IInv
  <1>5. ASSUME NEW r \in Requests, NEW pc \in {"releasing", "undo"},
               request[r].pc = IF pc = "undo" THEN "started" ELSE "stopping",
               request' = [request EXCEPT ![r].pc = pc], UNCHANGED <<reaper, refresh, held>>
        PROVE  IInv'
    <2> DEFINE t == [request[r] EXCEPT !.pc = pc]
    <2>1. request[r] \in Task /\ TaskInv(request[r])
      BY DEF IInv, RequestsInv
    <2>2. /\ TaskInv(t) /\ t.lock = request[r].lock
          /\ Starting(t) <=> Starting(request[r])
      BY <1>5, <2>1 DEF TaskInv, Task, Starting
    <2>3. request' = [request EXCEPT ![r] = t]
      BY <1>5 DEF IInv, RequestsInv
    <2> HIDE DEF t
    <2>4. RequestsInv' /\ LocksInv'
      BY <1>5, <2>2, <2>3, RequestMoves
    <2>5. Types'
      BY <1>2, <1>5 DEF StopFails, IInv, Types
    <2> QED BY <1>1, <2>4, <2>5 DEF IInv
  <1> QED BY <1>3, <1>4, <1>5 DEF StopFails

-------------------------------------------------------------------------------
(* At first nothing runs.                                                  *)
LEMMA InitInv == Init => IInv
  <1> SUFFICES ASSUME Init PROVE IInv
    OBVIOUS
  <1>1. refresh = Idle /\ reaper = Idle /\ request = [r \in Requests |-> Idle]
    BY DEF Init, Idle
  <1>2. Types
    <2>1. faults \in 0..MaxFaults
      BY ServicesAssumption DEF Init
    <2> QED BY <1>1, <2>1, IdleTask DEF Init, Types
  <1>3. RequestsInv /\ LocksInv
    BY <1>1, IdleTask DEF Init, RequestsInv, LocksInv, RefreshHolds
  <1> QED BY <1>2, <1>3 DEF Init, IInv, OwnedInv

(* Every step preserves it.                                                *)
LEMMA NextInv == IInv /\ [Next]_vars => IInv'
  <1> SUFFICES ASSUME IInv, [Next]_vars PROVE IInv'
    OBVIOUS
  <1>1. ASSUME NEW r \in Requests,
               \/ RequestStart(r) \/ RequestConnectFailed(r) \/ RequestStep(r) \/ RequestDropped(r)
        PROVE  IInv'
    BY <1>1, RequestStartInv, RequestConnectFailedInv, RequestLockInv, RequestAcquireInv,
       RequestRunInv,
       RequestReadyInv, RequestUndoInv, RequestInvalidateInv, RequestDroppedInv DEF RequestStep
  <1>2. CASE RouteChange \/ (\E l \in Leases : Expire(l)) \/ UNCHANGED vars
    <2>1. RequestsInv' /\ LocksInv'
      BY <1>2, RequestsKept DEF RouteChange, Expire, vars
    <2>2. Types'
      BY <1>2 DEF RouteChange, Expire, vars, IInv, Types
    <2>3. OwnedInv'
      BY <1>2 DEF RouteChange, Expire, vars, IInv, OwnedInv, Owned, Ends
    <2> QED BY <2>1, <2>2, <2>3 DEF IInv
  <1>3. CASE ContainerExits
    <2>1. RequestsInv' /\ LocksInv'
      BY <1>3, RequestsKept DEF ContainerExits
    <2>2. Types'
      <3>1. faults' \in 0..MaxFaults
        BY <1>3, FaultCounted DEF IInv, ContainerExits
      <3> QED BY <1>3, <3>1 DEF ContainerExits, IInv, Types
    <2> QED BY <1>3, <2>1, <2>2 DEF ContainerExits, IInv, OwnedInv
  <1> QED BY <1>1, <1>2, <1>3, ReaperInv, RefreshInv, RestartInv, StopFailsInv DEF Next

(* The strengthening holds in every reachable state.                       *)
THEOREM Invariance == Spec => []IInv
  <1> QED BY InitInv, NextInv, PTL DEF Spec

(* Values keep their types (ssr.rs).                                       *)
THEOREM TypeCorrect == Spec => []TypeOK
  <1>1. IInv => TypeOK
    BY DEF IInv, Types, RequestsInv, LocksInv, TypeOK
  <1> QED BY <1>1, Invariance, PTL

(* A running container has somebody who will stop it, unless a task that   *)
(* ended before its time left it behind (upstream_for, invalidate,         *)
(* reap_once and reconcile_routes).                                        *)
THEOREM ContainerOwnedHolds == Spec => []ContainerOwned
  <1>1. IInv => ContainerOwned
    BY DEF IInv, OwnedInv, Owned, Ends, ContainerOwned, Tasks
  <1> QED BY <1>1, Invariance, PTL

(* Two starts at once have different locks (start_locks).                  *)
THEOREM StartsExcludeHolds == Spec => []StartsExclude
  <1>1. IInv => StartsExclude
    BY DEF IInv, LocksInv, StartsExclude
  <1> QED BY <1>1, Invariance, PTL

===============================================================================
