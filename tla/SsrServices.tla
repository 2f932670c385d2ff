------------------------------ MODULE SsrServices ------------------------------
(***************************************************************************)
(* One SSR deployment on one Serve node (node/src/serve/ssr.rs): its entry *)
(* in the registry of services, its container, and its leases.             *)
(*                                                                         *)
(* Four parties interleave at every await: proxied requests, which start   *)
(* the service under a start lock or drop it when its container does not   *)
(* answer; the reaper, which renews the lease and stops an idle service;   *)
(* the route refresh, which stops what is not routed here; the control     *)
(* API, which lets leases expire and sweeps them.  The container's name is *)
(* the deployment's, so whoever starts it adopts the one that runs.        *)
(*                                                                         *)
(* A lease is over for the node when it is released or its ninety seconds  *)
(* are (SsrLeases has the difference); refusals by the quotas are free.     *)
(* A request is dropped when its client disconnects, wherever it waits.    *)
(* A restart of the node loses everything but the container.               *)
(***************************************************************************)
EXTENDS Integers, FiniteSets

CONSTANTS
    Requests,         \* proxied requests in flight
    Locks,            \* start locks: the map forgets one and makes another
    NoLock,
    Leases,           \* lease ids, in the order they are issued
    NoLease,
    MaxFaults         \* bound on dropped requests, failed stops, restarts and dead containers

ASSUME ServicesAssumption ==
    /\ NoLock \notin Locks /\ NoLease \notin Leases
    /\ Leases \subseteq Nat /\ MaxFaults \in Nat

VARIABLES
    routed,           \* the node's routes send the deployment here
    lease,            \* the leases in the control API
    entry,            \* services[deployment]: the lease of the entry, if any
    container,        \* the container runs
    start_lock,       \* start_locks[deployment]
    held,             \* the start locks that are held
    request,          \* per request: where it is, with which lock and lease
    reaper,
    refresh,          \* reconcile_routes
    orphaned,         \* history: the container was left running by a task that ended
    faults            \* history, for MaxFaults

vars == <<routed, lease, entry, container, start_lock, held, request, reaper, refresh, orphaned, faults>>

Task == [pc : {"idle", "waiting", "locked", "leased", "started", "undo", "stopping", "releasing", "renewing"},
         lock : Locks \cup {NoLock}, lease : Leases \cup {NoLease}]

At(pc, k, l) == [pc |-> pc, lock |-> k, lease |-> l]

Idle == At("idle", NoLock, NoLease)

Live(l) == l # NoLease /\ lease[l] = "live"

(* release is idempotent. *)
Released(l) == IF l # NoLease THEN [lease EXCEPT ![l] = "over"] ELSE lease

(* Locks nobody waits for or holds: a fresh one is among them. *)
UnusedLocks == Locks \ (held \cup {start_lock} \cup {request[r].lock : r \in Requests})

Starting(task) == task.pc \in {"locked", "leased", "started", "undo"}

Tasks == {request[r] : r \in Requests} \cup {reaper}

-------------------------------------------------------------------------------
Init ==
    /\ routed = TRUE
    /\ lease = [l \in Leases |-> "absent"]
    /\ entry = NoLease
    /\ container = FALSE
    /\ start_lock = NoLock
    /\ held = {}
    /\ request = [r \in Requests |-> Idle]
    /\ reaper = Idle
    /\ refresh = At("idle", NoLock, NoLease)
    /\ orphaned = FALSE
    /\ faults = 0

(* A request that finds no entry asks for the start lock of the moment.    *)
RequestStart(r) ==
    /\ request[r] = Idle /\ routed
    /\ entry = NoLease
    /\ start_lock # NoLock \/ UnusedLocks # {}
    /\ start_lock' = IF start_lock = NoLock THEN CHOOSE k \in UnusedLocks : TRUE ELSE start_lock
    /\ request' = [request EXCEPT ![r] = At("waiting", start_lock', NoLease)]
    /\ UNCHANGED <<routed, lease, entry, container, held, reaper, refresh, orphaned, faults>>

(* A request proxied to an entry whose container does not answer drops it. *)
RequestConnectFailed(r) ==
    /\ request[r] = Idle /\ routed
    /\ entry # NoLease /\ ~container
    /\ request' = [request EXCEPT ![r] = At("stopping", NoLock, entry)]
    /\ entry' = NoLease
    /\ UNCHANGED <<routed, lease, container, start_lock, held, reaper, refresh, orphaned, faults>>

RequestLock_NotExclusive(r) ==
    /\ request[r].pc = "waiting"
    /\ request' = [request EXCEPT ![r] = IF entry # NoLease THEN Idle ELSE [@ EXCEPT !.pc = "locked"]]
    /\ held' = IF entry # NoLease THEN held ELSE held \cup {request[r].lock}
    /\ UNCHANGED <<routed, lease, entry, container, start_lock, reaper, refresh, orphaned, faults>>

(* Another request may have started the service while this one waited.     *)
RequestLock(r) ==
    /\ request[r].pc = "waiting" /\ request[r].lock \notin held
    /\ IF entry # NoLease
       THEN request' = [request EXCEPT ![r] = Idle] /\ UNCHANGED held
       ELSE /\ request' = [request EXCEPT ![r].pc = "locked"]
            /\ held' = held \cup {request[r].lock}
    /\ UNCHANGED <<routed, lease, entry, container, start_lock, reaper, refresh, orphaned, faults>>

Finish(r) ==
    /\ request' = [request EXCEPT ![r] = Idle]
    /\ held' = IF Starting(request[r]) THEN held \ {request[r].lock} ELSE held

NextLease(l) == lease[l] = "absent" /\ \A m \in Leases : m < l => lease[m] # "absent"

(* acquire_ssr_lease: the live lease again, or a new one, or a refusal.    *)
RequestAcquire(r) ==
    /\ request[r].pc = "locked"
    /\ \/ Finish(r) /\ UNCHANGED lease
       \/ \E l \in Leases :
             /\ \/ Live(l) /\ UNCHANGED lease
                \/ /\ \A m \in Leases : ~Live(m)
                   /\ NextLease(l)
                   /\ lease' = [lease EXCEPT ![l] = "live"]
             /\ request' = [request EXCEPT ![r].pc = "leased", ![r].lease = l]
             /\ UNCHANGED held
    /\ UNCHANGED <<routed, entry, container, start_lock, reaper, refresh, orphaned, faults>>

(* No entry file, no image or no container: the lease goes back.  What the *)
(* request awaits before the container runs touches no shared state, so it *)
(* is one step.                                                            *)
RequestRun(r) ==
    /\ request[r].pc = "leased"
    /\ \/ request' = [request EXCEPT ![r].pc = "undo"] /\ UNCHANGED <<container, orphaned>>
       \/ request' = [request EXCEPT ![r].pc = "started"] /\ container' = TRUE /\ orphaned' = FALSE
    /\ UNCHANGED <<routed, lease, entry, start_lock, held, reaper, refresh, faults>>

RequestReady_LeavesContainer(r) ==
    /\ request[r].pc = "started"
    /\ \/ container /\ entry' = request[r].lease /\ Finish(r)
       \/ /\ request' = [request EXCEPT ![r].pc = "undo"]
          /\ UNCHANGED <<entry, held>>
    /\ UNCHANGED <<routed, lease, container, start_lock, reaper, refresh, orphaned, faults>>

(* wait_ready, then the entry; or the container is removed again.          *)
RequestReady(r) ==
    /\ request[r].pc = "started"
    /\ \/ container /\ entry' = request[r].lease /\ Finish(r) /\ UNCHANGED <<container, orphaned>>
       \/ /\ request' = [request EXCEPT ![r].pc = "undo"]
          /\ container' = FALSE /\ orphaned' = FALSE
          /\ UNCHANGED <<entry, held>>
    /\ UNCHANGED <<routed, lease, start_lock, reaper, refresh, faults>>

RequestUndo(r) ==
    /\ request[r].pc = "undo"
    /\ lease' = Released(request[r].lease)
    /\ Finish(r)
    /\ UNCHANGED <<routed, entry, container, start_lock, reaper, refresh, orphaned, faults>>

(* invalidate, after the entry is gone: stop the container, ...            *)
StopContainer(task) == task.pc = "stopping" /\ container' = FALSE /\ orphaned' = FALSE

(* ... then release the lease of the entry.                                *)
ReleaseEntry(task) == task.pc = "releasing" /\ lease' = Released(task.lease)

RequestInvalidate(r) ==
    /\ \/ StopContainer(request[r]) /\ request' = [request EXCEPT ![r].pc = "releasing"] /\ UNCHANGED lease
       \/ ReleaseEntry(request[r]) /\ request' = [request EXCEPT ![r] = Idle] /\ UNCHANGED <<container, orphaned>>
    /\ UNCHANGED <<routed, entry, start_lock, held, reaper, refresh, faults>>

(* The client disconnects: the request's future is dropped where it waits. *)
RequestDropped(r) ==
    /\ request[r] # Idle /\ faults < MaxFaults
    /\ orphaned' = (orphaned \/ (container /\ request[r].pc \in {"started", "stopping"}))
    /\ Finish(r)
    /\ faults' = faults + 1
    /\ UNCHANGED <<routed, lease, entry, container, start_lock, reaper, refresh>>

(* The reaper reads the lease of the entry ...                             *)
ReaperRead ==
    /\ reaper = Idle /\ entry # NoLease
    /\ reaper' = At("renewing", NoLock, entry)
    /\ UNCHANGED <<routed, lease, entry, container, start_lock, held, request, refresh, orphaned, faults>>

TakeEntry ==
    /\ entry' = NoLease
    /\ reaper' = IF entry = NoLease THEN Idle ELSE At("stopping", NoLock, entry)

(* ... and renews it; if that fails it drops the entry, whichever it is now*)
ReaperRenew ==
    /\ reaper.pc = "renewing"
    /\ \/ Live(reaper.lease) /\ reaper' = Idle /\ UNCHANGED entry
       \/ TakeEntry
    /\ UNCHANGED <<routed, lease, container, start_lock, held, request, refresh, orphaned, faults>>

(* After the renewals it stops a service unused for idle_stop_seconds.     *)
ReaperIdle ==
    /\ reaper = Idle /\ entry # NoLease
    /\ TakeEntry
    /\ UNCHANGED <<routed, lease, container, start_lock, held, request, refresh, orphaned, faults>>

ReaperStop ==
    /\ \/ StopContainer(reaper) /\ reaper' = [reaper EXCEPT !.pc = "releasing"] /\ UNCHANGED lease
       \/ ReleaseEntry(reaper) /\ reaper' = Idle /\ UNCHANGED <<container, orphaned>>
    /\ UNCHANGED <<routed, entry, start_lock, held, request, refresh, faults>>

(* reconcile_routes for a deployment that is not routed here: it waits for *)
(* the start lock, if the map has one, ...                                 *)
RefreshBegin ==
    /\ refresh.pc = "idle" /\ ~routed
    /\ refresh' = At("waiting", start_lock, NoLease)
    /\ UNCHANGED <<routed, lease, entry, container, start_lock, held, request, reaper, orphaned, faults>>

RefreshLock_Always ==
    /\ refresh.pc = "waiting" /\ refresh.lock \notin held
    /\ held' = held \cup {refresh.lock}
    /\ entry' = NoLease
    /\ refresh' = At("releasing", refresh.lock, entry)
    /\ UNCHANGED <<routed, lease, container, start_lock, request, reaper, orphaned, faults>>

RefreshLock ==
    /\ refresh.pc = "waiting" /\ refresh.lock \notin held
    /\ held' = held \cup ({refresh.lock} \ {NoLock})
    /\ entry' = NoLease
    /\ refresh' = At("releasing", refresh.lock, entry)
    /\ UNCHANGED <<routed, lease, container, start_lock, request, reaper, orphaned, faults>>

RefreshRelease ==
    /\ refresh.pc = "releasing"
    /\ lease' = Released(refresh.lease)
    /\ refresh' = [refresh EXCEPT !.pc = "stopping"]
    /\ UNCHANGED <<routed, entry, container, start_lock, held, request, reaper, orphaned, faults>>

RefreshStop_OnlyKnown ==
    /\ refresh.pc = "stopping"
    /\ IF refresh.lease # NoLease THEN StopContainer(refresh) ELSE UNCHANGED <<container, orphaned>>
    /\ held' = held \ {refresh.lock}
    /\ start_lock' = IF start_lock = refresh.lock THEN NoLock ELSE start_lock
    /\ refresh' = At("idle", NoLock, NoLease)
    /\ UNCHANGED <<routed, lease, entry, request, reaper, faults>>

(* ... stops the container, known or left behind, and forgets the lock.    *)
RefreshStop ==
    /\ StopContainer(refresh)
    /\ held' = held \ {refresh.lock}
    /\ start_lock' = IF start_lock = refresh.lock THEN NoLock ELSE start_lock
    /\ refresh' = At("idle", NoLock, NoLease)
    /\ UNCHANGED <<routed, lease, entry, request, reaper, faults>>

(* The container runtime refuses a stop.  The refresh gives up until its   *)
(* next tick and leaves the lock in the map; the others ignore the error.  *)
StopFails ==
    /\ faults < MaxFaults /\ faults' = faults + 1
    /\ orphaned' = (orphaned \/ container)
    /\ \/ /\ refresh.pc = "stopping"
          /\ refresh' = At("idle", NoLock, NoLease) /\ held' = held \ {refresh.lock}
          /\ UNCHANGED <<request, reaper>>
       \/ /\ reaper.pc = "stopping"
          /\ reaper' = [reaper EXCEPT !.pc = "releasing"]
          /\ UNCHANGED <<request, refresh, held>>
       \/ /\ \E r \in Requests :
                \/ request[r].pc = "stopping" /\ request' = [request EXCEPT ![r].pc = "releasing"]
                \/ request[r].pc = "started" /\ request' = [request EXCEPT ![r].pc = "undo"]
          /\ UNCHANGED <<reaper, refresh, held>>
    /\ UNCHANGED <<routed, lease, entry, container, start_lock>>

(* The route snapshot changes between two refreshes.                       *)
RouteChange ==
    /\ routed' = ~routed
    /\ UNCHANGED <<lease, entry, container, start_lock, held, request, reaper, refresh, orphaned, faults>>

LoseMemory ==
    /\ entry' = NoLease
    /\ start_lock' = NoLock /\ held' = {}
    /\ request' = [r \in Requests |-> Idle]
    /\ reaper' = Idle /\ refresh' = At("idle", NoLock, NoLease)
    /\ faults < MaxFaults /\ faults' = faults + 1

(* The node stops without notice; its containers go on.                    *)
Crash ==
    /\ LoseMemory
    /\ orphaned' = container
    /\ UNCHANGED <<routed, lease, container>>

(* release_all stops the services it knows; aborted tasks leave the others.*)
Shutdown ==
    /\ LoseMemory
    /\ lease' = Released(entry)
    /\ container' = (container /\ entry = NoLease)
    /\ orphaned' = container'
    /\ UNCHANGED routed

ContainerExits ==
    /\ container /\ faults < MaxFaults
    /\ container' = FALSE /\ orphaned' = FALSE
    /\ faults' = faults + 1
    /\ UNCHANGED <<routed, lease, entry, start_lock, held, request, reaper, refresh>>

(* Not renewed for ninety seconds. *)
Expire(l) ==
    /\ lease[l] = "live"
    /\ lease' = [lease EXCEPT ![l] = "over"]
    /\ UNCHANGED <<routed, entry, container, start_lock, held, request, reaper, refresh, orphaned, faults>>

RequestStep(r) ==
    RequestLock(r) \/ RequestAcquire(r) \/ RequestRun(r) \/ RequestReady(r) \/ RequestUndo(r) \/ RequestInvalidate(r)

ReaperStep == ReaperRead \/ ReaperRenew \/ ReaperIdle \/ ReaperStop

RefreshStep == RefreshBegin \/ RefreshLock \/ RefreshRelease \/ RefreshStop

Next ==
    \/ \E r \in Requests : RequestStart(r) \/ RequestConnectFailed(r) \/ RequestStep(r) \/ RequestDropped(r)
    \/ ReaperStep \/ RefreshStep
    \/ RouteChange \/ Crash \/ Shutdown \/ ContainerExits \/ StopFails
    \/ \E l \in Leases : Expire(l)

Spec == Init /\ [][Next]_vars

(* Requests that run go on; the reaper and the refresh tick; a lease that  *)
(* nobody can renew any more expires.  No client and no fault is obliged.  *)
Fairness ==
    /\ \A r \in Requests : WF_vars(RequestStep(r))
    /\ WF_vars(ReaperStep) /\ WF_vars(RefreshStep)
    /\ \A l \in Leases : WF_vars(entry # l /\ (\A t \in Tasks : t.lease # l) /\ Expire(l))

FairSpec == Spec /\ Fairness

-------------------------------------------------------------------------------
(* Properties. *)

TypeOK ==
    /\ routed \in BOOLEAN /\ container \in BOOLEAN /\ orphaned \in BOOLEAN
    /\ lease \in [Leases -> {"absent", "live", "over"}]
    /\ entry \in Leases \cup {NoLease}
    /\ start_lock \in Locks \cup {NoLock}
    /\ held \subseteq Locks
    /\ request \in [Requests -> Task]
    /\ reaper \in Task /\ refresh \in Task
    /\ faults \in 0..MaxFaults

(* A running container always has someone who will stop it, an entry or a  *)
(* task on its way, unless a task ended before its time and left it behind *)
(* (every path out of upstream_for, invalidate, the reaper and the refresh)*)
ContainerOwned ==
    container =>
        \/ entry # NoLease
        \/ \E t \in Tasks \cup {refresh} : t.pc \in {"started", "stopping"}
        \/ refresh.pc = "releasing"
        \/ orphaned

(* Two starts of the service at once have different locks, which happens   *)
(* only after the deployment lost its routes (start_locks, reconcile).     *)
StartsExclude ==
    \A r, q \in Requests :
        r # q /\ Starting(request[r]) /\ Starting(request[q]) => request[r].lock # request[q].lock

(* Once the deployment stays routed elsewhere the node is rid of it: no    *)
(* container, no entry and no lease, after any crash (reconcile_routes,    *)
(* release_expired).                                                       *)
UnroutedStops ==
    <>[]~routed => <>[](~container /\ entry = NoLease /\ \A l \in Leases : ~Live(l))

-------------------------------------------------------------------------------
(* What the repository says and the code does not keep. *)

(* self-hosting.md:594 "Services stop after 30 idle minutes": when no      *)
(* request comes any more, the reaper finds the service idle and stops it. *)
IdleServiceStops ==
    <>[](routed /\ \A r \in Requests : request[r] = Idle) /\ SF_vars(ReaperIdle) => []<>~container
===============================================================================
