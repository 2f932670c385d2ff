------------------------------ MODULE BuildSlots ------------------------------
(***************************************************************************)
(* The concurrent-build slots of ONE team: a counter in the cache, taken   *)
(* by the claim handler and given back by the stage handler or by a        *)
(* cancellation, while the builds they stand for are rows of the database. *)
(*                                                                         *)
(* No lock spans the cache and the database, so each handler is a sequence *)
(* of actions, one per call that another handler can come between.  A      *)
(* handler is dropped wherever it waits when its client disconnects.       *)
(*                                                                         *)
(* Cache calls succeed.  The counter's time to live (30 minutes) is much   *)
(* longer than the poll interval of a running build (5 seconds): it only   *)
(* runs out when nobody refreshes it.                                      *)
(*                                                                         *)
(* An operator named X_Y, X being the operator after it, is not part of    *)
(* the system: it is X with one plausible bug.                             *)
(***************************************************************************)
EXTENDS Integers, FiniteSets

CONSTANTS
    Deployments,      \* ids, a set of naturals ordered by creation
    Nodes,            \* build nodes that poll for work
    NoNode,           \* build_node_id = NULL
    Limit,            \* concurrent builds the team may run
    MaxInFlight       \* bound on the request handlers running at the same time

ASSUME DeploymentsAssumption == Deployments \subseteq Nat /\ IsFiniteSet(Deployments)
ASSUME NodesAssumption == IsFiniteSet(Nodes)
ASSUME NoNodeAssumption == NoNode \notin Nodes
ASSUME LimitAssumption == Limit \in Nat \ {0}
ASSUME MaxInFlightAssumption == MaxInFlight \in Nat

VARIABLES
    build_status,     \* deployments.build_status
    build_node,       \* deployments.build_node_id
    slot,             \* the team's counter in the cache
    released,         \* deployments whose slot-release marker is set
    flagged,          \* deployments whose cancel flag is set
    claims,           \* the claim handler serving each node
    stages,           \* the stage handlers serving each build
    cancels,          \* the cancel handler of each deployment
    jobs,             \* the build job on the node
    releases,         \* history: decrements of the counter made for each deployment
    forgotten         \* history: deployments that had a node when the counter expired

history == <<releases, forgotten>>
cacheVars == <<slot, released, flagged, history>>
rowVars == <<build_status, build_node>>
vars == <<rowVars, cacheVars, claims, stages, cancels, jobs>>

Running == {"claimed", "queued", "building"}
BuildStatuses == Running \cup {"pending", "ready", "failed", "canceled"}
Terminal == {"ready", "failed", "canceled"}

Expired == -1         \* the counter's key is absent

Requestors == {"pipeline", "poll"}     \* the two tasks of a job that report stages

(* A claim handler: candidates still to try, and the one it has a slot for *)
NoCandidate == -1
IdleClaim == [candidates |-> {}, holding |-> NoCandidate]

(* A stage handler: the status reported, the build status and the counter  *)
(* it read, and what it does next.                                         *)
IdleStage == [step |-> "idle", to |-> "none", seen |-> "none", counter |-> Expired]

IdleCancel == [step |-> "idle", was_running |-> FALSE]

(* A request reaches the control API, within the bound on handlers.        *)
Arrives ==
    LET busyNodes == {n \in Nodes : claims[n] # IdleClaim}
        busyStages == {dk \in Deployments \X Requestors : stages[dk[1]][dk[2]] # IdleStage}
        busyCancels == {d \in Deployments : cancels[d] # IdleCancel}
    IN  Cardinality(busyNodes) + Cardinality(busyStages) + Cardinality(busyCancels) < MaxInFlight

LiveJobs == {d \in Deployments : jobs[d] \notin {"none", "over"}}

CanTransitionBuild(from, to) ==
    \/ from = "pending"  /\ to \in {"claimed", "failed", "canceled"}
    \/ from = "claimed"  /\ to \in {"queued", "building", "failed", "canceled"}
    \/ from = "queued"   /\ to \in {"building", "failed", "canceled"}
    \/ from = "building" /\ to \in {"ready", "failed", "canceled"}

-------------------------------------------------------------------------------
(* The counter (cache backends and infra/quota). *)

Count == IF slot = Expired THEN 0 ELSE slot

CanAcquire_OffByOne == Count <= Limit

CanAcquire == Count + 1 <= Limit

AcquireSlot == slot' = Count + 1

ReleaseSlot == slot' = IF Count = 0 THEN 0 ELSE Count - 1

ReleaseOnce_Unmarked(d) ==
    /\ ReleaseSlot
    /\ released' = released \cup {d}
    /\ releases' = [releases EXCEPT ![d] = @ + 1]

(* release_build_slot_once: the marker decides who decrements.             *)
ReleaseOnce(d) ==
    IF d \in released
    THEN UNCHANGED <<slot, released, releases>>
    ELSE /\ ReleaseSlot
         /\ released' = released \cup {d}
         /\ releases' = [releases EXCEPT ![d] = @ + 1]

(* Second half of refresh_build_slot: write back the value read before,    *)
(* unless there was none then or there is none now.                        *)
RefreshSlot(counter) ==
    slot' = IF slot = Expired \/ counter = Expired THEN slot ELSE counter

ExpireSlot_Never == FALSE /\ slot' = Expired

(* The time to live passes: nothing acquired or refreshed for 30 minutes.  *)
ExpireSlot ==
    /\ slot # Expired
    /\ LiveJobs = {}
    /\ \A n \in Nodes : claims[n].holding = NoCandidate
    /\ stages = [d \in Deployments |-> [k \in Requestors |-> IdleStage]]
    /\ slot' = Expired

-------------------------------------------------------------------------------
Init ==
    /\ build_status = [d \in Deployments |-> "pending"]
    /\ build_node = [d \in Deployments |-> NoNode]
    /\ slot = Expired
    /\ released = {}
    /\ flagged = {}
    /\ claims = [n \in Nodes |-> IdleClaim]
    /\ stages = [d \in Deployments |-> [k \in Requestors |-> IdleStage]]
    /\ cancels = [d \in Deployments |-> IdleCancel]
    /\ jobs = [d \in Deployments |-> "none"]
    /\ releases = [d \in Deployments |-> 0]
    /\ forgotten = {}

(* The claim handler reads the pending deployments ...                     *)
ClaimBegin(n) ==
    LET pending == {d \in Deployments : build_status[d] = "pending"}
    IN  /\ Arrives
        /\ claims[n] = IdleClaim
        /\ pending # {}
        /\ claims' = [claims EXCEPT ![n].candidates = pending]
        /\ UNCHANGED <<rowVars, cacheVars, stages, cancels, jobs>>

(* ... takes a slot before it tries the oldest, or skips it ...            *)
ClaimAcquire(n) ==
    /\ claims[n].holding = NoCandidate
    /\ \E d \in claims[n].candidates :
          LET rest == claims[n].candidates \ {d}
          IN  /\ \A e \in rest : d < e
              /\ IF CanAcquire
                 THEN AcquireSlot /\ claims' = [claims EXCEPT ![n] = [candidates |-> rest, holding |-> d]]
                 ELSE UNCHANGED slot /\ claims' = [claims EXCEPT ![n].candidates = rest]
    /\ UNCHANGED <<rowVars, released, flagged, history, stages, cancels, jobs>>

ClaimUpdate_Unconditional(n) ==
    LET d == claims[n].holding
    IN  /\ d # NoCandidate
        /\ build_status' = [build_status EXCEPT ![d] = "claimed"]
        /\ build_node' = [build_node EXCEPT ![d] = n]
        /\ jobs' = [jobs EXCEPT ![d] = "claimed"]
        /\ claims' = [claims EXCEPT ![n] = IdleClaim]
        /\ UNCHANGED <<cacheVars, stages, cancels>>

(* ... and claims it if it is still pending.  The answer may get lost.     *)
ClaimUpdate(n) ==
    LET d == claims[n].holding
    IN  /\ d # NoCandidate
        /\ build_status[d] = "pending"
        /\ build_status' = [build_status EXCEPT ![d] = "claimed"]
        /\ build_node' = [build_node EXCEPT ![d] = n]
        /\ \E job \in {"claimed", "over"} : jobs' = [jobs EXCEPT ![d] = job]
        /\ claims' = [claims EXCEPT ![n] = IdleClaim]
        /\ UNCHANGED <<cacheVars, stages, cancels>>

(* Mutant: the slot is not given back.                                     *)
ClaimFail_KeepsSlot(n) ==
    LET d == claims[n].holding
    IN  /\ d # NoCandidate
        /\ claims' = [claims EXCEPT ![n] =
               IF build_status[d] # "pending" THEN [@ EXCEPT !.holding = NoCandidate] ELSE IdleClaim]
        /\ UNCHANGED <<rowVars, cacheVars, stages, cancels, jobs>>

(* The candidate went to another node, or the claim failed: give the slot  *)
(* back, without the marker, and go on or answer with an error.            *)
ClaimFail(n) ==
    LET d == claims[n].holding
    IN  /\ d # NoCandidate
        /\ ReleaseSlot
        /\ claims' = [claims EXCEPT ![n] =
               IF build_status[d] # "pending" THEN [@ EXCEPT !.holding = NoCandidate] ELSE IdleClaim]
        /\ UNCHANGED <<rowVars, released, flagged, history, stages, cancels, jobs>>

ClaimDropped(n) ==
    /\ claims[n] # IdleClaim
    /\ claims' = [claims EXCEPT ![n] = IdleClaim]
    /\ UNCHANGED <<rowVars, cacheVars, stages, cancels, jobs>>

-------------------------------------------------------------------------------
(* What each task of a job reports next.                                   *)
Reports(job, k) ==
    IF k = "poll" THEN {"none"}
    ELSE CASE job = "claimed"   -> {"queued"}
           [] job = "queued"    -> {"building"}
           [] job = "building"  -> {"ready", "failed"}
           [] job = "canceling" -> {"canceled"}

(* The job goes on once it has its answer; it is over, whatever the answer,*)
(* when it has sent a terminal report.                                     *)
JobAfter(job, to, canceled) ==
    CASE to \in Terminal  -> "over"
      [] canceled         -> "canceling"
      [] to = "none"      -> job
      [] OTHER            -> to

CancellationWasRequested_StatusOnly(d) == build_status[d] = "canceled"

CancellationWasRequested(d) == build_status[d] = "canceled" \/ d \in flagged

(* A report arrives: a canceled build is told so and nothing else happens; *)
(* otherwise the handler has read the row and, to refresh it, the counter. *)
(* A coarsening: the row, the flag and the counter are read one after the  *)
(* other without a lock (stage.rs:102-144), and are one read here.         *)
StageRead(d, k, to) ==
    /\ Arrives
    /\ d \in LiveJobs
    /\ stages[d][k] = IdleStage
    /\ jobs[d] = "canceling" => k = "pipeline"
    /\ to \in Reports(jobs[d], k)
    /\ jobs' = [jobs EXCEPT ![d] = JobAfter(@, to, CancellationWasRequested(d))]
    /\ IF CancellationWasRequested(d)
       THEN /\ flagged' = IF to = "canceled" THEN flagged \ {d} ELSE flagged
            /\ UNCHANGED stages
       ELSE /\ stages' = [stages EXCEPT ![d][k] =
                   [step |-> "refresh", to |-> to, counter |-> slot,
                    seen |-> IF k = "poll" THEN "none" ELSE build_status[d]]]
            /\ UNCHANGED flagged
    /\ UNCHANGED <<rowVars, slot, released, history, claims, cancels>>

StageRefresh(d, k) ==
    /\ stages[d][k].step = "refresh"
    /\ RefreshSlot(stages[d][k].counter)
    /\ stages' = [stages EXCEPT ![d][k] =
           IF k = "poll" THEN IdleStage ELSE [@ EXCEPT !.step = "commit", !.counter = Expired]]
    /\ UNCHANGED <<rowVars, released, flagged, history, claims, cancels, jobs>>

(* Queued and Building are validated against the row read at first, a      *)
(* terminal status against the row re-read under its lock.                 *)
StageCommit(d) ==
    LET to == stages[d]["pipeline"].to
        from == IF to \in Terminal THEN build_status[d] ELSE stages[d]["pipeline"].seen
    IN  /\ stages[d]["pipeline"].step = "commit"
        /\ IF CanTransitionBuild(from, to)
           THEN /\ build_status' = [build_status EXCEPT ![d] = to]
                /\ stages' = [stages EXCEPT ![d]["pipeline"] =
                       IF to \in Terminal THEN [IdleStage EXCEPT !.step = "release"] ELSE IdleStage]
           ELSE /\ stages' = [stages EXCEPT ![d]["pipeline"] = IdleStage]
                /\ UNCHANGED build_status
        /\ UNCHANGED <<build_node, cacheVars, claims, cancels, jobs>>

StageRelease(d) ==
    /\ stages[d]["pipeline"].step = "release"
    /\ ReleaseOnce(d)
    /\ stages' = [stages EXCEPT ![d]["pipeline"] = IdleStage]
    /\ UNCHANGED <<rowVars, flagged, forgotten, claims, cancels, jobs>>

StageDropped(d, k) ==
    /\ stages[d][k] # IdleStage
    /\ stages' = [stages EXCEPT ![d][k] = IdleStage]
    /\ UNCHANGED <<rowVars, cacheVars, claims, cancels, jobs>>

(* The node stops, or its terminal report never arrives: it is sent once.  *)
JobLost(d) ==
    /\ d \in LiveJobs
    /\ jobs' = [jobs EXCEPT ![d] = "over"]
    /\ UNCHANGED <<rowVars, cacheVars, claims, stages, cancels>>

-------------------------------------------------------------------------------
CancelRead_AlwaysRunning(d) ==
    /\ Arrives
    /\ cancels[d] = IdleCancel
    /\ build_status[d] \notin Terminal
    /\ cancels' = [cancels EXCEPT ![d] = [step |-> "commit", was_running |-> TRUE]]
    /\ UNCHANGED <<rowVars, cacheVars, claims, stages, jobs>>

(* A member cancels.  The handler reads the row without a lock ...         *)
CancelRead(d) ==
    /\ Arrives
    /\ cancels[d] = IdleCancel
    /\ build_status[d] \notin Terminal
    /\ cancels' = [cancels EXCEPT ![d] =
           [step |-> "commit", was_running |-> build_status[d] \in Running]]
    /\ UNCHANGED <<rowVars, cacheVars, claims, stages, jobs>>

(* ... cancels the row it re-reads under its lock, or fails ...            *)
CancelCommit(d) ==
    /\ cancels[d].step = "commit"
    /\ IF CanTransitionBuild(build_status[d], "canceled")
       THEN /\ build_status' = [build_status EXCEPT ![d] = "canceled"]
            /\ cancels' = [cancels EXCEPT ![d] =
                   IF @.was_running THEN [@ EXCEPT !.step = "flag"] ELSE IdleCancel]
       ELSE /\ cancels' = [cancels EXCEPT ![d] = IdleCancel]
            /\ UNCHANGED build_status
    /\ UNCHANGED <<build_node, cacheVars, claims, stages, jobs>>

(* ... and, if the row it read at first was running, flags and releases.   *)
CancelFlag(d) ==
    /\ cancels[d].step = "flag"
    /\ flagged' = flagged \cup {d}
    /\ cancels' = [cancels EXCEPT ![d].step = "release"]
    /\ UNCHANGED <<rowVars, slot, released, history, claims, stages, jobs>>

CancelRelease(d) ==
    /\ cancels[d].step = "release"
    /\ ReleaseOnce(d)
    /\ cancels' = [cancels EXCEPT ![d] = IdleCancel]
    /\ UNCHANGED <<rowVars, flagged, forgotten, claims, stages, jobs>>

CancelDropped(d) ==
    /\ cancels[d] # IdleCancel
    /\ cancels' = [cancels EXCEPT ![d] = IdleCancel]
    /\ UNCHANGED <<rowVars, cacheVars, claims, stages, jobs>>

Expire ==
    /\ ExpireSlot
    /\ forgotten' = {d \in Deployments : build_node[d] # NoNode}
    /\ UNCHANGED <<rowVars, released, flagged, releases, claims, stages, cancels, jobs>>

ClaimStep(n) == ClaimAcquire(n) \/ ClaimUpdate(n) \/ ClaimFail(n)

StageStep(d) ==
    \/ \E k \in Requestors : StageRefresh(d, k)
    \/ StageCommit(d) \/ StageRelease(d)

CancelStep(d) == CancelCommit(d) \/ CancelFlag(d) \/ CancelRelease(d)

Next ==
    \/ \E n \in Nodes : ClaimBegin(n) \/ ClaimStep(n) \/ ClaimDropped(n)
    \/ \E d \in Deployments :
          \/ \E k \in Requestors, to \in Terminal \cup {"none", "queued", "building"} :
                StageRead(d, k, to)
          \/ StageStep(d)
          \/ \E k \in Requestors : StageDropped(d, k)
          \/ JobLost(d)
          \/ CancelRead(d) \/ CancelStep(d) \/ CancelDropped(d)
    \/ Expire

Spec == Init /\ [][Next]_vars

(* A live job polls, and answers the cancellation it was told of.          *)
Poll(d) == StageRead(d, "poll", "none") \/ StageRead(d, "pipeline", "canceled")

(* Nodes poll for work every five seconds, no client disconnects for ever, *)
(* and a claim tried for ever gets through once; handlers run; live jobs   *)
(* poll; time passes.  Nothing else is fair: a build may run for ever, as  *)
(* one without a timeout does.  Arrivals are strongly fair only because    *)
(* MaxInFlight makes them wait for each other.                             *)
Fairness ==
    /\ SF_vars(\E n \in Nodes : ClaimBegin(n))
    /\ SF_vars(\E n \in Nodes : ClaimStep(n))
    /\ SF_vars(\E n \in Nodes : ClaimUpdate(n))
    /\ \A d \in Deployments :
          WF_vars(StageStep(d)) /\ WF_vars(CancelStep(d)) /\ SF_vars(Poll(d))
    /\ WF_vars(Expire)

FairSpec == Spec /\ Fairness

-------------------------------------------------------------------------------
(* Properties. *)

StageRecords ==
    [step : {"idle", "refresh", "commit", "release"},
     to : Terminal \cup {"none", "queued", "building"},
     seen : BuildStatuses \cup {"none"},
     counter : -1..Limit]

(* The counter never leaves 0..Limit, whatever value a refresh writes back *)
(* (acquire_slot, release_slot, update_if_present).                        *)
SlotWithinLimit == slot \in -1..Limit

TypeOK ==
    /\ build_status \in [Deployments -> BuildStatuses]
    /\ build_node \in [Deployments -> Nodes \cup {NoNode}]
    /\ SlotWithinLimit
    /\ released \in SUBSET Deployments /\ flagged \in SUBSET Deployments
    /\ claims \in [Nodes -> [candidates : SUBSET Deployments, holding : Deployments \cup {NoCandidate}]]
    /\ stages \in [Deployments -> [Requestors -> StageRecords]]
    /\ cancels \in [Deployments -> [step : {"idle", "commit", "flag", "release"}, was_running : BOOLEAN]]
    /\ jobs \in [Deployments -> Running \cup {"none", "canceling", "over"}]
    /\ releases \in [Deployments -> Nat]
    /\ forgotten \in SUBSET Deployments

(* quota/mod.rs:393 "a user cancel racing a terminal Node report cannot    *)
(* decrement the team's counter twice", also when a stale report revives   *)
(* a canceled row and the build then ends, or is canceled, again.          *)
ReleasedAtMostOnce == \A d \in Deployments : releases[d] <= 1

(* claim.rs "only one node can flip pending to claimed": a build handed to *)
(* a node is never handed out again, whatever claims, reports and          *)
(* cancellations of it race.                                               *)
OneBuildNode ==
    [][\A d \in Deployments : build_node[d] # NoNode => build_node'[d] = build_node[d]]_vars

(* Only a build that a node has claimed gives a slot back: a cancellation  *)
(* of a build that still waits takes none from the others (stage, cancel). *)
ReleasedWasClaimed == \A d \in released : build_node[d] # NoNode

(* The builds the counter is to count, unless it has expired since, and    *)
(* the claims that have taken a slot for a build they do not have yet.     *)
InUse == {d \in Deployments : build_node[d] # NoNode} \ (released \cup forgotten)
Holding == {n \in Nodes : claims[n].holding # NoCandidate}

Covered == Cardinality(InUse) + Cardinality(Holding) <= Count
Pinned == Cardinality(InUse) + Cardinality(Holding) < Count

(* A refresh writes back what is no longer the value of the counter.       *)
LostClaim == \E d \in Deployments, k \in Requestors : StageRefresh(d, k) /\ slot' < slot
LostRelease == \E d \in Deployments, k \in Requestors : StageRefresh(d, k) /\ slot' > slot

(* A build gives back the slot that the counter has forgotten.             *)
LateRelease == \E d \in forgotten \ released : CancelRelease(d)

(* claim.rs:110 counts on the counter: it covers the builds with a slot    *)
(* and the claims under way, whatever claims, reports, cancellations and   *)
(* expiries race.  Two kinds of step break that, and no others: a refresh  *)
(* over a claim made since its read, and a release after the expiry.       *)
SlotsStayCovered == [][ Covered /\ ~Covered' => LostClaim \/ LateRelease ]_vars

(* A build keeps a slot that no handler is going to give back.             *)
Orphaned(d) ==
    /\ d \in InUse
    /\ build_status[d] \notin Running
    /\ stages[d]["pipeline"].step # "release"
    /\ cancels[d].step \notin {"flag", "release"}

(* quota/mod.rs:346: slots are not pinned.  What leaves one behind until   *)
(* the counter expires is a refresh over a release, a claim dropped before *)
(* its update, a report or a cancellation dropped before its release, and  *)
(* a cancellation decided on the row as it was before the claim.           *)
SlotsGivenBack ==
    [][ /\ Pinned' /\ ~Pinned => LostRelease \/ \E n \in Holding : ClaimDropped(n)
        /\ \A d \in Deployments :
              Orphaned(d)' /\ ~Orphaned(d) =>
                  \/ StageDropped(d, "pipeline") \/ CancelDropped(d)
                  \/ CancelCommit(d) /\ ~cancels[d].was_running ]_vars

(* A cancel flag stops the job, even when a report that read the row       *)
(* before the cancellation has put it back to work (stage, run_build_job). *)
FlagStopsJob == \A d \in Deployments : d \in flagged ~> jobs[d] \in {"none", "over"}

(* quota/mod.rs:346 "crashed Nodes cannot pin slots forever": a team does  *)
(* not keep a pending build waiting while none of its builds is running.   *)
PendingNotBlocked ==
    []<>(LiveJobs # {} \/ \A d \in Deployments : build_status[d] # "pending")

-------------------------------------------------------------------------------
(* What the repository says and the code does not keep. *)

(* claim.rs:111 "so we never claim more than the team may run": builds     *)
(* that run on a node and have not given their slot back.                  *)
ClaimedWithinLimit == Cardinality(LiveJobs \ released) <= Limit

(* stage.rs:113 "The concurrency slot was already released by              *)
(* cancel_deployment_core when the cancel was issued": once no handler is  *)
(* at work for it, a claimed build that is canceled has given its slot back*)
CanceledSlotReleased ==
    \A d \in Deployments :
        /\ build_status[d] = "canceled" /\ build_node[d] # NoNode
        /\ cancels[d] = IdleCancel /\ stages[d]["pipeline"] = IdleStage
        => d \in released
===============================================================================
