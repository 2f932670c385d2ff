----------------------------- MODULE NodeDeletion -----------------------------
(***************************************************************************)
(* The deletion of a node: the jobs and their shadow migrations            *)
(* (domain/node_deletions.rs), the sweep that advances them, the reports   *)
(* of Serve nodes for shadow and for assigned deployments, the heartbeats  *)
(* that keep a node's status, and the placements, builds and retirements   *)
(* that go on meanwhile.                                                   *)
(*                                                                         *)
(* Placement, enqueue, the reports and the sweep hold the placement lock   *)
(* (scheduler.rs): each is one action.  A heartbeat writes a status it     *)
(* derives from the row that authenticated the request, read before: it is *)
(* two actions.                                                            *)
(*                                                                         *)
(* offline stands for a node the sweep has marked, for one whose last      *)
(* heartbeat is more than 90 seconds old and for one that has not reported *)
(* yet (pending): none of them is eligible.  What makes                    *)
(* a job fail besides its target and its copies (artifact metadata, errors *)
(* of the database) may happen to any job at any time.  Capacity only      *)
(* narrows the choice of a target.  Delivery has the release rules; here a *)
(* built deployment may be retired, and a retired one placed again, at any *)
(* time; unready stands for the serve statuses pending, syncing and failed,*)
(* and copying for the shadow statuses pending and syncing, which nothing  *)
(* here tells apart.  MaxBeats bounds the heartbeats in flight.            *)
(***************************************************************************)
EXTENDS Integers, FiniteSets

CONSTANTS
    Nodes, Deployments,
    NoNode,           \* NULL
    Jobs,             \* ids of node_deletion_jobs
    MaxBeats

ASSUME NodeDeletionAssumption ==
    /\ NoNode \notin Nodes
    /\ IsFiniteSet(Nodes) /\ IsFiniteSet(Deployments) /\ IsFiniteSet(Jobs)
    /\ MaxBeats \in Nat

VARIABLES
    node,             \* the nodes table
    deployment,       \* the deployments table
    job,              \* the node_deletion_jobs table
    migration,        \* the node_deployment_migrations table
    beat,             \* heartbeats in flight: the status they will write
    staged,           \* history: what each node has reported ready
    revived           \* history: nodes a stale heartbeat took out of draining

vars == <<node, deployment, job, migration, beat, staged, revived>>

Node == [status : {"active", "offline", "draining", "disabled"}, deleted : BOOLEAN]

Deployment ==
    [build : {"absent", "pending", "building", "ready", "ended"},
     builder : Nodes \cup {NoNode},                     \* while it builds
     serve : {"unready", "ready", "retired"},
     node : Nodes \cup {NoNode}]

InQueue == {"queued", "migrating", "draining", "deleting"}

Job == [status : InQueue \cup {"absent", "failed", "completed"},
        node : Nodes \cup {NoNode}, target : Nodes \cup {NoNode},
        total : Nat, migrated : Nat]

(* shadow_migration_statuses                                               *)
Shadow == {"copying", "ready"}

(* assigned_filter: what a node serves or is to serve.                     *)
Assigned(n) == {d \in Deployments : /\ deployment[d].node = n
                                    /\ deployment[d].build \notin {"absent", "ended"}
                                    /\ deployment[d].serve # "retired"}

(* active_build_count                                                      *)
ActiveBuilds(n) == {d \in Deployments : deployment[d].build = "building" /\ deployment[d].builder = n}

(* eligible_candidates, and target_is_available for a job's target.        *)
Eligible(n) == node[n].status = "active" /\ ~node[n].deleted

Rows(j) == {d \in Deployments : migration[j][d] # "none"}

-------------------------------------------------------------------------------
Init ==
    /\ node = [n \in Nodes |-> [status |-> "active", deleted |-> FALSE]]
    /\ deployment = [d \in Deployments |->
           [build |-> "absent", builder |-> NoNode, serve |-> "unready", node |-> NoNode]]
    /\ job = [j \in Jobs |-> [status |-> "absent", node |-> NoNode, target |-> NoNode,
                              total |-> 0, migrated |-> 0]]
    /\ migration = [j \in Jobs |-> [d \in Deployments |-> "none"]]
    /\ beat = [n \in Nodes |-> "none"]
    /\ staged = {}
    /\ revived = {}

(* A deployment is created and placed (place_deployment_in_region).        *)
Create(d, n) ==
    /\ deployment[d].build = "absent"
    /\ Eligible(n)
    /\ deployment' = [deployment EXCEPT ![d].build = "pending", ![d].node = n]
    /\ UNCHANGED <<node, job, migration, beat, staged, revived>>

(* A claim rereads the node's row under its lock.                          *)
Claim(d, n) ==
    /\ deployment[d].build = "pending"
    /\ Eligible(n)
    /\ deployment' = [deployment EXCEPT ![d].build = "building", ![d].builder = n]
    /\ UNCHANGED <<node, job, migration, beat, staged, revived>>

FinishBuild(d) ==
    /\ deployment[d].build = "building"
    /\ deployment' = [deployment EXCEPT ![d].build = "ready", ![d].builder = NoNode]
    /\ UNCHANGED <<node, job, migration, beat, staged, revived>>

(* A failed or canceled build gives up its assignment.                     *)
EndBuild(d) ==
    /\ deployment[d].build \in {"pending", "building"}
    /\ deployment' = [deployment EXCEPT ![d] =
           [build |-> "ended", builder |-> NoNode, serve |-> "retired", node |-> NoNode]]
    /\ UNCHANGED <<node, job, migration, beat, staged, revived>>

Retire(d) ==
    /\ deployment[d].build = "ready"
    /\ deployment[d].serve # "retired"
    /\ deployment' = [deployment EXCEPT ![d].serve = "retired", ![d].node = NoNode]
    /\ UNCHANGED <<node, job, migration, beat, staged, revived>>

(* request_release places a retired deployment again.                      *)
PlaceAgain(d, n) ==
    /\ deployment[d].build = "ready"
    /\ deployment[d].serve = "retired"
    /\ Eligible(n)
    /\ deployment' = [deployment EXCEPT ![d].serve = "unready", ![d].node = n]
    /\ UNCHANGED <<node, job, migration, beat, staged, revived>>

-------------------------------------------------------------------------------
(* node_auth_middleware reads the row; status_after_node_activity keeps    *)
(* draining and makes anything else active.                                *)
StatusAfterActivity(status) == IF status = "draining" THEN "draining" ELSE "active"

Authenticate(n) ==
    /\ beat[n] = "none"
    /\ ~node[n].deleted
    /\ node[n].status # "disabled"
    /\ Cardinality({m \in Nodes : beat[m] # "none"}) < MaxBeats
    /\ beat' = [beat EXCEPT ![n] = StatusAfterActivity(node[n].status)]
    /\ UNCHANGED <<node, deployment, job, migration, staged, revived>>

Heartbeat(n) ==
    /\ beat[n] # "none"
    /\ node' = [node EXCEPT ![n].status = beat[n]]
    /\ beat' = [beat EXCEPT ![n] = "none"]
    /\ revived' = IF node[n].status = "draining" /\ beat[n] = "active" THEN revived \cup {n} ELSE revived
    /\ UNCHANGED <<deployment, job, migration, staged>>

(* mark_stale_offline                                                      *)
GoStale(n) ==
    /\ Eligible(n)
    /\ node' = [node EXCEPT ![n].status = "offline"]
    /\ UNCHANGED <<deployment, job, migration, beat, staged, revived>>

-------------------------------------------------------------------------------
(* Mutant: a retry keeps the copies of the failed attempt.                 *)
Copies_Kept(j, n) ==
    [d \in Deployments |-> IF d \in Assigned(n) THEN "copying" ELSE migration[j][d]]

Copies(j, n) == [d \in Deployments |-> IF d \in Assigned(n) THEN "copying" ELSE "none"]

(* enqueue: a new job, or a failed one started over.                       *)
Enqueue(j, n, t) ==
    /\ ~node[n].deleted
    /\ IF Assigned(n) = {} THEN t = NoNode ELSE t # n /\ t # NoNode /\ Eligible(t)
    /\ \/ job[j].status = "failed" /\ job[j].node = n
       \/ /\ job[j].status = "absent"
          /\ \A k \in Jobs : job[k].node = n => job[k].status = "completed"
    /\ job' = [job EXCEPT ![j] = [status |-> "queued", node |-> n, target |-> t,
                                  total |-> Cardinality(Assigned(n)), migrated |-> 0]]
    /\ migration' = [migration EXCEPT ![j] = Copies(j, n)]
    /\ node' = [node EXCEPT ![n].status = "draining"]
    /\ UNCHANGED <<deployment, beat, staged, revived>>

(* A copy is no longer needed of a terminal or retired deployment.         *)
Gone(d) == deployment[d].build = "ended" \/ deployment[d].serve = "retired"

Settled(j) == [d \in Deployments |-> IF d \in Rows(j) /\ Gone(d) THEN "ready" ELSE migration[j][d]]

In(m, status) == {d \in Deployments : m[d] = status}

(* fail_job: every copy and the job fail, and no route changes.            *)
FailJob(j, ready) ==
    /\ job' = [job EXCEPT ![j].status = "failed", ![j].migrated = ready]
    /\ migration' = [migration EXCEPT ![j] =
           [d \in Deployments |-> IF @[d] = "none" THEN "none" ELSE "failed"]]
    /\ UNCHANGED <<node, deployment>>

(* Mutant: only the deployments that serve are switched.                   *)
Switched_OnlyReady(j) ==
    [d \in Deployments |->
        IF d \in Rows(j) \cap Assigned(job[j].node) /\ deployment[d].serve = "ready"
        THEN [deployment[d] EXCEPT !.node = job[j].target]
        ELSE deployment[d]]

(* switch_ready_routes: what is still assigned to the source.              *)
Switched(j) ==
    [d \in Deployments |->
        IF d \in Rows(j) \cap Assigned(job[j].node)
        THEN [deployment[d] EXCEPT !.node = job[j].target]
        ELSE deployment[d]]

TargetGone(j) ==
    /\ job[j].migrated < job[j].total
    /\ ~Eligible(job[j].target)

(* Mutant: a failed copy is one that is not done yet.                      *)
Failing_OnlyTarget(j) == job[j].status \in InQueue /\ TargetGone(j)

(* process_job, up to the phase: the target, then the copies, then builds. *)
Failing(j) == job[j].status \in InQueue /\ (TargetGone(j) \/ In(Settled(j), "failed") # {})

(* Mutant: a copy that has not failed counts as done.                      *)
Copied_NotFailed(j) ==
    /\ job[j].status \in InQueue
    /\ ~TargetGone(j)
    /\ \A d \in Rows(j) : Settled(j)[d] # "failed"

Copied(j) ==
    /\ job[j].status \in InQueue
    /\ ~TargetGone(j)
    /\ \A d \in Rows(j) : Settled(j)[d] = "ready"

ProcessFailure(j) ==
    /\ Failing(j)
    /\ FailJob(j, Cardinality(In(IF TargetGone(j) THEN migration[j] ELSE Settled(j), "ready")))
    /\ UNCHANGED <<beat, staged, revived>>

(* Mutant: a route is switched when its own copy is ready.                 *)
ProcessMigrating_SwitchesEarly(j) ==
    /\ job[j].status \in InQueue
    /\ ~Failing(j) /\ ~Copied(j)
    /\ deployment' = [d \in Deployments |->
           IF migration[j][d] = "ready" THEN Switched(j)[d] ELSE deployment[d]]
    /\ migration' = [migration EXCEPT ![j] = Settled(j)]
    /\ job' = [job EXCEPT ![j].status = "migrating", ![j].migrated = Cardinality(In(Settled(j), "ready"))]
    /\ UNCHANGED <<node, beat, staged, revived>>

ProcessMigrating(j) ==
    /\ job[j].status \in InQueue
    /\ ~Failing(j) /\ ~Copied(j)
    /\ migration' = [migration EXCEPT ![j] = Settled(j)]
    /\ job' = [job EXCEPT ![j].status = "migrating", ![j].migrated = Cardinality(In(Settled(j), "ready"))]
    /\ UNCHANGED <<node, deployment, beat, staged, revived>>

(* Everything is copied: the routes are switched in the first pass.        *)
SwitchOnce(j) == deployment' = IF job[j].migrated < job[j].total THEN Switched(j) ELSE deployment

Advance(j, status) ==
    /\ Copied(j)
    /\ SwitchOnce(j)
    /\ migration' = [migration EXCEPT ![j] = Settled(j)]
    /\ job' = [job EXCEPT ![j].status = status, ![j].migrated = Cardinality(Rows(j))]

ProcessDraining(j) ==
    /\ ActiveBuilds(job[j].node) # {}
    /\ Advance(j, "draining")
    /\ UNCHANGED <<node, beat, staged, revived>>

ProcessDeleting(j) ==
    /\ job[j].status # "deleting"
    /\ ActiveBuilds(job[j].node) = {}
    /\ Advance(j, "deleting")
    /\ UNCHANGED <<node, beat, staged, revived>>

ProcessCompleted(j) ==
    /\ job[j].status = "deleting"
    /\ ActiveBuilds(job[j].node) = {}
    /\ Advance(j, "completed")
    /\ node' = [node EXCEPT ![job[j].node] = [status |-> "disabled", deleted |-> TRUE]]
    /\ UNCHANGED <<beat, staged, revived>>

Process(j) ==
    \/ ProcessFailure(j) \/ ProcessMigrating(j)
    \/ ProcessDraining(j) \/ ProcessDeleting(j) \/ ProcessCompleted(j)

(* An artifact without metadata, or an error of process_job itself.        *)
ProcessError(j) ==
    /\ job[j].status \in InQueue
    /\ FailJob(j, job[j].migrated)
    /\ UNCHANGED <<beat, staged, revived>>

-------------------------------------------------------------------------------
(* Reports (sync_assignment): a node stages the built deployments it is    *)
(* told of (assignments.rs lists no other).  Of one it has, it reports     *)
(* syncing where the row is pending or failed, which leaves the row's      *)
(* status as it is told apart here, and ready; it never reports failed, and*)
(* never withdraws ready.  The row of a shadow copy is one of those the    *)
(* node has for the deployment, in any order.                              *)
Reported(n, d, status, to) ==
    /\ deployment[d].build = "ready"
    /\ ~node[n].deleted
    /\ <<n, d>> \in staged => to \in {"ready", status}
    /\ staged' = IF to = "ready" THEN staged \cup {<<n, d>>} ELSE staged
    /\ UNCHANGED <<node, job, beat, revived>>

ShadowReport(n, d, j, to) ==
    /\ Reported(n, d, migration[j][d], to)
    /\ deployment[d].node # n
    /\ job[j].target = n
    /\ migration[j][d] \in Shadow
    /\ migration' = [migration EXCEPT ![j][d] = to]
    /\ UNCHANGED deployment

AssignedReport(n, d, to) ==
    /\ Reported(n, d, deployment[d].serve, to)
    /\ deployment[d].node = n
    /\ deployment[d].serve # "retired"
    /\ deployment' = [deployment EXCEPT ![d].serve = to]
    /\ UNCHANGED migration

-------------------------------------------------------------------------------
Next ==
    \/ \E d \in Deployments :
          \/ FinishBuild(d) \/ EndBuild(d) \/ Retire(d)
          \/ \E n \in Nodes :
                \/ Create(d, n) \/ Claim(d, n) \/ PlaceAgain(d, n)
                \/ \E to \in {"unready", "ready"} : AssignedReport(n, d, to)
                \/ \E j \in Jobs, to \in {"copying", "ready", "failed"} : ShadowReport(n, d, j, to)
    \/ \E n \in Nodes : Authenticate(n) \/ Heartbeat(n) \/ GoStale(n)
    \/ \E j \in Jobs :
          \/ Process(j) \/ ProcessError(j)
          \/ \E n \in Nodes, t \in Nodes \cup {NoNode} : Enqueue(j, n, t)

Spec == Init /\ [][Next]_vars

(* The sweep runs every two seconds, and a node asks for its assignments   *)
(* every five and reports how staging each of them went.                   *)
FairSpec ==
    /\ Spec
    /\ \A j \in Jobs :
          /\ WF_vars(Process(j))
          /\ \A d \in Deployments :
                WF_vars(\E n \in Nodes, to \in {"ready", "failed"} : ShadowReport(n, d, j, to))

-------------------------------------------------------------------------------
(* "node_activity_never_cancels_an_administrative_drain" (the test at      *)
(* nodes.rs:655): a node that drains goes on draining until it is deleted, *)
(* and claims no build meanwhile (self-hosting.md:384).                    *)
DrainNeverCanceled ==
    [][ \A n \in Nodes :
          node[n].status = "draining" => node'[n].status \in {"draining", "disabled"} ]_vars

(* Every value has its type; a job's rows and counts agree with it.        *)
TypeOK ==
    /\ node \in [Nodes -> Node]
    /\ deployment \in [Deployments -> Deployment]
    /\ job \in [Jobs -> Job]
    /\ migration \in [Jobs -> [Deployments -> Shadow \cup {"none", "failed"}]]
    /\ beat \in [Nodes -> {"none", "active", "draining"}]
    /\ staged \subseteq Nodes \X Deployments
    /\ revived \subseteq Nodes
    /\ \A j \in Jobs : job[j].migrated <= job[j].total /\ job[j].total = Cardinality(Rows(j))

(* A deleted node has no deployment to serve and no build to finish, unless*)
(* a stale heartbeat made it a candidate while it was being deleted.       *)
NothingLeftBehind ==
    \A n \in Nodes \ revived :
        node[n].deleted => Assigned(n) = {} /\ ActiveBuilds(n) = {}

(* A route leads to a node that has the artifact: the node an assigned     *)
(* deployment is ready on has reported it ready itself, after the routes   *)
(* were switched too (switch_ready_routes; self-hosting.md:381 "routes     *)
(* switch atomically only after every replacement is Ready"), unless a     *)
(* stale heartbeat let a deployment be placed on a node being deleted.     *)
RoutedIsStaged ==
    revived = {} =>
        \A d \in Deployments :
            deployment[d].serve = "ready" => <<deployment[d].node, d>> \in staged

(* Routes switch atomically: a step that moves a deployment from one node  *)
(* to another leaves the first with nothing to serve, whatever was placed, *)
(* built or retired since the deletion was enqueued.                       *)
RoutesSwitchTogether ==
    [][ \A n \in Nodes \ revived :
          (\E d \in Assigned(n) : deployment'[d].node \notin {n, NoNode})
          => Assigned(n)' = {} ]_vars

(* What a reader of the tables sees of Evacuation.                         *)
Home(d) == IF d \in Assigned(deployment[d].node) THEN deployment[d].node ELSE NoNode

Evacuated == INSTANCE Evacuation WITH
    Nowhere <- NoNode,
    home <- [d \in Deployments |-> Home(d)],
    routed <- {d \in Deployments : deployment[d].serve = "ready"},
    copies <- staged,
    gone <- {n \in Nodes : node[n].deleted},
    undone <- revived # {}

(* Whatever is placed, built, retired, reported and swept meanwhile, a     *)
(* node hands over everything at once and only to copies that are there,   *)
(* nothing but its retirement interrupts a route, and a deleted node has   *)
(* nothing and gets nothing, until a stale heartbeat undoes a drain        *)
(* (process_job, switch_ready_routes, report_status).                      *)
EvacuationSpec == Evacuated!Spec

(* A deletion ends: the job completes or fails, but for a build of the     *)
(* node, or of what it is to hand over, that does not end, and for a       *)
(* deployment retired and placed again before a sweep saw it retired: no   *)
(* report and no sweep settles its copy any more (node_deletions.rs:548).  *)
(* A node that a stale heartbeat revived is not drained at all.            *)
Unfinished(j) == job[j].status \in InQueue

WaitsForBuild(j) ==
    \/ ActiveBuilds(job[j].node) # {}
    \/ \E d \in Rows(j) : deployment[d].build \in {"pending", "building"}

PlacedAgain(j) ==
    \E d \in Rows(j) : migration[j][d] = "copying" /\ deployment[d].node \notin {NoNode, job[j].node}

DeletionEnds ==
    \A j \in Jobs :
        Unfinished(j) ~> \/ ~Unfinished(j)
                         \/ WaitsForBuild(j)
                         \/ PlacedAgain(j)
                         \/ job[j].node \in revived

===============================================================================
