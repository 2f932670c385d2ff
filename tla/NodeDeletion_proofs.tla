-------------------------- MODULE NodeDeletion_proofs --------------------------
(***************************************************************************)
(* A deleted node leaves nothing behind, routes are switched together and  *)
(* lead to nodes that have the artifact, for any nodes, deployments, jobs  *)
(* and heartbeats.                                                         *)
(*                                                                         *)
(* IInv adds what holds of a node while its deletion is under way: nothing *)
(* is placed on it any more, so that what it still has to serve has a row  *)
(* in the job, and nothing once the rows are done.  The last part reads    *)
(* every step as one of Evacuation.                                        *)
(***************************************************************************)
EXTENDS NodeDeletion, FiniteSetTheorems, TLAPS

(* A node has one job at most, and a completed one only if it is deleted.  *)
JobsInv ==
    /\ \A j \in Jobs :
          /\ IF job[j].status = "absent" THEN job[j].node = NoNode ELSE job[j].node \in Nodes
          /\ job[j].status = "completed" => node[job[j].node].deleted
          /\ job[j].status \in {"draining", "deleting"} => job[j].migrated = job[j].total
    /\ \A j, k \in Jobs : job[j].node = job[k].node /\ job[j].node # NoNode => j = k

(* The deletion is under way, and no stale heartbeat has undone it.        *)
Draining(j) == Unfinished(j) /\ job[j].node \notin revived

IsDraining(n) == node[n].status = "draining" /\ ~node[n].deleted

DrainInv ==
    \A j \in Jobs : Draining(j) =>
        /\ IsDraining(job[j].node)
        /\ Assigned(job[j].node) \subseteq Rows(j)
        /\ job[j].migrated = job[j].total => Assigned(job[j].node) = {}

(* A copy that is ready is staged, if it is of what the node still serves. *)
CopiesStaged ==
    revived = {} =>
        \A j \in Jobs, d \in Deployments :
            Unfinished(j) /\ migration[j][d] = "ready" /\ d \in Assigned(job[j].node)
                => <<job[j].target, d>> \in staged

StagedInv ==
    /\ CopiesStaged
    /\ \A d \in Deployments : deployment[d].build = "absent" => deployment[d].serve = "unready"

(* The conjunction that every step preserves.                              *)
IInv == TypeOK /\ JobsInv /\ DrainInv /\ StagedInv /\ NothingLeftBehind /\ RoutedIsStaged

-------------------------------------------------------------------------------
(* TypeOK, apart from the counts of a job.                                 *)
Types ==
    /\ node \in [Nodes -> Node]
    /\ deployment \in [Deployments -> Deployment]
    /\ job \in [Jobs -> Job]
    /\ migration \in [Jobs -> [Deployments -> Shadow \cup {"none", "failed"}]]
    /\ beat \in [Nodes -> {"none", "active", "draining"}]
    /\ staged \subseteq Nodes \X Deployments
    /\ revived \subseteq Nodes

Counts == \A j \in Jobs : job[j].migrated <= job[j].total /\ job[j].total = Cardinality(Rows(j))

(* The type invariant is these two.                                        *)
LEMMA TypeParts == TypeOK <=> Types /\ Counts
  BY DEF TypeOK, Types, Counts

(* Counting among the deployments.                                         *)
LEMMA Counting ==
    ASSUME NEW S \in SUBSET Deployments, NEW T \in SUBSET S
    PROVE  /\ Cardinality(S) \in Nat /\ Cardinality(T) \in Nat
           /\ Cardinality(T) <= Cardinality(S)
           /\ Cardinality(T) = Cardinality(S) => T = S
           /\ Cardinality(S) = 0 => S = {}
  <1>1. IsFiniteSet(S)
    BY FS_Subset, NodeDeletionAssumption
  <1>2. IsFiniteSet(T)
    BY <1>1, FS_Subset
  <1> QED BY <1>1, <1>2, FS_Subset, FS_CardinalityType, FS_EmptySet

-------------------------------------------------------------------------------
(* A node that is not eligible gets nothing to serve or to build.          *)
Shrinks(n) == Assigned(n)' \subseteq Assigned(n) /\ ActiveBuilds(n)' \subseteq ActiveBuilds(n)

Closed == \A n \in Nodes : ~Eligible(n) => Shrinks(n)

(* A step on the deployments alone that respects this keeps what IInv says *)
(* of the jobs.                                                            *)
LEMMA ClosedStep ==
    ASSUME IInv, Closed, staged \subseteq staged',
           UNCHANGED <<node, job, migration, revived>>
    PROVE  /\ Counts' /\ JobsInv' /\ DrainInv' /\ NothingLeftBehind' /\ CopiesStaged'
  <1>1. Counts' /\ JobsInv'
    BY TypeParts DEF IInv, Counts, JobsInv, Rows
  <1>2. ASSUME NEW j \in Jobs, Draining(j)
        PROVE  Assigned(job[j].node)' \subseteq Assigned(job[j].node)
    <2>1. job[j].node \in Nodes /\ ~Eligible(job[j].node)
      BY <1>2 DEF IInv, JobsInv, DrainInv, Draining, Unfinished, InQueue, Eligible, IsDraining
    <2> QED BY <2>1 DEF Closed, Shrinks
  <1>3. DrainInv'
    <2> SUFFICES ASSUME NEW j \in Jobs, Draining(j)
                 PROVE  /\ IsDraining(job[j].node)
                        /\ Assigned(job[j].node)' \subseteq Rows(j)
                        /\ job[j].migrated = job[j].total => Assigned(job[j].node)' = {}
      BY DEF DrainInv, Draining, Unfinished, Rows, Assigned, IsDraining
    <2> QED BY <1>2 DEF IInv, DrainInv
  <1>4. NothingLeftBehind'
    <2> SUFFICES ASSUME NEW n \in Nodes \ revived, node[n].deleted
                 PROVE  Assigned(n)' = {} /\ ActiveBuilds(n)' = {}
      BY DEF NothingLeftBehind, Assigned, ActiveBuilds
    <2>1. Shrinks(n)
      BY DEF Closed, Eligible
    <2> QED BY <2>1 DEF IInv, NothingLeftBehind, Shrinks
  <1>5. CopiesStaged'
    <2> SUFFICES ASSUME NEW j \in Jobs, NEW d \in Deployments, revived = {},
                        Unfinished(j), migration[j][d] = "ready", d \in Assigned(job[j].node)'
                 PROVE  <<job[j].target, d>> \in staged
      BY DEF CopiesStaged, Unfinished, Assigned
    <2>1. d \in Assigned(job[j].node)
      BY <1>2 DEF Draining
    <2> QED BY <2>1 DEF IInv, StagedInv, CopiesStaged
  <1> QED BY <1>1, <1>3, <1>4, <1>5

(* A deployment is placed on an eligible node, and serves nothing yet.     *)
LEMMA CreateInv ==
    ASSUME IInv, NEW d \in Deployments, NEW n \in Nodes, Create(d, n)
    PROVE  IInv'
  <1>1. Types
    BY TypeParts DEF IInv
  <1>2. Types'
    BY ZenonT(60), <1>1, NodeDeletionAssumption DEF Types, Deployment, Eligible, Create
  <1>3. Closed
    BY <1>1 DEF Closed, Shrinks, Assigned, ActiveBuilds, Types, Deployment, Create
  <1>4. /\ staged \subseteq staged'
        /\ UNCHANGED <<node, job, migration, revived>>
    BY DEF Create
  <1>5. \A e \in Deployments : deployment'[e].build = "absent" => deployment'[e].serve = "unready"
    BY <1>1 DEF IInv, StagedInv, Types, Deployment, Create
  <1>6. RoutedIsStaged'
    BY <1>1 DEF IInv, StagedInv, RoutedIsStaged, Types, Deployment, Create
  <1>7. Counts' /\ JobsInv' /\ DrainInv' /\ NothingLeftBehind' /\ CopiesStaged'
    BY <1>3, <1>4, ClosedStep
  <1>8. TypeOK'
    BY <1>2, <1>7 DEF TypeOK, Types, Counts
  <1> QED BY <1>5, <1>6, <1>7, <1>8 DEF IInv, StagedInv

(* A build is claimed by an eligible node.                                 *)
LEMMA ClaimInv ==
    ASSUME IInv, NEW d \in Deployments, NEW n \in Nodes, Claim(d, n)
    PROVE  IInv'
  <1>1. Types
    BY TypeParts DEF IInv
  <1>2. Types'
    BY ZenonT(60), <1>1, NodeDeletionAssumption DEF Types, Deployment, Eligible, Claim
  <1>3. Closed
    BY <1>1 DEF Closed, Shrinks, Assigned, ActiveBuilds, Types, Deployment, Claim
  <1>4. /\ staged \subseteq staged'
        /\ UNCHANGED <<node, job, migration, revived>>
    BY DEF Claim
  <1>5. \A e \in Deployments : deployment'[e].build = "absent" => deployment'[e].serve = "unready"
    BY <1>1 DEF IInv, StagedInv, Types, Deployment, Claim
  <1>6. RoutedIsStaged'
    BY <1>1 DEF IInv, StagedInv, RoutedIsStaged, Types, Deployment, Claim
  <1>7. Counts' /\ JobsInv' /\ DrainInv' /\ NothingLeftBehind' /\ CopiesStaged'
    BY <1>3, <1>4, ClosedStep
  <1>8. TypeOK'
    BY <1>2, <1>7 DEF TypeOK, Types, Counts
  <1> QED BY <1>5, <1>6, <1>7, <1>8 DEF IInv, StagedInv

(* A build that ends well leaves the assignment as it is.                  *)
LEMMA FinishBuildInv ==
    ASSUME IInv, NEW d \in Deployments, FinishBuild(d)
    PROVE  IInv'
  <1>1. Types
    BY TypeParts DEF IInv
  <1>2. Types'
    BY ZenonT(60), <1>1, NodeDeletionAssumption DEF Types, Deployment, Eligible, FinishBuild
  <1>3. Closed
    BY <1>1 DEF Closed, Shrinks, Assigned, ActiveBuilds, Types, Deployment, FinishBuild
  <1>4. /\ staged \subseteq staged'
        /\ UNCHANGED <<node, job, migration, revived>>
    BY DEF FinishBuild
  <1>5. \A e \in Deployments : deployment'[e].build = "absent" => deployment'[e].serve = "unready"
    BY <1>1 DEF IInv, StagedInv, Types, Deployment, FinishBuild
  <1>6. RoutedIsStaged'
    BY <1>1 DEF IInv, StagedInv, RoutedIsStaged, Types, Deployment, FinishBuild
  <1>7. Counts' /\ JobsInv' /\ DrainInv' /\ NothingLeftBehind' /\ CopiesStaged'
    BY <1>3, <1>4, ClosedStep
  <1>8. TypeOK'
    BY <1>2, <1>7 DEF TypeOK, Types, Counts
  <1> QED BY <1>5, <1>6, <1>7, <1>8 DEF IInv, StagedInv

(* A build that fails gives its assignment up.                             *)
LEMMA EndBuildInv ==
    ASSUME IInv, NEW d \in Deployments, EndBuild(d)
    PROVE  IInv'
  <1>1. Types
    BY TypeParts DEF IInv
  <1>2. Types'
    BY <1>1, NodeDeletionAssumption DEF Types, Deployment, Eligible, EndBuild
  <1>3. Closed
    BY <1>1 DEF Closed, Shrinks, Assigned, ActiveBuilds, Types, Deployment, EndBuild
  <1>4. /\ staged \subseteq staged'
        /\ UNCHANGED <<node, job, migration, revived>>
    BY DEF EndBuild
  <1>5. \A e \in Deployments : deployment'[e].build = "absent" => deployment'[e].serve = "unready"
    BY <1>1 DEF IInv, StagedInv, Types, Deployment, EndBuild
  <1>6. RoutedIsStaged'
    BY <1>1 DEF IInv, StagedInv, RoutedIsStaged, Types, Deployment, EndBuild
  <1>7. Counts' /\ JobsInv' /\ DrainInv' /\ NothingLeftBehind' /\ CopiesStaged'
    BY <1>3, <1>4, ClosedStep
  <1>8. TypeOK'
    BY <1>2, <1>7 DEF TypeOK, Types, Counts
  <1> QED BY <1>5, <1>6, <1>7, <1>8 DEF IInv, StagedInv

(* A retired deployment gives its assignment up.                           *)
LEMMA RetireInv ==
    ASSUME IInv, NEW d \in Deployments, Retire(d)
    PROVE  IInv'
  <1>1. Types
    BY TypeParts DEF IInv
  <1>2. Types'
    BY ZenonT(60), <1>1, NodeDeletionAssumption DEF Types, Deployment, Eligible, Retire
  <1>3. Closed
    BY <1>1 DEF Closed, Shrinks, Assigned, ActiveBuilds, Types, Deployment, Retire
  <1>4. /\ staged \subseteq staged'
        /\ UNCHANGED <<node, job, migration, revived>>
    BY DEF Retire
  <1>5. \A e \in Deployments : deployment'[e].build = "absent" => deployment'[e].serve = "unready"
    BY <1>1 DEF IInv, StagedInv, Types, Deployment, Retire
  <1>6. RoutedIsStaged'
    BY <1>1 DEF IInv, StagedInv, RoutedIsStaged, Types, Deployment, Retire
  <1>7. Counts' /\ JobsInv' /\ DrainInv' /\ NothingLeftBehind' /\ CopiesStaged'
    BY <1>3, <1>4, ClosedStep
  <1>8. TypeOK'
    BY <1>2, <1>7 DEF TypeOK, Types, Counts
  <1> QED BY <1>5, <1>6, <1>7, <1>8 DEF IInv, StagedInv

(* A deployment is placed again on an eligible node, and is not ready.     *)
LEMMA PlaceAgainInv ==
    ASSUME IInv, NEW d \in Deployments, NEW n \in Nodes, PlaceAgain(d, n)
    PROVE  IInv'
  <1>1. Types
    BY TypeParts DEF IInv
  <1>2. Types'
    BY ZenonT(60), <1>1, NodeDeletionAssumption DEF Types, Deployment, Eligible, PlaceAgain
  <1>3. Closed
    BY <1>1 DEF Closed, Shrinks, Assigned, ActiveBuilds, Types, Deployment, PlaceAgain
  <1>4. /\ staged \subseteq staged'
        /\ UNCHANGED <<node, job, migration, revived>>
    BY DEF PlaceAgain
  <1>5. \A e \in Deployments : deployment'[e].build = "absent" => deployment'[e].serve = "unready"
    BY <1>1 DEF IInv, StagedInv, Types, Deployment, PlaceAgain
  <1>6. RoutedIsStaged'
    BY <1>1 DEF IInv, StagedInv, RoutedIsStaged, Types, Deployment, PlaceAgain
  <1>7. Counts' /\ JobsInv' /\ DrainInv' /\ NothingLeftBehind' /\ CopiesStaged'
    BY <1>3, <1>4, ClosedStep
  <1>8. TypeOK'
    BY <1>2, <1>7 DEF TypeOK, Types, Counts
  <1> QED BY <1>5, <1>6, <1>7, <1>8 DEF IInv, StagedInv

(* A node reports what it is assigned, and has staged what it calls ready. *)
LEMMA AssignedReportInv ==
    ASSUME IInv, NEW n \in Nodes, NEW d \in Deployments, NEW to \in {"unready", "ready"}, AssignedReport(n, d, to)
    PROVE  IInv'
  <1>1. Types
    BY TypeParts DEF IInv
  <1>2. Types'
    BY <1>1, NodeDeletionAssumption DEF Types, Deployment, Eligible, AssignedReport, Reported
  <1>3. Closed
    BY <1>1
       DEF Closed, Shrinks, Assigned, ActiveBuilds, Types, Deployment, AssignedReport, Reported
  <1>4. /\ staged \subseteq staged'
        /\ UNCHANGED <<node, job, migration, revived>>
    BY DEF AssignedReport, Reported
  <1>5. \A e \in Deployments : deployment'[e].build = "absent" => deployment'[e].serve = "unready"
    BY <1>1 DEF IInv, StagedInv, Types, Deployment, AssignedReport, Reported
  <1>6. RoutedIsStaged'
    BY <1>1 DEF IInv, StagedInv, RoutedIsStaged, Types, Deployment, AssignedReport, Reported
  <1>7. Counts' /\ JobsInv' /\ DrainInv' /\ NothingLeftBehind' /\ CopiesStaged'
    BY <1>3, <1>4, ClosedStep
  <1>8. TypeOK'
    BY <1>2, <1>7 DEF TypeOK, Types, Counts
  <1> QED BY <1>5, <1>6, <1>7, <1>8 DEF IInv, StagedInv

-------------------------------------------------------------------------------
(* A heartbeat in flight is only a status.                                 *)
LEMMA AuthenticateInv ==
    ASSUME IInv, NEW n \in Nodes, Authenticate(n)
    PROVE  IInv'
  <1>1. TypeOK'
    BY DEF IInv, TypeOK, Authenticate, StatusAfterActivity, Rows
  <1>2. JobsInv' /\ DrainInv' /\ StagedInv'
    BY
       DEF IInv, JobsInv, DrainInv, Draining, StagedInv, IsDraining, CopiesStaged, Unfinished, Assigned, Rows, Authenticate
  <1>3. NothingLeftBehind' /\ RoutedIsStaged'
    BY DEF IInv, NothingLeftBehind, RoutedIsStaged, Assigned, ActiveBuilds, Authenticate
  <1> QED BY <1>1, <1>2, <1>3 DEF IInv

(* A heartbeat that ends a drain leaves its trace in revived.              *)
LEMMA HeartbeatInv ==
    ASSUME IInv, NEW n \in Nodes, Heartbeat(n)
    PROVE  IInv'
  <1>1. TypeOK'
    BY DEF IInv, TypeOK, Node, Heartbeat, Rows
  <1>2. \A m \in Nodes :
            /\ node'[m].deleted = node[m].deleted
            /\ IsDraining(m) /\ m \notin revived' => IsDraining(m)'
    BY DEF IsDraining, IInv, TypeOK, Node, Heartbeat
  <1>3. revived \subseteq revived'
    BY DEF Heartbeat
  <1>4. JobsInv'
    BY <1>2 DEF IInv, JobsInv, Heartbeat
  <1>5. DrainInv'
    <2> SUFFICES ASSUME NEW j \in Jobs, Draining(j)'
                 PROVE  /\ IsDraining(job[j].node)'
                        /\ Assigned(job[j].node) \subseteq Rows(j)
                        /\ job[j].migrated = job[j].total => Assigned(job[j].node) = {}
      BY DEF DrainInv, Assigned, Rows, Heartbeat
    <2>1. Draining(j) /\ job[j].node \notin revived'
      BY <1>3 DEF Draining, Unfinished, Heartbeat
    <2>2. job[j].node \in Nodes
      BY <2>1 DEF IInv, JobsInv, Draining, Unfinished, InQueue
    <2> QED BY <1>2, <2>1, <2>2 DEF IInv, DrainInv, IsDraining, Heartbeat
  <1>6. StagedInv'
    BY <1>3 DEF IInv, StagedInv, CopiesStaged, Unfinished, Assigned, Heartbeat
  <1>7. NothingLeftBehind' /\ RoutedIsStaged'
    BY <1>2, <1>3 DEF IInv, NothingLeftBehind, RoutedIsStaged, Assigned, ActiveBuilds, Heartbeat
  <1> QED BY <1>1, <1>4, <1>5, <1>6, <1>7 DEF IInv

(* Only an active node goes stale.                                         *)
LEMMA GoStaleInv ==
    ASSUME IInv, NEW n \in Nodes, GoStale(n)
    PROVE  IInv'
  <1>1. TypeOK'
    BY DEF IInv, TypeOK, Node, GoStale, Rows
  <1>2. \A m \in Nodes :
            /\ node'[m].deleted = node[m].deleted
            /\ IsDraining(m) => IsDraining(m)'
    BY DEF IsDraining, IInv, TypeOK, Node, GoStale, Eligible
  <1>3. JobsInv'
    BY <1>2 DEF IInv, JobsInv, GoStale
  <1>4. DrainInv'
    <2> SUFFICES ASSUME NEW j \in Jobs, Draining(j)
                 PROVE  /\ IsDraining(job[j].node)'
                        /\ Assigned(job[j].node) \subseteq Rows(j)
                        /\ job[j].migrated = job[j].total => Assigned(job[j].node) = {}
      BY DEF DrainInv, Draining, Unfinished, Assigned, Rows, GoStale
    <2>1. job[j].node \in Nodes
      BY DEF IInv, JobsInv, Draining, Unfinished, InQueue
    <2> QED BY <1>2, <2>1 DEF IInv, DrainInv, IsDraining, GoStale
  <1>5. StagedInv'
    BY DEF IInv, StagedInv, CopiesStaged, Unfinished, Assigned, GoStale
  <1>6. NothingLeftBehind' /\ RoutedIsStaged'
    BY <1>2 DEF IInv, NothingLeftBehind, RoutedIsStaged, Assigned, ActiveBuilds, GoStale
  <1> QED BY <1>1, <1>3, <1>4, <1>5, <1>6 DEF IInv

-------------------------------------------------------------------------------
(* A job starts with a row for everything its node has to serve.           *)
LEMMA EnqueueInv ==
    ASSUME IInv, NEW j \in Jobs, NEW n \in Nodes, NEW t \in Nodes \cup {NoNode}, Enqueue(j, n, t)
    PROVE  IInv'
  <1> DEFINE total == Cardinality(Assigned(n))
  <1>1. total \in Nat /\ (total = 0 => Assigned(n) = {})
    BY Counting DEF Assigned
  <1>2. /\ job' = [job EXCEPT ![j] = [status |-> "queued", node |-> n, target |-> t,
                                      total |-> total, migrated |-> 0]]
        /\ migration' = [migration EXCEPT ![j] = Copies(j, n)]
        /\ node' = [node EXCEPT ![n].status = "draining"]
        /\ UNCHANGED <<deployment, beat, staged, revived>>
    BY DEF Enqueue
  <1> HIDE DEF total
  <1>3. Types /\ Counts
    BY TypeParts DEF IInv
  <1>4. Types'
    <2>1. [status |-> "queued", node |-> n, target |-> t, total |-> total, migrated |-> 0] \in Job
      BY <1>1 DEF Job, InQueue
    <2>2. Copies(j, n) \in [Deployments -> Shadow \cup {"none", "failed"}]
      BY DEF Copies, Shadow
    <2> QED BY <1>2, <1>3, <2>1, <2>2 DEF Types, Node
  <1>5. Rows(j)' = Assigned(n) /\ \A k \in Jobs \ {j} : Rows(k)' = Rows(k)
    <2>1. migration'[j] = Copies(j, n) /\ \A k \in Jobs \ {j} : migration'[k] = migration[k]
      BY <1>2, <1>3 DEF Types
    <2> QED BY <2>1 DEF Rows, Copies, Assigned
  <1>6. Counts'
    BY <1>1, <1>2, <1>3, <1>5 DEF Counts, Types, total
  <1>7. /\ job'[j].node = n /\ job'[j].status = "queued" /\ job'[j].migrated = 0 /\ job'[j].total = total
        /\ \A k \in Jobs \ {j} : job'[k] = job[k]
    BY <1>2, <1>3 DEF Types
  <1>8. \A k \in Jobs \ {j} : job[k].node # n
    BY NodeDeletionAssumption DEF IInv, JobsInv, Enqueue
  <1>9. /\ IsDraining(n)'
        /\ \A m \in Nodes : node'[m].deleted = node[m].deleted
        /\ \A m \in Nodes : IsDraining(m) => IsDraining(m)'
    BY <1>2, <1>3 DEF IsDraining, Types, Node, Enqueue
  <1>10. JobsInv'
    BY <1>7, <1>8, <1>9 DEF IInv, JobsInv
  <1>11. DrainInv'
    <2>1. ASSUME NEW k \in Jobs, Draining(k)'
          PROVE  /\ IsDraining(job[k].node)'
                 /\ Assigned(job'[k].node) \subseteq Rows(k)'
                 /\ job'[k].migrated = job'[k].total => Assigned(job'[k].node) = {}
      <3>1. CASE k = j
        BY <3>1, <1>1, <1>5, <1>7, <1>9
      <3>2. CASE k # j
        <4>1. job'[k] = job[k] /\ Draining(k)
          BY <3>2, <2>1, <1>2, <1>7 DEF Draining, Unfinished
        <4>2. job[k].node \in Nodes \ {n}
          BY <3>2, <4>1, <1>8 DEF IInv, JobsInv, Draining, Unfinished, InQueue
        <4> QED BY <3>2, <4>1, <4>2, <1>5, <1>9 DEF IInv, DrainInv
      <3> QED BY <3>1, <3>2
    <2> QED BY <2>1, <1>2 DEF DrainInv, Assigned
  <1>12. StagedInv'
    <2>1. \A d \in Deployments : migration'[j][d] # "ready"
      BY <1>2, <1>3 DEF Types, Copies
    <2>2. \A k \in Jobs \ {j} : migration'[k] = migration[k]
      BY <1>2, <1>3 DEF Types
    <2> QED BY <2>1, <2>2, <1>2, <1>7 DEF IInv, StagedInv, CopiesStaged, Unfinished, Assigned
  <1>13. NothingLeftBehind' /\ RoutedIsStaged'
    BY <1>2, <1>9 DEF IInv, NothingLeftBehind, RoutedIsStaged, Assigned, ActiveBuilds
  <1>14. TypeOK'
    BY <1>4, <1>6 DEF TypeOK, Types, Counts
  <1> QED BY <1>10, <1>11, <1>12, <1>13, <1>14 DEF IInv

-------------------------------------------------------------------------------
(* A failed job has no claim on its node.                                  *)
LEMMA FailJobInv ==
    ASSUME IInv, NEW j \in Jobs, Unfinished(j), NEW ready \in Nat, ready <= job[j].total,
           FailJob(j, ready), UNCHANGED <<beat, staged, revived>>
    PROVE  IInv'
  <1>1. Types /\ Counts
    BY TypeParts DEF IInv
  <1>2. /\ migration' \in [Jobs -> [Deployments -> Shadow \cup {"none", "failed"}]]
        /\ \A k \in Jobs : Rows(k)' = Rows(k)
        /\ \A k \in Jobs \ {j} : migration'[k] = migration[k]
    BY <1>1 DEF FailJob, Types, Shadow, Rows
  <1>3. /\ job' \in [Jobs -> Job]
        /\ job'[j].status = "failed" /\ job'[j].node = job[j].node
        /\ job'[j].total = job[j].total /\ job'[j].migrated = ready
        /\ \A k \in Jobs \ {j} : job'[k] = job[k]
    BY ZenonT(60), <1>1 DEF FailJob, Types, Job
  <1>4. UNCHANGED <<node, deployment, staged, revived>>
    BY DEF FailJob
  <1>5. TypeOK'
    BY <1>1, <1>2, <1>3, <1>4 DEF TypeOK, Types, Counts
  <1>6. JobsInv'
    BY <1>3, <1>4 DEF IInv, JobsInv, Unfinished, InQueue
  <1>7. \A k \in Jobs : Unfinished(k)' => k # j /\ Unfinished(k)
    BY <1>3 DEF Unfinished, InQueue
  <1>8. DrainInv'
    BY <1>2, <1>3, <1>4, <1>7 DEF IInv, DrainInv, Draining, IsDraining, Assigned
  <1>9. StagedInv'
    BY <1>2, <1>3, <1>4, <1>7 DEF IInv, StagedInv, CopiesStaged, Assigned
  <1>10. NothingLeftBehind' /\ RoutedIsStaged'
    BY <1>4 DEF IInv, NothingLeftBehind, RoutedIsStaged, Assigned, ActiveBuilds
  <1> QED BY <1>5, <1>6, <1>8, <1>9, <1>10 DEF IInv

(* A job that fails changes no route.                                      *)
LEMMA ProcessFailureInv ==
    ASSUME IInv, NEW j \in Jobs, ProcessFailure(j) \/ ProcessError(j)
    PROVE  IInv'
  <1>1. Types /\ Counts
    BY TypeParts DEF IInv
  <1>2. Unfinished(j)
    BY DEF ProcessFailure, ProcessError, Failing, Unfinished
  <1>3. CASE ProcessFailure(j)
    <2> DEFINE m == IF TargetGone(j) THEN migration[j] ELSE Settled(j)
    <2>1. In(m, "ready") \subseteq Rows(j) /\ Rows(j) \subseteq Deployments
      BY <1>1 DEF In, Settled, Rows
    <2>2. Cardinality(In(m, "ready")) \in Nat /\ Cardinality(In(m, "ready")) <= Cardinality(Rows(j))
      BY <2>1, Counting
    <2>3. job[j].total = Cardinality(Rows(j))
      BY <1>1 DEF Counts
    <2> QED BY <1>2, <1>3, <2>2, <2>3, FailJobInv DEF ProcessFailure
  <1>4. CASE ProcessError(j)
    <2>1. job[j].migrated \in Nat /\ job[j].migrated <= job[j].total
      BY <1>1 DEF Types, Counts, Job
    <2> QED BY <1>2, <1>4, <2>1, FailJobInv DEF ProcessError
  <1> QED BY <1>3, <1>4

(* Settling the copies keeps their rows, and takes none for ready of what  *)
(* the node still serves.                                                  *)
LEMMA Settling ==
    ASSUME IInv, NEW j \in Jobs, migration' = [migration EXCEPT ![j] = Settled(j)]
    PROVE  /\ migration' \in [Jobs -> [Deployments -> Shadow \cup {"none", "failed"}]]
           /\ \A k \in Jobs : Rows(k)' = Rows(k)
           /\ \A k \in Jobs, d \in Deployments :
                 migration'[k][d] = "ready" => migration[k][d] = "ready" \/ Gone(d)
           /\ In(Settled(j), "ready") \subseteq Rows(j)
  BY DEF IInv, TypeOK, Settled, Rows, Shadow, In

(* Copies are counted, and as long as one is missing nothing is switched.  *)
LEMMA ProcessMigratingInv ==
    ASSUME IInv, NEW j \in Jobs, ProcessMigrating(j)
    PROVE  IInv'
  <1> DEFINE ready == In(Settled(j), "ready")
  <1>1. Types /\ Counts
    BY TypeParts DEF IInv
  <1>2. /\ migration' = [migration EXCEPT ![j] = Settled(j)]
        /\ job' = [job EXCEPT ![j].status = "migrating", ![j].migrated = Cardinality(ready)]
        /\ UNCHANGED <<node, deployment, beat, staged, revived>>
    BY DEF ProcessMigrating
  <1>3. Unfinished(j) /\ ready # Rows(j)
    BY DEF ProcessMigrating, Failing, Copied, Unfinished, In, Rows
  <1>4. /\ Cardinality(ready) \in Nat
        /\ Cardinality(ready) <= job[j].total /\ Cardinality(ready) # job[j].total
    <2>1. ready \subseteq Rows(j) /\ Rows(j) \subseteq Deployments
      BY <1>2, Settling DEF Rows
    <2>2. job[j].total = Cardinality(Rows(j))
      BY <1>1 DEF Counts
    <2> HIDE DEF ready
    <2> QED BY <1>3, <2>1, <2>2, Counting
  <1> HIDE DEF ready
  <1>5. /\ job' \in [Jobs -> Job]
        /\ job'[j].status = "migrating" /\ job'[j].node = job[j].node
        /\ job'[j].target = job[j].target
        /\ job'[j].total = job[j].total /\ job'[j].migrated = Cardinality(ready)
        /\ \A k \in Jobs \ {j} : job'[k] = job[k]
    BY ZenonT(60), <1>1, <1>2, <1>4 DEF Types, Job, InQueue
  <1>6. TypeOK'
    BY <1>1, <1>2, <1>4, <1>5, Settling DEF TypeOK, Types, Counts
  <1>7. JobsInv'
    BY <1>2, <1>3, <1>5 DEF IInv, JobsInv, Unfinished, InQueue
  <1>8. \A k \in Jobs : Unfinished(k)' => Unfinished(k) /\ job'[k].node = job[k].node
    BY <1>3, <1>5 DEF Unfinished
  <1>9. DrainInv'
    <2>1. \A k \in Jobs : Rows(k)' = Rows(k)
      BY <1>2, Settling
    <2>2. ASSUME NEW k \in Jobs, Draining(k)'
          PROVE  /\ IsDraining(job'[k].node)
                 /\ Assigned(job'[k].node) \subseteq Rows(k)'
                 /\ job'[k].migrated = job'[k].total => Assigned(job'[k].node) = {}
      <3>1. revived' = revived /\ Unfinished(k)' /\ job'[k].node \notin revived'
        BY <2>2, <1>2 DEF Draining
      <3>2. Unfinished(k) /\ job'[k].node = job[k].node
        BY <3>1, <1>8
      <3>3. Draining(k)
        BY <3>1, <3>2 DEF Draining
      <3> QED BY <3>2, <3>3, <2>1, <1>4, <1>5 DEF IInv, DrainInv
    <2> QED BY <2>2, <1>2 DEF DrainInv, Assigned, IsDraining
  <1>10. StagedInv'
    <2>1. CopiesStaged'
      <3> SUFFICES ASSUME revived = {}, NEW k \in Jobs, NEW d \in Deployments, Unfinished(k),
                          migration'[k][d] = "ready", d \in Assigned(job[k].node)
                   PROVE  <<job[k].target, d>> \in staged
        BY <1>2, <1>5, <1>8 DEF CopiesStaged, Assigned
      <3>1. migration[k][d] = "ready"
        BY <1>2, Settling DEF Assigned, Gone
      <3> QED BY <3>1 DEF IInv, StagedInv, CopiesStaged
    <2> QED BY <2>1, <1>2 DEF IInv, StagedInv
  <1>11. NothingLeftBehind' /\ RoutedIsStaged'
    BY <1>2 DEF IInv, NothingLeftBehind, RoutedIsStaged, Assigned, ActiveBuilds
  <1> QED BY <1>6, <1>7, <1>9, <1>10, <1>11 DEF IInv

-------------------------------------------------------------------------------
(* The switch gives nothing to a node that is not eligible, and takes all  *)
(* from a node that is drained.                                            *)
LEMMA Switching ==
    ASSUME IInv, NEW j \in Jobs, Copied(j), SwitchOnce(j)
    PROVE  /\ deployment' \in [Deployments -> Deployment]
           /\ Closed
           /\ \A n \in Nodes : n = job[j].node /\ Draining(j) => Assigned(n)' = {}
           /\ \A d \in Deployments :
                 /\ deployment'[d].build = deployment[d].build
                 /\ deployment'[d].builder = deployment[d].builder
                 /\ deployment'[d].serve = deployment[d].serve
                 /\ \/ deployment'[d].node = deployment[d].node
                    \/ /\ deployment'[d].node = job[j].target
                       /\ d \in Rows(j) \cap Assigned(job[j].node)
  <1>1. Types /\ Counts
    BY TypeParts DEF IInv
  <1>2. CASE job[j].migrated < job[j].total
    <2>1. Eligible(job[j].target)
      BY <1>2 DEF Copied, TargetGone
    <2>2. deployment' = Switched(j)
      BY <1>2 DEF SwitchOnce
    <2>3. job[j].target \in Nodes \cup {NoNode} /\ job[j].node \in Nodes \cup {NoNode}
      BY <1>1 DEF Types, Job
    <2>4. \A d \in Deployments :
             /\ deployment'[d] \in Deployment
             /\ deployment'[d].build = deployment[d].build
             /\ deployment'[d].builder = deployment[d].builder
             /\ deployment'[d].serve = deployment[d].serve
             /\ deployment'[d].node = IF d \in Rows(j) \cap Assigned(job[j].node)
                                      THEN job[j].target ELSE deployment[d].node
      BY ZenonT(60), <1>1, <2>2, <2>3 DEF Switched, Types, Deployment
    <2>5. Closed
      BY <2>1, <2>4 DEF Closed, Shrinks, Assigned, ActiveBuilds
    <2>6. ASSUME NEW n \in Nodes, n = job[j].node, Draining(j)
          PROVE  Assigned(n)' = {}
      <3>1. job[j].target # n /\ Assigned(n) \subseteq Rows(j)
        BY <2>1, <2>6 DEF IInv, DrainInv, IsDraining, Eligible
      <3> QED BY <2>4, <2>6, <3>1 DEF Assigned
    <2>7. deployment' \in [Deployments -> Deployment]
      BY <2>2, <2>4 DEF Switched
    <2> QED BY <2>4, <2>5, <2>6, <2>7
  <1>3. CASE ~ (job[j].migrated < job[j].total)
    <2>1. deployment' = deployment
      BY <1>3 DEF SwitchOnce
    <2>2. job[j].migrated = job[j].total
      <3>1. job[j].migrated \in Nat /\ job[j].total \in Nat
        BY <1>1 DEF Types, Job
      <3> QED BY <1>1, <1>3, <3>1 DEF Counts
    <2>3. Closed
      BY <2>1 DEF Closed, Shrinks, Assigned, ActiveBuilds
    <2>4. \A n \in Nodes : n = job[j].node /\ Draining(j) => Assigned(n)' = {}
      BY <2>1, <2>2 DEF IInv, DrainInv, Assigned
    <2> QED BY <1>1, <2>1, <2>3, <2>4 DEF Types
  <1> QED BY <1>2, <1>3

(* The phases after the copies: what remains is to wait for the builds.    *)
LEMMA AdvanceInv ==
    ASSUME IInv, NEW j \in Jobs, NEW status \in {"draining", "deleting", "completed"}, Advance(j, status),
           IF status = "completed"
             THEN /\ node' = [node EXCEPT ![job[j].node] = [status |-> "disabled", deleted |-> TRUE]]
                  /\ ActiveBuilds(job[j].node) = {}
             ELSE node' = node,
           UNCHANGED <<beat, staged, revived>>
    PROVE  IInv'
  <1>1. Types /\ Counts
    BY TypeParts DEF IInv
  <1>2. /\ Unfinished(j) /\ job[j].node \in Nodes
        /\ \A d \in Rows(j) : Settled(j)[d] = "ready"
    BY DEF IInv, JobsInv, Advance, Copied, Unfinished, InQueue
  <1>3. /\ migration' = [migration EXCEPT ![j] = Settled(j)]
        /\ job' = [job EXCEPT ![j].status = status, ![j].migrated = Cardinality(Rows(j))]
        /\ Copied(j) /\ SwitchOnce(j)
    BY DEF Advance
  <1>4. job[j].total = Cardinality(Rows(j)) /\ job[j].total \in Nat
    BY <1>1 DEF Counts, Types, Job
  <1>5. /\ job' \in [Jobs -> Job]
        /\ job'[j].status = status /\ job'[j].node = job[j].node
        /\ job'[j].total = job[j].total /\ job'[j].migrated = job[j].total
        /\ job'[j].target = job[j].target
        /\ \A k \in Jobs \ {j} : job'[k] = job[k]
    <2> DEFINE total == job[j].total
    <2>1. job' = [job EXCEPT ![j].status = status, ![j].migrated = total] /\ total \in Nat
      BY <1>3, <1>4
    <2>2. total = job[j].total
      OBVIOUS
    <2> HIDE DEF total
    <2>3. job \in [Jobs -> Job] /\ status \in InQueue \cup {"completed"}
      BY <1>1 DEF Types, InQueue
    <2> QED BY ZenonT(60), <2>1, <2>2, <2>3 DEF Job
  <1>6. /\ node' \in [Nodes -> Node]
        /\ \A n \in Nodes : node[n].deleted => node'[n].deleted
        /\ \A n \in Nodes : n # job[j].node \/ status # "completed" => node'[n] = node[n]
        /\ status = "completed" => node'[job[j].node].deleted
    <2>1. node \in [Nodes -> Node] /\ job[j].node \in Nodes
      BY <1>1, <1>2 DEF Types
    <2>2. CASE status # "completed"
      BY <2>1, <2>2
    <2>3. CASE status = "completed"
      <3> DEFINE row == [status |-> "disabled", deleted |-> TRUE]
      <3>1. node' = [node EXCEPT ![job[j].node] = row]
        BY <2>3
      <3>2. row \in Node /\ row.deleted
        BY DEF Node
      <3> HIDE DEF row
      <3> QED BY <2>1, <2>3, <3>1, <3>2
    <2> QED BY <2>2, <2>3
  <1>7. \A k \in Jobs : Rows(k)' = Rows(k)
    BY <1>3, Settling
  <1>8. TypeOK'
    <2>1. migration' \in [Jobs -> [Deployments -> Shadow \cup {"none", "failed"}]]
      BY <1>3, Settling
    <2>2. deployment' \in [Deployments -> Deployment]
      BY <1>3, Switching
    <2>3. Types'
      BY <1>1, <1>5, <1>6, <2>1, <2>2 DEF Types
    <2>4. Counts'
      BY <1>1, <1>4, <1>5, <1>7 DEF Counts
    <2> QED BY <2>3, <2>4 DEF TypeOK, Types, Counts
  <1>9. JobsInv'
    BY <1>2, <1>5, <1>6 DEF IInv, JobsInv
  <1>10. \A n \in Nodes : ~Eligible(n) => Shrinks(n)
    BY <1>3, Switching DEF Closed
  <1>11. ASSUME NEW k \in Jobs, Draining(k)'
         PROVE  /\ Draining(k) /\ job'[k].node = job[k].node /\ job[k].node \in Nodes
                /\ IsDraining(job[k].node) /\ node'[job[k].node] = node[job[k].node]
                /\ k = j => \A n \in Nodes : n = job[j].node => Assigned(n)' = {}
    <2>1. Draining(k) /\ job'[k].node = job[k].node
      BY <1>11, <1>2, <1>5 DEF Draining, Unfinished
    <2>2. job[k].node \in Nodes /\ IsDraining(job[k].node)
      BY <2>1 DEF IInv, JobsInv, DrainInv, Draining, Unfinished, InQueue
    <2>3. job[k].node # job[j].node \/ status # "completed"
      <3>1. CASE k = j
        BY <3>1, <1>11, <1>5 DEF Draining, Unfinished, InQueue
      <3>2. CASE k # j
        BY <3>2, <2>2, NodeDeletionAssumption DEF IInv, JobsInv
      <3> QED BY <3>1, <3>2
    <2>4. node'[job[k].node] = node[job[k].node]
      BY <1>6, <2>2, <2>3
    <2>5. k = j => \A n \in Nodes : n = job[j].node => Assigned(n)' = {}
      BY <2>1, <1>3, Switching
    <2> QED BY <2>1, <2>2, <2>4, <2>5
  <1>12. ASSUME NEW k \in Jobs, Draining(k)', NEW n \in Nodes, n = job[k].node
         PROVE  Assigned(n)' \subseteq Assigned(n) /\ (k = j => Assigned(n)' = {})
    <2>1. ~Eligible(n)
      BY <1>11, <1>12 DEF IsDraining, Eligible
    <2> QED BY <1>10, <1>11, <1>12, <2>1 DEF Shrinks
  <1>13. DrainInv'
    <2>1. ASSUME NEW k \in Jobs, Draining(k)', NEW n \in Nodes, n = job[k].node
          PROVE  /\ node'[n].status = "draining" /\ ~node'[n].deleted
                 /\ Assigned(n)' \subseteq Rows(k)'
                 /\ job'[k].migrated = job'[k].total => Assigned(n)' = {}
      <3>1. node'[n].status = "draining" /\ ~node'[n].deleted
        BY <1>11, <2>1 DEF IsDraining
      <3>2. Assigned(n)' \subseteq Rows(k)'
        BY <1>7, <1>11, <1>12, <2>1 DEF IInv, DrainInv
      <3>3. job'[k].migrated = job'[k].total => Assigned(n)' = {}
        BY <1>5, <1>11, <1>12, <2>1 DEF IInv, DrainInv
      <3> QED BY <3>1, <3>2, <3>3
    <2>2. ASSUME NEW k \in Jobs, Draining(k)'
          PROVE  job'[k].node \in Nodes /\ job'[k].node = job[k].node
      BY <1>11, <2>2
    <2> QED BY <2>1, <2>2 DEF DrainInv, IsDraining, Assigned
  <1>14. StagedInv'
    <2>1. CopiesStaged'
      <3> SUFFICES ASSUME revived = {}, NEW k \in Jobs, Draining(k)', NEW d \in Deployments,
                          NEW n \in Nodes, n = job[k].node,
                          migration'[k][d] = "ready", d \in Assigned(n)'
                   PROVE  <<job[k].target, d>> \in staged
        BY <1>5, <1>11 DEF CopiesStaged, Draining, Assigned
      <3>1. Unfinished(k) /\ d \in Assigned(n)
        BY <1>11, <1>12 DEF Draining
      <3>2. migration[k][d] = "ready"
        BY <1>3, <3>1, Settling DEF Assigned, Gone
      <3> QED BY <3>1, <3>2 DEF IInv, StagedInv, CopiesStaged
    <2> QED BY <2>1, <1>3, Switching DEF IInv, StagedInv
  <1>15. NothingLeftBehind'
    <2> SUFFICES ASSUME NEW n \in Nodes \ revived, node'[n].deleted
                 PROVE  Assigned(n)' = {} /\ ActiveBuilds(n)' = {}
      BY DEF NothingLeftBehind
    <2>1. CASE node[n].deleted
      BY <2>1, <1>10 DEF IInv, NothingLeftBehind, Eligible, Shrinks
    <2>2. CASE ~node[n].deleted
      <3>1. n = job[j].node /\ status = "completed"
        BY <1>6, <2>2
      <3>2. Draining(j) /\ ~Eligible(n)
        BY <1>2, <3>1 DEF IInv, DrainInv, Draining, IsDraining, Eligible
      <3>3. Assigned(n)' = {}
        BY <1>3, <3>1, <3>2, Switching
      <3>4. ActiveBuilds(n)' = {}
        BY <1>10, <3>1, <3>2 DEF Shrinks
      <3> QED BY <3>3, <3>4
    <2> QED BY <2>1, <2>2
  <1>16. RoutedIsStaged'
    <2> SUFFICES ASSUME revived = {}, NEW d \in Deployments, deployment'[d].serve = "ready"
                 PROVE  <<deployment'[d].node, d>> \in staged
      BY DEF RoutedIsStaged
    <2>1. /\ deployment[d].serve = "ready"
          /\ \/ deployment'[d].node = deployment[d].node
             \/ deployment'[d].node = job[j].target /\ d \in Rows(j) \cap Assigned(job[j].node)
      BY <1>3, Switching
    <2>2. CASE deployment'[d].node = deployment[d].node
      BY <2>1, <2>2 DEF IInv, RoutedIsStaged
    <2>3. CASE deployment'[d].node = job[j].target /\ d \in Rows(j) \cap Assigned(job[j].node)
      <3>1. migration[j][d] = "ready"
        BY <1>2, <2>3 DEF Settled, Gone, Assigned
      <3> QED BY <1>2, <2>3, <3>1 DEF IInv, StagedInv, CopiesStaged
    <2> QED BY <2>1, <2>2, <2>3
  <1> QED BY <1>8, <1>9, <1>13, <1>14, <1>15, <1>16 DEF IInv

(* A target has staged the copy it reports ready.                          *)
LEMMA ShadowReportInv ==
    ASSUME IInv, NEW n \in Nodes, NEW d \in Deployments, NEW j \in Jobs,
           NEW to \in {"copying", "ready", "failed"}, ShadowReport(n, d, j, to)
    PROVE  IInv'
  <1>1. Types /\ Counts
    BY TypeParts DEF IInv
  <1>2. /\ migration' = [migration EXCEPT ![j][d] = to] /\ migration[j][d] \in Shadow
        /\ job[j].target = n /\ staged \subseteq staged'
        /\ to = "ready" => <<n, d>> \in staged'
        /\ staged' \subseteq Nodes \X Deployments
        /\ UNCHANGED <<node, deployment, job, beat, revived>>
    BY <1>1 DEF ShadowReport, Reported, Types
  <1>3. /\ migration' \in [Jobs -> [Deployments -> Shadow \cup {"none", "failed"}]]
        /\ \A k \in Jobs : Rows(k)' = Rows(k)
        /\ \A k \in Jobs, e \in Deployments : migration'[k][e] = "ready" =>
              migration[k][e] = "ready" \/ (k = j /\ e = d /\ to = "ready")
    BY <1>1, <1>2 DEF Types, Shadow, Rows
  <1>4. TypeOK'
    BY <1>1, <1>2, <1>3 DEF TypeOK, Types, Counts
  <1>5. JobsInv' /\ DrainInv'
    BY <1>2, <1>3 DEF IInv, JobsInv, DrainInv, Draining, IsDraining, Unfinished, Assigned
  <1>6. StagedInv'
    BY <1>2, <1>3 DEF IInv, StagedInv, CopiesStaged, Unfinished, Assigned
  <1>7. NothingLeftBehind' /\ RoutedIsStaged'
    BY <1>2 DEF IInv, NothingLeftBehind, RoutedIsStaged, Assigned, ActiveBuilds
  <1> QED BY <1>4, <1>5, <1>6, <1>7 DEF IInv

-------------------------------------------------------------------------------
(* It holds before the first deployment is created.                        *)
LEMMA InitInv ==
    ASSUME Init
    PROVE  IInv
  <1>1. Types
    BY DEF Init, Types, Node, Deployment, Job, Shadow, InQueue
  <1>2. Counts
    <2>1. \A j \in Jobs : Rows(j) = {} /\ job[j].total = 0 /\ job[j].migrated = 0
      BY DEF Init, Rows
    <2>2. Cardinality({}) = 0
      BY FS_EmptySet
    <2> QED BY <2>1, <2>2 DEF Counts
  <1>3. JobsInv /\ DrainInv /\ StagedInv
    BY DEF Init, JobsInv, DrainInv, Draining, Unfinished, InQueue, StagedInv, CopiesStaged
  <1>4. NothingLeftBehind /\ RoutedIsStaged
    BY DEF Init, NothingLeftBehind, RoutedIsStaged
  <1> QED BY <1>1, <1>2, <1>3, <1>4, TypeParts DEF IInv

(* A pass over a job, whatever it finds.                                   *)
LEMMA ProcessInv ==
    ASSUME IInv, NEW j \in Jobs, Process(j)
    PROVE  IInv'
  <1>1. CASE ProcessDraining(j)
    BY <1>1, AdvanceInv DEF ProcessDraining
  <1>2. CASE ProcessDeleting(j)
    BY <1>2, AdvanceInv DEF ProcessDeleting
  <1>3. CASE ProcessCompleted(j)
    BY <1>3, AdvanceInv DEF ProcessCompleted
  <1> QED BY <1>1, <1>2, <1>3, ProcessFailureInv, ProcessMigratingInv DEF Process

(* Every step preserves it.                                                *)
LEMMA NextInv ==
    ASSUME IInv, [Next]_vars
    PROVE  IInv'
  <1>1. CASE \E d \in Deployments :
                \/ FinishBuild(d) \/ EndBuild(d) \/ Retire(d)
                \/ \E n \in Nodes :
                      \/ Create(d, n) \/ Claim(d, n) \/ PlaceAgain(d, n)
                      \/ \E to \in {"unready", "ready"} : AssignedReport(n, d, to)
                      \/ \E j \in Jobs, to \in {"copying", "ready", "failed"} : ShadowReport(n, d, j, to)
    BY <1>1, FinishBuildInv, EndBuildInv, RetireInv, CreateInv, ClaimInv, PlaceAgainInv,
       AssignedReportInv, ShadowReportInv
  <1>2. CASE \E n \in Nodes : Authenticate(n) \/ Heartbeat(n) \/ GoStale(n)
    BY <1>2, AuthenticateInv, HeartbeatInv, GoStaleInv
  <1>3. CASE \E j \in Jobs :
                \/ Process(j) \/ ProcessError(j)
                \/ \E n \in Nodes, t \in Nodes \cup {NoNode} : Enqueue(j, n, t)
    BY <1>3, ProcessInv, ProcessFailureInv, EnqueueInv
  <1>4. CASE UNCHANGED vars
    BY <1>4
       DEF vars, IInv, TypeOK, JobsInv, DrainInv, Draining, IsDraining, Unfinished, StagedInv,
                CopiesStaged, NothingLeftBehind, RoutedIsStaged, Assigned, ActiveBuilds, Rows
  <1> QED BY <1>1, <1>2, <1>3, <1>4 DEF Next

(* The only step that moves a deployment from a node to another one is the *)
(* switch of a job of the first, which takes everything from it.           *)
LEMMA SwitchTogether ==
    ASSUME IInv, [Next]_vars, NEW n \in Nodes \ revived, NEW d \in Assigned(n),
           deployment'[d].node \notin {n, NoNode}
    PROVE  Assigned(n)' = {}
  <1>1. Types /\ d \in Deployments /\ deployment[d].node = n
    BY TypeParts DEF IInv, Assigned
  <1>2. deployment' # deployment
    BY <1>1
  <1>3. PICK j \in Jobs, status \in {"draining", "deleting", "completed"} : Advance(j, status)
    <2>1. ASSUME NEW e \in Deployments,
                 \/ FinishBuild(e) \/ EndBuild(e) \/ Retire(e)
                 \/ \E m \in Nodes :
                      \/ Create(e, m) \/ Claim(e, m) \/ PlaceAgain(e, m)
                      \/ \E to \in {"unready", "ready"} : AssignedReport(m, e, to)
          PROVE  FALSE
      <3>1. deployment \in [Deployments -> Deployment] /\ deployment[d] \in Deployment
        BY <1>1 DEF Types
      <3>2. deployment[d].build # "absent" /\ deployment[d].serve # "retired"
        BY DEF Assigned
      <3>3. deployment'[d] # deployment[d]
        BY <1>1
      <3>4. CASE FinishBuild(e) \/ \E m \in Nodes : Claim(e, m)
        BY <1>1, <3>1, <3>3, <3>4 DEF Deployment, FinishBuild, Claim
      <3>5. CASE EndBuild(e) \/ Retire(e)
        BY <1>1, <3>1, <3>3, <3>5 DEF Deployment, EndBuild, Retire
      <3>6. CASE \E m \in Nodes : Create(e, m) \/ PlaceAgain(e, m)
        <4>1. e # d
          BY <3>2, <3>6 DEF Create, PlaceAgain
        <4>2. deployment'[d] = deployment[d]
          <5>1. CASE \E m \in Nodes : Create(e, m)
            BY <1>1, <3>1, <4>1, <5>1 DEF Create
          <5>2. CASE \E m \in Nodes : PlaceAgain(e, m)
            BY <1>1, <3>1, <4>1, <5>2 DEF PlaceAgain
          <5> QED BY <3>6, <5>1, <5>2
        <4> QED BY <3>3, <4>2
      <3>7. CASE \E m \in Nodes, to \in {"unready", "ready"} : AssignedReport(m, e, to)
        BY <1>1, <3>1, <3>3, <3>7 DEF Deployment, AssignedReport
      <3> QED BY <2>1, <3>4, <3>5, <3>6, <3>7
    <2> QED BY <1>2, <2>1
       DEF Next, vars, Process, ProcessError, ProcessFailure, FailJob, ProcessMigrating,
            ProcessDraining, ProcessDeleting, ProcessCompleted, ShadowReport, Authenticate, Heartbeat,
            GoStale, Enqueue
  <1>4. Copied(j) /\ SwitchOnce(j)
    BY <1>3 DEF Advance
  <1>5. d \in Assigned(job[j].node)
    BY <1>1, <1>4, Switching
  <1>6. n = job[j].node
    BY <1>1, <1>5 DEF Assigned
  <1>7. Draining(j)
    BY <1>4, <1>6 DEF Draining, Unfinished, Copied
  <1> QED BY <1>4, <1>6, <1>7, Switching

-------------------------------------------------------------------------------
(* The strengthening holds in every reachable state.                       *)
THEOREM Invariance == Spec => []IInv
  <1> QED BY InitInv, NextInv, PTL DEF Spec

(* Values keep their types, and the counts of a job are those of its rows  *)
(* (enqueue, process_job, fail_job).                                       *)
THEOREM TypeCorrect == Spec => []TypeOK
  <1>1. IInv => TypeOK
    BY DEF IInv
  <1> QED BY <1>1, Invariance, PTL

(* A deleted node serves and builds nothing, unless a stale heartbeat      *)
(* revived it (process_job, enqueue, place_deployment_in_region).          *)
THEOREM NothingLeftBehindHolds == Spec => []NothingLeftBehind
  <1>1. IInv => NothingLeftBehind
    BY DEF IInv
  <1> QED BY <1>1, Invariance, PTL

(* A deployment is ready only on a node that has staged it, across every   *)
(* switch (switch_ready_routes, report_status).                            *)
THEOREM RoutedIsStagedHolds == Spec => []RoutedIsStaged
  <1>1. IInv => RoutedIsStaged
    BY DEF IInv
  <1> QED BY <1>1, Invariance, PTL

(* A step that moves a deployment off a node leaves the node nothing to    *)
(* serve (switch_ready_routes).                                            *)
THEOREM RoutesSwitchTogetherHolds == Spec => RoutesSwitchTogether
  <1>1. IInv /\ [Next]_vars =>
            [ \A n \in Nodes \ revived :
                (\E d \in Assigned(n) : deployment'[d].node \notin {n, NoNode})
                => Assigned(n)' = {} ]_vars
    BY SwitchTogether
  <1> QED BY <1>1, Invariance, PTL DEF Spec, RoutesSwitchTogether

-------------------------------------------------------------------------------
(* The steps of a node's deletion, and of what goes on meanwhile, as steps *)
(* of Evacuation.                                                          *)
HomeMap == [d \in Deployments |-> Home(d)]
Routed == {d \in Deployments : deployment[d].serve = "ready"}
Deleted == {n \in Nodes : node[n].deleted}

Shown == <<HomeMap, Routed, staged, Deleted>>

(* Who is assigned where.                                                  *)
LEMMA HomeFacts ==
    ASSUME Types, NEW d \in Deployments
    PROVE  /\ HomeMap[d] = Home(d) /\ Home(d) \in Nodes \cup {NoNode}
           /\ \A n \in Nodes : Home(d) = n <=> d \in Assigned(n)
  <1>1. deployment[d].node \in Nodes \cup {NoNode}
    BY DEF Types, Deployment
  <1> QED BY <1>1, NodeDeletionAssumption DEF HomeMap, Home, Assigned

LEMMA HomeFactsNext ==
    ASSUME Types', NEW d \in Deployments
    PROVE  /\ HomeMap'[d] = Home(d)' /\ Home(d)' \in Nodes \cup {NoNode}
           /\ \A n \in Nodes : Home(d)' = n <=> d \in Assigned(n)'
  <1>1. deployment'[d].node \in Nodes \cup {NoNode}
    BY DEF Types, Deployment
  <1> QED BY <1>1, NodeDeletionAssumption DEF HomeMap, Home, Assigned

(* A step is one of Evacuation, as long as no drain was undone.            *)
Kept == revived' = {} => Evacuated!Next \/ UNCHANGED Shown

LEMMA PlaceKept ==
    ASSUME Types, NEW d \in Deployments, NEW n \in Nodes, Create(d, n) \/ PlaceAgain(d, n), StagedInv
    PROVE  Kept
  <1>1. PICK row \in Deployment :
           /\ deployment' = [deployment EXCEPT ![d] = row]
           /\ row.node = n /\ row.serve = "unready" /\ row.build \in {"pending", "ready"}
    <2>1. CASE Create(d, n)
      <3> DEFINE row == [deployment[d] EXCEPT !.build = "pending", !.node = n]
      <3>1. row \in Deployment /\ row.node = n /\ row.serve = "unready" /\ row.build = "pending"
        BY <2>1 DEF Create, Types, Deployment, StagedInv
      <3>2. deployment' = [deployment EXCEPT ![d] = row]
        BY <2>1 DEF Create, Types, Deployment
      <3> QED BY <3>1, <3>2
    <2>2. CASE PlaceAgain(d, n)
      <3> DEFINE row == [deployment[d] EXCEPT !.serve = "unready", !.node = n]
      <3>1. row \in Deployment /\ row.node = n /\ row.serve = "unready" /\ row.build = "ready"
        BY <2>2 DEF PlaceAgain, Types, Deployment
      <3>2. deployment' = [deployment EXCEPT ![d] = row]
        BY <2>2 DEF PlaceAgain, Types, Deployment
      <3> QED BY <3>1, <3>2
    <2> QED BY <2>1, <2>2
  <1>2. Eligible(n) /\ UNCHANGED <<node, staged>> /\ d \notin Assigned(deployment[d].node) /\ deployment[d].serve # "ready"
    BY DEF Create, PlaceAgain, Assigned, StagedInv
  <1>3. HomeMap[d] = NoNode /\ n \notin Deleted
    BY <1>2 DEF HomeMap, Home, Deleted, Eligible
  <1>4. HomeMap' = [HomeMap EXCEPT ![d] = n]
    <2>1. Home(d)' = n
      BY <1>1 DEF Types, Home, Assigned
    <2>2. \A e \in Deployments \ {d} : Home(e)' = Home(e)
      BY <1>1 DEF Types, Home, Assigned
    <2> QED BY <2>1, <2>2 DEF HomeMap
  <1>5. Routed' = Routed /\ Deleted' = Deleted
    BY <1>1, <1>2 DEF Types, Routed, Deleted
  <1>6. Evacuated!Place(d, n)
    BY <1>2, <1>3, <1>4, <1>5 DEF Evacuated!Place, HomeMap, Routed, Deleted
  <1> QED BY <1>6 DEF Kept, Evacuated!Next

LEMMA WithdrawKept ==
    ASSUME Types, NEW d \in Deployments, EndBuild(d) \/ Retire(d)
    PROVE  Kept
  <1>1. /\ deployment'[d].node = NoNode /\ deployment'[d].serve = "retired"
        /\ \A e \in Deployments \ {d} : deployment'[e] = deployment[e]
        /\ UNCHANGED <<node, staged>>
    BY DEF EndBuild, Retire, Types, Deployment
  <1>2. HomeMap' = [HomeMap EXCEPT ![d] = NoNode]
    <2>1. Home(d)' = NoNode
      BY <1>1 DEF Home, Assigned
    <2>2. \A e \in Deployments \ {d} : Home(e)' = Home(e)
      BY <1>1 DEF Home, Assigned
    <2> QED BY <2>1, <2>2 DEF HomeMap
  <1>3. Routed' = Routed \ {d} /\ Deleted' = Deleted
    BY <1>1 DEF Routed, Deleted
  <1>4. Evacuated!Withdraw(d)
    BY <1>1, <1>2, <1>3 DEF Evacuated!Withdraw, HomeMap, Routed, Deleted
  <1> QED BY <1>4 DEF Kept, Evacuated!Next

LEMMA BuildKept ==
    ASSUME Types, NEW d \in Deployments, FinishBuild(d) \/ \E n \in Nodes : Claim(d, n)
    PROVE  Kept
  <1>1. /\ \A e \in Deployments :
              /\ deployment'[e].node = deployment[e].node /\ deployment'[e].serve = deployment[e].serve
              /\ deployment'[e].build \in {"absent", "ended"} <=> deployment[e].build \in {"absent", "ended"}
        /\ UNCHANGED <<node, staged>>
    <2>1. CASE FinishBuild(d)
      BY <2>1 DEF FinishBuild, Types, Deployment
    <2>2. CASE \E n \in Nodes : Claim(d, n)
      <3>1. PICK n \in Nodes : deployment' = [deployment EXCEPT ![d].build = "building", ![d].builder = n]
        BY <2>2 DEF Claim
      <3>2. deployment[d].build = "pending" /\ UNCHANGED <<node, staged>>
        BY <2>2 DEF Claim
      <3> QED BY <3>1, <3>2 DEF Types, Deployment
    <2> QED BY <2>1, <2>2
  <1>2. HomeMap' = HomeMap /\ Routed' = Routed /\ Deleted' = Deleted
    BY <1>1 DEF HomeMap, Home, Assigned, Routed, Deleted
  <1> QED BY <1>1, <1>2 DEF Kept, Shown

LEMMA AssignedReportKept ==
    ASSUME Types, RoutedIsStaged, NEW n \in Nodes, NEW d \in Deployments, NEW to \in {"unready", "ready"},
           AssignedReport(n, d, to)
    PROVE  Kept
  <1>1. /\ deployment[d].build = "ready" /\ deployment[d].serve # "retired" /\ deployment[d].node = n
        /\ ~node[n].deleted /\ UNCHANGED <<node, revived>>
        /\ deployment' = [deployment EXCEPT ![d].serve = to]
    BY DEF AssignedReport, Reported
  <1>2. HomeMap' = HomeMap /\ Deleted' = Deleted
    <2>1. \A e \in Deployments : Home(e)' = Home(e)
      BY <1>1 DEF Types, Deployment, Home, Assigned
    <2> QED BY <1>1, <2>1 DEF HomeMap, Deleted
  <1>3. CASE to = "ready"
    <2>1. Routed' = Routed \cup {d} /\ staged' = staged \cup {<<n, d>>}
      BY <1>1, <1>3 DEF Types, Deployment, Routed, AssignedReport, Reported
    <2>2. HomeMap[d] = n /\ n \notin Deleted
      BY <1>1, HomeFacts DEF HomeMap, Home, Assigned, Deleted
    <2>3. Evacuated!Serve(n, d)
      BY <1>2, <2>1, <2>2 DEF Evacuated!Serve, HomeMap, Routed, Deleted
    <2> QED BY <2>3 DEF Kept, Evacuated!Next
  <1>4. CASE to = "unready"
    <2>1. staged' = staged /\ (<<n, d>> \in staged => deployment[d].serve = "unready")
      BY <1>4 DEF AssignedReport, Reported
    <2>2. revived' = {} => deployment[d].serve # "ready"
      BY <1>1, <2>1 DEF RoutedIsStaged
    <2>3. revived' = {} => Routed' = Routed
      BY <1>1, <1>4, <2>2 DEF Types, Deployment, Routed
    <2> QED BY <1>2, <2>1, <2>3 DEF Kept, Shown
  <1> QED BY <1>3, <1>4

LEMMA ShadowReportKept ==
    ASSUME NEW n \in Nodes, NEW d \in Deployments, NEW j \in Jobs,
           NEW to \in {"copying", "ready", "failed"}, ShadowReport(n, d, j, to)
    PROVE  Kept
  <1>1. UNCHANGED <<node, deployment>> /\ ~node[n].deleted
    BY DEF ShadowReport, Reported
  <1>2. HomeMap' = HomeMap /\ Routed' = Routed /\ Deleted' = Deleted /\ n \notin Deleted
    BY <1>1 DEF HomeMap, Home, Assigned, Routed, Deleted
  <1>3. CASE to = "ready"
    <2>1. staged' = staged \cup {<<n, d>>}
      BY <1>3 DEF ShadowReport, Reported
    <2>2. Evacuated!Stage(n, d)
      BY <1>2, <2>1 DEF Evacuated!Stage, HomeMap, Routed, Deleted
    <2> QED BY <2>2 DEF Kept, Evacuated!Next
  <1>4. CASE to # "ready"
    BY <1>2, <1>4 DEF ShadowReport, Reported, Kept, Shown
  <1> QED BY <1>3, <1>4

(* The switch of a job hands over everything its node has.                 *)
LEMMA SwitchKept ==
    ASSUME IInv, IInv', NEW j \in Jobs, Copied(j), SwitchOnce(j), UNCHANGED <<node, staged, revived>>
    PROVE  Kept
  <1> SUFFICES ASSUME revived = {}
               PROVE  Evacuated!Next \/ UNCHANGED Shown
    BY DEF Kept
  <1>1. Types /\ Types' /\ Draining(j)
    BY TypeParts DEF IInv, Draining, Unfinished, Copied, Types, TypeOK
  <1>2. Routed' = Routed /\ Deleted' = Deleted
    BY Switching DEF Routed, Deleted
  <1>3. CASE deployment' = deployment
    BY <1>2, <1>3 DEF Shown, HomeMap, Home, Assigned
  <1>4. CASE deployment' # deployment
    <2>1. PICK n \in Nodes : n = job[j].node
      BY <1>1 DEF IInv, JobsInv, Draining, Unfinished, InQueue
    <2>2. PICK t : t = job[j].target
      OBVIOUS
    <2>3. job[j].migrated < job[j].total /\ deployment' = Switched(j) /\ Eligible(t)
      BY <1>4, <2>2 DEF SwitchOnce, Copied, TargetGone
    <2>4. Assigned(n) \subseteq Rows(j)
      BY <1>1, <2>1 DEF IInv, DrainInv
    <2>5. \A d \in Assigned(n) : <<t, d>> \in staged
      <3> SUFFICES ASSUME NEW d \in Assigned(n)
                   PROVE  <<t, d>> \in staged
        OBVIOUS
      <3>1. migration[j][d] = "ready" /\ d \in Deployments
        BY <2>4 DEF Copied, Settled, Gone, Assigned
      <3> QED BY <1>1, <2>1, <2>2, <3>1 DEF IInv, StagedInv, CopiesStaged, Draining
    <2>6. CASE Assigned(n) = {}
      <3>1. deployment' = [d \in Deployments |-> deployment[d]]
        BY <2>1, <2>3, <2>6 DEF Switched
      <3> QED BY <1>1, <1>4, <3>1 DEF Types
    <2>7. CASE Assigned(n) # {}
      <3>1. t \in Nodes /\ t \notin Deleted
        <4>1. PICK d : d \in Assigned(n)
          BY <2>7
        <4>2. <<t, d>> \in Nodes \X Deployments
          BY <1>1, <2>5, <4>1 DEF Types
        <4> QED BY <2>3, <4>2 DEF Eligible, Deleted
      <3>2. \A d \in Deployments :
               deployment'[d].node = IF d \in Assigned(n) THEN t ELSE deployment[d].node
        BY <1>1, <2>1, <2>2, <2>3, <2>4, <3>1 DEF Switched, Types, Deployment
      <3>3. \A d \in Deployments : Home(d)' = IF Home(d) = n THEN t ELSE Home(d)
        <4> SUFFICES ASSUME NEW d \in Deployments
                     PROVE  Home(d)' = IF Home(d) = n THEN t ELSE Home(d)
          OBVIOUS
        <4>1. Home(d) = n <=> d \in Assigned(n)
          BY <1>1, HomeFacts
        <4>2. deployment'[d].build = deployment[d].build /\ deployment'[d].serve = deployment[d].serve
          BY Switching
        <4> QED BY <3>1, <3>2, <4>1, <4>2 DEF Home, Assigned
      <3>4. HomeMap' = [d \in Deployments |-> IF HomeMap[d] = n THEN t ELSE HomeMap[d]]
        BY <3>3 DEF HomeMap
      <3>5. \A d \in Deployments : HomeMap[d] = n => <<t, d>> \in staged
        BY <1>1, <2>5, HomeFacts
      <3>6. Evacuated!HandOver(n, t)
        BY <1>2, <3>1, <3>4, <3>5 DEF Evacuated!HandOver, HomeMap, Routed, Deleted
      <3> QED BY <3>1, <3>6 DEF Evacuated!Next
    <2> QED BY <2>6, <2>7
  <1> QED BY <1>3, <1>4

(* A node is deleted when its routes were switched in an earlier pass.     *)
LEMMA CompletedKept ==
    ASSUME IInv, IInv', NEW j \in Jobs, ProcessCompleted(j)
    PROVE  Kept
  <1> SUFFICES ASSUME revived' = {}
               PROVE  Evacuated!Next
    BY DEF Kept
  <1>1. Types /\ Types' /\ revived = {} /\ staged' = staged /\ job[j].status = "deleting"
    BY TypeParts DEF IInv, ProcessCompleted, TypeOK, Types
  <1>2. PICK n \in Nodes : n = job[j].node
    BY <1>1 DEF IInv, JobsInv
  <1>3. job[j].migrated = job[j].total /\ job[j].total \in Nat
    BY <1>1 DEF IInv, JobsInv, Types, Job
  <1>4. deployment' = deployment
    BY <1>3 DEF ProcessCompleted, Advance, SwitchOnce
  <1>5. node' = [node EXCEPT ![n] = [status |-> "disabled", deleted |-> TRUE]]
    BY <1>2 DEF ProcessCompleted
  <1>6. HomeMap' = HomeMap /\ Routed' = Routed
    BY <1>4 DEF HomeMap, Home, Assigned, Routed
  <1>7. Deleted' = Deleted \cup {n}
    BY <1>1, <1>5 DEF Types, Deleted
  <1>8. Assigned(n) = {}
    BY <1>1, <1>2, <1>3 DEF IInv, DrainInv, Draining, Unfinished, InQueue
  <1>9. \A d \in Deployments : HomeMap[d] # n
    BY <1>1, <1>8, HomeFacts
  <1>10. Evacuated!Remove(n)
    BY <1>1, <1>6, <1>7, <1>9 DEF Evacuated!Remove, HomeMap, Routed, Deleted
  <1> QED BY <1>10 DEF Evacuated!Next

(* What changes neither the deployments nor who is deleted.                *)
LEMMA QuietKept ==
    ASSUME Types,
           \/ \E n \in Nodes : Authenticate(n) \/ Heartbeat(n) \/ GoStale(n)
           \/ \E j \in Jobs :
                 \/ ProcessFailure(j) \/ ProcessError(j) \/ ProcessMigrating(j)
                 \/ \E n \in Nodes, t \in Nodes \cup {NoNode} : Enqueue(j, n, t)
           \/ UNCHANGED vars
    PROVE  Kept
  <1>1. UNCHANGED <<deployment, staged>> /\ \A n \in Nodes : node'[n].deleted = node[n].deleted
    <2>1. CASE \E n \in Nodes : Authenticate(n) \/ Heartbeat(n) \/ GoStale(n)
      BY <2>1 DEF Authenticate, Heartbeat, GoStale, Types, Node
    <2>2. CASE \E j \in Jobs : ProcessFailure(j) \/ ProcessError(j) \/ ProcessMigrating(j)
      BY <2>2 DEF ProcessFailure, ProcessError, FailJob, ProcessMigrating
    <2>3. CASE \E j \in Jobs, n \in Nodes, t \in Nodes \cup {NoNode} : Enqueue(j, n, t)
      BY <2>3 DEF Enqueue, Types, Node
    <2>4. CASE UNCHANGED vars
      BY <2>4 DEF vars
    <2> QED BY <2>1, <2>2, <2>3, <2>4
  <1> QED BY <1>1 DEF Kept, Shown, HomeMap, Home, Assigned, Routed, Deleted

LEMMA NextKept ==
    ASSUME IInv, IInv', [Next]_vars
    PROVE  Kept
  <1>0. Types /\ StagedInv /\ RoutedIsStaged
    BY TypeParts DEF IInv
  <1>1. CASE \E d \in Deployments :
                \/ FinishBuild(d) \/ EndBuild(d) \/ Retire(d)
                \/ \E n \in Nodes :
                      \/ Create(d, n) \/ Claim(d, n) \/ PlaceAgain(d, n)
                      \/ \E to \in {"unready", "ready"} : AssignedReport(n, d, to)
                      \/ \E j \in Jobs, to \in {"copying", "ready", "failed"} : ShadowReport(n, d, j, to)
    BY <1>0, <1>1, PlaceKept, WithdrawKept, BuildKept, AssignedReportKept, ShadowReportKept
  <1>2. CASE \E j \in Jobs : Process(j)
    <2>1. PICK j \in Jobs : Process(j)
      BY <1>2
    <2>2. CASE ProcessDraining(j) \/ ProcessDeleting(j)
      BY <2>2, SwitchKept DEF ProcessDraining, ProcessDeleting, Advance
    <2> QED BY <1>0, <2>1, <2>2, QuietKept, CompletedKept DEF Process
  <1> QED BY <1>0, <1>1, <1>2, QuietKept DEF Next

LEMMA RevivedGrows ==
    ASSUME [Next]_vars
    PROVE  revived \subseteq revived'
  <1>1. CASE \E n \in Nodes : Authenticate(n) \/ Heartbeat(n) \/ GoStale(n)
    BY <1>1 DEF Authenticate, Heartbeat, GoStale
  <1>2. CASE \E j \in Jobs :
                \/ Process(j) \/ ProcessError(j)
                \/ \E n \in Nodes, t \in Nodes \cup {NoNode} : Enqueue(j, n, t)
    BY <1>2
       DEF Process, ProcessError, ProcessFailure, ProcessMigrating, ProcessDraining, ProcessDeleting,
                ProcessCompleted, Enqueue
  <1>3. CASE \E d \in Deployments :
                \/ FinishBuild(d) \/ EndBuild(d) \/ Retire(d)
                \/ \E n \in Nodes : Create(d, n) \/ Claim(d, n) \/ PlaceAgain(d, n)
    BY <1>3 DEF FinishBuild, EndBuild, Retire, Create, Claim, PlaceAgain
  <1>4. CASE \E d \in Deployments, n \in Nodes :
                \/ \E to \in {"unready", "ready"} : AssignedReport(n, d, to)
                \/ \E j \in Jobs, to \in {"copying", "ready", "failed"} : ShadowReport(n, d, j, to)
    BY <1>4 DEF AssignedReport, ShadowReport, Reported
  <1> QED BY <1>1, <1>2, <1>3, <1>4 DEF Next, vars

(* A node is evacuated in one step and only to copies that are there,      *)
(* routes are interrupted by nothing else, and a deleted node gets and has *)
(* nothing (process_job, switch_ready_routes, report_status), as long as   *)
(* no stale heartbeat undoes a drain.                                      *)
THEOREM ImplementsEvacuation == Spec => EvacuationSpec
  <1>1. Init => Evacuated!Init
    BY DEF Init, Evacuated!Init, Home, Assigned
  <1>2. IInv /\ IInv' /\ [Next]_vars =>
           [(revived # {})' \/ (Evacuated!Next /\ UNCHANGED (revived # {}))]_(Evacuated!vars)
    <2> SUFFICES ASSUME IInv, IInv', [Next]_vars, revived' = {}
                 PROVE  (Evacuated!Next /\ UNCHANGED (revived # {})) \/ UNCHANGED Evacuated!vars
      OBVIOUS
    <2>1. revived = {}
      BY RevivedGrows
    <2>2. Evacuated!Next \/ UNCHANGED Shown
      BY NextKept DEF Kept
    <2> QED BY <2>1, <2>2 DEF Evacuated!vars, Shown, HomeMap, Routed, Deleted
  <1> QED BY <1>1, <1>2, Invariance, PTL DEF Spec, EvacuationSpec, Evacuated!Spec

-------------------------------------------------------------------------------
(* A heartbeat writes what the node's row still says.                      *)
BeatsFresh == \A n \in Nodes : Heartbeat(n) => beat[n] = StatusAfterActivity(node[n].status)

(* Of all the steps, only a heartbeat takes a node out of its drain; one   *)
(* that writes what the row still says does not.                           *)
LEMMA DrainKept ==
    ASSUME IInv, Next, BeatsFresh
    PROVE  /\ revived' = revived
           /\ \A n \in Nodes : node[n].status = "draining" => node'[n].status \in {"draining", "disabled"}
  <1>0. node \in [Nodes -> Node]
    BY DEF IInv, TypeOK
  <1>1. CASE \E n \in Nodes : Heartbeat(n)
    <2>1. PICK n \in Nodes : Heartbeat(n)
      BY <1>1
    <2>2. beat[n] = StatusAfterActivity(node[n].status)
      BY <2>1 DEF BeatsFresh
    <2>3. node[n].status = "draining" => beat[n] = "draining"
      BY <2>2 DEF StatusAfterActivity
    <2>4. revived' = revived /\ node' = [node EXCEPT ![n].status = beat[n]]
      BY <2>1, <2>3 DEF Heartbeat
    <2> QED BY <1>0, <2>3, <2>4
  <1>2. CASE \E n \in Nodes : GoStale(n)
    BY <1>0, <1>2 DEF GoStale, Eligible
  <1>3. CASE \E j \in Jobs, n \in Nodes, t \in Nodes \cup {NoNode} : Enqueue(j, n, t)
    BY <1>0, <1>3 DEF Enqueue
  <1>4. CASE \E j \in Jobs : ProcessCompleted(j)
    BY <1>0, <1>4 DEF ProcessCompleted
  <1>5. CASE UNCHANGED <<node, revived>>
    BY <1>5
  <1>6. CASE \E j \in Jobs : \/ ProcessFailure(j) \/ ProcessMigrating(j) \/ ProcessDraining(j)
                            \/ ProcessDeleting(j) \/ ProcessError(j)
    BY <1>5, <1>6
       DEF ProcessFailure, ProcessMigrating, ProcessDraining, ProcessDeleting, ProcessError,
                      FailJob
  <1>7. CASE \E d \in Deployments :
                \/ FinishBuild(d) \/ EndBuild(d) \/ Retire(d)
                \/ \E n \in Nodes :
                      \/ Create(d, n) \/ Claim(d, n) \/ PlaceAgain(d, n)
                      \/ \E to \in {"unready", "ready"} : AssignedReport(n, d, to)
                      \/ \E j \in Jobs, to \in {"copying", "ready", "failed"} : ShadowReport(n, d, j, to)
    <2>1. PICK d \in Deployments :
              \/ FinishBuild(d) \/ EndBuild(d) \/ Retire(d)
              \/ \E n \in Nodes :
                    \/ Create(d, n) \/ Claim(d, n) \/ PlaceAgain(d, n)
                    \/ \E to \in {"unready", "ready"} : AssignedReport(n, d, to)
                    \/ \E j \in Jobs, to \in {"copying", "ready", "failed"} : ShadowReport(n, d, j, to)
      BY <1>7
    <2>2. UNCHANGED <<node, revived>>
      BY <2>1 DEF FinishBuild, EndBuild, Retire, Create, Claim, PlaceAgain, AssignedReport,
                  ShadowReport, Reported
    <2> QED BY <1>5, <2>2
  <1>8. CASE \E n \in Nodes : Authenticate(n)
    BY <1>5, <1>8 DEF Authenticate
  <1> QED BY <1>1, <1>2, <1>3, <1>4, <1>6, <1>7, <1>8 DEF Next, Process

(* nodes.rs:655 "node activity never cancels an administrative drain" holds*)
(* of every run in which no heartbeat writes a status its row no longer    *)
(* stands for; a deleted node then has nothing left, and every route leads *)
(* to a copy, without exception.                                           *)
THEOREM DrainNeverCanceledBarring ==
    Spec /\ [][BeatsFresh]_vars =>
        /\ DrainNeverCanceled
        /\ [] /\ revived = {}
              /\ \A n \in Nodes : node[n].deleted => Assigned(n) = {} /\ ActiveBuilds(n) = {}
              /\ \A d \in Deployments :
                    deployment[d].serve = "ready" => <<deployment[d].node, d>> \in staged
  <1> DEFINE StaysDraining == \A n \in Nodes :
                 node[n].status = "draining" => node'[n].status \in {"draining", "disabled"}
             Undisturbed ==
                 /\ revived = {}
                 /\ \A n \in Nodes : node[n].deleted => Assigned(n) = {} /\ ActiveBuilds(n) = {}
                 /\ \A d \in Deployments :
                       deployment[d].serve = "ready" => <<deployment[d].node, d>> \in staged
  <1>1. Init => revived = {}
    BY DEF Init
  <1>2. IInv /\ revived = {} /\ [Next]_vars /\ [BeatsFresh]_vars => (revived = {})' /\ [StaysDraining]_vars
    <2> SUFFICES ASSUME IInv, revived = {}, [Next]_vars, [BeatsFresh]_vars
                 PROVE  (revived = {})' /\ [StaysDraining]_vars
      OBVIOUS
    <2>1. CASE Next /\ BeatsFresh
      BY <2>1, DrainKept
    <2>2. CASE UNCHANGED vars
      BY <2>2 DEF vars
    <2> QED BY <2>1, <2>2
  <1>3. IInv /\ revived = {} => Undisturbed
    BY DEF IInv, NothingLeftBehind, RoutedIsStaged
  <1> HIDE DEF StaysDraining, Undisturbed
  <1>4. Spec /\ [][BeatsFresh]_vars => [][StaysDraining]_vars /\ []Undisturbed
    BY <1>1, <1>2, <1>3, Invariance, PTL DEF Spec
  <1> QED BY <1>4 DEF DrainNeverCanceled, StaysDraining, Undisturbed
===============================================================================
