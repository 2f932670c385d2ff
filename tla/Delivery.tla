------------------------------- MODULE Delivery -------------------------------
(***************************************************************************)
(* The life of the deployments of ONE environment of ONE project, as the   *)
(* control API keeps it in the deployments table: build, Serve and release *)
(* status, the Serve assignment, the queued release and the reviews.       *)
(*                                                                         *)
(* Each action is one database transaction of a handler.  Transactions     *)
(* that hold the placement advisory lock (scheduler.rs) or the row lock    *)
(* are atomic here; a handler that decides from a row it read BEFORE its   *)
(* transaction is two actions with a snapshot in between (StageRead and    *)
(* StageWrite, LoadForActivation and ApplyActivation).  A handler that     *)
(* answers with an error rolls back, so an error path is a disabled action.*)
(*                                                                         *)
(* The cooperative cancel flag lives in the cache and its write is best    *)
(* effort; here it never arrives, the case in which a late report gets the *)
(* furthest.  BuildSlots has the flag.                                     *)
(*                                                                         *)
(* An operator named X_Y, X being the operator after it, is not part of    *)
(* the system: it is X with one plausible bug, and some property notices.  *)
(*                                                                         *)
(* Deployments are numbered in the order of (created_at, id).              *)
(***************************************************************************)
EXTENDS Integers, FiniteSets

CONSTANTS
    Deployments,      \* ids, a set of naturals ordered by creation
    ServeNodes,       \* nodes the scheduler can choose
    NoNode,           \* serve_node_id = NULL
    Requests,         \* concurrent promote / rollback requests
    Environment,      \* "production" or "preview"
    ReviewModes,      \* review modes an administrator may set: subset of {"manual", "auto"}
    MaxReviews        \* bound on the undecided reviews of one deployment

ASSUME DeploymentsAssumption == Deployments \subseteq Nat
ASSUME NoNodeAssumption == NoNode \notin ServeNodes
ASSUME ReviewAssumption == ReviewModes \subseteq {"manual", "auto"} /\ MaxReviews \in Nat

VARIABLES
    rows,             \* the deployments table
    review_mode,      \* the review policy of the team for this environment
    stage_snapshot,   \* build status read by a running stage handler, per deployment
    activations       \* the promote and rollback handlers in flight

vars == <<rows, review_mode, stage_snapshot, activations>>

BuildStatuses == {"pending", "claimed", "queued", "building", "ready", "failed", "canceled"}
ServeStatuses == {"pending", "syncing", "ready", "failed", "retired"}
ReleaseStatuses == {"draft", "pending_review", "approved", "rejected", "active"}

Row == [build_status : BuildStatuses \cup {"absent"},
        serve_status : ServeStatuses,
        release_status : ReleaseStatuses,
        serve_node : ServeNodes \cup {NoNode},
        pending_release : BOOLEAN,      \* pending_release_reason IS NOT NULL
        artifact : BOOLEAN,             \* the GrassOutput artifact row exists
        was_serve_ready : BOOLEAN,      \* a Serve event with status ready was logged
        pending_reviews : 0..MaxReviews,
        approved_review : BOOLEAN]      \* some review row was approved

Absent == [build_status |-> "absent", serve_status |-> "pending", release_status |-> "draft",
           serve_node |-> NoNode, pending_release |-> FALSE, artifact |-> FALSE,
           was_serve_ready |-> FALSE, pending_reviews |-> 0, approved_review |-> FALSE]

Idle == [deployment |-> -1, action |-> "none"]

-------------------------------------------------------------------------------
(* The three status machines. *)

CanTransitionBuild(from, to) ==
    \/ from = "pending"  /\ to \in {"claimed", "failed", "canceled"}
    \/ from = "claimed"  /\ to \in {"queued", "building", "failed", "canceled"}
    \/ from = "queued"   /\ to \in {"building", "failed", "canceled"}
    \/ from = "building" /\ to \in {"ready", "failed", "canceled"}

CanTransitionServe_FailedIsFinal(from, to) ==
    \/ from \in {"pending", "ready"} /\ to = "syncing"
    \/ from = "syncing" /\ to \in {"ready", "failed"}

CanTransitionServe(from, to) ==
    \/ from \in {"pending", "failed", "ready"} /\ to = "syncing"
    \/ from = "syncing" /\ to \in {"ready", "failed"}
    \/ from # "retired" /\ to = "retired"
    \/ from = "retired" /\ to = "pending"

CanTransitionRelease(from, to) ==
    \/ from = "draft"          /\ to \in {"pending_review", "active"}
    \/ from = "pending_review" /\ to \in {"approved", "rejected"}
    \/ from = "rejected"       /\ to = "pending_review"
    \/ from = "approved"       /\ to = "active"
    \/ from = "active"         /\ to \in {"approved", "draft"}

(* Outside a demotion the build must be ready; outside the request of a    *)
(* review, and its decision on a retired deployment, Serve must be too.    *)
ReleaseReadiness(row, to) ==
    \/ row.release_status = "active" /\ to \in {"approved", "draft"}
    \/ /\ row.build_status = "ready"
       /\ \/ row.release_status = "draft" /\ to = "pending_review"
          \/ /\ row.serve_status = "retired"
             /\ row.release_status = "pending_review"
             /\ to \in {"approved", "rejected"}
          \/ row.serve_status = "ready"

CanRelease(row, to) ==
    CanTransitionRelease(row.release_status, to) /\ ReleaseReadiness(row, to)

InProgress(row) == row.build_status \in {"pending", "claimed", "queued", "building"}

-------------------------------------------------------------------------------
(* Reconciliation of the Serve assignments (delivery.rs). *)

Existing(rs) == {d \in Deployments : rs[d].build_status # "absent"}

Newest(S) == {d \in S : \A e \in S : e <= d}

DesiredDeliveryIds_DropsActive(rs) ==
    {d \in Existing(rs) : InProgress(rs[d]) \/ rs[d].pending_release}
    \cup Newest({d \in Existing(rs) : rs[d].build_status = "ready" /\ rs[d].serve_status # "retired"})

DesiredDeliveryIds_NewestOnly(rs) ==
    {d \in Existing(rs) : \/ InProgress(rs[d])
                          \/ rs[d].pending_release
                          \/ Environment = "production" /\ rs[d].release_status = "active"}
    \cup Newest({d \in Existing(rs) : rs[d].build_status = "ready" /\ rs[d].serve_status # "retired"})

DesiredDeliveryIds(rs) ==
    LET kept == {d \in Existing(rs) :
                    \/ InProgress(rs[d])
                    \/ rs[d].pending_release
                    \/ (Environment = "production" /\ rs[d].release_status = "active")}
        readyBuilds == {d \in Existing(rs) :
                           /\ rs[d].build_status = "ready"
                           /\ (rs[d].serve_status # "retired" \/ rs[d].pending_release)}
        newest == Newest(readyBuilds)
        previous == {d \in readyBuilds \ newest :
                        /\ rs[d].serve_status = "ready"
                        /\ \A n \in newest : rs[n].serve_status # "ready"}
    IN  kept \cup newest \cup Newest(previous)

Retired_KeepsNode(row) == [row EXCEPT !.serve_status = "retired"]

Retired(row) == [row EXCEPT !.serve_status = "retired", !.serve_node = NoNode]

Reconcile(rs) ==
    LET desired == DesiredDeliveryIds(rs)
    IN  [d \in Deployments |->
            IF d \in Existing(rs) \ desired THEN Retired(rs[d]) ELSE rs[d]]

-------------------------------------------------------------------------------
(* Release operations on the table. *)

(* The deployment activate() demotes: one active row other than the target *)
Previous(rs, d) ==
    LET actives == {e \in Deployments \ {d} : rs[e].release_status = "active"}
    IN  IF actives = {} THEN {} ELSE {CHOOSE e \in actives : TRUE}

Activate_NoDemotion(rs, d) == [rs EXCEPT ![d].release_status = "active"]

Activate(rs, d) ==
    [e \in Deployments |->
        IF e = d THEN [rs[e] EXCEPT !.release_status = "active"]
        ELSE IF e \in Previous(rs, d) THEN [rs[e] EXCEPT !.release_status = "approved"]
        ELSE rs[e]]

CanRequestReview(row) ==
    CanRelease(row, "pending_review") /\ row.pending_reviews < MaxReviews

RequestReview_NoRow(rs, d) == [rs EXCEPT ![d].release_status = "pending_review"]

RequestReview(rs, d) ==
    [rs EXCEPT ![d].release_status = "pending_review", ![d].pending_reviews = @ + 1]

ReleaseIsPending_SyncingOnly(rs) ==
    \E d \in Deployments : rs[d].pending_release /\ rs[d].serve_status = "syncing"

ReleaseIsPending(rs) == \E d \in Deployments : rs[d].pending_release

RequestRelease_Replaces(rs, d) ==
    IF rs[d].serve_node # NoNode /\ rs[d].serve_status = "ready"
    THEN CanRelease(rs[d], "active") /\ rows' = Reconcile(Activate(rs, d))
    ELSE \E n \in ServeNodes :
            rows' = Reconcile([e \in Deployments |->
                [rs[e] EXCEPT !.serve_node = IF e = d /\ @ = NoNode THEN n ELSE @,
                              !.serve_status = IF e = d /\ @ = "retired" THEN "pending" ELSE @,
                              !.pending_release = (e = d)]])

(* request_release: activate at once when the target is served, otherwise  *)
(* queue the release, placing the target again if it has no assignment.    *)
RequestRelease(rs, d) ==
    /\ ~ReleaseIsPending(rs)
    /\ IF rs[d].serve_node # NoNode /\ rs[d].serve_status = "ready"
       THEN /\ CanRelease(rs[d], "active")
            /\ rows' = Reconcile(Activate(rs, d))
       ELSE IF rs[d].serve_node = NoNode \/ rs[d].serve_status = "retired"
       THEN \E n \in ServeNodes :
                rows' = Reconcile([rs EXCEPT ![d].serve_node = n,
                                             ![d].serve_status = "pending",
                                             ![d].pending_release = TRUE])
       ELSE rows' = Reconcile([rs EXCEPT ![d].pending_release = TRUE])

-------------------------------------------------------------------------------
Init ==
    /\ rows = [d \in Deployments |-> Absent]
    /\ review_mode \in ReviewModes
    /\ stage_snapshot = [d \in Deployments |-> "none"]
    /\ activations = [r \in Requests |-> Idle]

(* POST deployments, and retry: a new row, placed under the placement lock *)
CreateDeployment(d, n) ==
    /\ Existing(rows) = {e \in Deployments : e < d}
    /\ rows' = [rows EXCEPT ![d].build_status = "pending", ![d].serve_node = n]
    /\ UNCHANGED <<review_mode, stage_snapshot, activations>>

(* A build node wins the optimistic UPDATE ... WHERE build_status = pending *)
ClaimBuild(d) ==
    /\ rows[d].build_status = "pending"
    /\ rows' = [rows EXCEPT ![d].build_status = "claimed"]
    /\ UNCHANGED <<review_mode, stage_snapshot, activations>>

(* The stage handler reads the row without a lock ...                      *)
StageRead(d) ==
    /\ stage_snapshot[d] = "none"
    /\ rows[d].build_status \in {"claimed", "queued", "building"}
    /\ stage_snapshot' = [stage_snapshot EXCEPT ![d] = rows[d].build_status]
    /\ UNCHANGED <<rows, review_mode, activations>>

(* ... and validates a Queued or Building report against what it read.     *)
StageWrite(d, to) ==
    /\ stage_snapshot[d] # "none"
    /\ to \in {"queued", "building"}
    /\ rows' = IF CanTransitionBuild(stage_snapshot[d], to)
               THEN [rows EXCEPT ![d].build_status = to]
               ELSE rows
    /\ stage_snapshot' = [stage_snapshot EXCEPT ![d] = "none"]
    /\ UNCHANGED <<review_mode, activations>>

(* The node's pipeline awaits each report, so it uploads or finishes only  *)
(* when none of its stage requests is running.                             *)
BuildNodeFree(d) == stage_snapshot[d] = "none"

UploadStaticSite(d) ==
    /\ BuildNodeFree(d)
    /\ rows[d].build_status = "building"
    /\ rows[d].serve_node # NoNode
    /\ rows' = [rows EXCEPT ![d].artifact = TRUE]
    /\ UNCHANGED <<review_mode, stage_snapshot, activations>>

(* A Ready report, possibly repeated, re-reads the row under both locks.   *)
(* The artifact conjunct is the node's: it reports Ready after its upload. *)
FinalizeReady(d) ==
    LET built == [rows EXCEPT ![d].build_status = "ready"]
    IN  /\ BuildNodeFree(d)
        /\ rows[d].artifact
        /\ rows[d].build_status \in {"building", "ready"}
        /\ IF review_mode = "manual" /\ rows[d].release_status = "draft"
           THEN CanRequestReview(built[d]) /\ rows' = Reconcile(RequestReview(built, d))
           ELSE rows' = Reconcile(built)
        /\ UNCHANGED <<review_mode, stage_snapshot, activations>>

UnsuccessfulBuild(d, to) ==
    /\ CanTransitionBuild(rows[d].build_status, to)
    /\ rows' = Reconcile([rows EXCEPT ![d].build_status = to])
    /\ UNCHANGED <<review_mode, stage_snapshot, activations>>

FailBuild(d) == BuildNodeFree(d) /\ rows[d].build_status # "pending" /\ UnsuccessfulBuild(d, "failed")

CancelBuild(d) == UnsuccessfulBuild(d, "canceled")

CompleteServeReady_KeepsQueue(rs, d) ==
    IF rs[d].pending_release
    THEN CanRelease(rs[d], "active") /\ rows' = Reconcile(Activate(rs, d))
    ELSE rows' = Reconcile(rs)

CompleteServeReady_NoReconcile(rs, d) ==
    IF rs[d].pending_release
    THEN CanRelease(rs[d], "active") /\ rows' = [Activate(rs, d) EXCEPT ![d].pending_release = FALSE]
    ELSE rows' = rs

(* complete_serve_ready: finish the queued release, else auto-activate.    *)
CompleteServeReady(rs, d) ==
    IF rs[d].pending_release
    THEN /\ CanRelease(rs[d], "active")
         /\ rows' = Reconcile([Activate(rs, d) EXCEPT ![d].pending_release = FALSE])
    ELSE IF review_mode = "auto" /\ rs[d].release_status = "draft"
    THEN /\ CanRelease(rs[d], "active")
         /\ rows' = Reconcile(Activate(rs, d))
    ELSE rows' = Reconcile(rs)

(* The assigned Serve node reports progress; other nodes are refused.      *)
ReportServeStatus(n, d, to) ==
    /\ rows[d].serve_node = n
    /\ rows[d].build_status = "ready"
    /\ to \in {"syncing", "ready", "failed"}
    /\ CanTransitionServe(rows[d].serve_status, to)
    /\ IF to = "ready"
       THEN CompleteServeReady([rows EXCEPT ![d].serve_status = "ready",
                                            ![d].was_serve_ready = TRUE], d)
       ELSE rows' = [rows EXCEPT ![d].serve_status = to]
    /\ UNCHANGED <<review_mode, stage_snapshot, activations>>

(* Promote and rollback: the row and the policy are read, and the action   *)
(* chosen, before the transaction.                                         *)
LoadForActivation(r, d) ==
    /\ activations[r] = Idle
    /\ rows[d].build_status = "ready"
    /\ rows[d].release_status \in {"draft", "approved"}
    /\ activations' = [activations EXCEPT ![r] =
           [deployment |-> d,
            action |-> IF rows[d].release_status = "draft" /\ review_mode = "manual"
                       THEN "review" ELSE "release"]]
    /\ UNCHANGED <<rows, review_mode, stage_snapshot>>

ApplyActivation(r) ==
    /\ activations[r] # Idle
    /\ LET d == activations[r].deployment
       IN  IF activations[r].action = "review"
           THEN CanRequestReview(rows[d]) /\ rows' = RequestReview(rows, d)
           ELSE RequestRelease(rows, d)
    /\ activations' = [activations EXCEPT ![r] = Idle]
    /\ UNCHANGED <<review_mode, stage_snapshot>>

(* The request ends without a commit: refused, disconnected or failed.     *)
AbandonActivation(r) ==
    /\ activations[r] # Idle
    /\ activations' = [activations EXCEPT ![r] = Idle]
    /\ UNCHANGED <<rows, review_mode, stage_snapshot>>

(* A decision and a republication need an artifact that reached Serve.     *)
ReachedServe(row) ==
    /\ row.build_status = "ready"
    /\ \/ row.serve_status = "ready"
       \/ row.serve_status = "retired" /\ row.was_serve_ready

Reviewable_NoReview(row) == ReachedServe(row)

(* Both decisions also need an open review.                                *)
Reviewable(row) ==
    /\ ReachedServe(row)
    /\ row.pending_reviews > 0

ApproveReview(d) ==
    /\ Reviewable(rows[d])
    /\ CanRelease(rows[d], "approved")
    /\ RequestRelease([rows EXCEPT ![d].release_status = "approved",
                                   ![d].pending_reviews = @ - 1,
                                   ![d].approved_review = TRUE], d)
    /\ UNCHANGED <<review_mode, stage_snapshot, activations>>

RejectReview(d) ==
    /\ Reviewable(rows[d])
    /\ CanRelease(rows[d], "rejected")
    /\ rows' = [rows EXCEPT ![d].release_status = "rejected", ![d].pending_reviews = @ - 1]
    /\ UNCHANGED <<review_mode, stage_snapshot, activations>>

(* remove_publication, for a team (to approved) or the platform (to draft) *)
RemovePublication(d, to) ==
    /\ CanRelease(rows[d], to)
    /\ rows' = Reconcile([rows EXCEPT ![d] =
           [Retired(@) EXCEPT !.release_status = to, !.pending_release = FALSE]])
    /\ UNCHANGED <<review_mode, stage_snapshot, activations>>

Unpublish(d) == RemovePublication(d, "approved")

Withdraw(d) == RemovePublication(d, "draft")

(* An administrator publishes again what was served before.                *)
Republish(d) ==
    /\ ReachedServe(rows[d])
    /\ \/ /\ rows[d].release_status = "approved"
          /\ RequestRelease(rows, d)
       \/ /\ rows[d].release_status = "draft" /\ review_mode = "auto"
          /\ RequestRelease(rows, d)
       \/ /\ rows[d].release_status = "rejected" /\ review_mode = "auto"
          /\ CanRelease(rows[d], "pending_review")
          /\ RequestRelease([rows EXCEPT ![d].release_status = "approved"], d)
       \/ /\ rows[d].release_status \in {"draft", "rejected"} /\ review_mode = "manual"
          /\ CanRequestReview(rows[d])
          /\ rows' = RequestReview(rows, d)
    /\ UNCHANGED <<review_mode, stage_snapshot, activations>>

SetReviewMode(m) ==
    /\ m # review_mode
    /\ review_mode' = m
    /\ UNCHANGED <<rows, stage_snapshot, activations>>

Next ==
    \/ \E d \in Deployments :
          \/ \E n \in ServeNodes : CreateDeployment(d, n)
          \/ ClaimBuild(d) \/ StageRead(d)
          \/ \E to \in {"queued", "building"} : StageWrite(d, to)
          \/ UploadStaticSite(d) \/ FinalizeReady(d) \/ FailBuild(d) \/ CancelBuild(d)
          \/ \E n \in ServeNodes, to \in {"syncing", "ready", "failed"} : ReportServeStatus(n, d, to)
          \/ ApproveReview(d) \/ RejectReview(d)
          \/ Unpublish(d) \/ Withdraw(d) \/ Republish(d)
          \/ \E r \in Requests : LoadForActivation(r, d)
    \/ \E r \in Requests : ApplyActivation(r) \/ AbandonActivation(r)
    \/ \E m \in ReviewModes : SetReviewMode(m)

Spec == Init /\ [][Next]_vars

(* The assigned node's sync loop polls every few seconds, retries a failed *)
(* synchronization and, if it keeps trying, eventually stages the artifact.*)
SyncFairness ==
    \A d \in Deployments :
        /\ WF_vars(\E n \in ServeNodes : ReportServeStatus(n, d, "syncing"))
        /\ SF_vars(\E n \in ServeNodes : ReportServeStatus(n, d, "ready"))

FairSpec == Spec /\ SyncFairness

-------------------------------------------------------------------------------
(* Properties. *)

TypeOK ==
    /\ rows \in [Deployments -> Row]
    /\ review_mode \in ReviewModes
    /\ stage_snapshot \in [Deployments -> {"none", "claimed", "queued", "building"}]
    /\ activations \in [Requests -> {Idle} \cup [deployment : Deployments, action : {"review", "release"}]]

Active(d) == rows[d].release_status = "active"
Served(row) == row.build_status = "ready" /\ row.serve_status = "ready"

(* At most one deployment of the environment is active, whichever of       *)
(* promote, approve, republish and the Serve reports race (activate).      *)
OneActive == \A d, e \in Deployments : Active(d) /\ Active(e) => d = e

(* At most one release waits for synchronization (request_release).        *)
OnePendingRelease ==
    \A d, e \in Deployments : rows[d].pending_release /\ rows[e].pending_release => d = e

(* A deployment keeps a Serve node exactly while its Serve status is not   *)
(* retired, and an unsuccessful build never keeps one, whichever report,   *)
(* cancellation or reconciliation came last (reconcile_environment,        *)
(* remove_publication, request_release, transition_unsuccessful_build).    *)
AssignmentMatchesServe ==
    \A d \in Existing(rows) :
        /\ rows[d].serve_node = NoNode <=> rows[d].serve_status = "retired"
        /\ rows[d].build_status \in {"failed", "canceled"} => rows[d].serve_node = NoNode

(* A queued release waits for a synchronization that is still to come: its *)
(* target is built, assigned and not Serve-ready already, so the report    *)
(* that completes it can arrive (request_release, complete_pending_release)*)
PendingOnAssignment ==
    \A d \in Deployments :
        rows[d].pending_release =>
            /\ rows[d].build_status = "ready"
            /\ rows[d].serve_node # NoNode
            /\ rows[d].serve_status \in {"pending", "syncing", "failed"}

(* The active production deployment stays built and assigned through every *)
(* reconciliation caused by other deployments (desired_delivery_ids).      *)
ActiveProductionServed ==
    Environment = "production" =>
        \A d \in Deployments :
            Active(d) => rows[d].build_status = "ready" /\ rows[d].serve_status # "retired"

(* A deployment waiting for review has a review an administrator can decide*)
(* (request_review, decide).                                               *)
PendingReviewDecidable ==
    \A d \in Deployments : rows[d].release_status = "pending_review" => rows[d].pending_reviews > 0

(* A Serve-ready deployment still assigned is one the delivery rules want: *)
(* no superseded version keeps a route (desired_delivery_ids, and every    *)
(* handler that must reconcile after it).                                  *)
ServedIsWanted == \A d \in Existing(rows) : Served(rows[d]) => d \in DesiredDeliveryIds(rows)

(* Rolling overlap (self-hosting.md:552-557): a served deployment is only  *)
(* retired by its own removal, or when another one is served.              *)
RollingOverlap ==
    [][\A d \in Deployments :
          Served(rows[d]) /\ rows'[d].serve_status = "retired" =>
              \/ Unpublish(d) \/ Withdraw(d)
              \/ \E e \in Deployments \ {d} : Served(rows'[e])]_vars

(* Production keeps answering until the next version does                  *)
(* (self-hosting.md:558-561): an active served deployment stays so unless  *)
(* it is removed, its node resynchronizes it, or another one takes over    *)
(* already served.                                                         *)
ProductionNeverDrops ==
    [][\A d \in Deployments :
          /\ Environment = "production" /\ Active(d) /\ Served(rows[d])
          /\ ~(Unpublish(d) \/ Withdraw(d) \/ ReportServeStatus(rows[d].serve_node, d, "syncing"))
          => \E e \in Deployments : rows'[e].release_status = "active" /\ Served(rows'[e])]_vars

(* The environment keeps the promises of Release, whose state is read off  *)
(* the table: a version is published only in a step that leaves it served, *)
(* a queued one waits until that step or its removal, and nothing else     *)
(* moves the two (self-hosting.md:552-567; request_release, activate,      *)
(* complete_serve_ready, remove_publication and reconcile_environment).    *)
NoVersion == -1

The(S) == IF S = {} THEN NoVersion ELSE CHOOSE d \in S : TRUE

Published == INSTANCE Release WITH
    Versions <- Deployments,
    active <- The({d \in Deployments : Active(d)}),
    waiting <- The({d \in Deployments : rows[d].pending_release}),
    served <- {d \in Deployments : Served(rows[d])}

ReleaseSpec == Published!Spec

(* The machine refuses to activate the target of the queued release: it is *)
(* already active, waits for a review or was rejected, and the report that *)
(* completes the release rolls back (complete_pending_release).            *)
Refused(d) ==
    rows[d].pending_release /\ rows[d].release_status \notin {"draft", "approved"}

(* A queued release is eventually activated or removed, so the environment *)
(* does not stay closed to further releases (ReleaseAlreadyPending), with  *)
(* one exception: the target's status changed and its activation is refused*)
PendingReleaseDrains ==
    \A d \in Deployments : rows[d].pending_release ~> ~rows[d].pending_release \/ Refused(d)

(* Only a decision gone stale leads there: a Ready report that finds the   *)
(* policy turned manual while the release of a draft was queued            *)
(* (stage.rs:406), or a promote or rollback applied to a row that moved    *)
(* after it was loaded.  No report of a Serve node, decision, removal,     *)
(* republication or reconciliation makes a queued release impossible.      *)
RefusalsAreStale ==
    [][\A d \in Deployments :
          ~Refused(d) /\ Refused(d)' =>
              \/ FinalizeReady(d) /\ review_mode = "manual"
              \/ \E r \in Requests : ApplyActivation(r) /\ activations[r].deployment = d]_vars

(* Such a release never completes: its target is not activated and keeps   *)
(* the queue, whatever report, decision, removal or request comes next.    *)
(* Only the removal of a target that was active already clears it.         *)
RefusedForGood ==
    [][\A d \in Deployments :
          Refused(d) /\ ~Active(d) => Refused(d)' /\ ~Active(d)']_vars

-------------------------------------------------------------------------------
(* What the repository says and the code does not keep. *)

(* deployment_cancellation.rs and stage.rs:105 "A user cancel wins over any*)
(* progress report": a canceled build is never running again.              *)
CanceledIsFinal ==
    [][\A d \in Deployments :
          rows[d].build_status = "canceled" => rows'[d].build_status = "canceled"]_vars

(* deployments.rs:821 "Activation requires an approved review" in manual   *)
(* mode, when that mode has always been the policy.                        *)
ManualActivationReviewed ==
    ReviewModes = {"manual"} => \A d \in Deployments : Active(d) => rows[d].approved_review

(* delivery/tests.rs:817 "release request rejects a stale already active   *)
(* target": an active deployment never gets a release queued again.        *)
ActiveNeverQueued == \A d \in Deployments : ~(Active(d) /\ rows[d].pending_release)

(* self-hosting.md:552 "the previous Ready Preview remains assigned and    *)
(* keeps serving" while the replacement is not ready: some preview that is *)
(* served is the one effective_preview resolves.                           *)
EffectivePreview(rs) ==
    {d \in Newest({e \in Existing(rs) : rs[e].build_status = "ready"}) : rs[d].serve_status = "ready"}

RoutedPreviewResolves ==
    Environment = "preview" =>
        ((\E d \in Deployments : Served(rows[d])) => EffectivePreview(rows) # {})
===============================================================================
