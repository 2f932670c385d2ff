---------------------------- MODULE Delivery_proofs ----------------------------
(***************************************************************************)
(* Safety of Delivery for every number of deployments, nodes and requests, *)
(* every policy and both kinds of environment.  The invariant is a         *)
(* predicate of the table, so that a handler that builds a table and then  *)
(* reconciles it is proved through the table it passes to Reconcile.       *)
(***************************************************************************)
EXTENDS Delivery, TLAPS

(* What holds of every row of a table, reconciled or not.                  *)
RowInv(row) ==
    /\ row.build_status = "absent" => row = Absent
    /\ row.release_status # "draft" => row.build_status = "ready"
    /\ row.build_status # "absent" => (row.serve_node = NoNode <=> row.serve_status = "retired")
    /\ row.pending_release => /\ row.build_status = "ready"
                              /\ row.serve_status \in {"pending", "syncing", "failed"}
    /\ row.release_status = "pending_review" => row.pending_reviews > 0
    /\ Environment = "production" /\ row.release_status = "active" => row.serve_status # "retired"

TableInv(rs) ==
    /\ rs \in [Deployments -> Row]
    /\ \A d \in Deployments : RowInv(rs[d])
    /\ \A d, e \in Deployments :
          rs[d].release_status = "active" /\ rs[e].release_status = "active" => d = e
    /\ \A d, e \in Deployments : rs[d].pending_release /\ rs[e].pending_release => d = e

(* What reconciliation restores.                                           *)
Settled(rs) ==
    \A d \in Deployments :
        rs[d].build_status \in {"failed", "canceled"} => rs[d].serve_status = "retired"

(* A running stage request saw a build that was not over, and a promotion  *)
(* in flight has a built target: a ready build never changes again.        *)
HandlersInv ==
    /\ \A d \in Deployments :
          stage_snapshot[d] # "none" =>
              rows[d].build_status \in {"claimed", "queued", "building", "canceled"}
    /\ \A r \in Requests :
          activations[r] # Idle => rows[activations[r].deployment].build_status = "ready"

IInv == TypeOK /\ TableInv(rows) /\ Settled(rows) /\ HandlersInv

-------------------------------------------------------------------------------
(* The operators on the table.                                             *)

(* Retiring a row only touches its Serve status and node.                  *)
LEMMA RetiredRow ==
    ASSUME NEW row \in Row
    PROVE  /\ Retired(row) \in Row
           /\ Retired(row).serve_status = "retired"
           /\ Retired(row).serve_node = NoNode
           /\ Retired(row).build_status = row.build_status
           /\ Retired(row).release_status = row.release_status
           /\ Retired(row).pending_release = row.pending_release
           /\ Retired(row).pending_reviews = row.pending_reviews
  BY DEF Retired, Row, ServeStatuses

(* reconcile_environment leaves a row alone or retires it, and what it     *)
(* retires is neither being built, nor queued, nor active in production.   *)
LEMMA ReconcileRow ==
    ASSUME NEW rs \in [Deployments -> Row], NEW d \in Deployments
    PROVE  \/ Reconcile(rs)[d] = rs[d]
           \/ /\ Reconcile(rs)[d] = Retired(rs[d])
              /\ rs[d].build_status # "absent"
              /\ ~InProgress(rs[d])
              /\ ~rs[d].pending_release
              /\ ~(Environment = "production" /\ rs[d].release_status = "active")
  <1> DEFINE desired == DesiredDeliveryIds(rs)
  <1>1. CASE d \in Existing(rs) \ desired
    BY <1>1 DEF Reconcile, DesiredDeliveryIds, Existing
  <1>2. CASE d \notin Existing(rs) \ desired
    BY <1>2 DEF Reconcile
  <1> QED BY <1>1, <1>2

(* An unsuccessful build that is not queued or active loses its assignment.*)
LEMMA ReconcileSettles ==
    ASSUME NEW rs, TableInv(rs)
    PROVE  Settled(Reconcile(rs))
  <1> SUFFICES ASSUME NEW d \in Deployments,
                      Reconcile(rs)[d].build_status \in {"failed", "canceled"}
               PROVE  Reconcile(rs)[d].serve_status = "retired"
    BY DEF Settled
  <1>1. rs \in [Deployments -> Row] /\ rs[d] \in Row /\ RowInv(rs[d])
    BY DEF TableInv
  <1>2. rs[d].build_status \in {"failed", "canceled"}
    BY <1>1, ReconcileRow, RetiredRow
  <1>3. d \in Existing(rs)
    BY <1>2 DEF Existing
  <1>4. d \notin DesiredDeliveryIds(rs)
    <2>1. ~InProgress(rs[d]) /\ ~rs[d].pending_release /\ rs[d].release_status # "active"
      BY <1>1, <1>2 DEF InProgress, RowInv
    <2>2. rs[d].build_status # "ready"
      BY <1>2
    <2> QED BY <2>1, <2>2 DEF DesiredDeliveryIds, Newest
  <1>5. Reconcile(rs)[d] = Retired(rs[d])
    BY <1>3, <1>4 DEF Reconcile
  <1> QED BY <1>1, <1>5, RetiredRow

(* reconcile_environment preserves everything the table guarantees.        *)
LEMMA ReconcileTable ==
    ASSUME NEW rs, TableInv(rs)
    PROVE  TableInv(Reconcile(rs))
  <1>1. rs \in [Deployments -> Row]
    BY DEF TableInv
  <1>2. ASSUME NEW d \in Deployments
        PROVE  /\ Reconcile(rs)[d] \in Row
               /\ Reconcile(rs)[d].release_status = rs[d].release_status
               /\ Reconcile(rs)[d].pending_release = rs[d].pending_release
    BY <1>1, ReconcileRow, RetiredRow
  <1>3. ASSUME NEW d \in Deployments
        PROVE  RowInv(Reconcile(rs)[d])
    <2>1. rs[d] \in Row /\ RowInv(rs[d])
      BY <1>1 DEF TableInv
    <2>2. CASE Reconcile(rs)[d] = rs[d]
      BY <2>1, <2>2
    <2>3. CASE Reconcile(rs)[d] # rs[d]
      <3>1. /\ Reconcile(rs)[d] = Retired(rs[d])
            /\ rs[d].build_status # "absent"
            /\ ~rs[d].pending_release
            /\ ~(Environment = "production" /\ rs[d].release_status = "active")
        BY <1>1, <2>3, ReconcileRow
      <3> QED BY <2>1, <3>1, RetiredRow DEF RowInv
    <2> QED BY <2>2, <2>3
  <1>4. Reconcile(rs) = [d \in Deployments |-> Reconcile(rs)[d]]
    BY DEF Reconcile
  <1>5. Reconcile(rs) \in [Deployments -> Row]
    BY <1>2, <1>4
  <1> QED BY <1>2, <1>3, <1>5 DEF TableInv

(* A change of the reviews of a built row, or of a release status other    *)
(* than active, keeps the guarantees of a row.                             *)
LEMMA BuiltRow ==
    ASSUME NEW old, RowInv(old), old.build_status = "ready",
           NEW row, row.build_status = "ready",
           row.serve_status = old.serve_status, row.serve_node = old.serve_node,
           row.pending_release = old.pending_release,
           row.release_status # "active",
           row.release_status = "pending_review" => row.pending_reviews > 0
    PROVE  RowInv(row)
  BY DEF RowInv

(* A demoted and a promoted row keep the guarantees of a row.              *)
LEMMA DemotedRow ==
    ASSUME NEW row \in Row, RowInv(row), row.release_status = "active",
           NEW demoted, demoted = [row EXCEPT !.release_status = "approved"]
    PROVE  /\ demoted \in Row /\ RowInv(demoted)
           /\ demoted.release_status = "approved"
           /\ demoted.pending_release = row.pending_release
  BY DEF Row, RowInv, ReleaseStatuses, Absent

(* A built, untouched or served row may become the active one.             *)
LEMMA PromotedRow ==
    ASSUME NEW row \in Row, row.build_status = "ready", row.serve_status = "ready",
           NEW idle, idle = [row EXCEPT !.pending_release = FALSE], RowInv(idle),
           NEW promoted,
           promoted = [row EXCEPT !.release_status = "active", !.pending_release = FALSE]
    PROVE  promoted \in Row /\ RowInv(promoted) /\ ~promoted.pending_release
  BY DEF Row, RowInv, ReleaseStatuses, Absent

(* activate demotes the previous active row before it promotes the target, *)
(* so one stays active.  The queue entry of the target is cleared with it. *)
LEMMA ActivateTable ==
    ASSUME NEW rs, NEW d \in Deployments, CanRelease(rs[d], "active"),
           rs \in [Deployments -> Row],
           TableInv([rs EXCEPT ![d].pending_release = FALSE])
    PROVE  TableInv([Activate(rs, d) EXCEPT ![d].pending_release = FALSE])
  <1> DEFINE cleared == [rs EXCEPT ![d].pending_release = FALSE]
             result == [Activate(rs, d) EXCEPT ![d].pending_release = FALSE]
  <1>1. /\ rs[d].release_status \in {"draft", "approved"}
        /\ rs[d].build_status = "ready"
        /\ rs[d].serve_status = "ready"
    BY DEF CanRelease, CanTransitionRelease, ReleaseReadiness
  <1>2. \A e \in Deployments : rs[e] \in Row /\ RowInv(cleared[e])
    BY DEF TableInv
  <1>3. \A e \in Deployments \ {d} : cleared[e] = rs[e]
    OBVIOUS
  <1>4. \A e \in Deployments \ {d} : rs[e].release_status = "active" => Previous(rs, d) = {e}
    <2> SUFFICES ASSUME NEW e \in Deployments \ {d}, rs[e].release_status = "active"
                 PROVE  Previous(rs, d) = {e}
      OBVIOUS
    <2>1. {f \in Deployments \ {d} : rs[f].release_status = "active"} = {e}
      BY <1>3 DEF TableInv
    <2> QED BY <2>1 DEF Previous
  <1>5. \A e \in Deployments \ {d} :
            \/ result[e] = rs[e] /\ rs[e].release_status # "active"
            \/ /\ result[e] = [rs[e] EXCEPT !.release_status = "approved"]
               /\ rs[e].release_status = "active"
    <2> SUFFICES ASSUME NEW e \in Deployments \ {d}
                 PROVE  \/ result[e] = rs[e] /\ rs[e].release_status # "active"
                        \/ /\ result[e] = [rs[e] EXCEPT !.release_status = "approved"]
                           /\ rs[e].release_status = "active"
      OBVIOUS
    <2>1. e \in Previous(rs, d) <=> rs[e].release_status = "active"
      <3>1. CASE rs[e].release_status = "active"
        BY <3>1, <1>4
      <3>2. CASE rs[e].release_status # "active"
        <4>1. \A f \in Previous(rs, d) : rs[f].release_status = "active"
          BY DEF Previous
        <4> QED BY <3>2, <4>1
      <3> QED BY <3>1, <3>2
    <2> QED BY <2>1 DEF Activate
  <1>6. result[d] = [rs[d] EXCEPT !.release_status = "active", !.pending_release = FALSE]
    BY <1>2 DEF Activate, Row
  <1>7. /\ result[d] \in Row /\ RowInv(result[d]) /\ ~result[d].pending_release
    <2>1. cleared[d] = [rs[d] EXCEPT !.pending_release = FALSE]
      OBVIOUS
    <2> QED BY <1>1, <1>2, <1>6, <2>1, PromotedRow
  <1>8. ASSUME NEW e \in Deployments \ {d}
        PROVE  /\ result[e] \in Row /\ RowInv(result[e])
               /\ result[e].release_status # "active"
               /\ result[e].pending_release = cleared[e].pending_release
    <2>1. rs[e] \in Row /\ RowInv(rs[e]) /\ cleared[e] = rs[e]
      BY <1>2, <1>3
    <2>2. CASE rs[e].release_status = "active"
      <3>1. result[e] = [rs[e] EXCEPT !.release_status = "approved"]
        BY <1>5, <2>2
      <3> HIDE DEF result, cleared
      <3> QED BY <2>1, <2>2, <3>1, DemotedRow
    <2>3. CASE rs[e].release_status # "active"
      <3>1. result[e] = rs[e]
        BY <1>5, <2>3
      <3> HIDE DEF result, cleared
      <3> QED BY <2>1, <2>3, <3>1
    <2> QED BY <2>2, <2>3
  <1>9. result = [e \in Deployments |-> result[e]]
    BY DEF Activate
  <1>10. \A e, f \in Deployments : cleared[e].pending_release /\ cleared[f].pending_release => e = f
    BY DEF TableInv
  <1> HIDE DEF result, cleared
  <1>11. result \in [Deployments -> Row]
    BY <1>7, <1>8, <1>9
  <1>12. \A e \in Deployments : RowInv(result[e])
    BY <1>7, <1>8
  <1>13. \A e \in Deployments : result[e].release_status = "active" => e = d
    BY <1>8
  <1>14. \A e \in Deployments : result[e].pending_release => e # d /\ cleared[e].pending_release
    BY <1>7, <1>8
  <1>15. TableInv(result)
    BY <1>10, <1>11, <1>12, <1>13, <1>14 DEF TableInv
  <1> QED BY <1>15 DEF result

(* Clearing the queue entry of a target that is not queued changes nothing.*)
LEMMA UnqueuedActivate ==
    ASSUME NEW rs \in [Deployments -> Row], NEW d \in Deployments, ~rs[d].pending_release
    PROVE  /\ [rs EXCEPT ![d].pending_release = FALSE] = rs
           /\ [Activate(rs, d) EXCEPT ![d].pending_release = FALSE] = Activate(rs, d)
  <1>1. rs[d] \in Row /\ rs[d].pending_release = FALSE
    BY DEF Row
  <1>2. [rs EXCEPT ![d].pending_release = FALSE] = rs
    BY <1>1 DEF Row
  <1> DEFINE result == Activate(rs, d)
  <1>3. /\ result[d] = [rs[d] EXCEPT !.release_status = "active"]
        /\ result = [e \in Deployments |-> result[e]]
    BY DEF Activate
  <1>4. result[d] = [result[d] EXCEPT !.pending_release = FALSE]
    BY <1>1, <1>3 DEF Row
  <1> HIDE DEF result
  <1>5. [result EXCEPT ![d].pending_release = FALSE] = result
    BY <1>3, <1>4
  <1> QED BY <1>2, <1>5 DEF result

(* One row is changed, and neither activated nor queued by the change.     *)
LEMMA UpdateRow ==
    ASSUME NEW rs, TableInv(rs), NEW d \in Deployments, NEW row \in Row, RowInv(row),
           row.release_status = "active" => rs[d].release_status = "active",
           row.pending_release => rs[d].pending_release
    PROVE  TableInv([rs EXCEPT ![d] = row])
  <1> DEFINE result == [rs EXCEPT ![d] = row]
  <1>1. rs \in [Deployments -> Row]
    BY DEF TableInv
  <1>2. result \in [Deployments -> Row] /\ result[d] = row
    BY <1>1
  <1>3. \A e \in Deployments \ {d} : result[e] = rs[e]
    BY <1>1
  <1>4. \A e \in Deployments : result[e].release_status = "active" => rs[e].release_status = "active"
    BY <1>2, <1>3
  <1>5. \A e \in Deployments : result[e].pending_release => rs[e].pending_release
    BY <1>2, <1>3
  <1>6. \A e \in Deployments : RowInv(result[e])
    BY <1>2, <1>3 DEF TableInv
  <1> QED BY <1>2, <1>4, <1>5, <1>6 DEF TableInv

(* request_release on a built target: whatever it does, activate, queue    *)
(* with a new placement or queue in place, the table keeps its guarantees. *)
LEMMA RequestReleaseTable ==
    ASSUME NEW rs, TableInv(rs), NEW d \in Deployments, rs[d].build_status = "ready",
           RequestRelease(rs, d)
    PROVE  TableInv(rows') /\ Settled(rows')
  <1>1. rs \in [Deployments -> Row] /\ rs[d] \in Row /\ RowInv(rs[d])
    BY DEF TableInv
  <1>2. \A e \in Deployments : ~rs[e].pending_release
    BY DEF RequestRelease, ReleaseIsPending
  <1>3. CASE rs[d].serve_node # NoNode /\ rs[d].serve_status = "ready"
    <2>1. CanRelease(rs[d], "active") /\ rows' = Reconcile(Activate(rs, d))
      BY <1>3 DEF RequestRelease
    <2>2. TableInv(Activate(rs, d))
      <3>1. /\ [rs EXCEPT ![d].pending_release = FALSE] = rs
            /\ [Activate(rs, d) EXCEPT ![d].pending_release = FALSE] = Activate(rs, d)
        BY <1>1, <1>2, UnqueuedActivate
      <3>2. TableInv([rs EXCEPT ![d].pending_release = FALSE])
        BY <3>1, Zenon
      <3>3. TableInv([Activate(rs, d) EXCEPT ![d].pending_release = FALSE])
        BY <1>1, <2>1, <3>2, ActivateTable
      <3> QED BY <3>1, <3>3, Zenon
    <2> QED BY <2>1, <2>2, ReconcileTable, ReconcileSettles
  <1>4. CASE ~(rs[d].serve_node # NoNode /\ rs[d].serve_status = "ready")
    <2> DEFINE queued(row) ==
                 /\ row \in Row /\ RowInv(row)
                 /\ row.release_status = rs[d].release_status
                 /\ row.pending_release
    <2>1. ASSUME NEW row, queued(row)
          PROVE  TableInv([rs EXCEPT ![d] = row])
      <3> DEFINE result == [rs EXCEPT ![d] = row]
      <3>1. result \in [Deployments -> Row] /\ result[d] = row
        BY <1>1, <2>1
      <3>2. \A e \in Deployments \ {d} : result[e] = rs[e]
        BY <1>1
      <3>3. \A e \in Deployments : result[e].release_status = rs[e].release_status
        BY <2>1, <3>1, <3>2
      <3>4. \A e \in Deployments : result[e].pending_release => e = d
        BY <1>2, <3>2
      <3>5. \A e \in Deployments : RowInv(result[e])
        BY <2>1, <3>1, <3>2 DEF TableInv
      <3> QED BY <3>1, <3>3, <3>4, <3>5 DEF TableInv
    <2>2. CASE rs[d].serve_node = NoNode \/ rs[d].serve_status = "retired"
      <3>1. PICK n \in ServeNodes :
              rows' = Reconcile([rs EXCEPT ![d].serve_node = n,
                                           ![d].serve_status = "pending",
                                           ![d].pending_release = TRUE])
        BY <1>4, <2>2 DEF RequestRelease
      <3> DEFINE row == [rs[d] EXCEPT !.serve_node = n,
                                      !.serve_status = "pending",
                                      !.pending_release = TRUE]
      <3>2. queued(row)
        BY <1>1, NoNodeAssumption DEF Row, RowInv, ServeStatuses, Absent
      <3>3. rows' = Reconcile([rs EXCEPT ![d] = row])
        BY <1>1, <3>1
      <3>4. TableInv([rs EXCEPT ![d] = row])
        BY <2>1, <3>2
      <3> QED BY <3>3, <3>4, ReconcileTable, ReconcileSettles
    <2>3. CASE ~(rs[d].serve_node = NoNode \/ rs[d].serve_status = "retired")
      <3> DEFINE row == [rs[d] EXCEPT !.pending_release = TRUE]
      <3>1. rows' = Reconcile([rs EXCEPT ![d] = row])
        BY <1>1, <1>4, <2>3 DEF RequestRelease
      <3>2. queued(row)
        BY <1>1, <1>4, <2>3 DEF Row, RowInv, ServeStatuses, Absent
      <3>3. TableInv([rs EXCEPT ![d] = row])
        BY <2>1, <3>2
      <3> QED BY <3>1, <3>3, ReconcileTable, ReconcileSettles
    <2> QED BY <2>2, <2>3
  <1> QED BY <1>3, <1>4

(* Reconciliation and releases never touch a build.                        *)
LEMMA ReconcileBuild ==
    ASSUME NEW rs \in [Deployments -> Row], NEW e \in Deployments
    PROVE  Reconcile(rs)[e].build_status = rs[e].build_status
  BY ReconcileRow, RetiredRow

(* Activation changes no build status.                                     *)
LEMMA ActivateBuild ==
    ASSUME NEW rs \in [Deployments -> Row], NEW d \in Deployments, NEW e \in Deployments
    PROVE  Activate(rs, d)[e].build_status = rs[e].build_status
  <1>1. rs[e] \in Row
    OBVIOUS
  <1>2. \/ Activate(rs, d)[e] = rs[e]
        \/ Activate(rs, d)[e] = [rs[e] EXCEPT !.release_status = "active"]
        \/ Activate(rs, d)[e] = [rs[e] EXCEPT !.release_status = "approved"]
    BY DEF Activate
  <1> QED BY <1>1, <1>2 DEF Row

(* Nor does the request of a release, queued or not.                       *)
LEMMA RequestReleaseBuild ==
    ASSUME NEW rs, TableInv(rs), NEW d \in Deployments, rs[d].build_status = "ready",
           RequestRelease(rs, d), NEW e \in Deployments
    PROVE  rows'[e].build_status = rs[e].build_status
  <1>1. rs \in [Deployments -> Row]
    BY DEF TableInv
  <1>2. CASE rows' = Reconcile(Activate(rs, d)) /\ CanRelease(rs[d], "active")
    <2>1. Activate(rs, d) \in [Deployments -> Row]
      <3>1. \A f \in Deployments : Activate(rs, d)[f] \in Row
        BY <1>1 DEF Activate, Row, ReleaseStatuses
      <3>2. Activate(rs, d) = [f \in Deployments |-> Activate(rs, d)[f]]
        BY DEF Activate
      <3> QED BY <3>1, <3>2
    <2> QED BY <1>1, <1>2, <2>1, ReconcileBuild, ActivateBuild
  <1>3. CASE \E n \in ServeNodes :
                rows' = Reconcile([rs EXCEPT ![d].serve_node = n,
                                             ![d].serve_status = "pending",
                                             ![d].pending_release = TRUE])
    <2>1. PICK n \in ServeNodes :
                rows' = Reconcile([rs EXCEPT ![d].serve_node = n,
                                             ![d].serve_status = "pending",
                                             ![d].pending_release = TRUE])
      BY <1>3
    <2> DEFINE row == [rs[d] EXCEPT !.serve_node = n, !.serve_status = "pending",
                                    !.pending_release = TRUE]
               placed == [rs EXCEPT ![d] = row]
    <2>2. rows' = Reconcile(placed)
      BY <1>1, <2>1
    <2>3. row \in Row /\ row.build_status = rs[d].build_status
      BY <1>1 DEF Row, ServeStatuses
    <2>4. placed \in [Deployments -> Row] /\ placed[e].build_status = rs[e].build_status
      BY <1>1, <2>3
    <2> QED BY <2>2, <2>4, ReconcileBuild
  <1>4. CASE rows' = Reconcile([rs EXCEPT ![d].pending_release = TRUE])
    <2> DEFINE row == [rs[d] EXCEPT !.pending_release = TRUE]
               placed == [rs EXCEPT ![d] = row]
    <2>1. rows' = Reconcile(placed)
      BY <1>1, <1>4
    <2>2. row \in Row /\ row.build_status = rs[d].build_status
      BY <1>1 DEF Row
    <2>3. placed \in [Deployments -> Row] /\ placed[e].build_status = rs[e].build_status
      BY <1>1, <2>2
    <2> QED BY <2>1, <2>3, ReconcileBuild
  <1> QED BY <1>2, <1>3, <1>4 DEF RequestRelease

-------------------------------------------------------------------------------
(* The steps.                                                              *)

(* What a handler that only changes the table has to establish.            *)
LEMMA TableStep ==
    ASSUME IInv, TableInv(rows'), Settled(rows'),
           UNCHANGED <<review_mode, stage_snapshot, activations>>,
           \A d \in Deployments : rows[d].build_status = "ready" => rows'[d].build_status = "ready",
           \A d \in Deployments :
              stage_snapshot[d] # "none" =>
                  rows'[d].build_status \in {"claimed", "queued", "building", "canceled"}
    PROVE  IInv'
  <1>1. TypeOK'
    BY DEF IInv, TypeOK, TableInv
  <1>2. HandlersInv'
    <2>1. \A r \in Requests : activations[r] # Idle => activations[r].deployment \in Deployments
      BY DEF IInv, TypeOK
    <2> QED BY <2>1 DEF IInv, HandlersInv
  <1> QED BY <1>1, <1>2 DEF IInv, TableInv, Settled

(* The same for one that changes no build.                                 *)
LEMMA ReleaseStep ==
    ASSUME IInv, TableInv(rows'), Settled(rows'),
           UNCHANGED <<review_mode, stage_snapshot, activations>>,
           \A d \in Deployments : rows'[d].build_status = rows[d].build_status
    PROVE  IInv'
  <1>1. \A d \in Deployments :
           stage_snapshot[d] # "none" =>
               rows'[d].build_status \in {"claimed", "queued", "building", "canceled"}
    BY DEF IInv, HandlersInv
  <1> QED BY <1>1, TableStep

(* One row changed without activating or queueing it, then nothing else.   *)
LEMMA RowStep ==
    ASSUME IInv, NEW d \in Deployments, NEW row \in Row, RowInv(row),
           rows' = [rows EXCEPT ![d] = row],
           UNCHANGED <<review_mode, stage_snapshot, activations>>,
           row.build_status = rows[d].build_status,
           row.release_status = "active" => rows[d].release_status = "active",
           row.pending_release => rows[d].pending_release,
           row.build_status \in {"failed", "canceled"} => row.serve_status = "retired"
    PROVE  IInv'
  <1>1. TableInv(rows) /\ rows \in [Deployments -> Row]
    BY DEF IInv, TableInv
  <1>2. TableInv(rows')
    BY <1>1, UpdateRow
  <1>3. Settled(rows')
    BY <1>1 DEF IInv, Settled
  <1>4. \A e \in Deployments : rows'[e].build_status = rows[e].build_status
    BY <1>1
  <1> QED BY <1>2, <1>3, <1>4, ReleaseStep

(* A table with the same builds, reconciled.                               *)
LEMMA ReconciledTableStep ==
    ASSUME IInv, NEW rs, TableInv(rs), rows' = Reconcile(rs),
           UNCHANGED <<review_mode, stage_snapshot, activations>>,
           \A d \in Deployments : rs[d].build_status = rows[d].build_status
    PROVE  IInv'
  <1>1. rs \in [Deployments -> Row]
    BY DEF TableInv
  <1> QED BY <1>1, ReconcileBuild, ReconcileTable, ReconcileSettles, ReleaseStep

(* One row changed in the same way, then the environment reconciled.       *)
LEMMA ReconciledRowStep ==
    ASSUME IInv, NEW d \in Deployments, NEW row \in Row, RowInv(row),
           rows' = Reconcile([rows EXCEPT ![d] = row]),
           UNCHANGED <<review_mode, stage_snapshot, activations>>,
           rows[d].build_status = "ready" => row.build_status = "ready",
           stage_snapshot[d] # "none" =>
               row.build_status \in {"claimed", "queued", "building", "canceled"},
           row.release_status = "active" => rows[d].release_status = "active",
           row.pending_release => rows[d].pending_release
    PROVE  IInv'
  <1> DEFINE result == [rows EXCEPT ![d] = row]
  <1>1. TableInv(rows) /\ rows \in [Deployments -> Row]
    BY DEF IInv, TableInv
  <1>2. TableInv(result)
    BY <1>1, UpdateRow
  <1>3. TableInv(rows') /\ Settled(rows')
    BY <1>2, ReconcileTable, ReconcileSettles
  <1>4. result \in [Deployments -> Row]
    BY <1>1
  <1>5. \A e \in Deployments : rows'[e].build_status = result[e].build_status
    BY <1>4, ReconcileBuild
  <1>6. \A e \in Deployments : rows[e].build_status = "ready" => rows'[e].build_status = "ready"
    BY <1>1, <1>5
  <1>7. \A e \in Deployments :
           stage_snapshot[e] # "none" =>
               rows'[e].build_status \in {"claimed", "queued", "building", "canceled"}
    BY <1>1, <1>5 DEF IInv, HandlersInv
  <1> QED BY <1>3, <1>6, <1>7, TableStep

(* The empty table satisfies the invariant.                                *)
LEMMA InitInv == Init => IInv
  <1> SUFFICES ASSUME Init PROVE IInv
    OBVIOUS
  <1>1. Absent \in Row /\ RowInv(Absent)
    BY ReviewAssumption DEF Absent, Row, RowInv, BuildStatuses, ServeStatuses, ReleaseStatuses
  <1>2. TypeOK
    BY <1>1 DEF Init, TypeOK
  <1>3. TableInv(rows) /\ Settled(rows)
    BY <1>1 DEF Init, TableInv, Settled, Absent
  <1>4. HandlersInv
    BY DEF Init, HandlersInv
  <1> QED BY <1>2, <1>3, <1>4 DEF IInv

(* A row that a step reads.                                                *)
LEMMA RowFacts ==
    ASSUME IInv, NEW d \in Deployments
    PROVE  /\ rows[d] \in Row /\ RowInv(rows[d])
           /\ rows \in [Deployments -> Row] /\ TableInv(rows)
           /\ rows[d].build_status \in {"failed", "canceled"} => rows[d].serve_status = "retired"
           /\ stage_snapshot[d] # "none" =>
                  rows[d].build_status \in {"claimed", "queued", "building", "canceled"}
  BY DEF IInv, TableInv, Settled, HandlersInv

(* POST deployments: the new row is the newest and is assigned.            *)
LEMMA CreateDeploymentInv ==
    ASSUME IInv, NEW d \in Deployments, NEW n \in ServeNodes, CreateDeployment(d, n)
    PROVE  IInv'
  <1> DEFINE row == [rows[d] EXCEPT !.build_status = "pending", !.serve_node = n]
  <1>1. rows[d] = Absent
    <2>1. d \notin Existing(rows)
      BY DeploymentsAssumption DEF CreateDeployment
    <2>2. rows[d].build_status = "absent"
      BY <2>1 DEF Existing
    <2> QED BY <2>2, RowFacts DEF RowInv
  <1>2. row \in Row /\ RowInv(row) /\ row.build_status = "pending"
    <2>1. /\ row.build_status = "pending" /\ row.serve_status = "pending"
          /\ row.release_status = "draft" /\ row.pending_release = FALSE /\ row.serve_node = n
      BY <1>1 DEF Absent
    <2>2. row \in Row
      BY RowFacts DEF Row, BuildStatuses
    <2> HIDE DEF row
    <2> QED BY <2>1, <2>2, NoNodeAssumption DEF RowInv
  <1>3. row.release_status = "draft" /\ row.pending_release = FALSE
    BY <1>1, RowFacts DEF Absent, Row
  <1>4. rows' = [rows EXCEPT ![d] = row]
    BY RowFacts DEF CreateDeployment
  <1>5. stage_snapshot[d] = "none"
    BY <1>1, RowFacts DEF Absent
  <1> HIDE DEF row
  <1>6. TableInv(rows')
    BY <1>2, <1>3, <1>4, RowFacts, UpdateRow
  <1>7. Settled(rows')
    BY <1>2, <1>4, RowFacts DEF IInv, Settled
  <1>8. \A e \in Deployments : rows[e].build_status = "ready" => rows'[e].build_status = "ready"
    BY <1>1, <1>4, RowFacts DEF Absent
  <1>9. \A e \in Deployments :
           stage_snapshot[e] # "none" =>
               rows'[e].build_status \in {"claimed", "queued", "building", "canceled"}
    BY <1>4, <1>5, RowFacts DEF IInv, HandlersInv
  <1> QED BY <1>6, <1>7, <1>8, <1>9, TableStep DEF CreateDeployment

(* The build of one row in progress moves on, to a status that is not over.*)
LEMMA BuildStep ==
    ASSUME IInv, NEW d \in Deployments, NEW to \in {"claimed", "queued", "building"},
           rows[d].build_status \in {"pending", "claimed", "queued", "building", "canceled"},
           rows' = [rows EXCEPT ![d].build_status = to],
           review_mode' = review_mode, activations' = activations,
           stage_snapshot' \in [Deployments -> {"none", "claimed", "queued", "building"}],
           \A e \in Deployments : stage_snapshot'[e] # "none" => stage_snapshot[e] # "none"
    PROVE  IInv'
  <1> DEFINE row == [rows[d] EXCEPT !.build_status = to]
  <1>1. row \in Row /\ RowInv(row) /\ row.build_status = to
    BY RowFacts DEF Row, RowInv, BuildStatuses, Absent
  <1>2. /\ row.release_status = "active" => rows[d].release_status = "active"
        /\ row.pending_release => rows[d].pending_release
    BY RowFacts DEF Row
  <1>3. rows' = [rows EXCEPT ![d] = row]
    BY RowFacts
  <1> HIDE DEF row
  <1>4. TableInv(rows')
    <2>1. TableInv(rows)
      BY RowFacts
    <2>2. TableInv([rows EXCEPT ![d] = row])
      BY <1>1, <1>2, <2>1, UpdateRow
    <2> QED BY <1>3, <2>2
  <1>5. Settled(rows')
    BY <1>1, <1>3, RowFacts DEF IInv, Settled
  <1>6. TypeOK'
    BY <1>4 DEF IInv, TypeOK, TableInv
  <1>7. \A e \in Deployments : rows[e].build_status = "ready" => rows'[e].build_status = "ready"
    BY <1>3, RowFacts
  <1>8. \A r \in Requests : activations[r] # Idle => activations[r].deployment \in Deployments
    BY DEF IInv, TypeOK
  <1>9. \A e \in Deployments :
           stage_snapshot'[e] # "none" =>
               rows'[e].build_status \in {"claimed", "queued", "building", "canceled"}
    BY <1>1, <1>3, RowFacts DEF IInv, HandlersInv
  <1>10. HandlersInv'
    BY <1>7, <1>8, <1>9 DEF IInv, HandlersInv
  <1> QED BY <1>4, <1>5, <1>6, <1>10 DEF IInv, TableInv, Settled

(* The claim: a status of the same phase of the build.                     *)
LEMMA ClaimBuildInv ==
    ASSUME IInv, NEW d \in Deployments, ClaimBuild(d)
    PROVE  IInv'
  BY BuildStep DEF ClaimBuild, IInv, TypeOK

(* The stage handler saw a build that is not over.                         *)
LEMMA StageReadInv ==
    ASSUME IInv, NEW d \in Deployments, StageRead(d)
    PROVE  IInv'
  <1>1. TypeOK'
    BY DEF StageRead, IInv, TypeOK
  <1>2. HandlersInv'
    BY DEF StageRead, IInv, HandlersInv, TypeOK
  <1> QED BY <1>1, <1>2 DEF StageRead, IInv, TableInv, Settled

(* A late report revives at most a canceled build, whose row stays a draft.*)
LEMMA StageWriteInv ==
    ASSUME IInv, NEW d \in Deployments, NEW to \in {"queued", "building"}, StageWrite(d, to)
    PROVE  IInv'
  <1>1. stage_snapshot' \in [Deployments -> {"none", "claimed", "queued", "building"}]
    BY DEF StageWrite, IInv, TypeOK
  <1>2. \A e \in Deployments : stage_snapshot'[e] # "none" => stage_snapshot[e] # "none"
    BY DEF StageWrite, IInv, TypeOK
  <1>3. CASE rows' = [rows EXCEPT ![d].build_status = to]
    BY <1>1, <1>2, <1>3, RowFacts, BuildStep DEF StageWrite
  <1>4. CASE rows' = rows
    <2>1. TypeOK'
      BY <1>1, <1>4 DEF StageWrite, IInv, TypeOK
    <2>2. HandlersInv'
      BY <1>2, <1>4 DEF StageWrite, IInv, HandlersInv
    <2> QED BY <1>4, <2>1, <2>2 DEF IInv, TableInv, Settled
  <1> QED BY <1>3, <1>4 DEF StageWrite

(* The artifact row appears.                                               *)
LEMMA UploadStaticSiteInv ==
    ASSUME IInv, NEW d \in Deployments, UploadStaticSite(d)
    PROVE  IInv'
  <1> DEFINE row == [rows[d] EXCEPT !.artifact = TRUE]
  <1>1. row \in Row /\ RowInv(row)
    <2>1. row \in Row
      BY RowFacts DEF Row
    <2>2. /\ row.build_status = "building" /\ row.release_status = rows[d].release_status
          /\ row.pending_release = rows[d].pending_release /\ row.serve_status = rows[d].serve_status
          /\ row.serve_node = rows[d].serve_node /\ row.pending_reviews = rows[d].pending_reviews
      BY RowFacts DEF UploadStaticSite, Row
    <2>3. rows[d].build_status = "building" /\ RowInv(rows[d])
      BY RowFacts DEF UploadStaticSite
    <2> HIDE DEF row
    <2> QED BY <2>1, <2>2, <2>3 DEF RowInv
  <1>2. /\ row.build_status = rows[d].build_status /\ row.release_status = rows[d].release_status
        /\ row.pending_release = rows[d].pending_release /\ row.serve_status = rows[d].serve_status
    BY RowFacts DEF Row
  <1>3. rows' = [rows EXCEPT ![d] = row]
    BY RowFacts DEF UploadStaticSite
  <1> HIDE DEF row
  <1> QED BY <1>1, <1>2, <1>3, RowFacts, RowStep DEF UploadStaticSite

(* finalize_ready: built, perhaps sent to review, then reconciled.         *)
LEMMA FinalizeReadyInv ==
    ASSUME IInv, NEW d \in Deployments, FinalizeReady(d)
    PROVE  IInv'
  <1> DEFINE built == [rows EXCEPT ![d].build_status = "ready"]
  <1>1. /\ rows[d].build_status \in {"building", "ready"}
        /\ stage_snapshot[d] = "none"
        /\ UNCHANGED <<review_mode, stage_snapshot, activations>>
    BY DEF FinalizeReady, BuildNodeFree
  <1>2. CASE rows' = Reconcile(built)
    <2> DEFINE row == [rows[d] EXCEPT !.build_status = "ready"]
    <2>1. row \in Row /\ RowInv(row) /\ row.build_status = "ready"
      BY <1>1, RowFacts DEF Row, RowInv, BuildStatuses, Absent
    <2>2. /\ row.release_status = "active" => rows[d].release_status = "active"
          /\ row.pending_release => rows[d].pending_release
      BY RowFacts DEF Row
    <2>3. built = [rows EXCEPT ![d] = row]
      BY RowFacts
    <2> HIDE DEF row, built
    <2>4. rows' = Reconcile([rows EXCEPT ![d] = row])
      BY <1>2, <2>3
    <2> QED BY <1>1, <2>1, <2>2, <2>4, ReconciledRowStep
  <1>3. CASE CanRequestReview(built[d]) /\ rows' = Reconcile(RequestReview(built, d))
    <2> DEFINE row == [rows[d] EXCEPT !.build_status = "ready", !.release_status = "pending_review",
                                      !.pending_reviews = @ + 1]
    <2>1. rows[d].pending_reviews \in 0..MaxReviews /\ rows[d].pending_reviews < MaxReviews
      BY <1>3, RowFacts DEF CanRequestReview, Row
    <2>2. row \in Row /\ RowInv(row) /\ row.build_status = "ready"
      <3>1. rows[d].pending_reviews + 1 \in 0..MaxReviews /\ rows[d].pending_reviews + 1 > 0
        BY <2>1, ReviewAssumption
      <3> DEFINE count == rows[d].pending_reviews + 1
      <3>2. row = [rows[d] EXCEPT !.build_status = "ready", !.release_status = "pending_review",
                                  !.pending_reviews = count]
        BY RowFacts
      <3> HIDE DEF count, row
      <3>3. row \in Row /\ row.build_status = "ready" /\ row.pending_reviews = count
        <4>1. rows[d] \in Row /\ count \in 0..MaxReviews
          BY <3>1, RowFacts DEF count
        <4>2. row \in Row
          BY <3>2, <4>1 DEF Row, BuildStatuses, ReleaseStatuses
        <4>3. row.build_status = "ready" /\ row.pending_reviews = count
          BY <3>2, <4>1 DEF Row
        <4> QED BY <4>2, <4>3
      <3>4. /\ row.release_status = "pending_review" /\ row.serve_node = rows[d].serve_node
            /\ row.serve_status = rows[d].serve_status /\ row.pending_release = rows[d].pending_release
        BY <3>2, RowFacts DEF Row
      <3>5. rows[d].build_status # "absent" /\ RowInv(rows[d]) /\ count > 0
        BY <1>1, <3>1, RowFacts DEF count
      <3>6. RowInv(row)
        BY <3>3, <3>4, <3>5 DEF RowInv
      <3> QED BY <3>3, <3>6
    <2>3. /\ row.release_status # "active"
          /\ row.pending_release => rows[d].pending_release
      BY RowFacts DEF Row
    <2>4. RequestReview(built, d) = [rows EXCEPT ![d] = row]
      BY RowFacts DEF RequestReview
    <2> HIDE DEF row, built
    <2>5. rows' = Reconcile([rows EXCEPT ![d] = row])
      BY <1>3, <2>4
    <2> QED BY <1>1, <2>2, <2>3, <2>5, ReconciledRowStep
  <1> QED BY <1>2, <1>3 DEF FinalizeReady

(* transition_unsuccessful_build: the reconciliation takes the node away.  *)
LEMMA UnsuccessfulBuildInv ==
    ASSUME IInv, NEW d \in Deployments, NEW to \in {"failed", "canceled"},
           to = "canceled" \/ stage_snapshot[d] = "none", UnsuccessfulBuild(d, to)
    PROVE  IInv'
  <1> DEFINE row == [rows[d] EXCEPT !.build_status = to]
  <1>1. rows[d].build_status \in {"pending", "claimed", "queued", "building"}
    BY DEF UnsuccessfulBuild, CanTransitionBuild
  <1>2. row \in Row /\ RowInv(row) /\ row.build_status = to
    BY <1>1, RowFacts DEF Row, RowInv, BuildStatuses, Absent
  <1>3. /\ row.release_status = "active" => rows[d].release_status = "active"
        /\ row.pending_release => rows[d].pending_release
    BY RowFacts DEF Row
  <1>4. rows' = Reconcile([rows EXCEPT ![d] = row])
    BY RowFacts DEF UnsuccessfulBuild
  <1> HIDE DEF row
  <1>5. UNCHANGED <<review_mode, stage_snapshot, activations>>
    BY DEF UnsuccessfulBuild
  <1> QED BY <1>1, <1>2, <1>3, <1>4, <1>5, ReconciledRowStep

(* The Ready report: complete_pending_release, automatic activation, or    *)
(* nothing but a reconciliation.                                           *)
LEMMA ServeReadyInv ==
    ASSUME IInv, NEW d \in Deployments,
           rows[d].build_status = "ready", rows[d].serve_status = "syncing",
           CompleteServeReady([rows EXCEPT ![d].serve_status = "ready",
                                           ![d].was_serve_ready = TRUE], d),
           UNCHANGED <<review_mode, stage_snapshot, activations>>
    PROVE  IInv'
  <1> DEFINE row == [rows[d] EXCEPT !.serve_status = "ready", !.was_serve_ready = TRUE]
             served == [rows EXCEPT ![d] = row]
  <1>1. [rows EXCEPT ![d].serve_status = "ready", ![d].was_serve_ready = TRUE] = served
    BY RowFacts
  <1>2. /\ row \in Row
        /\ row.build_status = "ready" /\ row.serve_status = "ready"
        /\ row.release_status = rows[d].release_status
        /\ row.pending_release = rows[d].pending_release
    BY RowFacts DEF Row, ServeStatuses
  <1> DEFINE idle == [row EXCEPT !.pending_release = FALSE]
             unqueued == [rows EXCEPT ![d] = idle]
  <1>3. idle \in Row /\ RowInv(idle) /\ idle.pending_release = FALSE
        /\ idle.release_status = rows[d].release_status
    <2>1. /\ idle \in Row /\ idle.pending_release = FALSE
          /\ idle.build_status = "ready" /\ idle.serve_status = "ready"
          /\ idle.serve_node = rows[d].serve_node /\ idle.release_status = rows[d].release_status
          /\ idle.pending_reviews = rows[d].pending_reviews
      BY RowFacts DEF Row, ServeStatuses
    <2>2. RowInv(rows[d]) /\ rows[d].build_status # "absent" /\ rows[d].serve_status # "retired"
      BY RowFacts
    <2> HIDE DEF idle
    <2> QED BY <2>1, <2>2 DEF RowInv
  <1>4. TableInv(unqueued)
    <2> HIDE DEF idle
    <2> QED BY <1>3, RowFacts, UpdateRow
  <1>5. [served EXCEPT ![d].pending_release = FALSE] = unqueued
    BY RowFacts
  <1>6. served \in [Deployments -> Row]
    BY <1>2, RowFacts
  <1>7. \A e \in Deployments : served[e].build_status = rows[e].build_status
    BY <1>2, RowFacts
  <1>8. CompleteServeReady(served, d)
    BY <1>1
  <1>9. TableInv([served EXCEPT ![d].pending_release = FALSE])
    BY <1>4, <1>5
  <1> HIDE DEF served, unqueued
  <1> DEFINE promoted == [Activate(served, d) EXCEPT ![d].pending_release = FALSE]
  <1>10. CanRelease(served[d], "active") => TableInv(promoted)
    BY <1>6, <1>9, ActivateTable
  <1>11. \A e \in Deployments : promoted[e].build_status = rows[e].build_status
    <2> SUFFICES ASSUME NEW e \in Deployments
                 PROVE  promoted[e].build_status = rows[e].build_status
      OBVIOUS
    <2>1. Activate(served, d)[e].build_status = rows[e].build_status
      BY <1>6, <1>7, ActivateBuild
    <2>2. Activate(served, d) = [f \in Deployments |-> Activate(served, d)[f]]
      BY DEF Activate
    <2> DEFINE act == Activate(served, d)
    <2>3. act[e].build_status = rows[e].build_status /\ act = [f \in Deployments |-> act[f]]
      BY <2>1, <2>2
    <2>4. act[d] \in Row
      <3>1. served[d] \in Row
        BY <1>6
      <3>2. act[d] = [served[d] EXCEPT !.release_status = "active"]
        BY DEF Activate
      <3> QED BY <3>1, <3>2 DEF Row, ReleaseStatuses
    <2> HIDE DEF act
    <2>5. [act EXCEPT ![d].pending_release = FALSE][e].build_status = act[e].build_status
      BY <2>3, <2>4 DEF Row
    <2> QED BY <2>3, <2>5 DEF act
  <1> HIDE DEF promoted
  <1>12. CASE row.pending_release
    <2>1. CanRelease(served[d], "active") /\ rows' = Reconcile(promoted)
      BY <1>2, <1>8, <1>12, RowFacts DEF CompleteServeReady, served, promoted
    <2>2. TableInv(promoted)
      BY <1>10, <2>1
    <2> QED BY <2>1, <2>2, <1>11, ReconciledTableStep
  <1>13. CASE ~row.pending_release
    <2>1. served[d] = row
      BY RowFacts DEF served
    <2>2. TableInv(served) /\ promoted = Activate(served, d)
      <3>1. ~served[d].pending_release
        BY <1>13, <2>1
      <3>2. /\ [served EXCEPT ![d].pending_release = FALSE] = served
            /\ [Activate(served, d) EXCEPT ![d].pending_release = FALSE] = Activate(served, d)
        BY <1>6, <3>1, UnqueuedActivate
      <3>3. TableInv(served)
        BY <1>9, <3>2, Zenon
      <3>4. promoted = Activate(served, d)
        BY <3>2 DEF promoted
      <3> QED BY <3>3, <3>4
    <2>3. \/ CanRelease(served[d], "active") /\ rows' = Reconcile(promoted)
          \/ rows' = Reconcile(served)
      BY <1>8, <1>13, <2>1, <2>2 DEF CompleteServeReady
    <2> QED BY <1>7, <1>10, <1>11, <2>2, <2>3, ReconciledTableStep
  <1> QED BY <1>12, <1>13

(* report_status: progress, or the end of a synchronization.               *)
LEMMA ReportServeStatusInv ==
    ASSUME IInv, NEW n \in ServeNodes, NEW d \in Deployments,
           NEW to \in {"syncing", "ready", "failed"}, ReportServeStatus(n, d, to)
    PROVE  IInv'
  <1>1. CASE to = "ready"
    BY <1>1, ServeReadyInv DEF ReportServeStatus, CanTransitionServe
  <1>2. CASE to # "ready"
    <2> DEFINE row == [rows[d] EXCEPT !.serve_status = to]
    <2>1. /\ rows[d].serve_node = n /\ rows[d].build_status = "ready"
          /\ rows[d].serve_status # "retired" /\ to \in {"syncing", "failed"}
      BY <1>2 DEF ReportServeStatus, CanTransitionServe
    <2>2. row \in Row /\ RowInv(row) /\ row.build_status = "ready"
      BY <2>1, RowFacts, NoNodeAssumption DEF Row, RowInv, ServeStatuses, Absent
    <2>3. /\ row.release_status = "active" => rows[d].release_status = "active"
          /\ row.pending_release => rows[d].pending_release
      BY RowFacts DEF Row
    <2>4. rows' = [rows EXCEPT ![d] = row]
      BY <1>2, RowFacts DEF ReportServeStatus
    <2> HIDE DEF row
    <2> QED BY <2>1, <2>2, <2>3, <2>4, RowStep DEF ReportServeStatus
  <1> QED BY <1>1, <1>2

(* Promote and rollback remember a built target.                           *)
LEMMA LoadForActivationInv ==
    ASSUME IInv, NEW r \in Requests, NEW d \in Deployments, LoadForActivation(r, d)
    PROVE  IInv'
  <1> DEFINE load == [deployment |-> d,
                      action |-> IF rows[d].release_status = "draft" /\ review_mode = "manual"
                                 THEN "review" ELSE "release"]
  <1>1. load \in [deployment : Deployments, action : {"review", "release"}] /\ load.deployment = d
    OBVIOUS
  <1>2. activations' = [activations EXCEPT ![r] = load]
    BY DEF LoadForActivation
  <1> HIDE DEF load
  <1>3. TypeOK'
    BY <1>1, <1>2 DEF LoadForActivation, IInv, TypeOK
  <1>4. HandlersInv'
    BY <1>1, <1>2 DEF LoadForActivation, IInv, TypeOK, HandlersInv
  <1> QED BY <1>3, <1>4 DEF LoadForActivation, IInv, TableInv, Settled

(* A row is put into review.                                               *)
LEMMA RequestReviewTable ==
    ASSUME IInv, NEW d \in Deployments, CanRequestReview(rows[d])
    PROVE  /\ TableInv(RequestReview(rows, d)) /\ Settled(RequestReview(rows, d))
           /\ \A e \in Deployments : RequestReview(rows, d)[e].build_status = rows[e].build_status
  <1> DEFINE count == rows[d].pending_reviews + 1
             row == [rows[d] EXCEPT !.release_status = "pending_review", !.pending_reviews = count]
  <1>1. rows[d].build_status = "ready" /\ rows[d].pending_reviews < MaxReviews
    BY DEF CanRequestReview, CanRelease, CanTransitionRelease, ReleaseReadiness
  <1>2. count \in 0..MaxReviews /\ count > 0
    <2>1. rows[d].pending_reviews \in 0..MaxReviews
      BY RowFacts DEF Row
    <2> QED BY <1>1, <2>1, ReviewAssumption
  <1>3. RequestReview(rows, d) = [rows EXCEPT ![d] = row]
    BY RowFacts DEF RequestReview
  <1> HIDE DEF count
  <1>4. /\ row \in Row /\ row.build_status = "ready" /\ row.pending_reviews = count
        /\ row.release_status # "active" /\ (row.pending_release => rows[d].pending_release)
    <2>1. rows[d] \in Row
      BY RowFacts
    <2>2. row \in Row
      BY <1>2, <2>1 DEF Row, ReleaseStatuses
    <2>3. /\ row.build_status = rows[d].build_status /\ row.release_status # "active"
          /\ row.pending_release = rows[d].pending_release /\ row.pending_reviews = count
      BY <2>1 DEF Row
    <2> QED BY <1>1, <2>2, <2>3
  <1>5. RowInv(row)
    <2>1. /\ row.release_status = "pending_review" /\ row.serve_node = rows[d].serve_node
          /\ row.serve_status = rows[d].serve_status /\ row.pending_release = rows[d].pending_release
      BY RowFacts DEF Row
    <2>2. RowInv(rows[d])
      BY RowFacts
    <2> HIDE DEF row
    <2> QED BY <1>1, <1>2, <1>4, <2>1, <2>2, BuiltRow
  <1> HIDE DEF row
  <1>6. TableInv([rows EXCEPT ![d] = row])
    BY <1>4, <1>5, RowFacts, UpdateRow
  <1>7. Settled([rows EXCEPT ![d] = row])
    BY <1>4, RowFacts DEF IInv, Settled
  <1>8. \A e \in Deployments : [rows EXCEPT ![d] = row][e].build_status = rows[e].build_status
    BY <1>1, <1>4, RowFacts
  <1> QED BY <1>3, <1>6, <1>7, <1>8

(* The promotion in flight is over: the table keeps its guarantees.        *)
LEMMA ApplyActivationInv ==
    ASSUME IInv, NEW r \in Requests, ApplyActivation(r)
    PROVE  IInv'
  <1> DEFINE d == activations[r].deployment
  <1>1. d \in Deployments /\ rows[d].build_status = "ready"
    BY DEF ApplyActivation, IInv, TypeOK, HandlersInv
  <1>2. \/ CanRequestReview(rows[d]) /\ rows' = RequestReview(rows, d)
        \/ RequestRelease(rows, d)
    BY DEF ApplyActivation
  <1> HIDE DEF d
  <1>3. /\ TableInv(rows') /\ Settled(rows')
        /\ \A e \in Deployments : rows'[e].build_status = rows[e].build_status
    <2>1. CASE CanRequestReview(rows[d]) /\ rows' = RequestReview(rows, d)
      BY <1>1, <2>1, RequestReviewTable
    <2>2. CASE RequestRelease(rows, d)
      <3>1. TableInv(rows)
        BY DEF IInv
      <3>2. TableInv(rows') /\ Settled(rows')
        BY <1>1, <2>2, <3>1, RequestReleaseTable
      <3>3. \A e \in Deployments : rows'[e].build_status = rows[e].build_status
        BY <1>1, <2>2, <3>1, RequestReleaseBuild
      <3> QED BY <3>2, <3>3
    <2> QED BY <1>2, <2>1, <2>2
  <1>4. activations' \in [Requests -> {Idle} \cup [deployment : Deployments, action : {"review", "release"}]]
    BY DEF ApplyActivation, IInv, TypeOK
  <1>5. \A q \in Requests : activations'[q] # Idle => activations'[q] = activations[q] /\ activations[q] # Idle
    BY DEF ApplyActivation, IInv, TypeOK
  <1>6. TypeOK'
    BY <1>3, <1>4 DEF ApplyActivation, IInv, TypeOK, TableInv
  <1>7. HandlersInv'
    <2>1. \A q \in Requests : activations[q] # Idle => activations[q].deployment \in Deployments
      BY DEF IInv, TypeOK
    <2> QED BY <1>3, <1>5, <2>1 DEF ApplyActivation, IInv, HandlersInv
  <1> QED BY <1>3, <1>6, <1>7 DEF IInv, TableInv, Settled

(* A request that ends without a commit.                                   *)
LEMMA AbandonActivationInv ==
    ASSUME IInv, NEW r \in Requests, AbandonActivation(r)
    PROVE  IInv'
  <1>1. activations' \in [Requests -> {Idle} \cup [deployment : Deployments, action : {"review", "release"}]]
    BY DEF AbandonActivation, IInv, TypeOK
  <1>2. \A q \in Requests : activations'[q] # Idle => activations'[q] = activations[q] /\ activations[q] # Idle
    BY DEF AbandonActivation, IInv, TypeOK
  <1>3. TypeOK' /\ HandlersInv'
    BY <1>1, <1>2 DEF AbandonActivation, IInv, TypeOK, HandlersInv
  <1> QED BY <1>3 DEF AbandonActivation, IInv, TableInv, Settled

(* An approval, or a republication, changes the target and requests its    *)
(* release in the same transaction.                                        *)
LEMMA ApprovedReleaseStep ==
    ASSUME IInv, NEW d \in Deployments, NEW row \in Row, RowInv(row),
           rows[d].build_status = "ready", row.build_status = "ready",
           row.release_status # "active", row.pending_release => rows[d].pending_release,
           RequestRelease([rows EXCEPT ![d] = row], d),
           UNCHANGED <<review_mode, stage_snapshot, activations>>
    PROVE  IInv'
  <1> DEFINE approved == [rows EXCEPT ![d] = row]
  <1>1. TableInv(approved) /\ approved[d] = row
    BY RowFacts, UpdateRow
  <1>2. \A e \in Deployments : approved[e].build_status = rows[e].build_status
    BY RowFacts
  <1>3. RequestRelease(approved, d)
    OBVIOUS
  <1> HIDE DEF approved
  <1>4. TableInv(rows') /\ Settled(rows')
    BY <1>1, <1>3, RequestReleaseTable
  <1>5. \A e \in Deployments : rows'[e].build_status = rows[e].build_status
    BY <1>1, <1>2, <1>3, RequestReleaseBuild
  <1> QED BY <1>4, <1>5, ReleaseStep

(* decide: the approval requests the release of what it approved.          *)
LEMMA ApproveReviewInv ==
    ASSUME IInv, NEW d \in Deployments, ApproveReview(d)
    PROVE  IInv'
  <1> DEFINE count == rows[d].pending_reviews - 1
             row == [rows[d] EXCEPT !.release_status = "approved", !.pending_reviews = count,
                                    !.approved_review = TRUE]
  <1>1. rows[d].build_status = "ready" /\ rows[d].serve_status \in {"ready", "retired"}
    BY DEF ApproveReview, Reviewable, ReachedServe
  <1>2. count \in 0..MaxReviews
    <2>1. rows[d].pending_reviews \in 0..MaxReviews /\ rows[d].pending_reviews > 0
      BY RowFacts DEF Row, ApproveReview, Reviewable
    <2> QED BY <2>1, ReviewAssumption
  <1>3. RequestRelease([rows EXCEPT ![d] = row], d)
    <2>1. [rows EXCEPT ![d].release_status = "approved", ![d].pending_reviews = @ - 1,
                       ![d].approved_review = TRUE] = [rows EXCEPT ![d] = row]
      BY RowFacts
    <2> HIDE DEF row
    <2> QED BY <2>1 DEF ApproveReview
  <1> HIDE DEF count
  <1>4. /\ row \in Row /\ row.build_status = "ready" /\ row.release_status # "active"
        /\ row.pending_release => rows[d].pending_release
    <2>1. rows[d] \in Row
      BY RowFacts
    <2>2. row \in Row
      BY <1>2, <2>1 DEF Row, ReleaseStatuses
    <2>3. /\ row.build_status = rows[d].build_status /\ row.release_status # "active"
          /\ row.pending_release = rows[d].pending_release
      BY <2>1 DEF Row
    <2> QED BY <1>1, <2>2, <2>3
  <1>5. RowInv(row)
    <2>1. /\ row.release_status = "approved" /\ row.serve_node = rows[d].serve_node
          /\ row.serve_status = rows[d].serve_status /\ row.pending_release = rows[d].pending_release
      BY RowFacts DEF Row
    <2>2. RowInv(rows[d])
      BY RowFacts
    <2> HIDE DEF row
    <2> QED BY <1>1, <1>4, <2>1, <2>2, BuiltRow
  <1> HIDE DEF row
  <1> QED BY <1>1, <1>3, <1>4, <1>5, ApprovedReleaseStep DEF ApproveReview

(* decide: the rejection consumes the open review.                         *)
LEMMA RejectReviewInv ==
    ASSUME IInv, NEW d \in Deployments, RejectReview(d)
    PROVE  IInv'
  <1> DEFINE count == rows[d].pending_reviews - 1
             row == [rows[d] EXCEPT !.release_status = "rejected", !.pending_reviews = count]
  <1>1. rows[d].build_status = "ready"
    BY DEF RejectReview, Reviewable, ReachedServe
  <1>2. count \in 0..MaxReviews
    <2>1. rows[d].pending_reviews \in 0..MaxReviews /\ rows[d].pending_reviews > 0
      BY RowFacts DEF Row, RejectReview, Reviewable
    <2> QED BY <2>1, ReviewAssumption
  <1>3. rows' = [rows EXCEPT ![d] = row]
    BY RowFacts DEF RejectReview
  <1> HIDE DEF count
  <1>4. /\ row \in Row /\ row.build_status = "ready" /\ row.release_status # "active"
        /\ row.pending_release => rows[d].pending_release
    <2>1. rows[d] \in Row
      BY RowFacts
    <2>2. row \in Row
      BY <1>2, <2>1 DEF Row, ReleaseStatuses
    <2>3. /\ row.build_status = rows[d].build_status /\ row.release_status # "active"
          /\ row.pending_release = rows[d].pending_release
      BY <2>1 DEF Row
    <2> QED BY <1>1, <2>2, <2>3
  <1>5. RowInv(row)
    <2>1. /\ row.release_status = "rejected" /\ row.serve_node = rows[d].serve_node
          /\ row.serve_status = rows[d].serve_status /\ row.pending_release = rows[d].pending_release
      BY RowFacts DEF Row
    <2>2. RowInv(rows[d])
      BY RowFacts
    <2> HIDE DEF row
    <2> QED BY <1>1, <1>4, <2>1, <2>2, BuiltRow
  <1> HIDE DEF row
  <1> QED BY <1>1, <1>3, <1>4, <1>5, RowStep DEF RejectReview

(* remove_publication leaves no assignment and no queued release behind.   *)
LEMMA RemovePublicationInv ==
    ASSUME IInv, NEW d \in Deployments, NEW to \in {"approved", "draft"}, RemovePublication(d, to)
    PROVE  IInv'
  <1> DEFINE row == [Retired(rows[d]) EXCEPT !.release_status = to, !.pending_release = FALSE]
  <1>1. rows[d].build_status = "ready"
    <2>1. rows[d].release_status \in {"active", "pending_review"}
      BY DEF RemovePublication, CanRelease, CanTransitionRelease
    <2> QED BY <2>1, RowFacts DEF RowInv
  <1>2. rows' = Reconcile([rows EXCEPT ![d] = row])
    BY RowFacts DEF RemovePublication
  <1>3. /\ row \in Row /\ row.build_status = "ready" /\ row.release_status = to
        /\ row.pending_release = FALSE /\ RowInv(row)
    <2>1. row = [rows[d] EXCEPT !.serve_status = "retired", !.serve_node = NoNode,
                                !.release_status = to, !.pending_release = FALSE]
      BY DEF Retired
    <2> HIDE DEF row
    <2>2. row \in Row
      <3>1. rows[d] \in Row
        BY RowFacts
      <3> QED BY <2>1, <3>1 DEF Row, ServeStatuses, ReleaseStatuses
    <2>3. /\ row.build_status = "ready" /\ row.serve_status = "retired" /\ row.serve_node = NoNode
          /\ row.release_status = to /\ row.pending_release = FALSE
      BY <1>1, <2>1, RowFacts DEF Row
    <2>4. RowInv(row)
      <3>1. to # "active" /\ to # "pending_review"
        OBVIOUS
      <3> QED BY <2>3, <3>1 DEF RowInv
    <2> QED BY <2>2, <2>3, <2>4
  <1> HIDE DEF row
  <1>4. row.release_status # "active"
    BY <1>3
  <1> QED BY <1>1, <1>2, <1>3, <1>4, RowFacts, ReconciledRowStep DEF RemovePublication

(* republish: one case per action republish_action chooses.                *)
LEMMA RepublishInv ==
    ASSUME IInv, NEW d \in Deployments, Republish(d)
    PROVE  IInv'
  <1>1. rows[d].build_status = "ready" /\ rows[d].serve_status \in {"ready", "retired"}
    BY DEF Republish, ReachedServe
  <1>2. TableInv(rows)
    BY DEF IInv
  <1>3. CASE RequestRelease(rows, d)
    <2>1. TableInv(rows') /\ Settled(rows')
      BY <1>1, <1>2, <1>3, RequestReleaseTable
    <2>2. \A e \in Deployments : rows'[e].build_status = rows[e].build_status
      BY <1>1, <1>2, <1>3, RequestReleaseBuild
    <2> QED BY <2>1, <2>2, ReleaseStep DEF Republish
  <1>4. CASE RequestRelease([rows EXCEPT ![d].release_status = "approved"], d)
    <2> DEFINE row == [rows[d] EXCEPT !.release_status = "approved"]
    <2>1. RequestRelease([rows EXCEPT ![d] = row], d)
      <3>1. [rows EXCEPT ![d].release_status = "approved"] = [rows EXCEPT ![d] = row]
        BY RowFacts
      <3> HIDE DEF row
      <3> QED BY <1>4, <3>1
    <2>2. /\ row \in Row /\ row.build_status = "ready" /\ row.release_status # "active"
          /\ row.pending_release => rows[d].pending_release
          /\ RowInv(row)
      BY <1>1, RowFacts DEF Row, RowInv, ReleaseStatuses, Absent
    <2> HIDE DEF row
    <2> QED BY <1>1, <2>1, <2>2, ApprovedReleaseStep DEF Republish
  <1>5. CASE CanRequestReview(rows[d]) /\ rows' = RequestReview(rows, d)
    <2>1. /\ TableInv(rows') /\ Settled(rows')
          /\ \A e \in Deployments : rows'[e].build_status = rows[e].build_status
      BY <1>5, RequestReviewTable
    <2> QED BY <2>1, ReleaseStep DEF Republish
  <1> QED BY <1>3, <1>4, <1>5 DEF Republish

(* Every step preserves the invariant.                                     *)
LEMMA StepInv == IInv /\ [Next]_vars => IInv'
  <1> SUFFICES ASSUME IInv, [Next]_vars PROVE IInv'
    OBVIOUS
  <1>1. ASSUME NEW d \in Deployments, NEW n \in ServeNodes, CreateDeployment(d, n) PROVE IInv'
    BY <1>1, CreateDeploymentInv
  <1>2. ASSUME NEW d \in Deployments, ClaimBuild(d) PROVE IInv'
    BY <1>2, ClaimBuildInv
  <1>3. ASSUME NEW d \in Deployments, StageRead(d) PROVE IInv'
    BY <1>3, StageReadInv
  <1>4. ASSUME NEW d \in Deployments, NEW to \in {"queued", "building"}, StageWrite(d, to) PROVE IInv'
    BY <1>4, StageWriteInv
  <1>5. ASSUME NEW d \in Deployments, UploadStaticSite(d) PROVE IInv'
    BY <1>5, UploadStaticSiteInv
  <1>6. ASSUME NEW d \in Deployments, FinalizeReady(d) PROVE IInv'
    BY <1>6, FinalizeReadyInv
  <1>7. ASSUME NEW d \in Deployments, FailBuild(d) PROVE IInv'
    BY <1>7, UnsuccessfulBuildInv DEF FailBuild, BuildNodeFree
  <1>8. ASSUME NEW d \in Deployments, CancelBuild(d) PROVE IInv'
    BY <1>8, UnsuccessfulBuildInv DEF CancelBuild
  <1>9. ASSUME NEW d \in Deployments, NEW n \in ServeNodes, NEW to \in {"syncing", "ready", "failed"},
               ReportServeStatus(n, d, to)
        PROVE IInv'
    BY <1>9, ReportServeStatusInv
  <1>10. ASSUME NEW d \in Deployments, ApproveReview(d) \/ RejectReview(d) PROVE IInv'
    BY <1>10, ApproveReviewInv, RejectReviewInv
  <1>11. ASSUME NEW d \in Deployments, Unpublish(d) \/ Withdraw(d) PROVE IInv'
    BY <1>11, RemovePublicationInv DEF Unpublish, Withdraw
  <1>12. ASSUME NEW d \in Deployments, Republish(d) PROVE IInv'
    BY <1>12, RepublishInv
  <1>13. ASSUME NEW d \in Deployments, NEW r \in Requests, LoadForActivation(r, d) PROVE IInv'
    BY <1>13, LoadForActivationInv
  <1>14. ASSUME NEW r \in Requests, ApplyActivation(r) \/ AbandonActivation(r) PROVE IInv'
    BY <1>14, ApplyActivationInv, AbandonActivationInv
  <1>15. ASSUME NEW m \in ReviewModes, SetReviewMode(m) PROVE IInv'
    BY <1>15 DEF SetReviewMode, IInv, TypeOK, TableInv, Settled, HandlersInv
  <1>16. CASE UNCHANGED vars
    BY <1>16 DEF vars, IInv, TypeOK, TableInv, Settled, HandlersInv
  <1> QED BY <1>1, <1>2, <1>3, <1>4, <1>5, <1>6, <1>7, <1>8, <1>9, <1>10, <1>11, <1>12,
             <1>13, <1>14, <1>15, <1>16 DEF Next

(* The inductive invariant holds of every reachable state.                 *)
THEOREM Invariance == Spec => []IInv
  <1>1. Init => IInv
    BY InitInv
  <1>2. IInv /\ [Next]_vars => IInv'
    BY StepInv
  <1> QED BY <1>1, <1>2, PTL DEF Spec

-------------------------------------------------------------------------------
(* What follows.                                                           *)

(* Every handler keeps the table and the handler records well typed.       *)
THEOREM TypeCorrect == Spec => []TypeOK
  <1>1. IInv => TypeOK
    BY DEF IInv
  <1> QED BY <1>1, Invariance, PTL

(* promote, approve, republish and the Serve reports leave at most one     *)
(* active deployment, however many race.                                   *)
THEOREM OneActiveHolds == Spec => []OneActive
  <1>1. IInv => OneActive
    BY DEF IInv, TableInv, OneActive, Active
  <1> QED BY <1>1, Invariance, PTL

(* request_release never queues a second release.                          *)
THEOREM OnePendingReleaseHolds == Spec => []OnePendingRelease
  <1>1. IInv => OnePendingRelease
    BY DEF IInv, TableInv, OnePendingRelease
  <1> QED BY <1>1, Invariance, PTL

(* No assignment outlives its Serve status or its build's success, and no  *)
(* live status is without one.                                             *)
THEOREM AssignmentMatchesServeHolds == Spec => []AssignmentMatchesServe
  <1>1. IInv => AssignmentMatchesServe
    BY DEF IInv, TableInv, RowInv, Settled, AssignmentMatchesServe, Existing
  <1> QED BY <1>1, Invariance, PTL

(* A queued release waits for a report that can still arrive.              *)
THEOREM PendingOnAssignmentHolds == Spec => []PendingOnAssignment
  <1>1. IInv => PendingOnAssignment
    BY DEF IInv, TableInv, RowInv, PendingOnAssignment
  <1> QED BY <1>1, Invariance, PTL

(* Nothing that happens to other deployments retires active production.    *)
THEOREM ActiveProductionServedHolds == Spec => []ActiveProductionServed
  <1>1. IInv => ActiveProductionServed
    BY DEF IInv, TableInv, RowInv, ActiveProductionServed, Active
  <1> QED BY <1>1, Invariance, PTL

(* A deployment in review can be decided.                                  *)
THEOREM PendingReviewDecidableHolds == Spec => []PendingReviewDecidable
  <1>1. IInv => PendingReviewDecidable
    BY DEF IInv, TableInv, RowInv, PendingReviewDecidable
  <1> QED BY <1>1, Invariance, PTL

-------------------------------------------------------------------------------
(* What a step may do to one deployment.                                   *)

(* The row loses at most its place as the active one.                      *)
Yields(old, new) ==
    /\ new.build_status = old.build_status
    /\ new.pending_release = old.pending_release
    /\ new.approved_review = old.approved_review
    /\ \/ new.release_status = old.release_status
       \/ old.release_status = "active" /\ new.release_status = "approved"

(* The row becomes active, or waits with the status it has; it did not wait*)
(* before.                                                                 *)
Taken(status, old, new) ==
    /\ ~old.pending_release
    /\ new.build_status = old.build_status
    /\ new.approved_review = old.approved_review
    /\ \/ new.release_status = "active" /\ ~new.pending_release
       \/ new.release_status = status /\ new.pending_release

(* A review is requested or rejected, or the publication withdrawn; no     *)
(* release is queued, unless it was that of an active row.                 *)
Lowered(old, new) ==
    /\ new.build_status = old.build_status
    /\ new.approved_review = old.approved_review
    /\ new.release_status \in {"draft", "pending_review", "rejected"}
    /\ ~new.pending_release
    /\ old.pending_release => old.release_status = "active"

(* A Serve report completes the queued release, or activates a draft.      *)
Completed(old, new) ==
    /\ new.build_status = old.build_status
    /\ new.approved_review = old.approved_review
    /\ old.release_status \in {"draft", "approved"}
    /\ new.release_status = "active" /\ ~new.pending_release
    /\ old.pending_release \/ review_mode = "auto"

Approved(d) ==
    /\ ApproveReview(d)
    /\ ~rows[d].pending_release
    /\ rows'[d].build_status = rows[d].build_status
    /\ rows'[d].approved_review
    /\ \/ rows'[d].release_status = "active" /\ ~rows'[d].pending_release
       \/ rows'[d].release_status = "approved" /\ rows'[d].pending_release

Republished(d) ==
    /\ rows[d].release_status = "approved" \/ review_mode = "auto"
    /\ \E status \in {"draft", "approved"} : Taken(status, rows[d], rows'[d])

Unpublished(d) ==
    /\ Unpublish(d)
    /\ rows[d].pending_release => rows[d].release_status = "active"
    /\ rows'[d].build_status = rows[d].build_status
    /\ rows'[d].release_status = "approved" /\ ~rows'[d].pending_release
    /\ rows'[d].approved_review = rows[d].approved_review

Applied(d) ==
    \E r \in Requests :
        /\ ApplyActivation(r)
        /\ activations[r].deployment = d /\ activations[r].action = "release"
        /\ Taken(rows[d].release_status, rows[d], rows'[d])

(* A promotion or rollback is applied to the row.                          *)
AppliedTo(d) == \E r \in Requests : ApplyActivation(r) /\ activations[r].deployment = d

(* It sends the row to review, whatever is queued.                         *)
Sent(old, new) ==
    /\ new.build_status = old.build_status
    /\ new.pending_release = old.pending_release
    /\ new.approved_review = old.approved_review
    /\ old.release_status \in {"draft", "rejected"} /\ new.release_status = "pending_review"

(* A build moves; when it becomes ready, its review may be requested.      *)
BuildAction(d) ==
    \/ \E n \in ServeNodes : CreateDeployment(d, n)
    \/ ClaimBuild(d)
    \/ \E to \in {"queued", "building"} : StageWrite(d, to)
    \/ FinalizeReady(d) \/ FailBuild(d) \/ CancelBuild(d)

Submits(d) == FinalizeReady(d) /\ review_mode = "manual"

Developed(d, new) ==
    /\ BuildAction(d)
    /\ new.pending_release = rows[d].pending_release
    /\ new.approved_review = rows[d].approved_review
    /\ \/ new.release_status = rows[d].release_status
       \/ /\ Submits(d)
          /\ rows[d].release_status \in {"draft", "rejected"}
          /\ new.release_status = "pending_review"

Changes(d, new) ==
    \/ Yields(rows[d], new) \/ Lowered(rows[d], new) \/ Developed(d, new)
    \/ AppliedTo(d) /\ Sent(rows[d], new)

MayChange(d) ==
    \/ Changes(d, rows'[d]) \/ Completed(rows[d], rows'[d])
    \/ Approved(d) \/ Republished(d) \/ Unpublished(d) \/ Applied(d)

(* Reconciliation leaves the publication of a row alone.                   *)
LEMMA ReconcileRelease ==
    ASSUME NEW rs \in [Deployments -> Row], NEW d \in Deployments
    PROVE  /\ Reconcile(rs)[d].build_status = rs[d].build_status
           /\ Reconcile(rs)[d].release_status = rs[d].release_status
           /\ Reconcile(rs)[d].pending_release = rs[d].pending_release
           /\ Reconcile(rs)[d].approved_review = rs[d].approved_review
  <1>1. rs[d] \in Row
    OBVIOUS
  <1>2. Retired(rs[d]).approved_review = rs[d].approved_review
    BY <1>1 DEF Retired, Row
  <1> QED BY <1>1, <1>2, ReconcileRow, RetiredRow

(* One row is replaced, and the environment perhaps reconciled.            *)
Replaces(rs, d, row, t) ==
    /\ \A e \in Deployments \ {d} : Yields(rs[e], t[e])
    /\ t[d].build_status = row.build_status
    /\ t[d].release_status = row.release_status
    /\ t[d].pending_release = row.pending_release
    /\ t[d].approved_review = row.approved_review

LEMMA ReplacedRow ==
    ASSUME NEW rs \in [Deployments -> Row], NEW d \in Deployments, NEW row \in Row
    PROVE  /\ Replaces(rs, d, row, [rs EXCEPT ![d] = row])
           /\ Replaces(rs, d, row, Reconcile([rs EXCEPT ![d] = row]))
  <1> DEFINE result == [rs EXCEPT ![d] = row]
  <1>1. result \in [Deployments -> Row] /\ result[d] = row
    OBVIOUS
  <1>2. \A e \in Deployments \ {d} : result[e] = rs[e]
    OBVIOUS
  <1> HIDE DEF result
  <1>3. Replaces(rs, d, row, result)
    BY <1>1, <1>2 DEF Replaces, Yields
  <1>4. Replaces(rs, d, row, Reconcile(result))
    BY <1>1, <1>2, ReconcileRelease DEF Replaces, Yields
  <1> QED BY <1>3, <1>4 DEF result

(* The target becomes active, the previous one is demoted.                 *)
Activates(rs, d, t) ==
    /\ \A e \in Deployments \ {d} : Yields(rs[e], t[e])
    /\ t[d].build_status = rs[d].build_status
    /\ t[d].release_status = "active"
    /\ t[d].approved_review = rs[d].approved_review

LEMMA ActivateRows ==
    ASSUME NEW rs \in [Deployments -> Row], NEW d \in Deployments
    PROVE  /\ Activates(rs, d, Reconcile(Activate(rs, d)))
           /\ Reconcile(Activate(rs, d))[d].pending_release = rs[d].pending_release
           /\ Activates(rs, d, Reconcile([Activate(rs, d) EXCEPT ![d].pending_release = FALSE]))
           /\ ~Reconcile([Activate(rs, d) EXCEPT ![d].pending_release = FALSE])[d].pending_release
  <1> DEFINE plain == Activate(rs, d)
             cleared == [plain EXCEPT ![d].pending_release = FALSE]
  <1>1. /\ plain[d] = [rs[d] EXCEPT !.release_status = "active"]
        /\ plain = [e \in Deployments |-> plain[e]]
    BY DEF Activate
  <1>2. \A e \in Deployments \ {d} :
            plain[e] = rs[e] \/ /\ rs[e].release_status = "active"
                                /\ plain[e] = [rs[e] EXCEPT !.release_status = "approved"]
    <2>1. \A e \in Previous(rs, d) : rs[e].release_status = "active"
      BY DEF Previous
    <2> QED BY <2>1 DEF Activate
  <1> HIDE DEF plain
  <1>3. \A e \in Deployments : rs[e] \in Row
    OBVIOUS
  <1>4. \A e \in Deployments \ {d} : plain[e] \in Row /\ Yields(rs[e], plain[e])
    <2> SUFFICES ASSUME NEW e \in Deployments \ {d}
                 PROVE  plain[e] \in Row /\ Yields(rs[e], plain[e])
      OBVIOUS
    <2>1. rs[e] \in Row
      OBVIOUS
    <2>2. CASE plain[e] = rs[e]
      BY <2>1, <2>2 DEF Yields
    <2>3. CASE rs[e].release_status = "active" /\ plain[e] = [rs[e] EXCEPT !.release_status = "approved"]
      BY <2>1, <2>3 DEF Row, ReleaseStatuses, Yields
    <2> QED BY <1>2, <2>2, <2>3
  <1>5. /\ plain[d] \in Row /\ plain[d].release_status = "active"
        /\ plain[d].build_status = rs[d].build_status
        /\ plain[d].pending_release = rs[d].pending_release
        /\ plain[d].approved_review = rs[d].approved_review
    BY <1>1, <1>3 DEF Row, ReleaseStatuses
  <1>6. plain \in [Deployments -> Row]
    BY <1>1, <1>4, <1>5
  <1>7. cleared = [plain EXCEPT ![d] = [plain[d] EXCEPT !.pending_release = FALSE]]
    BY <1>6
  <1>8. /\ cleared \in [Deployments -> Row] /\ cleared[d].release_status = "active"
        /\ ~cleared[d].pending_release /\ cleared[d].approved_review = rs[d].approved_review
        /\ cleared[d].build_status = rs[d].build_status
        /\ \A e \in Deployments \ {d} : cleared[e] = plain[e]
    BY <1>5, <1>6, <1>7 DEF Row
  <1> HIDE DEF cleared
  <1>9. Activates(rs, d, Reconcile(plain)) /\ Reconcile(plain)[d].pending_release = rs[d].pending_release
    BY <1>4, <1>5, <1>6, ReconcileRelease DEF Activates, Yields
  <1>10. Activates(rs, d, Reconcile(cleared)) /\ ~Reconcile(cleared)[d].pending_release
    BY <1>4, <1>8, ReconcileRelease DEF Activates, Yields
  <1> QED BY <1>9, <1>10 DEF plain, cleared

(* request_release takes the target, and queues nothing else.              *)
LEMMA RequestReleaseRows ==
    ASSUME NEW rs, TableInv(rs), NEW d \in Deployments, RequestRelease(rs, d)
    PROVE  /\ \A e \in Deployments \ {d} : Yields(rs[e], rows'[e])
           /\ Taken(rs[d].release_status, rs[d], rows'[d])
  <1>1. rs \in [Deployments -> Row] /\ rs[d] \in Row
    BY DEF TableInv
  <1>2. ~rs[d].pending_release
    BY DEF RequestRelease, ReleaseIsPending
  <1>3. CASE rows' = Reconcile(Activate(rs, d))
    BY <1>1, <1>2, <1>3, ActivateRows DEF Activates, Taken
  <1>4. ASSUME NEW row \in Row, row.pending_release, row.release_status = rs[d].release_status,
               row.approved_review = rs[d].approved_review, row.build_status = rs[d].build_status,
               rows' = Reconcile([rs EXCEPT ![d] = row])
        PROVE  /\ \A e \in Deployments \ {d} : Yields(rs[e], rows'[e])
               /\ Taken(rs[d].release_status, rs[d], rows'[d])
    <2>1. Replaces(rs, d, row, rows')
      BY <1>1, <1>4, ReplacedRow
    <2> QED BY <1>2, <1>4, <2>1 DEF Replaces, Taken
  <1>5. CASE \E n \in ServeNodes :
                rows' = Reconcile([rs EXCEPT ![d].serve_node = n,
                                             ![d].serve_status = "pending",
                                             ![d].pending_release = TRUE])
    <2>1. PICK n \in ServeNodes :
                rows' = Reconcile([rs EXCEPT ![d].serve_node = n,
                                             ![d].serve_status = "pending",
                                             ![d].pending_release = TRUE])
      BY <1>5
    <2> DEFINE row == [rs[d] EXCEPT !.serve_node = n, !.serve_status = "pending",
                                    !.pending_release = TRUE]
    <2>2. rows' = Reconcile([rs EXCEPT ![d] = row])
      BY <1>1, <2>1
    <2>3. /\ row \in Row /\ row.pending_release /\ row.release_status = rs[d].release_status
          /\ row.approved_review = rs[d].approved_review /\ row.build_status = rs[d].build_status
      BY <1>1 DEF Row, ServeStatuses
    <2> HIDE DEF row
    <2> QED BY <1>4, <2>2, <2>3
  <1>6. CASE rows' = Reconcile([rs EXCEPT ![d].pending_release = TRUE])
    <2> DEFINE row == [rs[d] EXCEPT !.pending_release = TRUE]
    <2>1. rows' = Reconcile([rs EXCEPT ![d] = row])
      BY <1>1, <1>6
    <2>2. /\ row \in Row /\ row.pending_release /\ row.release_status = rs[d].release_status
          /\ row.approved_review = rs[d].approved_review /\ row.build_status = rs[d].build_status
      BY <1>1 DEF Row
    <2> HIDE DEF row
    <2> QED BY <1>4, <2>1, <2>2
  <1> QED BY <1>3, <1>5, <1>6 DEF RequestRelease

(* A step that replaces one row, and takes no release.                     *)
LEMMA RowMayChange ==
    ASSUME IInv, NEW d \in Deployments, NEW row \in Row,
           rows' = [rows EXCEPT ![d] = row] \/ rows' = Reconcile([rows EXCEPT ![d] = row]),
           Changes(d, row)
    PROVE  /\ \A e \in Deployments : MayChange(e)
           /\ rows'[d].build_status = row.build_status
  <1>1. rows \in [Deployments -> Row]
    BY RowFacts
  <1>2. Replaces(rows, d, row, rows')
    BY <1>1, ReplacedRow
  <1>3. Changes(d, rows'[d])
    BY <1>2 DEF Replaces, Changes, Yields, Lowered, Developed, Sent
  <1> QED BY <1>2, <1>3 DEF Replaces, MayChange, Changes

(* A review is requested, of a build that is ready or becomes so.          *)
LEMMA ReviewMayChange ==
    ASSUME IInv, NEW d \in Deployments, NEW rs, rs[d] \in Row,
           \/ rs = rows /\ (AppliedTo(d) \/ ~rows[d].pending_release)
           \/ rs = [rows EXCEPT ![d].build_status = "ready"] /\ Submits(d),
           CanRequestReview(rs[d]),
           rows' = RequestReview(rs, d) \/ rows' = Reconcile(RequestReview(rs, d))
    PROVE  /\ \A e \in Deployments : MayChange(e)
           /\ rows'[d].build_status = rs[d].build_status
  <1> DEFINE count == rs[d].pending_reviews + 1
             row == [rs[d] EXCEPT !.release_status = "pending_review", !.pending_reviews = count]
  <1>1. count \in 0..MaxReviews
    <2>1. rs[d].pending_reviews \in 0..MaxReviews /\ rs[d].pending_reviews < MaxReviews
      BY DEF CanRequestReview, Row
    <2> QED BY <2>1, ReviewAssumption
  <1>2. rows \in [Deployments -> Row] /\ rows[d] \in Row
    BY RowFacts
  <1>3. RequestReview(rs, d) = [rows EXCEPT ![d] = row]
    BY <1>2 DEF RequestReview
  <1>4. /\ rs[d].pending_release = rows[d].pending_release
        /\ rs[d].approved_review = rows[d].approved_review
        /\ rs[d].release_status = rows[d].release_status
        /\ \/ Submits(d)
           \/ /\ rs[d].build_status = rows[d].build_status
              /\ AppliedTo(d) \/ ~rows[d].pending_release
        /\ rs[d].release_status \in {"draft", "rejected"}
    BY <1>2 DEF Row, CanRequestReview, CanRelease, CanTransitionRelease
  <1> HIDE DEF count
  <1>5. row \in Row /\ row.build_status = rs[d].build_status
    BY <1>1 DEF Row, ReleaseStatuses
  <1>6. Changes(d, row)
    BY <1>4 DEF Changes, Lowered, Row, BuildAction, Submits, Developed, Sent
  <1> HIDE DEF row
  <1>7. rows' = [rows EXCEPT ![d] = row] \/ rows' = Reconcile([rows EXCEPT ![d] = row])
    BY <1>3, Zenon
  <1>8. /\ \A e \in Deployments : MayChange(e)
        /\ rows'[d].build_status = row.build_status
    BY <1>5, <1>6, <1>7, RowMayChange, Zenon
  <1> QED BY <1>5, <1>8

(* Creation, the build, its end and the progress of a synchronization.     *)
LEMMA BuildMayChange ==
    ASSUME IInv, NEW d \in Deployments,
           \/ \E n \in ServeNodes : CreateDeployment(d, n)
           \/ ClaimBuild(d)
           \/ \E to \in {"queued", "building"} : StageWrite(d, to)
           \/ UploadStaticSite(d) \/ FailBuild(d) \/ CancelBuild(d)
           \/ \E n \in ServeNodes, to \in {"syncing", "failed"} : ReportServeStatus(n, d, to)
    PROVE  \A e \in Deployments : MayChange(e)
  <1>1. rows \in [Deployments -> Row] /\ rows[d] \in Row
    BY RowFacts
  <1>2. ASSUME NEW row \in Row,
               Yields(rows[d], row) \/ Developed(d, row),
               rows' = [rows EXCEPT ![d] = row] \/ rows' = Reconcile([rows EXCEPT ![d] = row])
        PROVE  \A e \in Deployments : MayChange(e)
    BY <1>2, RowMayChange DEF Changes
  <1>3. ASSUME NEW n \in ServeNodes, CreateDeployment(d, n)
        PROVE  \A e \in Deployments : MayChange(e)
    <2> DEFINE row == [rows[d] EXCEPT !.build_status = "pending", !.serve_node = n]
    <2>1. row \in Row /\ Developed(d, row)
      BY <1>1, <1>3 DEF Row, BuildStatuses, Developed, BuildAction
    <2>2. rows' = [rows EXCEPT ![d] = row]
      BY <1>1, <1>3 DEF CreateDeployment
    <2> HIDE DEF row
    <2> QED BY <1>2, <2>1, <2>2
  <1>4. ASSUME NEW to \in {"claimed", "queued", "building", "failed", "canceled"}, BuildAction(d),
               \/ rows' = [rows EXCEPT ![d].build_status = to]
               \/ rows' = Reconcile([rows EXCEPT ![d].build_status = to])
        PROVE  \A e \in Deployments : MayChange(e)
    <2> DEFINE row == [rows[d] EXCEPT !.build_status = to]
    <2>1. row \in Row /\ Developed(d, row)
      BY <1>1, <1>4 DEF Row, BuildStatuses, Developed
    <2>2. rows' = [rows EXCEPT ![d] = row] \/ rows' = Reconcile([rows EXCEPT ![d] = row])
      BY <1>1, <1>4
    <2> HIDE DEF row
    <2> QED BY <1>2, <2>1, <2>2
  <1>5. CASE rows' = rows
    BY <1>5 DEF MayChange, Changes, Yields
  <1>6. CASE UploadStaticSite(d)
    <2> DEFINE row == [rows[d] EXCEPT !.artifact = TRUE]
    <2>1. row \in Row /\ Yields(rows[d], row)
      BY <1>1 DEF Row, Yields
    <2>2. rows' = [rows EXCEPT ![d] = row]
      BY <1>1, <1>6 DEF UploadStaticSite
    <2> HIDE DEF row
    <2> QED BY <1>2, <2>1, <2>2
  <1>7. ASSUME NEW n \in ServeNodes, NEW to \in {"syncing", "failed"}, ReportServeStatus(n, d, to)
        PROVE  \A e \in Deployments : MayChange(e)
    <2> DEFINE row == [rows[d] EXCEPT !.serve_status = to]
    <2>1. row \in Row /\ Yields(rows[d], row)
      BY <1>1 DEF Row, ServeStatuses, Yields
    <2>2. rows' = [rows EXCEPT ![d] = row]
      BY <1>1, <1>7 DEF ReportServeStatus
    <2> HIDE DEF row
    <2> QED BY <1>2, <2>1, <2>2
  <1>8. CASE ClaimBuild(d) \/ FailBuild(d) \/ CancelBuild(d)
    BY <1>4, <1>8 DEF BuildAction, ClaimBuild, FailBuild, CancelBuild, UnsuccessfulBuild
  <1>9. CASE \E to \in {"queued", "building"} : StageWrite(d, to)
    BY <1>4, <1>5, <1>9 DEF BuildAction, StageWrite
  <1> QED BY <1>3, <1>6, <1>7, <1>8, <1>9

(* finalize_ready, perhaps with the request of a review.                   *)
LEMMA FinalizeMayChange ==
    ASSUME IInv, NEW d \in Deployments, FinalizeReady(d)
    PROVE  /\ \A e \in Deployments : MayChange(e)
           /\ rows'[d].build_status = "ready"
  <1> DEFINE row == [rows[d] EXCEPT !.build_status = "ready"]
             built == [rows EXCEPT ![d].build_status = "ready"]
  <1>1. rows \in [Deployments -> Row] /\ rows[d] \in Row
    BY RowFacts
  <1>2. /\ row \in Row /\ row.build_status = "ready"
        /\ Changes(d, row)
    BY <1>1 DEF Row, BuildStatuses, Changes, Developed, BuildAction
  <1>3. built = [rows EXCEPT ![d] = row] /\ built[d] = row
    BY <1>1
  <1>4. \/ rows' = Reconcile(built)
        \/ /\ CanRequestReview(built[d]) /\ Submits(d)
           /\ rows' = Reconcile(RequestReview(built, d))
    BY DEF FinalizeReady, Submits
  <1>5. CASE rows' = Reconcile(built)
    <2> HIDE DEF row
    <2> QED BY <1>2, <1>3, <1>5, RowMayChange
  <1>6. CASE /\ CanRequestReview(built[d]) /\ Submits(d)
             /\ rows' = Reconcile(RequestReview(built, d))
    <2>1. built[d] \in Row /\ built[d].build_status = "ready"
      BY <1>2, <1>3
    <2> QED BY <1>6, <2>1, ReviewMayChange
  <1> QED BY <1>4, <1>5, <1>6

(* complete_serve_ready.                                                   *)
LEMMA ReadyMayChange ==
    ASSUME IInv, NEW d \in Deployments, NEW n \in ServeNodes, ReportServeStatus(n, d, "ready")
    PROVE  \A e \in Deployments : MayChange(e)
  <1> DEFINE row == [rows[d] EXCEPT !.serve_status = "ready", !.was_serve_ready = TRUE]
             served == [rows EXCEPT ![d] = row]
  <1>1. rows \in [Deployments -> Row] /\ rows[d] \in Row
    BY RowFacts
  <1>2. /\ row \in Row /\ Yields(rows[d], row)
        /\ row.pending_release = rows[d].pending_release
        /\ row.approved_review = rows[d].approved_review
        /\ row.build_status = rows[d].build_status
        /\ row.release_status = rows[d].release_status
    BY <1>1 DEF Row, ServeStatuses, Yields
  <1>3. CompleteServeReady(served, d)
    <2>1. served = [rows EXCEPT ![d].serve_status = "ready", ![d].was_serve_ready = TRUE]
      BY <1>1
    <2> QED BY <2>1 DEF ReportServeStatus
  <1> HIDE DEF row
  <1>4. /\ served \in [Deployments -> Row] /\ served[d] = row
        /\ \A e \in Deployments \ {d} : served[e] = rows[e]
    BY <1>1, <1>2
  <1> HIDE DEF served
  <1>5. \A e \in Deployments \ {d} : Yields(served[e], rows'[e]) => MayChange(e)
    BY <1>4 DEF MayChange, Changes
  <1>6. CASE /\ served[d].pending_release /\ CanRelease(served[d], "active")
             /\ rows' = Reconcile([Activate(served, d) EXCEPT ![d].pending_release = FALSE])
    <2>1. /\ \A e \in Deployments \ {d} : Yields(served[e], rows'[e])
          /\ rows'[d].release_status = "active" /\ ~rows'[d].pending_release
          /\ rows'[d].approved_review = served[d].approved_review
          /\ rows'[d].build_status = served[d].build_status
      BY <1>4, <1>6, ActivateRows DEF Activates
    <2>2. Completed(rows[d], rows'[d])
      BY <1>2, <1>4, <1>6, <2>1 DEF Completed, CanRelease, CanTransitionRelease
    <2> QED BY <1>5, <2>1, <2>2 DEF MayChange
  <1>7. CASE /\ review_mode = "auto" /\ CanRelease(served[d], "active")
             /\ ~served[d].pending_release /\ rows' = Reconcile(Activate(served, d))
    <2>1. /\ \A e \in Deployments \ {d} : Yields(served[e], rows'[e])
          /\ rows'[d].release_status = "active" /\ ~rows'[d].pending_release
          /\ rows'[d].approved_review = served[d].approved_review
          /\ rows'[d].build_status = served[d].build_status
      BY <1>4, <1>7, ActivateRows DEF Activates
    <2>2. Completed(rows[d], rows'[d])
      BY <1>2, <1>4, <1>7, <2>1 DEF Completed, CanRelease, CanTransitionRelease
    <2> QED BY <1>5, <2>1, <2>2 DEF MayChange
  <1>8. CASE rows' = Reconcile(served)
    BY <1>2, <1>8, RowMayChange DEF served, Changes
  <1> QED BY <1>3, <1>6, <1>7, <1>8 DEF CompleteServeReady

(* A release is requested of a row that a handler has perhaps approved.    *)
LEMMA ReleaseMayChange ==
    ASSUME IInv, NEW d \in Deployments, rows[d].build_status = "ready",
           NEW row \in Row, row.build_status = "ready", RowInv(row),
           row.release_status = "active" => rows[d].release_status = "active",
           row.pending_release = rows[d].pending_release,
           RequestRelease([rows EXCEPT ![d] = row], d)
    PROVE  /\ \A e \in Deployments \ {d} : MayChange(e)
           /\ Taken(row.release_status, row, rows'[d])
  <1> DEFINE rs == [rows EXCEPT ![d] = row]
  <1>1. TableInv(rs) /\ rs[d] = row
    BY RowFacts, UpdateRow
  <1>2. \A e \in Deployments \ {d} : rs[e] = rows[e]
    BY RowFacts
  <1>3. RequestRelease(rs, d)
    OBVIOUS
  <1> HIDE DEF rs
  <1>4. /\ \A e \in Deployments \ {d} : Yields(rs[e], rows'[e])
        /\ Taken(rs[d].release_status, rs[d], rows'[d])
    BY <1>1, <1>3, RequestReleaseRows
  <1> QED BY <1>1, <1>2, <1>4 DEF MayChange, Changes

(* promote and rollback.                                                   *)
LEMMA ApplyMayChange ==
    ASSUME IInv, NEW r \in Requests, ApplyActivation(r)
    PROVE  \A e \in Deployments : MayChange(e)
  <1> DEFINE d == activations[r].deployment
  <1>1. /\ d \in Deployments /\ rows[d].build_status = "ready"
        /\ activations[r].action \in {"review", "release"}
    BY DEF ApplyActivation, IInv, TypeOK, HandlersInv
  <1>2. CASE activations[r].action = "review"
    <2>1. CanRequestReview(rows[d]) /\ rows' = RequestReview(rows, d)
      BY <1>2 DEF ApplyActivation
    <2>2. rows[d] \in Row /\ AppliedTo(d)
      BY <1>1, RowFacts DEF AppliedTo
    <2> HIDE DEF d
    <2> QED BY <1>1, <2>1, <2>2, ReviewMayChange
  <1>3. CASE activations[r].action = "release"
    <2>1. RequestRelease(rows, d)
      BY <1>3 DEF ApplyActivation
    <2>2. TableInv(rows)
      BY DEF IInv
    <2>3. /\ \A e \in Deployments \ {d} : Yields(rows[e], rows'[e])
          /\ Taken(rows[d].release_status, rows[d], rows'[d])
      BY <1>1, <2>1, <2>2, RequestReleaseRows
    <2>4. Applied(d)
      BY <1>3, <2>3 DEF Applied
    <2> QED BY <2>3, <2>4 DEF MayChange, Changes
  <1> QED BY <1>1, <1>2, <1>3

(* decide.                                                                 *)
LEMMA DecideMayChange ==
    ASSUME IInv, NEW d \in Deployments, ApproveReview(d) \/ RejectReview(d)
    PROVE  \A e \in Deployments : MayChange(e)
  <1> DEFINE count == rows[d].pending_reviews - 1
             approved == [rows[d] EXCEPT !.release_status = "approved", !.pending_reviews = count,
                                         !.approved_review = TRUE]
             rejected == [rows[d] EXCEPT !.release_status = "rejected", !.pending_reviews = count]
  <1>1. rows \in [Deployments -> Row] /\ rows[d] \in Row /\ RowInv(rows[d])
    BY RowFacts
  <1>2. /\ rows[d].build_status = "ready" /\ ~rows[d].pending_release
        /\ count \in 0..MaxReviews
    <2>1. rows[d].pending_reviews \in 0..MaxReviews
      BY <1>1 DEF Row
    <2>2. rows[d].build_status = "ready" /\ rows[d].pending_reviews > 0
      BY DEF ApproveReview, RejectReview, Reviewable, ReachedServe
    <2>3. ~rows[d].pending_release
      BY <1>1 DEF ApproveReview, RejectReview, Reviewable, ReachedServe, RowInv
    <2> QED BY <2>1, <2>2, <2>3, ReviewAssumption
  <1>3. CASE ApproveReview(d)
    <2>1. [rows EXCEPT ![d].release_status = "approved", ![d].pending_reviews = @ - 1,
                       ![d].approved_review = TRUE] = [rows EXCEPT ![d] = approved]
      BY <1>1
    <2>2. RequestRelease([rows EXCEPT ![d] = approved], d)
      BY <1>3, <2>1 DEF ApproveReview
    <2> HIDE DEF count
    <2>3. approved \in Row
      BY <1>1, <1>2 DEF Row, ReleaseStatuses
    <2>4. /\ approved.build_status = "ready" /\ approved.release_status = "approved"
          /\ approved.pending_release = rows[d].pending_release /\ approved.approved_review
          /\ approved.serve_status = rows[d].serve_status
          /\ approved.serve_node = rows[d].serve_node
      BY <1>1, <1>2 DEF Row
    <2> HIDE DEF approved
    <2>5. RowInv(approved)
      BY <1>1, <1>2, <2>3, <2>4, BuiltRow
    <2>6. /\ \A e \in Deployments \ {d} : MayChange(e)
          /\ Taken(approved.release_status, approved, rows'[d])
      BY <1>2, <2>2, <2>3, <2>4, <2>5, ReleaseMayChange
    <2>7. Approved(d)
      BY <1>2, <1>3, <2>4, <2>6 DEF Approved, Taken
    <2> QED BY <2>6, <2>7 DEF MayChange
  <1>4. CASE RejectReview(d)
    <2>1. rows' = [rows EXCEPT ![d] = rejected]
      BY <1>1, <1>4 DEF RejectReview
    <2> HIDE DEF count
    <2>2. rejected \in Row /\ Changes(d, rejected)
      BY <1>1, <1>2 DEF Row, ReleaseStatuses, Lowered, Changes
    <2> HIDE DEF rejected
    <2> QED BY <2>1, <2>2, RowMayChange
  <1> QED BY <1>3, <1>4

(* remove_publication, by a team or by the platform.                       *)
LEMMA RemoveMayChange ==
    ASSUME IInv, NEW d \in Deployments, Unpublish(d) \/ Withdraw(d)
    PROVE  \A e \in Deployments : MayChange(e)
  <1> DEFINE removed(to) == [Retired(rows[d]) EXCEPT !.release_status = to, !.pending_release = FALSE]
  <1>1. rows \in [Deployments -> Row] /\ rows[d] \in Row /\ RowInv(rows[d])
    BY RowFacts
  <1>2. ASSUME NEW to \in {"approved", "draft"}
        PROVE  /\ removed(to) \in Row /\ removed(to).release_status = to
               /\ removed(to).pending_release = FALSE
               /\ removed(to).approved_review = rows[d].approved_review
               /\ removed(to).build_status = rows[d].build_status
    <2>1. removed(to) = [rows[d] EXCEPT !.serve_status = "retired", !.serve_node = NoNode,
                                        !.release_status = to, !.pending_release = FALSE]
      BY DEF Retired
    <2> QED BY <1>1, <2>1 DEF Row, ServeStatuses, ReleaseStatuses
  <1>3. /\ Unpublish(d) => rows' = Reconcile([rows EXCEPT ![d] = removed("approved")])
        /\ Withdraw(d) => rows' = Reconcile([rows EXCEPT ![d] = removed("draft")])
    BY <1>1 DEF Unpublish, Withdraw, RemovePublication
  <1> HIDE DEF removed
  <1>4. CASE Unpublish(d)
    <2> DEFINE row == removed("approved")
    <2>1. /\ row \in Row /\ row.release_status = "approved" /\ row.pending_release = FALSE
          /\ row.approved_review = rows[d].approved_review
          /\ row.build_status = rows[d].build_status
      BY <1>2
    <2>2. rows' = Reconcile([rows EXCEPT ![d] = row])
      BY <1>3, <1>4
    <2> HIDE DEF row
    <2>3. Replaces(rows, d, row, rows')
      BY <1>1, <2>1, <2>2, ReplacedRow
    <2>4. rows[d].pending_release => rows[d].release_status = "active"
      BY <1>1, <1>4 DEF Unpublish, RemovePublication, CanRelease, ReleaseReadiness, RowInv
    <2>5. Unpublished(d)
      BY <1>4, <2>1, <2>3, <2>4 DEF Replaces, Unpublished
    <2> QED BY <2>3, <2>5 DEF Replaces, MayChange, Changes
  <1>5. CASE Withdraw(d)
    <2>1. rows[d].release_status = "active"
      BY <1>5 DEF Withdraw, RemovePublication, CanRelease, CanTransitionRelease
    <2>2. removed("draft") \in Row /\ Changes(d, removed("draft"))
      BY <1>2, <2>1 DEF Lowered, Changes
    <2> QED BY <1>3, <1>5, <2>2, RowMayChange
  <1> QED BY <1>4, <1>5

(* republish.                                                              *)
LEMMA RepublishMayChange ==
    ASSUME IInv, NEW d \in Deployments, Republish(d)
    PROVE  \A e \in Deployments : MayChange(e)
  <1>1. /\ rows \in [Deployments -> Row] /\ rows[d] \in Row /\ RowInv(rows[d])
        /\ TableInv(rows) /\ rows[d].build_status = "ready" /\ ~rows[d].pending_release
    BY RowFacts DEF Republish, ReachedServe, RowInv
  <1>2. CASE /\ RequestRelease(rows, d)
             /\ rows[d].release_status \in {"draft", "approved"}
             /\ rows[d].release_status = "approved" \/ review_mode = "auto"
    <2>1. /\ \A e \in Deployments \ {d} : Yields(rows[e], rows'[e])
          /\ Taken(rows[d].release_status, rows[d], rows'[d])
      BY <1>1, <1>2, RequestReleaseRows
    <2>2. Republished(d)
      BY <1>2, <2>1 DEF Republished
    <2> QED BY <2>1, <2>2 DEF MayChange, Changes
  <1>3. CASE /\ review_mode = "auto"
             /\ RequestRelease([rows EXCEPT ![d].release_status = "approved"], d)
    <2> DEFINE row == [rows[d] EXCEPT !.release_status = "approved"]
    <2>1. RequestRelease([rows EXCEPT ![d] = row], d)
      <3>1. [rows EXCEPT ![d].release_status = "approved"] = [rows EXCEPT ![d] = row]
        BY <1>1
      <3> HIDE DEF row
      <3> QED BY <1>3, <3>1
    <2>2. row \in Row
      BY <1>1 DEF Row, ReleaseStatuses
    <2>3. /\ row.build_status = "ready" /\ row.release_status = "approved"
          /\ row.pending_release = rows[d].pending_release
          /\ row.approved_review = rows[d].approved_review
          /\ row.serve_status = rows[d].serve_status /\ row.serve_node = rows[d].serve_node
      BY <1>1 DEF Row
    <2> HIDE DEF row
    <2>4. RowInv(row)
      BY <1>1, <2>2, <2>3, BuiltRow
    <2>5. /\ \A e \in Deployments \ {d} : MayChange(e)
          /\ Taken(row.release_status, row, rows'[d])
      BY <1>1, <2>1, <2>2, <2>3, <2>4, ReleaseMayChange
    <2>6. Republished(d)
      BY <1>1, <1>3, <2>3, <2>5 DEF Republished, Taken
    <2> QED BY <2>5, <2>6 DEF MayChange
  <1>4. CASE CanRequestReview(rows[d]) /\ rows' = RequestReview(rows, d)
    BY <1>1, <1>4, ReviewMayChange
  <1> QED BY <1>2, <1>3, <1>4 DEF Republish

(* Every step does one of the named things to each deployment.             *)
LEMMA StepMayChange ==
    ASSUME IInv, [Next]_vars
    PROVE  \A e \in Deployments : MayChange(e)
  <1> DEFINE allowed == \A e \in Deployments : MayChange(e)
  <1>1. CASE UNCHANGED rows
    BY <1>1 DEF MayChange, Changes, Yields
  <1>2. ASSUME NEW d \in Deployments,
               \/ \E n \in ServeNodes : CreateDeployment(d, n)
               \/ ClaimBuild(d)
               \/ \E to \in {"queued", "building"} : StageWrite(d, to)
               \/ UploadStaticSite(d)
               \/ \E n \in ServeNodes, to \in {"syncing", "failed"} : ReportServeStatus(n, d, to)
        PROVE  allowed
    BY <1>2, BuildMayChange
  <1>3. ASSUME NEW d \in Deployments, FailBuild(d) \/ CancelBuild(d)
        PROVE  allowed
    BY <1>3, BuildMayChange
  <1>4. ASSUME NEW d \in Deployments,
               \/ FinalizeReady(d) \/ ApproveReview(d) \/ RejectReview(d)
               \/ Unpublish(d) \/ Withdraw(d) \/ Republish(d)
        PROVE  allowed
    BY <1>4, FinalizeMayChange, DecideMayChange, RemoveMayChange, RepublishMayChange
  <1>5. ASSUME NEW d \in Deployments, NEW n \in ServeNodes, ReportServeStatus(n, d, "ready")
        PROVE  allowed
    BY <1>5, ReadyMayChange
  <1>6. ASSUME NEW r \in Requests, ApplyActivation(r)
        PROVE  allowed
    BY <1>6, ApplyMayChange
  <1>7. ASSUME \/ \E r \in Requests : \/ AbandonActivation(r)
                                      \/ \E d \in Deployments : LoadForActivation(r, d)
               \/ \E d \in Deployments : StageRead(d)
               \/ \E m \in ReviewModes : SetReviewMode(m)
               \/ UNCHANGED vars
        PROVE  allowed
    <2>1. UNCHANGED rows
      BY <1>7 DEF AbandonActivation, LoadForActivation, StageRead, SetReviewMode, vars
    <2> QED BY <1>1, <2>1
  <1> HIDE DEF allowed
  <1>8. allowed
    BY <1>2, <1>3, <1>4, <1>5, <1>6, <1>7 DEF Next
  <1> QED BY <1>8 DEF allowed

-------------------------------------------------------------------------------
(* The releases that can no longer be completed.                           *)

(* For any deployments, requests and policy: a queued release becomes one  *)
(* that the machine refuses only through a Ready report under manual review*)
(* or a promote or rollback applied to the row that waits.                 *)
THEOREM RefusalsAreStaleHolds == Spec => RefusalsAreStale
  <1> DEFINE Stale(d) ==
                 ~Refused(d) /\ Refused(d)' =>
                     \/ FinalizeReady(d) /\ review_mode = "manual"
                     \/ \E r \in Requests : ApplyActivation(r) /\ activations[r].deployment = d
  <1>1. IInv /\ [Next]_vars => [\A d \in Deployments : Stale(d)]_vars
    <2> SUFFICES ASSUME IInv, [Next]_vars, NEW d \in Deployments, ~Refused(d), Refused(d)'
                 PROVE  Submits(d) \/ AppliedTo(d)
      BY DEF Submits, AppliedTo
    <2>1. MayChange(d)
      BY StepMayChange
    <2>2. /\ rows'[d].pending_release /\ rows'[d].release_status \notin {"draft", "approved"}
          /\ ~rows[d].pending_release \/ rows[d].release_status \in {"draft", "approved"}
      BY DEF Refused
    <2>3. CASE Changes(d, rows'[d])
      BY <2>2, <2>3 DEF Changes, Yields, Lowered, Developed
    <2>4. CASE Republished(d) \/ Approved(d) \/ Unpublished(d) \/ Completed(rows[d], rows'[d])
      BY <2>2, <2>4 DEF Republished, Taken, Approved, Unpublished, Completed
    <2>5. CASE Applied(d)
      BY <2>5 DEF Applied, AppliedTo
    <2> QED BY <2>1, <2>3, <2>4, <2>5 DEF MayChange
  <1> QED BY <1>1, Invariance, PTL DEF Spec, RefusalsAreStale

(* For any deployments, requests and policy: once refused, the release of a*)
(* target that is not active stays queued and refused for ever, and with it*)
(* the environment closed to other releases.                               *)
THEOREM RefusedForGoodHolds == Spec => RefusedForGood
  <1> DEFINE Lost(d) == Refused(d) /\ ~Active(d) => Refused(d)' /\ ~Active(d)'
  <1>1. IInv /\ [Next]_vars => [\A d \in Deployments : Lost(d)]_vars
    <2> SUFFICES ASSUME IInv, [Next]_vars, NEW d \in Deployments, Refused(d), ~Active(d)
                 PROVE  Refused(d)' /\ ~Active(d)'
      OBVIOUS
    <2>1. MayChange(d)
      BY StepMayChange
    <2>2. /\ rows[d].pending_release
          /\ rows[d].release_status \notin {"draft", "approved", "active"}
      BY DEF Refused, Active
    <2>3. Changes(d, rows'[d])
      BY <2>1, <2>2 DEF MayChange, Completed, Approved, Republished, Unpublished, Applied, Taken
    <2>4. /\ rows'[d].pending_release
          /\ rows'[d].release_status \notin {"draft", "approved", "active"}
      BY <2>2, <2>3 DEF Changes, Yields, Lowered, Developed, Sent
    <2> QED BY <2>4 DEF Refused, Active
  <1> QED BY <1>1, Invariance, PTL DEF Spec, RefusedForGood

-------------------------------------------------------------------------------
(* What the divergences depend on.                                         *)

(* delivery/tests.rs:817 "release request rejects a stale already active   *)
(* target" holds of every run in which no promotion or rollback that loaded*)
(* its target earlier is applied to the active deployment: no decision,    *)
(* republication or report queues a release of it.                         *)
THEOREM ActiveNeverQueuedBarring ==
    Spec /\ [][ \A r \in Requests : ApplyActivation(r) => ~Active(activations[r].deployment) ]_vars
    => []ActiveNeverQueued
  <1> DEFINE Fresh == \A r \in Requests : ApplyActivation(r) => ~Active(activations[r].deployment)
  <1>1. Init => ActiveNeverQueued
    BY DEF Init, Absent, ActiveNeverQueued, Active
  <1>2. IInv /\ ActiveNeverQueued /\ [Next]_vars /\ [Fresh]_vars => ActiveNeverQueued'
    <2> SUFFICES ASSUME IInv, ActiveNeverQueued, [Next]_vars, [Fresh]_vars, NEW d \in Deployments
                 PROVE  ~(rows'[d].release_status = "active" /\ rows'[d].pending_release)
      BY DEF ActiveNeverQueued, Active
    <2>1. ~(rows[d].release_status = "active" /\ rows[d].pending_release)
      BY DEF ActiveNeverQueued, Active
    <2>2. MayChange(d)
      BY StepMayChange
    <2>3. CASE Applied(d)
      <3>1. CASE UNCHANGED vars
        BY <2>1, <3>1 DEF vars
      <3>2. CASE Fresh
        BY <2>3, <3>2 DEF Applied, Taken, Active
      <3> QED BY <3>1, <3>2
    <2>4. CASE ~Applied(d)
      BY <2>1, <2>2, <2>4 DEF MayChange, Changes, Yields, Lowered, Developed, Sent, Completed,
            Approved, Republished, Unpublished, Taken
    <2> QED BY <2>3, <2>4
  <1> QED BY <1>1, <1>2, Invariance, PTL DEF Spec

(* What manual review relies on: what is or may become active was approved.*)
ReviewedInv ==
    /\ \A d \in Deployments :
          rows[d].release_status \in {"approved", "active"} \/ rows[d].pending_release
          => rows[d].approved_review
    /\ \A r \in Requests :
          activations[r] # Idle /\ activations[r].action = "release"
          => rows[activations[r].deployment].approved_review

(* deployments.rs:821 "Activation requires an approved review" holds, where*)
(* manual review has always been the policy, of every run in which no team *)
(* unpublishes what was never published: nothing else approves without a   *)
(* review, and no promotion outlives the approval it relies on.            *)
THEOREM ManualActivationReviewedBarring ==
    Spec /\ [][ \A d \in Deployments : Unpublish(d) => Active(d) ]_vars
    => []ManualActivationReviewed
  <1> DEFINE Proper == \A d \in Deployments : Unpublish(d) => Active(d)
             Reviewed == ReviewModes = {"manual"} => ReviewedInv
  <1>1. Init => Reviewed
    BY DEF Init, Absent, Idle, ReviewedInv
  <1>2. IInv /\ IInv' /\ Reviewed /\ [Next]_vars /\ [Proper]_vars => Reviewed'
    <2> SUFFICES ASSUME IInv, IInv', ReviewModes = {"manual"}, ReviewedInv, [Next]_vars, [Proper]_vars
                 PROVE  ReviewedInv'
      OBVIOUS
    <2>1. review_mode = "manual"
      BY DEF IInv, TypeOK
    <2>2. ASSUME NEW d \in Deployments
          PROVE  /\ rows'[d].release_status \in {"approved", "active"} \/ rows'[d].pending_release
                    => rows'[d].approved_review
                 /\ rows[d].approved_review => rows'[d].approved_review
      <3>1. rows[d].release_status \in {"approved", "active"} \/ rows[d].pending_release
            => rows[d].approved_review
        BY DEF ReviewedInv
      <3>2. MayChange(d)
        BY StepMayChange
      <3>3. CASE Applied(d)
        <4>1. rows[d].approved_review
          BY <3>3 DEF Applied, ApplyActivation, ReviewedInv
        <4> QED BY <3>3, <4>1 DEF Applied, Taken
      <3>4. CASE Unpublished(d)
        <4>1. CASE UNCHANGED vars
          BY <3>1, <4>1 DEF vars
        <4>2. CASE Proper
          BY <3>1, <3>4, <4>2 DEF Unpublished, Active
        <4> QED BY <4>1, <4>2
      <3>5. CASE ~Applied(d) /\ ~Unpublished(d)
        BY <2>1, <3>1, <3>2, <3>5
           DEF MayChange, Changes, Yields, Lowered, Developed, Sent, Completed, Approved,
              Republished, Taken
      <3> QED BY <3>3, <3>4, <3>5
    <2>3. ASSUME NEW r \in Requests, activations'[r] # Idle, activations'[r].action = "release"
          PROVE  rows'[activations'[r].deployment].approved_review
      <3>1. activations'[r].deployment \in Deployments
        BY <2>3 DEF IInv, TypeOK
      <3>2. CASE activations'[r] = activations[r]
        BY <2>2, <2>3, <3>1, <3>2 DEF ReviewedInv
      <3>3. CASE activations'[r] # activations[r]
        <4>1. PICK d \in Deployments : LoadForActivation(r, d)
          <5>1. \A q \in Requests : ApplyActivation(q) \/ AbandonActivation(q) =>
                    activations'[r] \in {activations[r], Idle}
            BY DEF ApplyActivation, AbandonActivation, IInv, TypeOK
          <5>2. \A q \in Requests, d \in Deployments :
                    LoadForActivation(q, d) /\ q # r => activations'[r] = activations[r]
            BY DEF LoadForActivation, IInv, TypeOK
          <5>3. \/ \E q \in Requests : ApplyActivation(q) \/ AbandonActivation(q)
                \/ \E q \in Requests, d \in Deployments : LoadForActivation(q, d)
                \/ activations' = activations
            BY
               DEF Next, vars, CreateDeployment, ClaimBuild, StageRead, StageWrite, UploadStaticSite,
                  FinalizeReady, FailBuild, CancelBuild, UnsuccessfulBuild, ReportServeStatus,
                  ApproveReview, RejectReview, Unpublish, Withdraw, RemovePublication, Republish,
                  SetReviewMode
          <5> QED BY <2>3, <3>3, <5>1, <5>2, <5>3
        <4>2. activations'[r].deployment = d /\ rows[d].release_status = "approved"
          BY <2>1, <2>3, <4>1 DEF LoadForActivation, IInv, TypeOK
        <4>3. rows[d].approved_review
          BY <4>2 DEF ReviewedInv
        <4> QED BY <2>2, <4>2, <4>3
      <3> QED BY <3>2, <3>3
    <2> QED BY <2>2, <2>3 DEF ReviewedInv
  <1>3. Reviewed => ManualActivationReviewed
    BY DEF ReviewedInv, ManualActivationReviewed, Active
  <1> QED BY <1>1, <1>2, <1>3, Invariance, PTL DEF Spec

-------------------------------------------------------------------------------
(* The build machine.                                                      *)

(* What a running stage request read is still so, unless a cancellation    *)
(* came in between.                                                        *)
SnapshotInv ==
    \A d \in Deployments :
        stage_snapshot[d] # "none" => rows[d].build_status \in {stage_snapshot[d], "canceled"}

(* A build moves along its machine, or a late report revives a canceled one*)
BuildMoves(d) ==
    \/ rows'[d].build_status = rows[d].build_status
    \/ rows[d].build_status = "absent" /\ rows'[d].build_status = "pending"
    \/ CanTransitionBuild(rows[d].build_status, rows'[d].build_status)
    \/ /\ rows[d].build_status = "canceled"
       /\ stage_snapshot[d] \in {"claimed", "queued", "building"}
       /\ \E to \in {"queued", "building"} : StageWrite(d, to)

(* The status a build action writes is the one the row ends up with.       *)
LEMMA BuildOfRow ==
    ASSUME IInv, NEW d \in Deployments, NEW to \in BuildStatuses,
           \/ rows' = [rows EXCEPT ![d].build_status = to]
           \/ rows' = Reconcile([rows EXCEPT ![d].build_status = to])
    PROVE  rows'[d].build_status = to
  <1> DEFINE row == [rows[d] EXCEPT !.build_status = to]
             rs == [rows EXCEPT ![d] = row]
  <1>1. rows \in [Deployments -> Row] /\ rows[d] \in Row
    BY RowFacts
  <1>2. row \in Row /\ row.build_status = to
    BY <1>1 DEF Row
  <1>3. [rows EXCEPT ![d].build_status = to] = rs
    BY <1>1
  <1> HIDE DEF row
  <1>4. rs \in [Deployments -> Row] /\ rs[d].build_status = to
    BY <1>1, <1>2
  <1>5. rows' = rs \/ rows' = Reconcile(rs)
    BY <1>3
  <1> HIDE DEF rs
  <1> QED BY <1>4, <1>5, ReconcileBuild

(* The transitions of the machine, and the report that was read too early. *)
LEMMA BuildActionMoves ==
    ASSUME IInv, SnapshotInv, NEW d \in Deployments, BuildAction(d)
    PROVE  BuildMoves(d)
  <1>1. rows \in [Deployments -> Row] /\ rows[d] \in Row
    BY RowFacts
  <1>2. ASSUME NEW n \in ServeNodes, CreateDeployment(d, n)
        PROVE  BuildMoves(d)
    <2>1. d \notin Existing(rows)
      BY <1>2, DeploymentsAssumption DEF CreateDeployment
    <2>2. rows[d].build_status = "absent"
      BY <2>1 DEF Existing
    <2>3. rows'[d].build_status = "pending"
      BY <1>1, <1>2 DEF CreateDeployment, Row
    <2> QED BY <2>2, <2>3 DEF BuildMoves
  <1>3. CASE ClaimBuild(d)
    <2>1. rows'[d].build_status = "claimed"
      BY <1>3, BuildOfRow DEF ClaimBuild, BuildStatuses
    <2> QED BY <1>3, <2>1 DEF ClaimBuild, BuildMoves, CanTransitionBuild
  <1>4. ASSUME NEW to \in {"queued", "building"}, StageWrite(d, to)
        PROVE  BuildMoves(d)
    <2>1. stage_snapshot[d] \in {"claimed", "queued", "building"}
      BY <1>4 DEF StageWrite, IInv, TypeOK
    <2>2. CASE rows[d].build_status = "canceled"
      BY <1>4, <2>1, <2>2 DEF BuildMoves
    <2>3. CASE rows[d].build_status = stage_snapshot[d]
      <3>1. CASE rows' = rows
        BY <3>1 DEF BuildMoves
      <3>2. CASE /\ CanTransitionBuild(stage_snapshot[d], to)
                 /\ rows' = [rows EXCEPT ![d].build_status = to]
        <4>1. rows'[d].build_status = to
          BY <3>2, BuildOfRow DEF BuildStatuses
        <4> QED BY <2>3, <3>2, <4>1 DEF BuildMoves
      <3> QED BY <1>4, <3>1, <3>2 DEF StageWrite
    <2> QED BY <2>1, <2>2, <2>3 DEF SnapshotInv
  <1>5. CASE FinalizeReady(d)
    <2>1. rows'[d].build_status = "ready"
      BY <1>5, FinalizeMayChange
    <2> QED BY <1>5, <2>1 DEF FinalizeReady, BuildMoves, CanTransitionBuild
  <1>6. ASSUME NEW to \in {"failed", "canceled"}, UnsuccessfulBuild(d, to)
        PROVE  BuildMoves(d)
    <2>1. rows'[d].build_status = to
      BY <1>6, BuildOfRow DEF UnsuccessfulBuild, BuildStatuses
    <2> QED BY <1>6, <2>1 DEF UnsuccessfulBuild, BuildMoves
  <1> QED BY <1>2, <1>3, <1>4, <1>5, <1>6 DEF BuildAction, FailBuild, CancelBuild

(* Nothing else moves a build.                                             *)
LEMMA StepBuild ==
    ASSUME IInv, SnapshotInv, [Next]_vars, NEW d \in Deployments
    PROVE  /\ BuildMoves(d)
           /\ rows'[d].build_status = rows[d].build_status \/ BuildAction(d)
  <1>1. MayChange(d)
    BY StepMayChange
  <1>2. rows'[d].build_status = rows[d].build_status \/ BuildAction(d)
    BY <1>1
       DEF MayChange, Changes, Yields, Lowered, Developed, Sent, Completed, Approved,
          Republished, Unpublished, Applied, Taken
  <1> QED BY <1>2, BuildActionMoves DEF BuildMoves

(* A stage request keeps what it read; a build it reads is running.        *)
LEMMA SnapshotStep ==
    ASSUME IInv, SnapshotInv, [Next]_vars
    PROVE  SnapshotInv'
  <1> SUFFICES ASSUME NEW d \in Deployments, stage_snapshot'[d] # "none"
               PROVE  rows'[d].build_status \in {stage_snapshot'[d], "canceled"}
    BY DEF SnapshotInv
  <1>1. \/ stage_snapshot'[d] = stage_snapshot[d]
        \/ StageRead(d)
    <2>1. \A e \in Deployments :
              /\ StageRead(e) /\ e # d => stage_snapshot'[d] = stage_snapshot[d]
              /\ \A to \in {"queued", "building"} :
                     StageWrite(e, to) => stage_snapshot'[d] \in {"none", stage_snapshot[d]}
      BY DEF StageRead, StageWrite, IInv, TypeOK
    <2>2. \/ stage_snapshot' = stage_snapshot
          \/ \E e \in Deployments : \/ StageRead(e)
                                    \/ \E to \in {"queued", "building"} : StageWrite(e, to)
      BY DEF Next, vars, CreateDeployment, ClaimBuild, UploadStaticSite,
            FinalizeReady, FailBuild, CancelBuild, UnsuccessfulBuild, ReportServeStatus,
            LoadForActivation, ApplyActivation, AbandonActivation,
            ApproveReview, RejectReview, Unpublish, Withdraw, RemovePublication, Republish,
            SetReviewMode
    <2> QED BY <2>1, <2>2
  <1>2. CASE StageRead(d)
    BY <1>2 DEF StageRead, IInv, TypeOK
  <1>3. CASE stage_snapshot'[d] = stage_snapshot[d]
    <2>1. /\ rows[d].build_status \in {stage_snapshot[d], "canceled"}
          /\ stage_snapshot[d] \in {"claimed", "queued", "building"}
      BY <1>3 DEF SnapshotInv, IInv, TypeOK
    <2>2. CASE rows'[d].build_status = rows[d].build_status
      BY <1>3, <2>1, <2>2
    <2>3. CASE BuildAction(d)
      <3>1. ~StageWrite(d, "queued") /\ ~StageWrite(d, "building")
        BY <1>3, <2>1 DEF StageWrite, IInv, TypeOK
      <3>2. ~FinalizeReady(d) /\ ~FailBuild(d) /\ ~ClaimBuild(d)
        BY <2>1 DEF FinalizeReady, FailBuild, BuildNodeFree, ClaimBuild
      <3>3. ASSUME NEW n \in ServeNodes
            PROVE  ~CreateDeployment(d, n)
        <4>1. d \in Existing(rows)
          BY <2>1 DEF Existing
        <4> QED BY <4>1, DeploymentsAssumption DEF CreateDeployment
      <3>4. CancelBuild(d)
        BY <2>3, <3>1, <3>2, <3>3 DEF BuildAction
      <3>5. rows'[d].build_status = "canceled"
        BY <3>4, BuildOfRow DEF CancelBuild, UnsuccessfulBuild, BuildStatuses
      <3> QED BY <3>5
    <2> QED BY <2>2, <2>3, StepBuild
  <1> QED BY <1>1, <1>2, <1>3

(* The build machine (CanTransitionBuild) holds in every step, though a    *)
(* report is validated against a row read earlier: but for the reports that*)
(* revive a canceled build, each changes a status as the machine allows.   *)
(* So what is ready or failed stays so.                                    *)
THEOREM BuildFollowsMachine == Spec => [][\A d \in Deployments : BuildMoves(d)]_vars
  <1>1. Init => SnapshotInv
    BY DEF Init, SnapshotInv
  <1>2. IInv /\ SnapshotInv /\ [Next]_vars => SnapshotInv'
    BY SnapshotStep
  <1>3. IInv /\ SnapshotInv /\ [Next]_vars => [\A d \in Deployments : BuildMoves(d)]_vars
    BY StepBuild
  <1> QED BY <1>1, <1>2, <1>3, Invariance, PTL DEF Spec

(* stage.rs:105 "A user cancel wins over any progress report" holds of     *)
(* every run in which a report is written over the status it was validated *)
(* against, which a transaction that reads the row again would ensure.     *)
THEOREM CanceledIsFinalBarring ==
    Spec /\ [][ \A d \in Deployments, to \in {"queued", "building"} :
                    StageWrite(d, to) => rows[d].build_status = stage_snapshot[d] ]_vars
    => CanceledIsFinal
  <1> DEFINE Current == \A d \in Deployments, to \in {"queued", "building"} :
                            StageWrite(d, to) => rows[d].build_status = stage_snapshot[d]
             Final == \A d \in Deployments :
                          rows[d].build_status = "canceled" => rows'[d].build_status = "canceled"
  <1>1. [\A d \in Deployments : BuildMoves(d)]_vars /\ [Current]_vars => [Final]_vars
    <2> SUFFICES ASSUME \A d \in Deployments : BuildMoves(d), Current,
                        NEW d \in Deployments, rows[d].build_status = "canceled"
                 PROVE  rows'[d].build_status = "canceled"
      OBVIOUS
    <2>1. BuildMoves(d)
      OBVIOUS
    <2>2. ~(/\ stage_snapshot[d] \in {"claimed", "queued", "building"}
            /\ \E to \in {"queued", "building"} : StageWrite(d, to))
      OBVIOUS
    <2> QED BY <2>1, <2>2 DEF BuildMoves, CanTransitionBuild
  <1> QED BY <1>1, BuildFollowsMachine, PTL DEF CanceledIsFinal
===============================================================================
