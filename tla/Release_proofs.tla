----------------------------- MODULE Release_proofs -----------------------------
(***************************************************************************)
(* The production environment of Delivery implements Release, for every    *)
(* number of deployments, nodes and requests: the first state of the table *)
(* maps to the first state of Release, and every step of a handler to a    *)
(* step of Release or to none.                                             *)
(*                                                                         *)
(* The state of Release is read off three sets of a table.  What a handler *)
(* does to a table is first said of those sets, and then read as a step of *)
(* Release.                                                                *)
(*                                                                         *)
(* The last part is about both kinds of environment: what is served is     *)
(* what desired_delivery_ids wants, whichever handler came last.           *)
(***************************************************************************)
EXTENDS Delivery_proofs

ActiveIn(rs) == {d \in Deployments : rs[d].release_status = "active"}
QueuedIn(rs) == {d \in Deployments : rs[d].pending_release}
ServedIn(rs) == {d \in Deployments : Served(rs[d])}

(* Nothing is published, queued or newly served, and what is active stays. *)
Quiet(rs, t) ==
    /\ ActiveIn(t) = ActiveIn(rs)
    /\ QueuedIn(t) = QueuedIn(rs)
    /\ ServedIn(t) \subseteq ServedIn(rs)
    /\ ActiveIn(rs) \cap ServedIn(rs) \subseteq ServedIn(t)

Publishes(rs, t, d) ==
    /\ ActiveIn(t) = {d}
    /\ QueuedIn(t) = QueuedIn(rs) \ {d}
    /\ d \in ServedIn(t)
    /\ ServedIn(t) \subseteq ServedIn(rs) \cup {d}

Queues(rs, t, d) ==
    /\ QueuedIn(rs) = {} /\ QueuedIn(t) = {d}
    /\ d \notin ServedIn(rs)
    /\ ActiveIn(t) = ActiveIn(rs)
    /\ ServedIn(t) \subseteq ServedIn(rs)
    /\ ActiveIn(rs) \cap ServedIn(rs) \subseteq ServedIn(t)

Serves(rs, t, d) ==
    /\ ActiveIn(t) = ActiveIn(rs)
    /\ QueuedIn(t) = QueuedIn(rs) /\ d \notin QueuedIn(rs)
    /\ d \in ServedIn(t)
    /\ ServedIn(t) \subseteq ServedIn(rs) \cup {d}
    /\ ActiveIn(rs) \cap ServedIn(rs) \subseteq ServedIn(t)

Resyncs(rs, t, d) ==
    /\ ActiveIn(t) = ActiveIn(rs)
    /\ QueuedIn(t) = QueuedIn(rs)
    /\ ServedIn(t) = ServedIn(rs) \ {d}

Removes(rs, t, d) ==
    /\ ActiveIn(t) = ActiveIn(rs) \ {d}
    /\ QueuedIn(t) = QueuedIn(rs) \ {d}
    /\ ServedIn(t) \subseteq ServedIn(rs) \ {d}
    /\ d \notin ActiveIn(rs) => ActiveIn(rs) \cap ServedIn(rs) \subseteq ServedIn(t)

(* What keeps the environment answering, and what an action may do to it.  *)
Keeps(rs, t, d) == Quiet(rs, t) \/ Publishes(rs, t, d) \/ Queues(rs, t, d) \/ Serves(rs, t, d)

Resynced(d) ==
    /\ \E to \in {"syncing", "failed"} : ReportServeStatus(rows[d].serve_node, d, to)
    /\ Resyncs(rows, rows', d)

Removed(d) == (Unpublish(d) \/ Withdraw(d)) /\ Removes(rows, rows', d)

-------------------------------------------------------------------------------
(* The one member of a set of deployments, when it has one.                *)
LEMMA TheOnly ==
    ASSUME NEW S \in SUBSET Deployments, \A d, e \in S : d = e
    PROVE  /\ NoVersion \notin Deployments
           /\ The(S) = NoVersion => S = {}
           /\ \A d \in Deployments : The(S) = d <=> S = {d}
           /\ S = {} => The(S) = NoVersion
  <1>1. NoVersion \notin Deployments
    BY DeploymentsAssumption DEF NoVersion
  <1>2. CASE S = {}
    BY <1>1, <1>2 DEF The
  <1>3. CASE S # {}
    <2>1. PICK e \in S : S = {e}
      BY <1>3
    <2>2. The(S) = e
      BY <2>1 DEF The
    <2> QED BY <1>1, <2>1, <2>2
  <1> QED BY <1>2, <1>3

(* A step of the sets is a step of Release.                                *)
LEMMA StepMaps ==
    ASSUME TableInv(rows), TableInv(rows'), NEW d \in Deployments,
           Keeps(rows, rows', d) \/ Resyncs(rows, rows', d) \/ Removes(rows, rows', d)
    PROVE  [Published!Next]_(Published!vars)
  <1> DEFINE A == ActiveIn(rows)   At == ActiveIn(rows')
             Q == QueuedIn(rows)   Qt == QueuedIn(rows')
             S == ServedIn(rows)   St == ServedIn(rows')
  <1>1. /\ {e \in Deployments : Active(e)} = A
        /\ {e \in Deployments : Active(e)}' = At
        /\ {e \in Deployments : rows[e].pending_release} = Q
        /\ {e \in Deployments : rows[e].pending_release}' = Qt
        /\ {e \in Deployments : Served(rows[e])} = S
        /\ {e \in Deployments : Served(rows[e])}' = St
    BY DEF Active, ActiveIn, QueuedIn, ServedIn, Served
  <1>2. /\ A \in SUBSET Deployments /\ \A e, f \in A : e = f
        /\ At \in SUBSET Deployments /\ \A e, f \in At : e = f
        /\ Q \in SUBSET Deployments /\ \A e, f \in Q : e = f
        /\ Qt \in SUBSET Deployments /\ \A e, f \in Qt : e = f
        /\ S \in SUBSET Deployments /\ St \in SUBSET Deployments
    BY DEF TableInv, ActiveIn, QueuedIn, ServedIn
  <1> HIDE DEF A, At, Q, Qt, S, St
  <1>3. /\ NoVersion \notin Deployments
        /\ \A e \in Deployments : /\ The(A) = e <=> A = {e}
                                  /\ The(At) = e <=> At = {e}
                                  /\ The(Q) = e <=> Q = {e}
                                  /\ The(Qt) = e <=> Qt = {e}
        /\ The(A) = NoVersion <=> A = {}
        /\ The(At) = NoVersion <=> At = {}
        /\ The(Q) = NoVersion <=> Q = {}
        /\ The(Qt) = NoVersion <=> Qt = {}
    BY <1>2, TheOnly
  <1>4. (The(A) \in S => The(A) \in St) <=> A \cap S \subseteq St
    BY <1>2, <1>3
  <1>5. CASE Quiet(rows, rows')
    <2>1. At = A /\ Qt = Q /\ St \subseteq S /\ A \cap S \subseteq St
      BY <1>5 DEF Quiet, A, At, Q, Qt, S, St
    <2>2. Published!Retire
      BY <1>1, <1>4, <2>1 DEF Published!Retire, Published!KeepActive
    <2> QED BY <2>2 DEF Published!Next
  <1>6. CASE Publishes(rows, rows', d)
    <2>1. At = {d} /\ Qt = Q \ {d} /\ d \in St /\ St \subseteq S \cup {d}
      BY <1>6 DEF Publishes, A, At, Q, Qt, S, St
    <2>2. The(Qt) = IF The(Q) = d THEN NoVersion ELSE The(Q)
      <3>1. CASE Q = {d}
        BY <1>3, <2>1, <3>1
      <3>2. CASE Q # {d}
        BY <1>2, <1>3, <2>1, <3>2
      <3> QED BY <3>1, <3>2
    <2>3. Published!Publish(d)
      BY <1>1, <1>3, <2>1, <2>2 DEF Published!Publish
    <2> QED BY <2>3 DEF Published!Next
  <1>7. CASE Queues(rows, rows', d)
    <2>1. Q = {} /\ Qt = {d} /\ d \notin S /\ At = A /\ St \subseteq S /\ A \cap S \subseteq St
      BY <1>7 DEF Queues, A, At, Q, Qt, S, St
    <2>2. Published!Queue(d)
      BY <1>1, <1>3, <1>4, <2>1 DEF Published!Queue, Published!KeepActive
    <2> QED BY <2>2 DEF Published!Next
  <1>8. CASE Serves(rows, rows', d)
    <2>1. At = A /\ Qt = Q /\ d \notin Q /\ d \in St /\ St \subseteq S \cup {d} /\ A \cap S \subseteq St
      BY <1>8 DEF Serves, A, At, Q, Qt, S, St
    <2>2. Published!Serve(d)
      BY <1>1, <1>3, <1>4, <2>1 DEF Published!Serve, Published!KeepActive
    <2> QED BY <2>2 DEF Published!Next
  <1>9. CASE Resyncs(rows, rows', d)
    <2>1. At = A /\ Qt = Q /\ St = S \ {d}
      BY <1>9 DEF Resyncs, A, At, Q, Qt, S, St
    <2>2. Published!Resync(d)
      BY <1>1, <2>1 DEF Published!Resync
    <2> QED BY <2>2 DEF Published!Next
  <1>10. CASE Removes(rows, rows', d)
    <2>1. /\ At = A \ {d} /\ Qt = Q \ {d} /\ St \subseteq S \ {d}
          /\ d \notin A => A \cap S \subseteq St
      BY <1>10 DEF Removes, A, At, Q, Qt, S, St
    <2>2. /\ The(At) = IF The(A) = d THEN NoVersion ELSE The(A)
          /\ The(Qt) = IF The(Q) = d THEN NoVersion ELSE The(Q)
      <3>1. \A T, Tt \in SUBSET Deployments :
               (\A e, f \in T : e = f) /\ Tt = T \ {d} => IF T = {d} THEN Tt = {} ELSE Tt = T
        OBVIOUS
      <3>2. IF A = {d} THEN At = {} ELSE At = A
        BY <1>2, <2>1, <3>1
      <3>3. IF Q = {d} THEN Qt = {} ELSE Qt = Q
        BY <1>2, <2>1, <3>1
      <3> QED BY <1>3, <3>2, <3>3
    <2>3. The(A) # d => d \notin A
      BY <1>2, <1>3
    <2>4. Published!Remove(d)
      BY <1>1, <1>4, <2>1, <2>2, <2>3 DEF Published!Remove, Published!KeepActive
    <2> QED BY <2>4 DEF Published!Next
  <1> QED BY <1>5, <1>6, <1>7, <1>8, <1>9, <1>10 DEF Keeps

-------------------------------------------------------------------------------
(* One row is replaced.                                                    *)
LEMMA OneRow ==
    ASSUME NEW rs \in [Deployments -> Row], NEW d \in Deployments, NEW row \in Row,
           NEW t, t = [rs EXCEPT ![d] = row]
    PROVE  /\ t \in [Deployments -> Row]
           /\ ActiveIn(t) = IF row.release_status = "active" THEN ActiveIn(rs) \cup {d} ELSE ActiveIn(rs) \ {d}
           /\ QueuedIn(t) = IF row.pending_release THEN QueuedIn(rs) \cup {d} ELSE QueuedIn(rs) \ {d}
           /\ ServedIn(t) = IF Served(row) THEN ServedIn(rs) \cup {d} ELSE ServedIn(rs) \ {d}
  <1>1. t \in [Deployments -> Row] /\ t[d] = row
    OBVIOUS
  <1>2. \A e \in Deployments \ {d} : t[e] = rs[e]
    OBVIOUS
  <1>3. ActiveIn(t) = IF row.release_status = "active" THEN ActiveIn(rs) \cup {d} ELSE ActiveIn(rs) \ {d}
    BY <1>1, <1>2 DEF ActiveIn
  <1>4. QueuedIn(t) = IF row.pending_release THEN QueuedIn(rs) \cup {d} ELSE QueuedIn(rs) \ {d}
    BY <1>1, <1>2 DEF QueuedIn
  <1>5. ServedIn(t) = IF Served(row) THEN ServedIn(rs) \cup {d} ELSE ServedIn(rs) \ {d}
    BY <1>1, <1>2 DEF ServedIn
  <1> QED BY <1>1, <1>3, <1>4, <1>5

(* A change of a row that the three sets do not see.                       *)
LEMMA SameRow ==
    ASSUME NEW rs \in [Deployments -> Row], NEW d \in Deployments, NEW row \in Row,
           NEW t, t = [rs EXCEPT ![d] = row],
           row.release_status = "active" <=> rs[d].release_status = "active",
           row.pending_release <=> rs[d].pending_release,
           Served(row) <=> Served(rs[d])
    PROVE  /\ t \in [Deployments -> Row]
           /\ ActiveIn(t) = ActiveIn(rs) /\ QueuedIn(t) = QueuedIn(rs) /\ ServedIn(t) = ServedIn(rs)
  <1>1. t \in [Deployments -> Row] /\ t[d] = row
    OBVIOUS
  <1>2. \A e \in Deployments \ {d} : t[e] = rs[e]
    OBVIOUS
  <1>3. ActiveIn(t) = ActiveIn(rs)
    BY <1>1, <1>2 DEF ActiveIn
  <1>4. QueuedIn(t) = QueuedIn(rs)
    BY <1>1, <1>2 DEF QueuedIn
  <1>5. ServedIn(t) = ServedIn(rs)
    BY <1>1, <1>2 DEF ServedIn
  <1> QED BY <1>1, <1>3, <1>4, <1>5

(* In production, reconcile_environment leaves the active deployment alone.*)
LEMMA ReconcileQuiet ==
    ASSUME Environment = "production", NEW rs \in [Deployments -> Row]
    PROVE  Quiet(rs, Reconcile(rs))
  <1>1. ASSUME NEW d \in Deployments
        PROVE  /\ Reconcile(rs)[d].release_status = rs[d].release_status
               /\ Reconcile(rs)[d].pending_release = rs[d].pending_release
               /\ Served(Reconcile(rs)[d]) => Served(rs[d])
               /\ rs[d].release_status = "active" => Reconcile(rs)[d] = rs[d]
    <2>1. CASE Reconcile(rs)[d] = rs[d]
      BY <2>1
    <2>2. CASE Reconcile(rs)[d] = Retired(rs[d]) /\ rs[d].release_status # "active"
      BY <2>2, RetiredRow DEF Served
    <2> QED BY <2>1, <2>2, ReconcileRow
  <1> QED BY <1>1 DEF Quiet, ActiveIn, QueuedIn, ServedIn

(* What a handler does before it reconciles, it does to the environment.   *)
LEMMA ThenReconcile ==
    ASSUME Environment = "production", NEW d \in Deployments,
           NEW rs, NEW s \in [Deployments -> Row], NEW t, t = Reconcile(s),
           Keeps(rs, s, d)
    PROVE  Keeps(rs, t, d)
  <1>1. Quiet(s, t)
    BY ReconcileQuiet
  <1>2. CASE Quiet(rs, s)
    BY <1>1, <1>2 DEF Quiet, Keeps
  <1>3. CASE Publishes(rs, s, d)
    BY <1>1, <1>3 DEF Quiet, Publishes, Keeps
  <1>4. CASE Queues(rs, s, d)
    BY <1>1, <1>4 DEF Quiet, Queues, Keeps
  <1>5. CASE Serves(rs, s, d)
    BY <1>1, <1>5 DEF Quiet, Serves, Keeps
  <1> QED BY <1>2, <1>3, <1>4, <1>5 DEF Keeps

(* The published row.                                                      *)
LEMMA PublishedRow ==
    ASSUME NEW row \in Row, row.build_status = "ready", row.serve_status = "ready",
           NEW published,
           published = [row EXCEPT !.release_status = "active", !.pending_release = FALSE]
    PROVE  /\ published \in Row /\ published.release_status = "active"
           /\ ~published.pending_release /\ Served(published)
  BY DEF Row, ReleaseStatuses, Served

(* activate, with the queue entry of the target cleared.                   *)
LEMMA ActivatePublishes ==
    ASSUME NEW rs \in [Deployments -> Row], NEW d \in Deployments, CanRelease(rs[d], "active"),
           \A e, f \in ActiveIn(rs) : e = f,
           NEW t, t = [Activate(rs, d) EXCEPT ![d].pending_release = FALSE]
    PROVE  t \in [Deployments -> Row] /\ Publishes(rs, t, d)
  <1>1. rs[d].build_status = "ready" /\ rs[d].serve_status = "ready"
    BY DEF CanRelease, CanTransitionRelease, ReleaseReadiness
  <1>2. \A e \in Deployments : rs[e] \in Row
    OBVIOUS
  <1>3. t[d] = [rs[d] EXCEPT !.release_status = "active", !.pending_release = FALSE]
    BY <1>2 DEF Activate, Row
  <1>4. /\ t[d] \in Row /\ t[d].release_status = "active" /\ ~t[d].pending_release
        /\ Served(t[d])
    BY <1>1, <1>2, <1>3, PublishedRow
  <1>5. ASSUME NEW e \in Deployments \ {d}
        PROVE  /\ t[e] \in Row /\ t[e].release_status # "active"
               /\ t[e].pending_release = rs[e].pending_release
               /\ Served(t[e]) <=> Served(rs[e])
    <2>1. t[e] = IF e \in Previous(rs, d) THEN [rs[e] EXCEPT !.release_status = "approved"] ELSE rs[e]
      BY DEF Activate
    <2>2. CASE e \in Previous(rs, d)
      BY <1>2, <2>1, <2>2 DEF Row, ReleaseStatuses, Served
    <2>3. CASE e \notin Previous(rs, d)
      <3>1. rs[e].release_status # "active"
        <4> SUFFICES ASSUME rs[e].release_status = "active" PROVE FALSE
          OBVIOUS
        <4>1. {f \in Deployments \ {d} : rs[f].release_status = "active"} = {e}
          BY DEF ActiveIn
        <4> QED BY <2>3, <4>1 DEF Previous
      <3> QED BY <1>2, <2>1, <2>3, <3>1
    <2> QED BY <2>2, <2>3
  <1>6. t = [e \in Deployments |-> t[e]]
    BY DEF Activate
  <1> HIDE DEF Previous
  <1>7. t \in [Deployments -> Row]
    BY <1>4, <1>5, <1>6
  <1> QED BY <1>4, <1>5, <1>7 DEF Publishes, ActiveIn, QueuedIn, ServedIn

(* request_release publishes or queues.                                    *)
LEMMA RequestReleaseSteps ==
    ASSUME Environment = "production", NEW rs, TableInv(rs), NEW d \in Deployments,
           rs[d].build_status = "ready", RequestRelease(rs, d)
    PROVE  /\ Keeps(rs, rows', d)
           /\ rs[d].serve_status = "ready" => Publishes(rs, rows', d)
  <1>1. rs \in [Deployments -> Row] /\ rs[d] \in Row /\ RowInv(rs[d])
    BY DEF TableInv
  <1>2. \A e, f \in ActiveIn(rs) : e = f
    BY DEF TableInv, ActiveIn
  <1>3. QueuedIn(rs) = {} /\ ~rs[d].pending_release
    BY DEF RequestRelease, ReleaseIsPending, QueuedIn
  <1>4. CASE rs[d].serve_node # NoNode /\ rs[d].serve_status = "ready"
    <2>1. CanRelease(rs[d], "active") /\ rows' = Reconcile(Activate(rs, d))
      BY <1>4 DEF RequestRelease
    <2>2. Activate(rs, d) = [Activate(rs, d) EXCEPT ![d].pending_release = FALSE]
      BY <1>1, <1>3, UnqueuedActivate
    <2>3. Activate(rs, d) \in [Deployments -> Row] /\ Publishes(rs, Activate(rs, d), d)
      BY <1>1, <1>2, <2>1, <2>2, ActivatePublishes
    <2>4. Quiet(Activate(rs, d), rows')
      BY <2>1, <2>3, ReconcileQuiet
    <2> QED BY <2>3, <2>4 DEF Quiet, Publishes, Keeps
  <1>5. CASE ~(rs[d].serve_node # NoNode /\ rs[d].serve_status = "ready")
    <2>1. rs[d].serve_status # "ready"
      BY <1>1, <1>5 DEF RowInv
    <2>2. ASSUME NEW row \in Row, row.pending_release, row.serve_status # "ready",
                 row.release_status = rs[d].release_status,
                 rows' = Reconcile([rs EXCEPT ![d] = row])
          PROVE  Keeps(rs, rows', d)
      <3> DEFINE queued == [rs EXCEPT ![d] = row]
      <3>1. /\ queued \in [Deployments -> Row]
            /\ ActiveIn(queued) = ActiveIn(rs)
            /\ QueuedIn(queued) = {d}
            /\ ServedIn(queued) = ServedIn(rs) /\ d \notin ServedIn(rs)
        <4>1. d \in ActiveIn(rs) <=> rs[d].release_status = "active"
          BY DEF ActiveIn
        <4>2. d \notin ServedIn(rs) /\ ~Served(row)
          BY <2>1, <2>2 DEF ServedIn, Served
        <4> HIDE DEF queued
        <4>3. queued = [rs EXCEPT ![d] = row]
          BY DEF queued
        <4>4. /\ queued \in [Deployments -> Row]
              /\ ActiveIn(queued) =
                    IF row.release_status = "active" THEN ActiveIn(rs) \cup {d} ELSE ActiveIn(rs) \ {d}
              /\ QueuedIn(queued) = IF row.pending_release THEN QueuedIn(rs) \cup {d} ELSE QueuedIn(rs) \ {d}
              /\ ServedIn(queued) = IF Served(row) THEN ServedIn(rs) \cup {d} ELSE ServedIn(rs) \ {d}
          BY <1>1, <2>2, <4>3, OneRow, Zenon
        <4>5. ActiveIn(queued) = ActiveIn(rs)
          BY <2>2, <4>1, <4>4
        <4>6. QueuedIn(queued) = {d}
          BY <1>3, <2>2, <4>4
        <4>7. ServedIn(queued) = ServedIn(rs)
          BY <4>2, <4>4
        <4> QED BY <4>2, <4>4, <4>5, <4>6, <4>7
      <3>2. rows' = Reconcile(queued)
        BY <2>2
      <3> HIDE DEF queued
      <3>3. Queues(rs, queued, d)
        BY <1>3, <3>1 DEF Queues
      <3> QED BY <3>1, <3>2, <3>3, ThenReconcile DEF Keeps
    <2>3. CASE rs[d].serve_node = NoNode \/ rs[d].serve_status = "retired"
      <3>1. PICK n \in ServeNodes :
              rows' = Reconcile([rs EXCEPT ![d].serve_node = n,
                                           ![d].serve_status = "pending",
                                           ![d].pending_release = TRUE])
        BY <1>5, <2>3 DEF RequestRelease
      <3> DEFINE row == [rs[d] EXCEPT !.serve_node = n, !.serve_status = "pending",
                                      !.pending_release = TRUE]
      <3>2. /\ row \in Row /\ row.pending_release /\ row.serve_status # "ready"
            /\ row.release_status = rs[d].release_status
        BY <1>1 DEF Row, ServeStatuses
      <3>3. rows' = Reconcile([rs EXCEPT ![d] = row])
        BY <1>1, <3>1
      <3> HIDE DEF row
      <3> QED BY <2>1, <2>2, <3>2, <3>3
    <2>4. CASE ~(rs[d].serve_node = NoNode \/ rs[d].serve_status = "retired")
      <3> DEFINE row == [rs[d] EXCEPT !.pending_release = TRUE]
      <3>1. rows' = Reconcile([rs EXCEPT ![d] = row])
        BY <1>1, <1>5, <2>4 DEF RequestRelease
      <3>2. /\ row \in Row /\ row.pending_release /\ row.serve_status # "ready"
            /\ row.release_status = rs[d].release_status
        BY <1>1, <2>1 DEF Row
      <3> HIDE DEF row
      <3> QED BY <2>1, <2>2, <3>1, <3>2
    <2> QED BY <2>1, <2>3, <2>4
  <1> QED BY <1>4, <1>5

-------------------------------------------------------------------------------
(* A handler that changes a row in a way the sets do not see.              *)
LEMMA QuietRow ==
    ASSUME IInv, NEW d \in Deployments, NEW row \in Row, rows' = [rows EXCEPT ![d] = row],
           row.release_status = "active" <=> rows[d].release_status = "active",
           row.pending_release <=> rows[d].pending_release,
           Served(row) <=> Served(rows[d])
    PROVE  Quiet(rows, rows')
  <1>1. /\ ActiveIn(rows') = ActiveIn(rows) /\ QueuedIn(rows') = QueuedIn(rows)
        /\ ServedIn(rows') = ServedIn(rows)
    BY RowFacts, SameRow, ZenonT(60)
  <1> QED BY <1>1 DEF Quiet

(* The request of a review publishes nothing.                              *)
LEMMA RequestReviewSame ==
    ASSUME IInv, NEW d \in Deployments, CanRequestReview(rows[d]),
           NEW t, t = RequestReview(rows, d)
    PROVE  /\ t \in [Deployments -> Row]
           /\ ActiveIn(t) = ActiveIn(rows) /\ QueuedIn(t) = QueuedIn(rows) /\ ServedIn(t) = ServedIn(rows)
  <1> DEFINE row == t[d]
  <1>1. rows[d].release_status # "active"
    BY DEF CanRequestReview, CanRelease, CanTransitionRelease
  <1>2. TableInv(t)
    BY RequestReviewTable
  <1>3. /\ row.release_status = "pending_review" /\ row.pending_release = rows[d].pending_release
        /\ row.build_status = rows[d].build_status /\ row.serve_status = rows[d].serve_status
    BY RowFacts DEF RequestReview, Row
  <1>4. t = [rows EXCEPT ![d] = row]
    BY RowFacts DEF RequestReview
  <1>5. row \in Row
    BY <1>2 DEF TableInv
  <1>6. row.release_status = "active" <=> rows[d].release_status = "active"
    BY <1>1, <1>3
  <1>7. Served(row) <=> Served(rows[d])
    BY <1>3 DEF Served
  <1>8. row.pending_release <=> rows[d].pending_release
    BY <1>3
  <1>9. rows \in [Deployments -> Row]
    BY RowFacts
  <1> HIDE DEF row
  <1> QED BY <1>4, <1>5, <1>6, <1>7, <1>8, <1>9, SameRow

(* claim.rs, stage.rs and the upload: builds that are not ready.           *)
LEMMA BuildSteps ==
    ASSUME IInv, NEW d \in Deployments,
           \/ \E n \in ServeNodes : CreateDeployment(d, n)
           \/ ClaimBuild(d) \/ StageRead(d) \/ UploadStaticSite(d)
           \/ \E to \in {"queued", "building"} : StageWrite(d, to)
    PROVE  Quiet(rows, rows')
  <1>1. CASE UNCHANGED rows
    BY <1>1 DEF Quiet
  <1>2. CASE \E n \in ServeNodes : CreateDeployment(d, n)
    <2>1. PICK n \in ServeNodes : CreateDeployment(d, n)
      BY <1>2
    <2> DEFINE row == [rows[d] EXCEPT !.build_status = "pending", !.serve_node = n]
    <2>2. rows' = [rows EXCEPT ![d] = row] /\ rows[d].build_status = "absent"
      <3>1. rows' = [rows EXCEPT ![d] = row]
        BY <2>1, RowFacts DEF CreateDeployment
      <3>2. rows[d].build_status = "absent"
        BY <2>1, DeploymentsAssumption DEF CreateDeployment, Existing
      <3> QED BY <3>1, <3>2
    <2>3. /\ row \in Row /\ row.build_status = "pending"
          /\ row.release_status = rows[d].release_status
          /\ row.pending_release = rows[d].pending_release
      BY RowFacts DEF Row, BuildStatuses
    <2> HIDE DEF row
    <2>4. Served(row) <=> Served(rows[d])
      BY <2>2, <2>3 DEF Served
    <2> QED BY <2>2, <2>3, <2>4, QuietRow
  <1>3. CASE UploadStaticSite(d)
    <2> DEFINE row == [rows[d] EXCEPT !.artifact = TRUE]
    <2>1. rows' = [rows EXCEPT ![d] = row]
      BY <1>3, RowFacts DEF UploadStaticSite
    <2>2. /\ row \in Row /\ row.release_status = rows[d].release_status
          /\ row.pending_release = rows[d].pending_release
          /\ row.build_status = rows[d].build_status /\ row.serve_status = rows[d].serve_status
      BY RowFacts DEF Row
    <2> HIDE DEF row
    <2>3. Served(row) <=> Served(rows[d])
      BY <2>2 DEF Served
    <2> QED BY <2>1, <2>2, <2>3, QuietRow
  <1>4. ASSUME NEW to \in {"claimed", "queued", "building"}, rows[d].build_status # "ready",
               rows' = [rows EXCEPT ![d].build_status = to]
        PROVE  Quiet(rows, rows')
    <2> DEFINE row == [rows[d] EXCEPT !.build_status = to]
    <2>1. rows' = [rows EXCEPT ![d] = row]
      BY <1>4, RowFacts
    <2>2. /\ row \in Row /\ row.release_status = rows[d].release_status
          /\ row.pending_release = rows[d].pending_release /\ row.build_status = to
      BY RowFacts DEF Row, BuildStatuses
    <2> HIDE DEF row
    <2>3. Served(row) <=> Served(rows[d])
      BY <1>4, <2>2 DEF Served
    <2> QED BY <2>1, <2>2, <2>3, QuietRow
  <1>5. CASE ClaimBuild(d)
    BY <1>4, <1>5 DEF ClaimBuild
  <1>6. CASE StageRead(d)
    BY <1>1, <1>6 DEF StageRead
  <1>7. ASSUME NEW to \in {"queued", "building"}, StageWrite(d, to)
        PROVE  Quiet(rows, rows')
    <2>1. rows[d].build_status # "ready"
      BY <1>7 DEF StageWrite, IInv, HandlersInv
    <2> QED BY <1>1, <1>4, <1>7, <2>1 DEF StageWrite
  <1> QED BY <1>2, <1>3, <1>5, <1>6, <1>7

(* A build that ends, well or not, changes one row and reconciles.         *)
LEMMA EndOfBuild ==
    ASSUME Environment = "production", IInv, NEW d \in Deployments, NEW row \in Row,
           row.release_status = "active" <=> rows[d].release_status = "active",
           row.pending_release <=> rows[d].pending_release,
           row.build_status = "ready" => ~rows[d].pending_release \/ rows[d].build_status = "ready",
           rows[d].build_status = "ready" => row.build_status = "ready",
           row.serve_status = rows[d].serve_status,
           rows' = Reconcile([rows EXCEPT ![d] = row])
    PROVE  Keeps(rows, rows', d)
  <1> DEFINE ended == [rows EXCEPT ![d] = row]
  <1>1. ended \in [Deployments -> Row] /\ rows' = Reconcile(ended)
    BY RowFacts
  <1>2. CASE Served(row) <=> Served(rows[d])
    <2>1. /\ ActiveIn(ended) = ActiveIn(rows) /\ QueuedIn(ended) = QueuedIn(rows)
          /\ ServedIn(ended) = ServedIn(rows)
      BY <1>2, RowFacts, SameRow
    <2>2. Quiet(rows, ended)
      BY <2>1 DEF Quiet
    <2> HIDE DEF ended
    <2> QED BY <1>1, <2>2, ThenReconcile DEF Keeps
  <1>3. CASE ~(Served(row) <=> Served(rows[d]))
    <2>1. Served(row) /\ ~Served(rows[d]) /\ ~rows[d].pending_release
      BY <1>3 DEF Served
    <2>2. d \notin QueuedIn(rows)
      BY <2>1 DEF QueuedIn
    <2>3. /\ ended[d] = row /\ \A e \in Deployments \ {d} : ended[e] = rows[e]
      BY RowFacts
    <2> HIDE DEF ended
    <2>4. ActiveIn(ended) = ActiveIn(rows)
      BY <2>3 DEF ActiveIn
    <2>5. QueuedIn(ended) = QueuedIn(rows)
      BY <2>3 DEF QueuedIn
    <2>6. ServedIn(ended) = ServedIn(rows) \cup {d}
      BY <2>1, <2>3 DEF ServedIn
    <2>7. Serves(rows, ended, d)
      BY <2>2, <2>4, <2>5, <2>6 DEF Serves
    <2> QED BY <1>1, <2>7, ThenReconcile DEF Keeps
  <1> QED BY <1>2, <1>3

(* finalize_ready, a failed build and a cancellation.                      *)
LEMMA EndOfBuildSteps ==
    ASSUME Environment = "production", IInv, NEW d \in Deployments,
           FinalizeReady(d) \/ FailBuild(d) \/ CancelBuild(d)
    PROVE  Keeps(rows, rows', d)
  <1>1. ASSUME NEW to \in {"failed", "canceled"}, UnsuccessfulBuild(d, to)
        PROVE  Keeps(rows, rows', d)
    <2> DEFINE row == [rows[d] EXCEPT !.build_status = to]
    <2>1. rows[d].build_status # "ready" /\ rows' = Reconcile([rows EXCEPT ![d] = row])
      BY <1>1, RowFacts DEF UnsuccessfulBuild, CanTransitionBuild
    <2>2. /\ row \in Row /\ row.release_status = rows[d].release_status /\ row.build_status # "ready"
          /\ row.pending_release = rows[d].pending_release /\ row.serve_status = rows[d].serve_status
      BY RowFacts DEF Row, BuildStatuses
    <2> HIDE DEF row
    <2> QED BY <2>1, <2>2, EndOfBuild
  <1> DEFINE built == [rows EXCEPT ![d].build_status = "ready"]
  <1>2. ASSUME FinalizeReady(d)
        PROVE  rows[d].build_status \in {"building", "ready"}
    BY <1>2 DEF FinalizeReady
  <1>3. CASE FinalizeReady(d) /\ rows' = Reconcile(built)
    <2> DEFINE row == [rows[d] EXCEPT !.build_status = "ready"]
    <2>1. rows' = Reconcile([rows EXCEPT ![d] = row])
      BY <1>3, RowFacts
    <2>2. /\ row \in Row /\ row.release_status = rows[d].release_status
          /\ row.pending_release = rows[d].pending_release /\ row.serve_status = rows[d].serve_status
      BY RowFacts DEF Row, BuildStatuses
    <2>3. row.build_status = "ready"
      BY RowFacts DEF Row
    <2>4. ~rows[d].pending_release \/ rows[d].build_status = "ready"
      BY <1>2, <1>3, RowFacts DEF RowInv
    <2> HIDE DEF row
    <2> QED BY <2>1, <2>2, <2>3, <2>4, EndOfBuild
  <1>4. CASE /\ FinalizeReady(d) /\ CanRequestReview(built[d]) /\ rows[d].release_status = "draft"
             /\ rows' = Reconcile(RequestReview(built, d))
    <2> DEFINE count == rows[d].pending_reviews + 1
               row == [rows[d] EXCEPT !.build_status = "ready", !.release_status = "pending_review",
                                      !.pending_reviews = count]
    <2>1. count \in 0..MaxReviews
      <3>1. rows[d].pending_reviews \in 0..MaxReviews /\ rows[d].pending_reviews < MaxReviews
        BY <1>4, RowFacts DEF CanRequestReview, Row
      <3> QED BY <3>1, ReviewAssumption
    <2>2. RequestReview(built, d) = [rows EXCEPT ![d] = row]
      BY RowFacts DEF RequestReview
    <2>3. rows' = Reconcile([rows EXCEPT ![d] = row])
      <3> HIDE DEF row, built
      <3> QED BY <1>4, <2>2
    <2> HIDE DEF count
    <2>4. /\ row \in Row /\ row.release_status # "active"
          /\ row.pending_release = rows[d].pending_release /\ row.serve_status = rows[d].serve_status
          /\ row.build_status = "ready"
      <3>1. rows[d] \in Row
        BY RowFacts
      <3>2. row \in Row
        BY <2>1, <3>1 DEF Row, BuildStatuses, ReleaseStatuses
      <3>3. /\ row.release_status # "active"
            /\ row.pending_release = rows[d].pending_release /\ row.serve_status = rows[d].serve_status
            /\ row.build_status = "ready"
        BY <3>1 DEF Row
      <3> QED BY <3>2, <3>3
    <2>5. ~rows[d].pending_release \/ rows[d].build_status = "ready"
      BY <1>2, <1>4, RowFacts DEF RowInv
    <2> HIDE DEF row
    <2> QED BY <1>4, <2>3, <2>4, <2>5, EndOfBuild
  <1>5. CASE FinalizeReady(d)
    BY <1>3, <1>4, <1>5 DEF FinalizeReady
  <1> QED BY <1>1, <1>5 DEF FailBuild, CancelBuild

(* report_status: only a ready report publishes, and only what was queued  *)
(* or is activated automatically.                                          *)
LEMMA ReportSteps ==
    ASSUME Environment = "production", IInv, NEW n \in ServeNodes, NEW d \in Deployments,
           NEW to \in {"syncing", "ready", "failed"}, ReportServeStatus(n, d, to)
    PROVE  Keeps(rows, rows', d) \/ Resynced(d)
  <1>1. /\ rows[d].build_status = "ready"
        /\ to \in {"ready", "failed"} => rows[d].serve_status = "syncing"
    BY DEF ReportServeStatus, CanTransitionServe
  <1>2. CASE to # "ready"
    <2> DEFINE row == [rows[d] EXCEPT !.serve_status = to]
    <2>1. rows' = [rows EXCEPT ![d] = row]
      BY <1>2, RowFacts DEF ReportServeStatus
    <2>2. /\ row \in Row /\ row.release_status = rows[d].release_status
          /\ row.pending_release = rows[d].pending_release /\ row.serve_status # "ready"
      BY <1>2, RowFacts DEF Row, ServeStatuses
    <2> HIDE DEF row
    <2>3. rows'[d] = row /\ \A e \in Deployments \ {d} : rows'[e] = rows[e]
      BY <2>1, RowFacts
    <2>4. ActiveIn(rows') = ActiveIn(rows)
      BY <2>2, <2>3 DEF ActiveIn
    <2>5. QueuedIn(rows') = QueuedIn(rows)
      BY <2>2, <2>3 DEF QueuedIn
    <2>6. ServedIn(rows') = ServedIn(rows) \ {d}
      BY <2>2, <2>3 DEF ServedIn, Served
    <2>7. rows[d].serve_node = n
      BY DEF ReportServeStatus
    <2> QED BY <1>2, <2>4, <2>5, <2>6, <2>7 DEF Resynced, Resyncs
  <1>3. CASE to = "ready"
    <2> DEFINE row == [rows[d] EXCEPT !.serve_status = "ready", !.was_serve_ready = TRUE]
               ready == [rows EXCEPT ![d] = row]
    <2>1. [rows EXCEPT ![d].serve_status = "ready", ![d].was_serve_ready = TRUE] = ready
      BY RowFacts
    <2>2. CompleteServeReady(ready, d)
      BY <1>3, <2>1 DEF ReportServeStatus
    <2>3. /\ row \in Row /\ row.release_status = rows[d].release_status
          /\ row.pending_release = rows[d].pending_release
          /\ row.build_status = "ready" /\ row.serve_status = "ready"
      BY <1>1, RowFacts DEF Row, ServeStatuses
    <2> HIDE DEF row
    <2>4. /\ ready \in [Deployments -> Row] /\ ready[d] = row
          /\ \A e \in Deployments \ {d} : ready[e] = rows[e]
      BY <2>3, RowFacts
    <2> HIDE DEF ready
    <2>5. ActiveIn(ready) = ActiveIn(rows)
      BY <2>3, <2>4 DEF ActiveIn
    <2>6. QueuedIn(ready) = QueuedIn(rows)
      BY <2>3, <2>4 DEF QueuedIn
    <2>7. ServedIn(ready) = ServedIn(rows) \cup {d}
      BY <2>3, <2>4 DEF ServedIn, Served
    <2>8. \A e, f \in ActiveIn(ready) : e = f
      BY <2>5, RowFacts DEF ActiveIn, TableInv
    <2>9. ASSUME CanRelease(ready[d], "active"),
                 NEW t, t = [Activate(ready, d) EXCEPT ![d].pending_release = FALSE]
          PROVE  t \in [Deployments -> Row] /\ Publishes(rows, t, d)
      <3>1. t \in [Deployments -> Row] /\ Publishes(ready, t, d)
        BY <2>4, <2>8, <2>9, ActivatePublishes
      <3> QED BY <2>5, <2>6, <2>7, <3>1 DEF Publishes
    <2>10. CASE ready[d].pending_release
      <3> DEFINE t == [Activate(ready, d) EXCEPT ![d].pending_release = FALSE]
      <3>1. CanRelease(ready[d], "active") /\ rows' = Reconcile(t)
        BY <2>2, <2>10 DEF CompleteServeReady
      <3>2. t \in [Deployments -> Row] /\ Publishes(rows, t, d)
        BY <2>9, <3>1
      <3> HIDE DEF t
      <3> QED BY <3>1, <3>2, ThenReconcile DEF Keeps
    <2>11. CASE ~ready[d].pending_release
      <3> DEFINE t == Activate(ready, d)
      <3>1. \/ CanRelease(ready[d], "active") /\ rows' = Reconcile(t)
            \/ rows' = Reconcile(ready)
        BY <2>2, <2>11 DEF CompleteServeReady
      <3>2. t = [Activate(ready, d) EXCEPT ![d].pending_release = FALSE]
        BY <2>4, <2>11, UnqueuedActivate
      <3> HIDE DEF t
      <3>3. CanRelease(ready[d], "active") => t \in [Deployments -> Row] /\ Publishes(rows, t, d)
        BY <2>9, <3>2
      <3>4. Serves(rows, ready, d)
        <4>1. d \notin QueuedIn(rows)
          BY <2>6, <2>11 DEF QueuedIn
        <4> QED BY <2>5, <2>6, <2>7, <4>1 DEF Serves
      <3> QED BY <2>4, <3>1, <3>3, <3>4, ThenReconcile DEF Keeps
    <2> QED BY <2>10, <2>11
  <1> QED BY <1>2, <1>3

(* A release requested of a row changed where the sets do not see it.      *)
LEMMA ReleaseOfRow ==
    ASSUME Environment = "production", IInv, NEW d \in Deployments, NEW row \in Row, RowInv(row),
           rows[d].build_status = "ready", row.build_status = "ready",
           row.release_status # "active",
           rows[d].release_status = "active" => rows[d].serve_status = "ready",
           row.pending_release <=> rows[d].pending_release,
           row.serve_status = rows[d].serve_status,
           RequestRelease([rows EXCEPT ![d] = row], d)
    PROVE  Keeps(rows, rows', d)
  <1> DEFINE rs == [rows EXCEPT ![d] = row]
  <1>1. TableInv(rs) /\ rs[d] = row /\ RequestRelease(rs, d)
    BY RowFacts, UpdateRow
  <1>2. Served(row) <=> Served(rows[d])
    BY DEF Served
  <1>3. /\ rs \in [Deployments -> Row]
        /\ \A e \in Deployments \ {d} : rs[e] = rows[e]
    BY RowFacts
  <1> HIDE DEF rs
  <1>4. QueuedIn(rs) = QueuedIn(rows)
    BY <1>1, <1>3 DEF QueuedIn
  <1>5. ServedIn(rs) = ServedIn(rows)
    BY <1>1, <1>2, <1>3 DEF ServedIn
  <1>6. /\ Keeps(rs, rows', d)
        /\ rs[d].serve_status = "ready" => Publishes(rs, rows', d)
    BY <1>1, RequestReleaseSteps
  <1>7. CASE rows[d].release_status = "active"
    <2>1. Publishes(rs, rows', d)
      BY <1>1, <1>6, <1>7
    <2> QED BY <1>4, <1>5, <2>1 DEF Keeps, Publishes
  <1>8. CASE rows[d].release_status # "active"
    <2>1. ActiveIn(rs) = ActiveIn(rows)
      BY <1>1, <1>3, <1>8 DEF ActiveIn
    <2> QED BY <1>4, <1>5, <1>6, <2>1 DEF Keeps, Quiet, Publishes, Queues, Serves
  <1> QED BY <1>7, <1>8

(* Nor does a review that is requested.                                    *)
LEMMA RequestReviewQuiet ==
    ASSUME IInv, NEW d \in Deployments, CanRequestReview(rows[d]), rows' = RequestReview(rows, d)
    PROVE  Quiet(rows, rows')
  <1>1. /\ ActiveIn(rows') = ActiveIn(rows) /\ QueuedIn(rows') = QueuedIn(rows)
        /\ ServedIn(rows') = ServedIn(rows)
    BY RequestReviewSame
  <1> QED BY <1>1 DEF Quiet

(* promote and rollback, when they are applied.                            *)
LEMMA ApplySteps ==
    ASSUME Environment = "production", IInv, NEW r \in Requests, ApplyActivation(r)
    PROVE  \E d \in Deployments : Keeps(rows, rows', d)
  <1> DEFINE d == activations[r].deployment
  <1>1. d \in Deployments /\ rows[d].build_status = "ready"
    BY DEF ApplyActivation, IInv, TypeOK, HandlersInv
  <1>2. \/ CanRequestReview(rows[d]) /\ rows' = RequestReview(rows, d)
        \/ RequestRelease(rows, d)
    BY DEF ApplyActivation
  <1> HIDE DEF d
  <1>3. Keeps(rows, rows', d)
    BY <1>1, <1>2, RowFacts, RequestReviewQuiet, RequestReleaseSteps DEF Keeps
  <1> QED BY <1>1, <1>3

(* decide.                                                                 *)
LEMMA DecideSteps ==
    ASSUME Environment = "production", IInv, NEW d \in Deployments,
           ApproveReview(d) \/ RejectReview(d)
    PROVE  Keeps(rows, rows', d)
  <1> DEFINE count == rows[d].pending_reviews - 1
  <1>1. /\ rows[d].build_status = "ready" /\ rows[d].serve_status \in {"ready", "retired"}
        /\ rows[d].pending_reviews > 0
    BY DEF ApproveReview, RejectReview, Reviewable, ReachedServe
  <1>2. count \in 0..MaxReviews
    <2>1. rows[d].pending_reviews \in 0..MaxReviews
      BY RowFacts DEF Row
    <2> QED BY <1>1, <2>1, ReviewAssumption
  <1>3. CASE ApproveReview(d)
    <2> DEFINE row == [rows[d] EXCEPT !.release_status = "approved", !.pending_reviews = count,
                                      !.approved_review = TRUE]
    <2>1. RequestRelease([rows EXCEPT ![d] = row], d)
      <3>1. [rows EXCEPT ![d].release_status = "approved", ![d].pending_reviews = @ - 1,
                         ![d].approved_review = TRUE] = [rows EXCEPT ![d] = row]
        BY RowFacts
      <3> HIDE DEF row
      <3> QED BY <1>3, <3>1 DEF ApproveReview
    <2> HIDE DEF count
    <2>2. rows[d] \in Row
      BY RowFacts
    <2>3. row \in Row
      BY <1>2, <2>2 DEF Row, ReleaseStatuses
    <2>4. /\ row.build_status = "ready" /\ row.release_status = "approved"
          /\ row.pending_release = rows[d].pending_release
          /\ row.serve_status = rows[d].serve_status /\ row.serve_node = rows[d].serve_node
      BY <1>1, <2>2 DEF Row
    <2> HIDE DEF row
    <2>5. RowInv(row)
      BY <1>1, <2>4, RowFacts, BuiltRow
    <2>6. rows[d].release_status = "active" => rows[d].serve_status = "ready"
      BY <1>1, RowFacts DEF RowInv
    <2> QED BY <1>1, <2>1, <2>3, <2>4, <2>5, <2>6, ReleaseOfRow
  <1>4. CASE RejectReview(d)
    <2> DEFINE row == [rows[d] EXCEPT !.release_status = "rejected", !.pending_reviews = count]
    <2>1. rows' = [rows EXCEPT ![d] = row]
      BY <1>4, RowFacts DEF RejectReview
    <2> HIDE DEF count
    <2>2. rows[d] \in Row
      BY RowFacts
    <2>3. row \in Row
      BY <1>2, <2>2 DEF Row, ReleaseStatuses
    <2>4. /\ row.build_status = rows[d].build_status /\ row.release_status = "rejected"
          /\ row.pending_release = rows[d].pending_release /\ row.serve_status = rows[d].serve_status
      BY <2>2 DEF Row
    <2> HIDE DEF row
    <2>5. Served(row) <=> Served(rows[d])
      BY <2>4 DEF Served
    <2>6. rows[d].release_status # "active"
      BY <1>4 DEF RejectReview, CanRelease, CanTransitionRelease
    <2> QED BY <2>1, <2>3, <2>4, <2>5, <2>6, QuietRow DEF Keeps
  <1> QED BY <1>3, <1>4

(* remove_publication.                                                     *)
LEMMA RemoveSteps ==
    ASSUME Environment = "production", IInv, NEW d \in Deployments,
           NEW to \in {"approved", "draft"}, RemovePublication(d, to)
    PROVE  Removes(rows, rows', d)
  <1> DEFINE row == [Retired(rows[d]) EXCEPT !.release_status = to, !.pending_release = FALSE]
             removed == [rows EXCEPT ![d] = row]
  <1>1. rows' = Reconcile(removed)
    BY RowFacts DEF RemovePublication
  <1>2. row = [rows[d] EXCEPT !.serve_status = "retired", !.serve_node = NoNode,
                              !.release_status = to, !.pending_release = FALSE]
    BY DEF Retired
  <1> HIDE DEF row
  <1>3. /\ row \in Row /\ row.serve_status = "retired" /\ row.release_status = to
        /\ row.pending_release = FALSE
    <2>1. rows[d] \in Row
      BY RowFacts
    <2> QED BY <1>2, <2>1 DEF Row, ServeStatuses, ReleaseStatuses
  <1>4. /\ removed \in [Deployments -> Row] /\ removed[d] = row
        /\ \A e \in Deployments \ {d} : removed[e] = rows[e]
    BY <1>3, RowFacts
  <1> HIDE DEF removed
  <1>5. ActiveIn(removed) = ActiveIn(rows) \ {d}
    BY <1>3, <1>4 DEF ActiveIn
  <1>6. QueuedIn(removed) = QueuedIn(rows) \ {d}
    BY <1>3, <1>4 DEF QueuedIn
  <1>7. ServedIn(removed) = ServedIn(rows) \ {d}
    BY <1>3, <1>4 DEF ServedIn, Served
  <1>8. Quiet(removed, rows')
    BY <1>1, <1>4, ReconcileQuiet
  <1> QED BY <1>5, <1>6, <1>7, <1>8 DEF Quiet, Removes

(* republish.                                                              *)
LEMMA RepublishSteps ==
    ASSUME Environment = "production", IInv, NEW d \in Deployments, Republish(d)
    PROVE  Keeps(rows, rows', d)
  <1>1. rows[d].build_status = "ready" /\ TableInv(rows)
    BY RowFacts DEF Republish, ReachedServe
  <1>2. CASE RequestRelease(rows, d)
    BY <1>1, <1>2, RequestReleaseSteps
  <1>3. CASE /\ rows[d].release_status = "rejected"
             /\ RequestRelease([rows EXCEPT ![d].release_status = "approved"], d)
    <2> DEFINE row == [rows[d] EXCEPT !.release_status = "approved"]
    <2>1. RequestRelease([rows EXCEPT ![d] = row], d)
      <3>1. [rows EXCEPT ![d].release_status = "approved"] = [rows EXCEPT ![d] = row]
        BY RowFacts
      <3> HIDE DEF row
      <3> QED BY <1>3, <3>1
    <2>2. rows[d] \in Row
      BY RowFacts
    <2>3. /\ row \in Row /\ row.build_status = "ready" /\ row.release_status = "approved"
          /\ row.pending_release = rows[d].pending_release
          /\ row.serve_status = rows[d].serve_status /\ row.serve_node = rows[d].serve_node
      BY <1>1, <2>2 DEF Row, ReleaseStatuses
    <2> HIDE DEF row
    <2>4. RowInv(row)
      BY <1>1, <2>3, RowFacts, BuiltRow
    <2> QED BY <1>1, <1>3, <2>1, <2>3, <2>4, ReleaseOfRow
  <1>4. CASE CanRequestReview(rows[d]) /\ rows' = RequestReview(rows, d)
    BY <1>4, RequestReviewQuiet DEF Keeps
  <1> QED BY <1>2, <1>3, <1>4 DEF Republish

-------------------------------------------------------------------------------
(* Every handler does one thing to the environment, or nothing.            *)
LEMMA NextSteps ==
    ASSUME Environment = "production", IInv, [Next]_vars, Deployments # {}
    PROVE  \E d \in Deployments : Keeps(rows, rows', d) \/ Resynced(d) \/ Removed(d)
  <1>1. CASE UNCHANGED rows
    BY <1>1 DEF Quiet, Keeps
  <1>2. ASSUME NEW d \in Deployments, NEW n \in ServeNodes, CreateDeployment(d, n)
        PROVE  Quiet(rows, rows')
    BY <1>2, BuildSteps
  <1>3. ASSUME NEW d \in Deployments, ClaimBuild(d) \/ StageRead(d) \/ UploadStaticSite(d)
        PROVE  Quiet(rows, rows')
    BY <1>3, BuildSteps
  <1>4. ASSUME NEW d \in Deployments, NEW to \in {"queued", "building"}, StageWrite(d, to)
        PROVE  Quiet(rows, rows')
    BY <1>4, BuildSteps
  <1>5. ASSUME NEW d \in Deployments,
               \/ FinalizeReady(d) \/ FailBuild(d) \/ CancelBuild(d)
               \/ ApproveReview(d) \/ RejectReview(d) \/ Republish(d)
        PROVE  Keeps(rows, rows', d)
    BY <1>5, EndOfBuildSteps, DecideSteps, RepublishSteps
  <1>6. ASSUME NEW d \in Deployments, NEW n \in ServeNodes, NEW to \in {"syncing", "ready", "failed"},
               ReportServeStatus(n, d, to)
        PROVE  Keeps(rows, rows', d) \/ Resynced(d)
    BY <1>6, ReportSteps
  <1>7. ASSUME NEW r \in Requests, ApplyActivation(r)
        PROVE  \E d \in Deployments : Keeps(rows, rows', d)
    BY <1>7, ApplySteps
  <1>8. ASSUME NEW r \in Requests,
               AbandonActivation(r) \/ \E d \in Deployments : LoadForActivation(r, d)
        PROVE  UNCHANGED rows
    BY <1>8 DEF AbandonActivation, LoadForActivation
  <1>9. ASSUME NEW m \in ReviewModes, SetReviewMode(m)
        PROVE  UNCHANGED rows
    BY <1>9 DEF SetReviewMode
  <1>10. ASSUME NEW d \in Deployments, Unpublish(d) \/ Withdraw(d)
         PROVE  Removed(d)
    BY <1>10, RemoveSteps DEF Removed, Unpublish, Withdraw
  <1>11. ASSUME NEW d \in Deployments, Quiet(rows, rows')
         PROVE  Keeps(rows, rows', d)
    BY <1>11 DEF Keeps
  <1>12. CASE UNCHANGED vars
    BY <1>1, <1>12 DEF vars
  <1>13. CASE Next
    BY <1>1, <1>2, <1>3, <1>4, <1>5, <1>6, <1>7, <1>8, <1>9, <1>10, <1>11, <1>13 DEF Next
  <1> QED BY <1>12, <1>13

(* The first table is empty.                                               *)
LEMMA InitMaps == Init => Published!Init
  <1> SUFFICES ASSUME Init PROVE Published!Init
    OBVIOUS
  <1>1. /\ {d \in Deployments : Active(d)} = {}
        /\ {d \in Deployments : rows[d].pending_release} = {}
        /\ {d \in Deployments : Served(rows[d])} = {}
    BY DEF Init, Active, Served, Absent
  <1>2. The({}) = NoVersion
    BY DEF The
  <1> QED BY <1>1, <1>2 DEF Published!Init

(* Every step of the handlers is a step of Release.                        *)
LEMMA NextMaps ==
    ASSUME Environment = "production", IInv, IInv', [Next]_vars
    PROVE  [Published!Next]_(Published!vars)
  <1>1. TableInv(rows) /\ TableInv(rows')
    BY DEF IInv, TableInv
  <1>2. CASE Deployments # {}
    BY <1>1, <1>2, NextSteps, StepMaps DEF Resynced, Removed
  <1>3. CASE Deployments = {}
    <2>1. /\ {d \in Deployments : Active(d)} = {} /\ {d \in Deployments : Active(d)}' = {}
          /\ {d \in Deployments : rows[d].pending_release} = {}
          /\ {d \in Deployments : rows[d].pending_release}' = {}
          /\ {d \in Deployments : Served(rows[d])} = {} /\ {d \in Deployments : Served(rows[d])}' = {}
      BY <1>3
    <2> QED BY <2>1 DEF Published!vars
  <1> QED BY <1>2, <1>3

(* The production environment keeps the promises of Release                *)
(* (self-hosting.md:552-567; request_release, activate,                    *)
(* complete_serve_ready, remove_publication and reconcile_environment).    *)
THEOREM ImplementsRelease ==
    ASSUME Environment = "production"
    PROVE  Spec => ReleaseSpec
  <1>1. IInv /\ IInv' /\ [Next]_vars => [Published!Next]_(Published!vars)
    BY NextMaps
  <1> QED BY <1>1, InitMaps, Invariance, PTL DEF Spec, ReleaseSpec, Published!Spec


(* Production keeps answering: what is active and served stays so, or what *)
(* takes over is served already, unless the publication is removed or its  *)
(* node synchronizes it again (self-hosting.md:558-561).                   *)
THEOREM ProductionNeverDropsHolds == Spec => ProductionNeverDrops
  <1> DEFINE Never == \A d \in Deployments :
          /\ Environment = "production" /\ Active(d) /\ Served(rows[d])
          /\ ~(Unpublish(d) \/ Withdraw(d) \/ ReportServeStatus(rows[d].serve_node, d, "syncing"))
          => \E e \in Deployments : rows'[e].release_status = "active" /\ Served(rows'[e])
  <1>1. ASSUME IInv, IInv', [Next]_vars
        PROVE  Never
    <2> SUFFICES ASSUME NEW d \in Deployments,
                        Environment = "production", Active(d), Served(rows[d]),
                        ~(Unpublish(d) \/ Withdraw(d)),
                        ~ReportServeStatus(rows[d].serve_node, d, "syncing")
                 PROVE  ActiveIn(rows') \cap ServedIn(rows') # {}
      BY DEF ActiveIn, ServedIn
    <2>1. d \in ActiveIn(rows) /\ d \in ServedIn(rows)
      BY DEF ActiveIn, ServedIn, Active
    <2>2. PICK e \in Deployments : Keeps(rows, rows', e) \/ Resynced(e) \/ Removed(e)
      BY <1>1, NextSteps
    <2>3. CASE Keeps(rows, rows', e)
      BY <2>1, <2>3 DEF Keeps, Quiet, Publishes, Queues, Serves
    <2>4. CASE Resynced(e)
      <3>1. e # d
        BY <2>4 DEF Resynced, ReportServeStatus, CanTransitionServe, Served
      <3> QED BY <2>1, <2>4, <3>1 DEF Resynced, Resyncs
    <2>5. CASE Removed(e)
      <3>1. e # d
        BY <2>5 DEF Removed
      <3>2. e \notin ActiveIn(rows)
        BY <1>1, <2>1, <3>1 DEF IInv, TableInv, ActiveIn
      <3> QED BY <2>1, <2>5, <3>2 DEF Removed, Removes
    <2> QED BY <2>2, <2>3, <2>4, <2>5
  <1>2. IInv /\ IInv' /\ [Next]_vars => [Never]_vars
    BY <1>1
  <1> QED BY <1>2, Invariance, PTL DEF Spec, ProductionNeverDrops

-------------------------------------------------------------------------------
(* What is served is wanted.  The newest of some deployments exists, since *)
(* each is created after those that exist: this is the one fact about the  *)
(* order that the argument needs, and it is an invariant by itself.        *)

Ordered(rs) == \A S \in SUBSET Existing(rs) : S # {} => Newest(S) # {}

Wanted(rs) == \A d \in Existing(rs) : Served(rs[d]) => d \in DesiredDeliveryIds(rs)

(* The parts of DesiredDeliveryIds.                                        *)
KeptRow(row) ==
    \/ InProgress(row)
    \/ row.pending_release
    \/ Environment = "production" /\ row.release_status = "active"

ReadyIn(rs) ==
    {d \in Existing(rs) : /\ rs[d].build_status = "ready"
                          /\ rs[d].serve_status # "retired" \/ rs[d].pending_release}

PreviousIn(rs) ==
    {d \in ReadyIn(rs) \ Newest(ReadyIn(rs)) :
        /\ rs[d].serve_status = "ready"
        /\ \A n \in Newest(ReadyIn(rs)) : rs[n].serve_status # "ready"}

LEMMA DesiredParts ==
    ASSUME NEW rs, NEW d \in Existing(rs)
    PROVE  d \in DesiredDeliveryIds(rs) <=>
              KeptRow(rs[d]) \/ d \in Newest(ReadyIn(rs)) \/ d \in Newest(PreviousIn(rs))
  BY DEF DesiredDeliveryIds, KeptRow, ReadyIn, PreviousIn

(* A served deployment is ready.                                           *)
LEMMA ServedReady ==
    ASSUME NEW rs, NEW d \in Deployments, Served(rs[d])
    PROVE  d \in ReadyIn(rs) /\ rs[d].serve_status = "ready"
  BY DEF Served, ReadyIn, Existing

(* What reconciliation leaves is wanted: the newest deployment, and the    *)
(* previous one that bridges the gap, are the same before and after it.    *)
LEMMA ReconcileWants ==
    ASSUME NEW rs \in [Deployments -> Row], Ordered(rs)
    PROVE  Wanted(Reconcile(rs))
  <1> DEFINE t == Reconcile(rs)
             N == Newest(ReadyIn(rs))
             P == PreviousIn(rs)
  <1>1. ASSUME NEW d \in Deployments
        PROVE  /\ t[d].build_status = rs[d].build_status
               /\ t[d].pending_release = rs[d].pending_release
               /\ t[d].release_status = rs[d].release_status
               /\ \/ t[d] = rs[d]
                  \/ t[d].serve_status = "retired" /\ ~rs[d].pending_release
               /\ d \in Existing(rs) /\ d \in DesiredDeliveryIds(rs) => t[d] = rs[d]
    BY ReconcileRow, RetiredRow DEF Reconcile
  <1> HIDE DEF t
  <1>2. Existing(t) = Existing(rs)
    BY <1>1 DEF Existing
  <1>3. ReadyIn(t) \subseteq ReadyIn(rs)
    <2> SUFFICES ASSUME NEW d \in ReadyIn(t) PROVE d \in ReadyIn(rs)
      OBVIOUS
    <2>1. /\ d \in Existing(t) /\ d \in Deployments /\ t[d].build_status = "ready"
          /\ t[d].serve_status # "retired" \/ t[d].pending_release
      BY DEF ReadyIn, Existing
    <2>2. CASE t[d] = rs[d]
      BY <1>2, <2>1, <2>2 DEF ReadyIn
    <2>3. CASE t[d].serve_status = "retired" /\ ~rs[d].pending_release
      BY <1>1, <2>1, <2>3
    <2> QED BY <1>1, <2>1, <2>2, <2>3
  <1>4. \A n \in N : n \in ReadyIn(t) /\ t[n] = rs[n]
    <2> SUFFICES ASSUME NEW n \in N PROVE n \in ReadyIn(t) /\ t[n] = rs[n]
      OBVIOUS
    <2>1. n \in ReadyIn(rs) /\ n \in Existing(rs) /\ n \in Deployments
      BY DEF Newest, ReadyIn, Existing
    <2>2. t[n] = rs[n]
      BY <1>1, <2>1, DesiredParts
    <2> QED BY <1>2, <2>1, <2>2 DEF ReadyIn
  <1>5. Newest(ReadyIn(t)) = N
    <2>1. N \subseteq Newest(ReadyIn(t))
      BY <1>3, <1>4 DEF Newest
    <2>2. ASSUME NEW n \in Newest(ReadyIn(t)) PROVE n \in N
      <3>1. n \in ReadyIn(t) /\ \A e \in ReadyIn(t) : e <= n
        BY DEF Newest
      <3>2. N # {}
        <4>1. ReadyIn(rs) \in SUBSET Existing(rs) /\ ReadyIn(rs) # {}
          BY <1>3, <3>1 DEF ReadyIn
        <4> QED BY <4>1 DEF Ordered
      <3>3. PICK m \in N : TRUE
        BY <3>2
      <3>4. m <= n /\ n <= m /\ m \in Nat /\ n \in Nat
        <4>1. m \in Deployments /\ n \in Deployments
          BY <3>1 DEF Newest, ReadyIn, Existing
        <4> QED BY <1>3, <1>4, <3>1, <4>1, DeploymentsAssumption DEF Newest
      <3> QED BY <3>4
    <2> QED BY <2>1, <2>2
  <1>6. PreviousIn(t) \subseteq P
    <2> SUFFICES ASSUME NEW d \in PreviousIn(t) PROVE d \in P
      OBVIOUS
    <2>1. /\ d \in ReadyIn(t) /\ d \notin N /\ t[d].serve_status = "ready" /\ d \in Deployments
          /\ \A n \in N : t[n].serve_status # "ready"
      BY <1>5 DEF PreviousIn, ReadyIn, Existing
    <2>2. t[d] = rs[d]
      BY <1>1, <2>1
    <2> QED BY <1>3, <1>4, <2>1, <2>2 DEF PreviousIn
  <1> SUFFICES ASSUME NEW d \in Existing(t), Served(t[d])
               PROVE  d \in DesiredDeliveryIds(t)
    BY DEF Wanted, t
  <1>7. d \in Deployments /\ d \in Existing(rs) /\ d \in ReadyIn(t) /\ t[d].serve_status = "ready"
    BY <1>2, ServedReady DEF Existing
  <1>8. d \in DesiredDeliveryIds(rs)
    <2> SUFFICES ASSUME d \notin DesiredDeliveryIds(rs) PROVE FALSE
      OBVIOUS
    <2>1. t[d] = Retired(rs[d])
      BY <1>7 DEF t, Reconcile
    <2> QED BY <1>7, <2>1, RetiredRow
  <1>9. t[d] = rs[d]
    BY <1>1, <1>7, <1>8
  <1>10. CASE KeptRow(rs[d])
    BY <1>9, <1>10, DesiredParts
  <1>11. CASE d \in N
    BY <1>5, <1>11, DesiredParts
  <1>12. CASE d \in Newest(P)
    <2>1. d \in PreviousIn(t)
      <3>1. d \in P /\ d \notin N /\ \A n \in N : rs[n].serve_status # "ready"
        BY <1>12 DEF Newest, PreviousIn
      <3> QED BY <1>4, <1>5, <1>7, <3>1 DEF PreviousIn
    <2>2. d \in Newest(PreviousIn(t))
      BY <1>6, <1>12, <2>1 DEF Newest
    <2> QED BY <2>2, DesiredParts
  <1> QED BY <1>7, <1>8, <1>10, <1>11, <1>12, DesiredParts

(* It stays wanted when a step neither serves nor retires, and leaves what *)
(* is kept.                                                                *)
LEMMA StillWanted ==
    ASSUME NEW rs, NEW t, Wanted(rs),
           \A d \in Deployments :
               /\ d \in ReadyIn(t) <=> d \in ReadyIn(rs)
               /\ Served(t[d]) => Served(rs[d]) /\ (KeptRow(rs[d]) => KeptRow(t[d]))
    PROVE  Wanted(t)
  <1>1. ReadyIn(t) = ReadyIn(rs)
    BY DEF ReadyIn, Existing
  <1>2. \A d \in ReadyIn(t) : d \in Deployments /\ (t[d].serve_status = "ready" => rs[d].serve_status = "ready")
    BY DEF ReadyIn, Existing, Served
  <1> SUFFICES ASSUME NEW d \in Existing(t), Served(t[d])
               PROVE  d \in DesiredDeliveryIds(t)
    BY DEF Wanted
  <1>3. /\ d \in Deployments /\ d \in ReadyIn(t) /\ t[d].serve_status = "ready"
        /\ Served(rs[d]) /\ d \in ReadyIn(rs) /\ d \in Existing(rs)
    BY <1>1, ServedReady DEF Existing, ReadyIn
  <1>4. d \in DesiredDeliveryIds(rs)
    BY <1>3 DEF Wanted
  <1>5. CASE KeptRow(rs[d])
    BY <1>3, <1>5, DesiredParts
  <1>6. CASE d \in Newest(ReadyIn(rs))
    BY <1>1, <1>6, DesiredParts
  <1>7. CASE d \in Newest(PreviousIn(rs))
    <2>1. PreviousIn(t) \subseteq {e \in ReadyIn(rs) \ Newest(ReadyIn(rs)) : rs[e].serve_status = "ready"}
      BY <1>1, <1>2 DEF PreviousIn
    <2>2. d \in PreviousIn(rs) /\ \A e \in PreviousIn(rs) : e <= d
      BY <1>7 DEF Newest
    <2>3. \A n \in Newest(ReadyIn(rs)) : rs[n].serve_status # "ready" /\ t[n].serve_status # "ready"
      BY <1>1, <1>2, <2>2 DEF PreviousIn, Newest
    <2>4. PreviousIn(t) \subseteq PreviousIn(rs)
      BY <2>1, <2>3 DEF PreviousIn
    <2>5. d \in PreviousIn(t)
      BY <1>1, <1>3, <2>2, <2>3 DEF PreviousIn
    <2>6. d \in Newest(PreviousIn(t))
      BY <2>2, <2>4, <2>5 DEF Newest
    <2> QED BY <2>6, DesiredParts
  <1> QED BY <1>3, <1>4, <1>5, <1>6, <1>7, DesiredParts


-------------------------------------------------------------------------------
(* A table none of whose rows is newly served, retired, or no longer kept. *)
Unserved(rs, t) ==
    \A d \in Deployments :
        /\ d \in ReadyIn(t) <=> d \in ReadyIn(rs)
        /\ Served(t[d]) => Served(rs[d]) /\ (KeptRow(rs[d]) => KeptRow(t[d]))
        /\ t[d].serve_status = "retired" => rs[d].serve_status = "retired"

Calm(rs, t) == Existing(t) = Existing(rs) /\ Unserved(rs, t)

(* A table that is the reconciliation of one with the same deployments, of *)
(* which at least those of S are served.                                   *)
Reconciled(rs, t, S) ==
    \E u \in [Deployments -> Row] :
        Existing(u) = Existing(rs) /\ S \subseteq ServedIn(u) /\ t = Reconcile(u)

(* What a row shows of a deployment that is not newly served.              *)
LEMMA UnservedRow ==
    ASSUME NEW rs \in [Deployments -> Row], NEW d \in Deployments, NEW row,
           NEW t, t = [rs EXCEPT ![d] = row],
           row.build_status = "ready" <=> rs[d].build_status = "ready",
           row.serve_status = "ready" => rs[d].serve_status = "ready",
           row.serve_status = "retired" <=> rs[d].serve_status = "retired",
           row.pending_release = rs[d].pending_release,
           rs[d].release_status = "active" => row.release_status = "active"
    PROVE  Unserved(rs, t)
  <1>1. t[d] = row /\ \A e \in Deployments \ {d} : t[e] = rs[e]
    OBVIOUS
  <1>2. ASSUME NEW e \in Deployments, e # d
        PROVE  /\ e \in ReadyIn(t) <=> e \in ReadyIn(rs)
               /\ Served(t[e]) => Served(rs[e]) /\ (KeptRow(rs[e]) => KeptRow(t[e]))
               /\ t[e].serve_status = "retired" => rs[e].serve_status = "retired"
    <2>1. t[e] = rs[e]
      BY <1>1, <1>2
    <2> QED BY <2>1 DEF ReadyIn, Existing
  <1>3. d \in ReadyIn(t) <=> d \in ReadyIn(rs)
    <2>1. ASSUME NEW v
          PROVE  d \in ReadyIn(v) <=> /\ v[d].build_status = "ready"
                                      /\ v[d].serve_status # "retired" \/ v[d].pending_release
      BY DEF ReadyIn, Existing
    <2>2. d \in ReadyIn(t) <=> /\ row.build_status = "ready"
                               /\ row.serve_status # "retired" \/ row.pending_release
      BY <1>1, <2>1
    <2>3. d \in ReadyIn(rs) <=> /\ rs[d].build_status = "ready"
                                /\ rs[d].serve_status # "retired" \/ rs[d].pending_release
      BY <2>1
    <2> QED BY <2>2, <2>3
  <1>4. Served(row) => Served(rs[d]) /\ (KeptRow(rs[d]) => KeptRow(row))
    BY DEF Served, KeptRow, InProgress
  <1> QED BY <1>1, <1>2, <1>3, <1>4 DEF Unserved

LEMMA CalmRow ==
    ASSUME NEW rs \in [Deployments -> Row], NEW d \in Deployments, NEW row,
           NEW t, t = [rs EXCEPT ![d] = row],
           row.build_status # "absent", rs[d].build_status # "absent",
           row.build_status = "ready" <=> rs[d].build_status = "ready",
           row.serve_status = "ready" => rs[d].serve_status = "ready",
           row.serve_status = "retired" <=> rs[d].serve_status = "retired",
           row.pending_release = rs[d].pending_release,
           rs[d].release_status = "active" => row.release_status = "active"
    PROVE  Calm(rs, t)
  <1>1. Unserved(rs, t)
    BY UnservedRow, ZenonT(60)
  <1>2. Existing(t) = Existing(rs)
    BY DEF Existing
  <1> QED BY <1>1, <1>2 DEF Calm

(* The deployments that exist, after a change of one row.                  *)
LEMMA SameExisting ==
    ASSUME NEW rs \in [Deployments -> Row], NEW d \in Deployments, NEW row,
           row.build_status # "absent", rs[d].build_status # "absent"
    PROVE  Existing([rs EXCEPT ![d] = row]) = Existing(rs)
  BY DEF Existing

LEMMA ReconciledRow ==
    ASSUME IInv, NEW d \in Deployments, NEW row \in Row, NEW S \in SUBSET ServedIn(rows),
           row.build_status # "absent", rows[d].build_status # "absent",
           d \in S => Served(row),
           rows' = Reconcile([rows EXCEPT ![d] = row])
    PROVE  Reconciled(rows, rows', S)
  <1>1. rows \in [Deployments -> Row]
    BY RowFacts
  <1>2. [rows EXCEPT ![d] = row] \in [Deployments -> Row]
    BY <1>1
  <1>3. Existing([rows EXCEPT ![d] = row]) = Existing(rows)
    BY <1>1, SameExisting
  <1>4. S \subseteq ServedIn([rows EXCEPT ![d] = row])
    <2> DEFINE u == [rows EXCEPT ![d] = row]
    <2>1. u[d] = row /\ \A e \in Deployments \ {d} : u[e] = rows[e]
      BY <1>1
    <2> HIDE DEF u
    <2>2. S \subseteq ServedIn(u)
      BY <2>1 DEF ServedIn
    <2> QED BY <2>2 DEF u
  <1> QED BY <1>2, <1>3, <1>4 DEF Reconciled

(* activate keeps the builds, and what is served.                          *)
LEMMA ActivateExisting ==
    ASSUME NEW rs \in [Deployments -> Row], NEW d \in Deployments
    PROVE  /\ Activate(rs, d) \in [Deployments -> Row]
           /\ Existing(Activate(rs, d)) = Existing(rs)
           /\ ServedIn(Activate(rs, d)) = ServedIn(rs)
  <1>1. ASSUME NEW e \in Deployments
        PROVE  /\ Activate(rs, d)[e] \in Row
               /\ Activate(rs, d)[e].serve_status = rs[e].serve_status
    <2>1. rs[e] \in Row
      OBVIOUS
    <2>2. \/ Activate(rs, d)[e] = rs[e]
          \/ Activate(rs, d)[e] = [rs[e] EXCEPT !.release_status = "active"]
          \/ Activate(rs, d)[e] = [rs[e] EXCEPT !.release_status = "approved"]
      BY DEF Activate
    <2> QED BY <2>1, <2>2 DEF Row, ReleaseStatuses
  <1>2. Activate(rs, d) = [e \in Deployments |-> Activate(rs, d)[e]]
    BY DEF Activate
  <1>3. \A e \in Deployments : Activate(rs, d)[e].build_status = rs[e].build_status
    BY ActivateBuild
  <1>4. ServedIn(Activate(rs, d)) = ServedIn(rs)
    BY <1>1, <1>3 DEF ServedIn, Served
  <1> QED BY <1>1, <1>2, <1>3, <1>4 DEF Existing

(* request_release reconciles, whether it activates or queues; what it     *)
(* queues is not served.                                                   *)
LEMMA RequestReleaseReconciles ==
    ASSUME NEW rs, TableInv(rs), NEW d \in Deployments, rs[d].build_status = "ready",
           RequestRelease(rs, d)
    PROVE  Reconciled(rs, rows', ServedIn(rs))
  <1>1. rs \in [Deployments -> Row] /\ rs[d] \in Row /\ RowInv(rs[d])
    BY DEF TableInv
  <1>2. ASSUME NEW row \in Row, row.build_status = "ready", ~Served(rs[d]),
               rows' = Reconcile([rs EXCEPT ![d] = row])
        PROVE  Reconciled(rs, rows', ServedIn(rs))
    <2>1. Existing([rs EXCEPT ![d] = row]) = Existing(rs)
      BY <1>1, <1>2, SameExisting
    <2> DEFINE u == [rs EXCEPT ![d] = row]
    <2>2. u \in [Deployments -> Row] /\ \A e \in Deployments \ {d} : u[e] = rs[e]
      BY <1>1
    <2>3. Existing(u) = Existing(rs) /\ rows' = Reconcile(u)
      BY <1>2, <2>1
    <2> HIDE DEF u
    <2>4. ServedIn(rs) \subseteq ServedIn(u)
      BY <1>2, <2>2 DEF ServedIn
    <2> QED BY <2>2, <2>3, <2>4 DEF Reconciled
  <1>3. CASE rows' = Reconcile(Activate(rs, d))
    BY <1>1, <1>3, ActivateExisting DEF Reconciled
  <1>4. CASE ~(rs[d].serve_node # NoNode /\ rs[d].serve_status = "ready")
    <2>1. ~Served(rs[d])
      BY <1>1, <1>4 DEF RowInv, Served
    <2>2. CASE rs[d].serve_node = NoNode \/ rs[d].serve_status = "retired"
      <3>1. PICK n \in ServeNodes :
              rows' = Reconcile([rs EXCEPT ![d].serve_node = n,
                                           ![d].serve_status = "pending",
                                           ![d].pending_release = TRUE])
        BY <1>4, <2>2 DEF RequestRelease
      <3> DEFINE row == [rs[d] EXCEPT !.serve_node = n, !.serve_status = "pending",
                                      !.pending_release = TRUE]
      <3>2. row \in Row /\ row.build_status = "ready"
        BY <1>1 DEF Row, ServeStatuses
      <3>3. rows' = Reconcile([rs EXCEPT ![d] = row])
        BY <1>1, <3>1
      <3> HIDE DEF row
      <3> QED BY <1>2, <2>1, <3>2, <3>3
    <2>3. CASE ~(rs[d].serve_node = NoNode \/ rs[d].serve_status = "retired")
      <3> DEFINE row == [rs[d] EXCEPT !.pending_release = TRUE]
      <3>1. row \in Row /\ row.build_status = "ready"
        BY <1>1 DEF Row
      <3>2. rows' = Reconcile([rs EXCEPT ![d] = row])
        BY <1>1, <1>4, <2>3 DEF RequestRelease
      <3> HIDE DEF row
      <3> QED BY <1>2, <2>1, <3>1, <3>2
    <2> QED BY <2>2, <2>3
  <1> QED BY <1>3, <1>4 DEF RequestRelease

LEMMA ReleaseOfRowReconciles ==
    ASSUME IInv, NEW d \in Deployments, NEW row \in Row, RowInv(row),
           rows[d].build_status = "ready", row.build_status = "ready",
           row.release_status # "active",
           row.pending_release <=> rows[d].pending_release,
           row.serve_status = rows[d].serve_status,
           RequestRelease([rows EXCEPT ![d] = row], d)
    PROVE  Reconciled(rows, rows', ServedIn(rows))
  <1> DEFINE rs == [rows EXCEPT ![d] = row]
  <1>1. rows \in [Deployments -> Row]
    BY RowFacts
  <1>2. TableInv(rs) /\ rs[d] = row /\ \A e \in Deployments \ {d} : rs[e] = rows[e]
    BY <1>1, RowFacts, UpdateRow
  <1>3. Existing(rs) = Existing(rows)
    BY <1>1, SameExisting
  <1> HIDE DEF rs
  <1>4. RequestRelease(rs, d)
    BY DEF rs
  <1>5. Reconciled(rs, rows', ServedIn(rs))
    BY <1>2, <1>4, RequestReleaseReconciles
  <1>6. ServedIn(rs) = ServedIn(rows)
    BY <1>2 DEF ServedIn, Served
  <1> QED BY <1>3, <1>5, <1>6 DEF Reconciled

-------------------------------------------------------------------------------
(* The newest of some deployments exists after every step: a new one is    *)
(* newer than the others, and none is ever deleted.                        *)
LEMMA OrderedCreate ==
    ASSUME NEW rs, NEW t, Ordered(rs), NEW d \in Deployments,
           Existing(rs) = {e \in Deployments : e < d}, Existing(t) \subseteq Existing(rs) \cup {d}
    PROVE  Ordered(t)
  <1> SUFFICES ASSUME NEW S \in SUBSET Existing(t), S # {}
               PROVE  Newest(S) # {}
    BY DEF Ordered
  <1>1. CASE d \in S
    <2>1. \A e \in S : e <= d
      <3> SUFFICES ASSUME NEW e \in S PROVE e <= d
        OBVIOUS
      <3>1. e \in Deployments /\ (e < d \/ e = d)
        OBVIOUS
      <3> QED BY <3>1, DeploymentsAssumption
    <2> QED BY <1>1, <2>1 DEF Newest
  <1>2. CASE d \notin S
    <2>1. S \in SUBSET Existing(rs)
      BY <1>2
    <2> QED BY <2>1 DEF Ordered
  <1> QED BY <1>1, <1>2

LEMMA SameOrdered ==
    ASSUME NEW rs, NEW t, Ordered(rs), Existing(t) = Existing(rs)
    PROVE  Ordered(t)
  BY DEF Ordered

(* What exists keeps existing.                                             *)
LEMMA ReconciledExisting ==
    ASSUME NEW rs, NEW t, NEW S, Reconciled(rs, t, S)
    PROVE  Existing(t) = Existing(rs)
  <1>1. PICK u \in [Deployments -> Row] : Existing(u) = Existing(rs) /\ t = Reconcile(u)
    BY DEF Reconciled
  <1>2. \A d \in Deployments : t[d].build_status = u[d].build_status
    BY <1>1, ReconcileBuild
  <1> QED BY <1>1, <1>2 DEF Existing

(* A handler that reconciles leaves what is wanted; one that does not      *)
(* leaves what was.                                                        *)
LEMMA ReconciledStep ==
    ASSUME NEW rs, NEW t, NEW S, Reconciled(rs, t, S), Ordered(rs)
    PROVE  Ordered(t) /\ Wanted(t)
  <1>1. PICK u \in [Deployments -> Row] : Existing(u) = Existing(rs) /\ t = Reconcile(u)
    BY DEF Reconciled
  <1>2. Ordered(u)
    BY <1>1, SameOrdered
  <1>3. Wanted(t)
    BY <1>1, <1>2, ReconcileWants
  <1> QED BY <1>3, ReconciledExisting, SameOrdered

LEMMA CalmStep ==
    ASSUME NEW rs, NEW t, Calm(rs, t), Ordered(rs), Wanted(rs)
    PROVE  Ordered(t) /\ Wanted(t)
  BY SameOrdered, StillWanted DEF Calm, Unserved

(* A new row is not served, and newer than the others.                     *)
LEMMA CreateWants ==
    ASSUME IInv, Ordered(rows), Wanted(rows),
           NEW d \in Deployments, NEW n \in ServeNodes, CreateDeployment(d, n)
    PROVE  Ordered(rows') /\ Wanted(rows') /\ Unserved(rows, rows')
  <1> DEFINE row == [rows[d] EXCEPT !.build_status = "pending", !.serve_node = n]
  <1>0. rows \in [Deployments -> Row] /\ rows[d] \in Row
    BY RowFacts
  <1>1. rows' = [rows EXCEPT ![d] = row]
    BY <1>0 DEF CreateDeployment
  <1>2. Existing(rows) = {e \in Deployments : e < d} /\ rows[d].build_status = "absent"
    BY DeploymentsAssumption DEF CreateDeployment, Existing
  <1>3. /\ row.build_status = "pending" /\ row.serve_status = rows[d].serve_status
        /\ row.release_status = rows[d].release_status
        /\ row.pending_release = rows[d].pending_release
    BY <1>0 DEF Row
  <1> HIDE DEF row
  <1>4. Unserved(rows, rows')
    BY <1>0, <1>1, <1>2, <1>3, UnservedRow
  <1>5. Existing(rows') \subseteq Existing(rows) \cup {d}
    BY <1>0, <1>1 DEF Existing
  <1> QED BY <1>2, <1>4, <1>5, OrderedCreate, StillWanted DEF Unserved

(* claim.rs, stage.rs and the upload serve nothing.                        *)
LEMMA BuildCalm ==
    ASSUME IInv, NEW d \in Deployments,
           \/ ClaimBuild(d) \/ StageRead(d) \/ UploadStaticSite(d)
           \/ \E to \in {"queued", "building"} : StageWrite(d, to)
    PROVE  Calm(rows, rows')
  <1>0. rows \in [Deployments -> Row] /\ rows[d] \in Row
    BY RowFacts
  <1>1. CASE UNCHANGED rows
    BY <1>1 DEF Calm, Unserved
  <1>3. CASE UploadStaticSite(d)
    <2> DEFINE row == [rows[d] EXCEPT !.artifact = TRUE]
    <2>1. rows' = [rows EXCEPT ![d] = row]
      BY <1>0, <1>3 DEF UploadStaticSite
    <2>2. /\ row.release_status = rows[d].release_status
          /\ row.pending_release = rows[d].pending_release
          /\ row.build_status = rows[d].build_status /\ row.serve_status = rows[d].serve_status
          /\ rows[d].build_status = "building"
      BY <1>0, <1>3 DEF Row, UploadStaticSite
    <2> HIDE DEF row
    <2> QED BY <1>0, <2>1, <2>2, CalmRow, ZenonT(60)
  <1>4. ASSUME NEW to \in {"claimed", "queued", "building"}, rows[d].build_status \notin {"ready", "absent"},
               rows' = [rows EXCEPT ![d].build_status = to]
        PROVE  Calm(rows, rows')
    <2> DEFINE row == [rows[d] EXCEPT !.build_status = to]
    <2>1. rows' = [rows EXCEPT ![d] = row]
      BY <1>0, <1>4
    <2>2. /\ row.release_status = rows[d].release_status /\ row.serve_status = rows[d].serve_status
          /\ row.pending_release = rows[d].pending_release /\ row.build_status = to
      BY <1>0 DEF Row
    <2>3. /\ row.build_status # "absent" /\ rows[d].build_status # "absent"
          /\ row.build_status # "ready" /\ rows[d].build_status # "ready"
      BY <1>4, <2>2
    <2> HIDE DEF row
    <2> QED BY <1>0, <2>1, <2>2, <2>3, CalmRow, ZenonT(60)
  <1>5. CASE ClaimBuild(d)
    BY <1>4, <1>5 DEF ClaimBuild
  <1>6. CASE StageRead(d)
    BY <1>1, <1>6 DEF StageRead
  <1>7. ASSUME NEW to \in {"queued", "building"}, StageWrite(d, to)
        PROVE  Calm(rows, rows')
    <2>1. rows[d].build_status \notin {"ready", "absent"}
      BY <1>7 DEF StageWrite, IInv, HandlersInv
    <2> QED BY <1>1, <1>4, <1>7, <2>1 DEF StageWrite
  <1> QED BY <1>3, <1>5, <1>6, <1>7

(* finalize_ready, a failed build and a cancellation reconcile.            *)
LEMMA EndOfBuildReconciles ==
    ASSUME IInv, NEW d \in Deployments, FinalizeReady(d) \/ FailBuild(d) \/ CancelBuild(d)
    PROVE  Reconciled(rows, rows', ServedIn(rows))
  <1>0. rows \in [Deployments -> Row] /\ rows[d] \in Row
    BY RowFacts
  <1>1. ASSUME NEW to \in {"failed", "canceled"}, UnsuccessfulBuild(d, to)
        PROVE  Reconciled(rows, rows', ServedIn(rows))
    <2> DEFINE row == [rows[d] EXCEPT !.build_status = to]
    <2>1. /\ rows[d].build_status \notin {"absent", "ready"}
          /\ rows' = Reconcile([rows EXCEPT ![d] = row])
      BY <1>0, <1>1 DEF UnsuccessfulBuild, CanTransitionBuild
    <2>2. row \in Row /\ row.build_status # "absent"
      BY <1>0 DEF Row, BuildStatuses
    <2>3. d \notin ServedIn(rows)
      BY <2>1 DEF ServedIn, Served
    <2> HIDE DEF row
    <2> QED BY <2>1, <2>2, <2>3, ReconciledRow
  <1> DEFINE built == [rows EXCEPT ![d].build_status = "ready"]
  <1>2. ASSUME FinalizeReady(d)
        PROVE  rows[d].build_status \in {"building", "ready"}
    BY <1>2 DEF FinalizeReady
  <1>3. CASE FinalizeReady(d) /\ rows' = Reconcile(built)
    <2> DEFINE row == [rows[d] EXCEPT !.build_status = "ready"]
    <2>1. rows' = Reconcile([rows EXCEPT ![d] = row])
      BY <1>0, <1>3
    <2>2. row \in Row /\ row.build_status = "ready" /\ row.serve_status = rows[d].serve_status
      BY <1>0 DEF Row, BuildStatuses
    <2> HIDE DEF row
    <2>3. d \in ServedIn(rows) => Served(row)
      BY <2>2 DEF ServedIn, Served
    <2> QED BY <1>2, <1>3, <2>1, <2>2, <2>3, ReconciledRow
  <1>4. CASE /\ FinalizeReady(d) /\ CanRequestReview(built[d])
             /\ rows' = Reconcile(RequestReview(built, d))
    <2> DEFINE count == rows[d].pending_reviews + 1
               row == [rows[d] EXCEPT !.build_status = "ready", !.release_status = "pending_review",
                                      !.pending_reviews = count]
    <2>1. count \in 0..MaxReviews
      <3>1. rows[d].pending_reviews \in 0..MaxReviews /\ rows[d].pending_reviews < MaxReviews
        BY <1>0, <1>4 DEF CanRequestReview, Row
      <3> QED BY <3>1, ReviewAssumption
    <2>2. RequestReview(built, d) = [rows EXCEPT ![d] = row]
      BY <1>0 DEF RequestReview
    <2>3. rows' = Reconcile([rows EXCEPT ![d] = row])
      <3> HIDE DEF row, built
      <3> QED BY <1>4, <2>2
    <2> HIDE DEF count
    <2>4. row \in Row
      BY <1>0, <2>1 DEF Row, BuildStatuses, ReleaseStatuses
    <2>5. row.build_status = "ready" /\ row.serve_status = rows[d].serve_status
      BY <1>0 DEF Row
    <2> HIDE DEF row
    <2>6. d \in ServedIn(rows) => Served(row)
      BY <2>5 DEF ServedIn, Served
    <2> QED BY <1>2, <1>4, <2>3, <2>4, <2>5, <2>6, ReconciledRow
  <1>5. CASE FinalizeReady(d)
    BY <1>3, <1>4, <1>5 DEF FinalizeReady
  <1> QED BY <1>1, <1>5 DEF FailBuild, CancelBuild

(* report_status: a ready report reconciles, another serves nothing.       *)
LEMMA ReportWants ==
    ASSUME IInv, NEW n \in ServeNodes, NEW d \in Deployments,
           NEW to \in {"syncing", "ready", "failed"}, ReportServeStatus(n, d, to)
    PROVE  Calm(rows, rows') \/ Reconciled(rows, rows', ServedIn(rows))
  <1>0. rows \in [Deployments -> Row] /\ rows[d] \in Row /\ rows[d].build_status = "ready"
    BY RowFacts DEF ReportServeStatus
  <1>1. CASE to # "ready"
    <2> DEFINE row == [rows[d] EXCEPT !.serve_status = to]
    <2>1. rows' = [rows EXCEPT ![d] = row]
      BY <1>0, <1>1 DEF ReportServeStatus
    <2>2. /\ row.build_status = rows[d].build_status /\ row.serve_status = to
          /\ row.release_status = rows[d].release_status
          /\ row.pending_release = rows[d].pending_release
      BY <1>0 DEF Row
    <2>3. CASE rows[d].serve_status = "retired"
      BY <2>3 DEF ReportServeStatus, CanTransitionServe
    <2>4. CASE rows[d].serve_status # "retired"
      <3> HIDE DEF row
      <3> QED BY <1>0, <1>1, <2>1, <2>2, <2>4, CalmRow
    <2> QED BY <2>3, <2>4
  <1>2. CASE to = "ready"
    <2> DEFINE row == [rows[d] EXCEPT !.serve_status = "ready", !.was_serve_ready = TRUE]
               ready == [rows EXCEPT ![d] = row]
    <2>1. [rows EXCEPT ![d].serve_status = "ready", ![d].was_serve_ready = TRUE] = ready
      BY <1>0
    <2>2. CompleteServeReady(ready, d)
      BY <1>2, <2>1 DEF ReportServeStatus
    <2>3. row \in Row /\ row.build_status = "ready" /\ row.serve_status = "ready"
      BY <1>0 DEF Row, ServeStatuses
    <2> HIDE DEF row
    <2>4. /\ ready \in [Deployments -> Row] /\ ready[d] = row
          /\ \A e \in Deployments \ {d} : ready[e] = rows[e]
      BY <1>0, <2>3
    <2>5. Existing(ready) = Existing(rows)
      BY <1>0, <2>3, SameExisting
    <2> HIDE DEF ready
    <2>10. ServedIn(rows) \subseteq ServedIn(ready)
      BY <2>3, <2>4 DEF ServedIn, Served
    <2>6. /\ Activate(ready, d) \in [Deployments -> Row]
          /\ Existing(Activate(ready, d)) = Existing(rows)
          /\ ServedIn(rows) \subseteq ServedIn(Activate(ready, d))
      BY <2>4, <2>5, <2>10, ActivateExisting
    <2> DEFINE active == Activate(ready, d)
               cleared == [active EXCEPT ![d] = [active[d] EXCEPT !.pending_release = FALSE]]
    <2>7. /\ cleared \in [Deployments -> Row] /\ Existing(cleared) = Existing(rows)
          /\ ServedIn(rows) \subseteq ServedIn(cleared)
      <3> HIDE DEF active
      <3>1. active \in [Deployments -> Row] /\ active[d] \in Row
        BY <2>6 DEF active
      <3> DEFINE plain == [active[d] EXCEPT !.pending_release = FALSE]
      <3>2. /\ plain \in Row /\ plain.build_status = active[d].build_status
            /\ plain.serve_status = active[d].serve_status
        BY <3>1 DEF Row
      <3>3. active[d].build_status # "absent"
        BY <1>0, <2>5, <2>6 DEF Existing, active
      <3> HIDE DEF plain
      <3>4. Existing([active EXCEPT ![d] = plain]) = Existing(active)
        BY <3>1, <3>2, <3>3, SameExisting
      <3>5. [active EXCEPT ![d] = plain] \in [Deployments -> Row]
        BY <3>1, <3>2
      <3>6. Existing(active) = Existing(rows) /\ ServedIn(rows) \subseteq ServedIn(active)
        BY <2>6 DEF active
      <3>7. ServedIn(active) \subseteq ServedIn([active EXCEPT ![d] = plain])
        BY <3>1, <3>2 DEF ServedIn, Served
      <3>8. ServedIn(rows) \subseteq ServedIn([active EXCEPT ![d] = plain])
        BY <3>6, <3>7
      <3> QED BY <3>4, <3>5, <3>6, <3>8 DEF plain
    <2>8. \/ rows' = Reconcile(ready) \/ rows' = Reconcile(active)
          \/ rows' = Reconcile([active EXCEPT ![d].pending_release = FALSE])
      BY <2>2 DEF CompleteServeReady
    <2>9. [active EXCEPT ![d].pending_release = FALSE] = cleared
      BY <2>6
    <2> HIDE DEF cleared
    <2> QED BY <2>4, <2>5, <2>6, <2>7, <2>8, <2>9, <2>10 DEF Reconciled
  <1> QED BY <1>1, <1>2

(* A review that is requested.                                             *)
LEMMA RequestReviewCalm ==
    ASSUME IInv, NEW d \in Deployments, CanRequestReview(rows[d]), rows' = RequestReview(rows, d)
    PROVE  Calm(rows, rows')
  <1> DEFINE row == [rows[d] EXCEPT !.release_status = "pending_review",
                                    !.pending_reviews = rows[d].pending_reviews + 1]
  <1>0. rows \in [Deployments -> Row] /\ rows[d] \in Row
    BY RowFacts
  <1>1. rows' = [rows EXCEPT ![d] = row]
    BY <1>0 DEF RequestReview
  <1>2. /\ row.build_status = rows[d].build_status /\ row.serve_status = rows[d].serve_status
        /\ row.release_status = "pending_review" /\ row.pending_release = rows[d].pending_release
    BY <1>0 DEF Row
  <1>3. rows[d].release_status # "active" /\ rows[d].build_status = "ready"
    BY DEF CanRequestReview, CanRelease, CanTransitionRelease, ReleaseReadiness
  <1> HIDE DEF row
  <1> QED BY <1>0, <1>1, <1>2, <1>3, CalmRow, ZenonT(60)

(* promote and rollback, when they are applied.                            *)
LEMMA ApplyWants ==
    ASSUME IInv, NEW r \in Requests, ApplyActivation(r)
    PROVE  Calm(rows, rows') \/ Reconciled(rows, rows', ServedIn(rows))
  <1> DEFINE d == activations[r].deployment
  <1>1. d \in Deployments /\ rows[d].build_status = "ready"
    BY DEF ApplyActivation, IInv, TypeOK, HandlersInv
  <1>2. \/ CanRequestReview(rows[d]) /\ rows' = RequestReview(rows, d)
        \/ RequestRelease(rows, d)
    BY DEF ApplyActivation
  <1> HIDE DEF d
  <1>3. TableInv(rows)
    BY <1>1, RowFacts
  <1> QED BY <1>1, <1>2, <1>3, RequestReviewCalm, RequestReleaseReconciles

(* decide: an approval requests the release, a rejection serves nothing.   *)
LEMMA DecideWants ==
    ASSUME IInv, NEW d \in Deployments, ApproveReview(d) \/ RejectReview(d)
    PROVE  Calm(rows, rows') \/ Reconciled(rows, rows', ServedIn(rows))
  <1> DEFINE count == rows[d].pending_reviews - 1
  <1>0. rows \in [Deployments -> Row] /\ rows[d] \in Row
    BY RowFacts
  <1>1. rows[d].build_status = "ready" /\ count \in 0..MaxReviews
    <2>1. rows[d].pending_reviews \in 0..MaxReviews
      BY <1>0 DEF Row
    <2>2. rows[d].build_status = "ready" /\ rows[d].pending_reviews > 0
      BY DEF ApproveReview, RejectReview, Reviewable, ReachedServe
    <2> QED BY <2>1, <2>2, ReviewAssumption
  <1>2. CASE ApproveReview(d)
    <2> DEFINE row == [rows[d] EXCEPT !.release_status = "approved", !.pending_reviews = count,
                                      !.approved_review = TRUE]
    <2>1. RequestRelease([rows EXCEPT ![d] = row], d)
      <3>1. [rows EXCEPT ![d].release_status = "approved", ![d].pending_reviews = @ - 1,
                         ![d].approved_review = TRUE] = [rows EXCEPT ![d] = row]
        BY <1>0
      <3> HIDE DEF row
      <3> QED BY <1>2, <3>1 DEF ApproveReview
    <2> HIDE DEF count
    <2>2. row \in Row
      BY <1>0, <1>1 DEF Row, ReleaseStatuses
    <2>3. /\ row.build_status = "ready" /\ row.release_status = "approved"
          /\ row.pending_release = rows[d].pending_release
          /\ row.serve_status = rows[d].serve_status /\ row.serve_node = rows[d].serve_node
      BY <1>0, <1>1 DEF Row
    <2> HIDE DEF row
    <2>4. RowInv(row)
      BY <1>1, <2>3, RowFacts, BuiltRow
    <2> QED BY <1>1, <2>1, <2>2, <2>3, <2>4, ReleaseOfRowReconciles
  <1>3. CASE RejectReview(d)
    <2> DEFINE row == [rows[d] EXCEPT !.release_status = "rejected", !.pending_reviews = count]
    <2>1. rows' = [rows EXCEPT ![d] = row]
      BY <1>0, <1>3 DEF RejectReview
    <2>2. /\ row.build_status = rows[d].build_status /\ row.serve_status = rows[d].serve_status
          /\ row.pending_release = rows[d].pending_release
      BY <1>0 DEF Row
    <2>3. rows[d].release_status # "active"
      BY <1>3 DEF RejectReview, CanRelease, CanTransitionRelease
    <2> HIDE DEF row
    <2> QED BY <1>0, <1>1, <2>1, <2>2, <2>3, CalmRow
  <1> QED BY <1>2, <1>3

(* republish.                                                              *)
LEMMA RepublishWants ==
    ASSUME IInv, NEW d \in Deployments, Republish(d)
    PROVE  Calm(rows, rows') \/ Reconciled(rows, rows', ServedIn(rows))
  <1>0. rows \in [Deployments -> Row] /\ rows[d] \in Row /\ rows[d].build_status = "ready"
    BY RowFacts DEF Republish, ReachedServe
  <1>1. CASE RequestRelease(rows, d)
    BY <1>0, <1>1, RowFacts, RequestReleaseReconciles
  <1>2. CASE RequestRelease([rows EXCEPT ![d].release_status = "approved"], d)
    <2> DEFINE row == [rows[d] EXCEPT !.release_status = "approved"]
    <2>1. RequestRelease([rows EXCEPT ![d] = row], d)
      <3>1. [rows EXCEPT ![d].release_status = "approved"] = [rows EXCEPT ![d] = row]
        BY <1>0
      <3> HIDE DEF row
      <3> QED BY <1>2, <3>1
    <2>2. /\ row \in Row /\ row.build_status = "ready" /\ row.release_status = "approved"
          /\ row.pending_release = rows[d].pending_release
          /\ row.serve_status = rows[d].serve_status /\ row.serve_node = rows[d].serve_node
      BY <1>0 DEF Row, ReleaseStatuses
    <2> HIDE DEF row
    <2>3. RowInv(row)
      BY <1>0, <2>2, RowFacts, BuiltRow
    <2> QED BY <1>0, <2>1, <2>2, <2>3, ReleaseOfRowReconciles
  <1>3. CASE CanRequestReview(rows[d]) /\ rows' = RequestReview(rows, d)
    BY <1>3, RequestReviewCalm
  <1> QED BY <1>1, <1>2, <1>3 DEF Republish

(* remove_publication.                                                     *)
LEMMA RemoveReconciles ==
    ASSUME IInv, NEW d \in Deployments, NEW to \in {"approved", "draft"}, RemovePublication(d, to)
    PROVE  Reconciled(rows, rows', ServedIn(rows) \ {d})
  <1> DEFINE row == [Retired(rows[d]) EXCEPT !.release_status = to, !.pending_release = FALSE]
  <1>0. rows \in [Deployments -> Row] /\ rows[d] \in Row /\ RowInv(rows[d])
    BY RowFacts
  <1>1. rows' = Reconcile([rows EXCEPT ![d] = row])
    BY <1>0 DEF RemovePublication
  <1>2. row = [rows[d] EXCEPT !.serve_status = "retired", !.serve_node = NoNode,
                              !.release_status = to, !.pending_release = FALSE]
    BY DEF Retired
  <1> HIDE DEF row
  <1>3. row \in Row
    BY <1>0, <1>2 DEF Row, ServeStatuses, ReleaseStatuses
  <1>4. row.build_status = rows[d].build_status
    BY <1>0, <1>2 DEF Row
  <1>5. rows[d].build_status # "absent"
    <2>1. Absent.release_status = "draft"
      BY DEF Absent
    <2>2. rows[d].release_status # "draft" \/ rows[d].build_status = "ready"
      BY DEF RemovePublication, CanRelease, CanTransitionRelease, ReleaseReadiness
    <2> QED BY <1>0, <2>1, <2>2 DEF RowInv
  <1> QED BY <1>1, <1>3, <1>4, <1>5, ReconciledRow

(* Each step is one of these.                                              *)
LEMMA StepKinds ==
    ASSUME IInv, [Next]_vars
    PROVE  \/ Calm(rows, rows')
           \/ Reconciled(rows, rows', ServedIn(rows))
           \/ \E d \in Deployments, n \in ServeNodes : CreateDeployment(d, n)
           \/ \E d \in Deployments : /\ Unpublish(d) \/ Withdraw(d)
                                    /\ Reconciled(rows, rows', ServedIn(rows) \ {d})
  <1> DEFINE Kind == Calm(rows, rows') \/ Reconciled(rows, rows', ServedIn(rows))
  <1>1. CASE UNCHANGED rows
    BY <1>1 DEF Calm, Unserved
  <1>2. ASSUME NEW d \in Deployments, ClaimBuild(d) \/ StageRead(d) \/ UploadStaticSite(d)
        PROVE  Kind
    BY <1>2, BuildCalm
  <1>3. ASSUME NEW d \in Deployments, NEW to \in {"queued", "building"}, StageWrite(d, to)
        PROVE  Kind
    BY <1>3, BuildCalm
  <1>4. ASSUME NEW d \in Deployments,
               \/ FinalizeReady(d) \/ FailBuild(d) \/ CancelBuild(d)
               \/ ApproveReview(d) \/ RejectReview(d) \/ Republish(d)
        PROVE  Kind
    BY <1>4, EndOfBuildReconciles, DecideWants, RepublishWants
  <1>5. ASSUME NEW d \in Deployments, NEW n \in ServeNodes, NEW to \in {"syncing", "ready", "failed"},
               ReportServeStatus(n, d, to)
        PROVE  Kind
    BY <1>5, ReportWants
  <1>6. ASSUME NEW r \in Requests, ApplyActivation(r)
        PROVE  Kind
    BY <1>6, ApplyWants
  <1>7. ASSUME NEW r \in Requests,
               AbandonActivation(r) \/ \E d \in Deployments : LoadForActivation(r, d)
        PROVE  UNCHANGED rows
    BY <1>7 DEF AbandonActivation, LoadForActivation
  <1>8. ASSUME NEW m \in ReviewModes, SetReviewMode(m)
        PROVE  UNCHANGED rows
    BY <1>8 DEF SetReviewMode
  <1>9. ASSUME NEW d \in Deployments, Unpublish(d) \/ Withdraw(d)
        PROVE  Reconciled(rows, rows', ServedIn(rows) \ {d})
    BY <1>9, RemoveReconciles DEF Unpublish, Withdraw
  <1>10. CASE UNCHANGED vars
    BY <1>1, <1>10 DEF vars
  <1>11. CASE Next
    BY <1>1, <1>2, <1>3, <1>4, <1>5, <1>6, <1>7, <1>8, <1>9, <1>11 DEF Next
  <1> QED BY <1>10, <1>11

LEMMA WantedNext ==
    ASSUME IInv, Ordered(rows), Wanted(rows), [Next]_vars
    PROVE  Ordered(rows') /\ Wanted(rows')
  <1>1. CASE Calm(rows, rows')
    BY <1>1, CalmStep
  <1>2. ASSUME NEW S, Reconciled(rows, rows', S)
        PROVE  Ordered(rows') /\ Wanted(rows')
    BY <1>2, ReconciledStep
  <1>3. ASSUME NEW d \in Deployments, NEW n \in ServeNodes, CreateDeployment(d, n)
        PROVE  Ordered(rows') /\ Wanted(rows')
    BY <1>3, CreateWants
  <1> QED BY <1>1, <1>2, <1>3, StepKinds

(* What a reconciliation retires is followed by another one that is served:*)
(* the newest ready build, or the previous one that bridges the gap.       *)
LEMMA ReconcileRolls ==
    ASSUME NEW rs \in [Deployments -> Row], Ordered(rs), NEW d \in Deployments, Served(rs[d]),
           Reconcile(rs)[d].serve_status = "retired"
    PROVE  \E e \in Deployments \ {d} : Served(Reconcile(rs)[e])
  <1> DEFINE N == Newest(ReadyIn(rs))
             P == PreviousIn(rs)
  <1>1. d \in ReadyIn(rs) /\ rs[d].serve_status = "ready" /\ d \in Existing(rs)
    BY ServedReady DEF ReadyIn
  <1>2. d \notin DesiredDeliveryIds(rs)
    BY <1>1 DEF Reconcile
  <1>3. d \notin N /\ d \notin Newest(P)
    BY <1>1, <1>2, DesiredParts
  <1>4. ASSUME NEW e \in N \cup Newest(P), rs[e].serve_status = "ready"
        PROVE  \E f \in Deployments \ {d} : Served(Reconcile(rs)[f])
    <2>1. e \in Existing(rs) /\ e \in Deployments /\ rs[e].build_status = "ready"
      BY DEF Newest, PreviousIn, ReadyIn, Existing
    <2>2. e \in DesiredDeliveryIds(rs)
      BY <2>1, DesiredParts
    <2>3. Reconcile(rs)[e] = rs[e]
      BY <2>1, <2>2 DEF Reconcile
    <2> QED BY <1>3, <1>4, <2>1, <2>3 DEF Served
  <1>5. CASE \E n \in N : rs[n].serve_status = "ready"
    BY <1>4, <1>5
  <1>6. CASE \A n \in N : rs[n].serve_status # "ready"
    <2>1. d \in P
      BY <1>1, <1>3, <1>6 DEF PreviousIn
    <2>2. P \in SUBSET Existing(rs) /\ P # {}
      BY <2>1 DEF PreviousIn, ReadyIn
    <2>3. PICK e \in Newest(P) : TRUE
      BY <2>2 DEF Ordered
    <2>4. rs[e].serve_status = "ready"
      BY <2>3 DEF Newest, PreviousIn
    <2> QED BY <1>4, <2>3, <2>4
  <1> QED BY <1>5, <1>6

(* No superseded version keeps a route, in production or in preview: what  *)
(* is served is what the delivery rules want (desired_delivery_ids, and    *)
(* every handler that must reconcile after it).                            *)
THEOREM ServedIsWantedHolds == Spec => []ServedIsWanted
  <1> DEFINE Held == Ordered(rows) /\ Wanted(rows)
  <1>1. Init => Held
    <2> SUFFICES ASSUME Init PROVE Held
      OBVIOUS
    <2>1. Existing(rows) = {}
      BY DEF Init, Existing, Absent
    <2> QED BY <2>1 DEF Ordered, Wanted
  <1>2. IInv /\ Held /\ [Next]_vars => Held'
    <2> SUFFICES ASSUME IInv, Held, [Next]_vars PROVE Held'
      OBVIOUS
    <2>1. Ordered(rows') /\ Wanted(rows')
      BY WantedNext
    <2> QED BY <2>1 DEF Ordered, Wanted, DesiredDeliveryIds, Existing
  <1>3. Held => ServedIsWanted
    BY DEF Wanted, ServedIsWanted
  <1> QED BY <1>1, <1>2, <1>3, Invariance, PTL DEF Spec

(* Rolling overlap (self-hosting.md:552-557): a served deployment is only  *)
(* retired by its own removal, or when another one is served               *)
(* (reconcile_environment, whichever handler calls it).                    *)
THEOREM RollingOverlapHolds == Spec => RollingOverlap
  <1> DEFINE Held == Ordered(rows) /\ Wanted(rows)
             Rolls == \A d \in Deployments :
                 Served(rows[d]) /\ rows'[d].serve_status = "retired" =>
                     \/ Unpublish(d) \/ Withdraw(d)
                     \/ \E e \in Deployments \ {d} : Served(rows'[e])
  <1>1. ASSUME IInv, Held, [Next]_vars
        PROVE  Rolls
    <2> SUFFICES ASSUME NEW d \in Deployments, Served(rows[d]), rows'[d].serve_status = "retired",
                        ~(Unpublish(d) \/ Withdraw(d))
                 PROVE  \E e \in Deployments \ {d} : Served(rows'[e])
      OBVIOUS
    <2>1. rows[d].serve_status = "ready" /\ d \in ServedIn(rows)
      BY DEF Served, ServedIn
    <2>2. CASE Calm(rows, rows')
      BY <2>1, <2>2 DEF Calm, Unserved
    <2>3. ASSUME NEW c \in Deployments, NEW n \in ServeNodes, CreateDeployment(c, n)
          PROVE  FALSE
      <3>1. Unserved(rows, rows')
        BY <1>1, <2>3, CreateWants
      <3> QED BY <2>1, <3>1 DEF Unserved
    <2>4. ASSUME NEW S, d \in S, Reconciled(rows, rows', S)
          PROVE  \E e \in Deployments \ {d} : Served(rows'[e])
      <3>1. PICK u \in [Deployments -> Row] :
                Existing(u) = Existing(rows) /\ S \subseteq ServedIn(u) /\ rows' = Reconcile(u)
        BY <2>4 DEF Reconciled
      <3>2. Served(u[d]) /\ Reconcile(u)[d].serve_status = "retired"
        BY <2>4, <3>1 DEF ServedIn
      <3>3. Ordered(u)
        BY <1>1, <3>1, SameOrdered
      <3>4. \E e \in Deployments \ {d} : Served(Reconcile(u)[e])
        BY <3>2, <3>3, ReconcileRolls
      <3> QED BY <3>1, <3>4
    <2>5. ASSUME NEW c \in Deployments, Unpublish(c) \/ Withdraw(c),
                 Reconciled(rows, rows', ServedIn(rows) \ {c})
          PROVE  \E e \in Deployments \ {d} : Served(rows'[e])
      <3>1. d \in ServedIn(rows) \ {c}
        BY <2>1, <2>5
      <3> QED BY <2>4, <2>5, <3>1
    <2> QED BY <1>1, <2>1, <2>2, <2>3, <2>4, <2>5, StepKinds
  <1>2. Init => Held
    <2> SUFFICES ASSUME Init PROVE Held
      OBVIOUS
    <2>1. Existing(rows) = {}
      BY DEF Init, Existing, Absent
    <2> QED BY <2>1 DEF Ordered, Wanted
  <1>3. IInv /\ Held /\ [Next]_vars => Held'
    <2> SUFFICES ASSUME IInv, Held, [Next]_vars PROVE Held'
      OBVIOUS
    <2>1. Ordered(rows') /\ Wanted(rows')
      BY WantedNext
    <2> QED BY <2>1 DEF Ordered, Wanted, DesiredDeliveryIds, Existing
  <1>4. IInv /\ Held /\ [Next]_vars => [Rolls]_vars
    BY <1>1
  <1> QED BY <1>2, <1>3, <1>4, Invariance, PTL DEF Spec, RollingOverlap
===============================================================================
