--------------------------- MODULE BuildSlots_proofs ---------------------------
(***************************************************************************)
(* Proofs about BuildSlots, for any deployments, nodes, limit and number   *)
(* of handlers in flight: first the rows and the markers (IInv), then the  *)
(* account of the counter against the builds that have a slot (SlotInv).   *)
(***************************************************************************)
EXTENDS BuildSlots, FiniteSetTheorems, TLAPS

(* Whatever acts on a build after its claim finds it claimed; a pending    *)
(* build has no node.  A stale report or cancellation decides from a row   *)
(* that was already claimed when it read it.                               *)
ClaimedInv ==
    \A d \in Deployments :
        /\ build_status[d] = "pending" => build_node[d] = NoNode
        /\ build_node[d] = NoNode =>
              /\ build_status[d] \in {"pending", "canceled"}
              /\ jobs[d] = "none"
              /\ \A k \in Requestors : stages[d][k].step = "idle"
              /\ ~cancels[d].was_running /\ cancels[d].step \in {"idle", "commit"}
              /\ d \notin released

(* The marker stands for the one decrement.                                *)
MarkerInv ==
    \A d \in Deployments : releases[d] = IF d \in released THEN 1 ELSE 0

IInv == TypeOK /\ ClaimedInv /\ MarkerInv

(* Nothing is claimed, counted or marked at first.                         *)
LEMMA InitInv == Init => IInv
  BY NoNodeAssumption, LimitAssumption
  DEF Init, IInv, TypeOK, ClaimedInv, MarkerInv, SlotWithinLimit, StageRecords, BuildStatuses, Running,
      Terminal, IdleStage, IdleClaim, IdleCancel, NoCandidate, Expired, Requestors

(* One stage handler gets a new record and the others keep theirs.         *)
LEMMA StagesUpdate ==
    ASSUME TypeOK, NEW d \in Deployments, NEW k \in Requestors, NEW record \in StageRecords,
           stages' = [stages EXCEPT ![d][k] = record]
    PROVE  /\ stages' \in [Deployments -> [Requestors -> StageRecords]]
           /\ \A e \in Deployments, j \in Requestors :
                 (e # d \/ j # k) => stages'[e][j] = stages[e][j]
  BY DEF TypeOK

(* A build that is acted on is one that a node has claimed.                *)
LEMMA ClaimedFacts ==
    ASSUME IInv, NEW d \in Deployments
    PROVE  /\ jobs[d] # "none" => build_node[d] # NoNode
           /\ \A k \in Requestors : stages[d][k].step # "idle" => build_node[d] # NoNode
           /\ cancels[d].was_running => build_node[d] # NoNode
           /\ cancels[d].step \in {"flag", "release"} => build_node[d] # NoNode
           /\ build_status[d] \in Running => build_node[d] # NoNode
           /\ build_node[d] # NoNode => build_status[d] # "pending"
  BY DEF IInv, ClaimedInv, Running

(* The idle stage handler is a stage handler.                              *)
LEMMA IdleStageType == IdleStage \in StageRecords
  BY LimitAssumption DEF IdleStage, StageRecords, Expired

(* A step that touches neither rows nor claims of d nor releases, only the *)
(* handlers and the job of a build that is claimed.                        *)
LEMMA ClaimedBuildStep ==
    ASSUME IInv, TypeOK', NEW d \in Deployments, build_node[d] # NoNode,
           UNCHANGED <<build_node, releases, released>>,
           \A e \in Deployments \ {d} :
              /\ build_status'[e] = build_status[e]
              /\ jobs'[e] = jobs[e] /\ stages'[e] = stages[e] /\ cancels'[e] = cancels[e],
           build_status'[d] # "pending"
    PROVE  IInv'
  <1>1. ClaimedInv'
    BY DEF IInv, ClaimedInv
  <1>2. MarkerInv'
    BY DEF IInv, MarkerInv
  <1> QED BY <1>1, <1>2 DEF IInv

(* A report comes from a live job, hence from a build with a node.         *)
LEMMA StageReadInv ==
    ASSUME IInv, NEW d \in Deployments, NEW k \in Requestors,
           NEW to \in Terminal \cup {"none", "queued", "building"}, StageRead(d, k, to)
    PROVE  IInv'
  <1>1. /\ jobs[d] \in Running \cup {"canceling"}
        /\ build_node[d] # NoNode
    BY ClaimedFacts DEF StageRead, LiveJobs, IInv, TypeOK, Running
  <1>2. JobAfter(jobs[d], to, CancellationWasRequested(d)) \in Running \cup {"none", "canceling", "over"}
    BY <1>1 DEF JobAfter, Terminal, Running
  <1>3. jobs' \in [Deployments -> Running \cup {"none", "canceling", "over"}]
    BY <1>2 DEF StageRead, IInv, TypeOK
  <1>4. /\ stages' \in [Deployments -> [Requestors -> StageRecords]]
        /\ \A e \in Deployments \ {d} : stages'[e] = stages[e]
    <2> DEFINE record == [step |-> "refresh", to |-> to, counter |-> slot,
                          seen |-> IF k = "poll" THEN "none" ELSE build_status[d]]
    <2>1. record \in StageRecords
      BY DEF IInv, TypeOK, StageRecords, SlotWithinLimit
    <2> HIDE DEF record
    <2>2. stages' = stages \/ stages' = [stages EXCEPT ![d][k] = record]
      BY DEF StageRead, record
    <2> QED BY <2>1, <2>2, StagesUpdate DEF IInv, TypeOK
  <1>5. TypeOK'
    BY <1>3, <1>4 DEF StageRead, IInv, TypeOK, SlotWithinLimit, rowVars, history
  <1> QED BY <1>1, <1>4, <1>5, ClaimedFacts, ClaimedBuildStep
     DEF StageRead, rowVars, history, IInv, TypeOK

(* What refresh_build_slot writes back was within the limit when read.     *)
LEMMA StageRefreshInv ==
    ASSUME IInv, NEW d \in Deployments, NEW k \in Requestors, StageRefresh(d, k)
    PROVE  IInv'
  <1> DEFINE old == stages[d][k]
             record == IF k = "poll" THEN IdleStage ELSE [old EXCEPT !.step = "commit", !.counter = Expired]
  <1>1. old \in StageRecords /\ build_node[d] # NoNode
    BY ClaimedFacts DEF StageRefresh, IInv, TypeOK
  <1>2. record \in StageRecords
    <2> HIDE DEF old
    <2> DEFINE counters == -1..Limit
    <2>1. Expired \in counters
      BY LimitAssumption DEF Expired
    <2>2. old \in [step : {"idle", "refresh", "commit", "release"},
                   to : Terminal \cup {"none", "queued", "building"},
                   seen : BuildStatuses \cup {"none"}, counter : counters]
      BY <1>1 DEF StageRecords
    <2> HIDE DEF counters
    <2>3. [old EXCEPT !.step = "commit", !.counter = Expired] \in
              [step : {"idle", "refresh", "commit", "release"},
               to : Terminal \cup {"none", "queued", "building"},
               seen : BuildStatuses \cup {"none"}, counter : counters]
      BY <2>1, <2>2
    <2>4. [old EXCEPT !.step = "commit", !.counter = Expired] \in StageRecords
      BY <2>3 DEF StageRecords, counters
    <2> QED BY <2>4, IdleStageType
  <1>3. slot' \in -1..Limit
    BY <1>1 DEF StageRefresh, RefreshSlot, StageRecords, IInv, TypeOK, SlotWithinLimit
  <1>4. stages' = [stages EXCEPT ![d][k] = record]
    BY DEF StageRefresh, IInv, TypeOK
  <1> HIDE DEF old, record
  <1>5. /\ stages' \in [Deployments -> [Requestors -> StageRecords]]
        /\ \A e \in Deployments \ {d} : stages'[e] = stages[e]
    BY <1>2, <1>4, StagesUpdate DEF IInv, TypeOK
  <1>6. TypeOK'
    BY <1>3, <1>5 DEF StageRefresh, IInv, TypeOK, SlotWithinLimit, rowVars, history
  <1> QED BY <1>1, <1>5, <1>6, ClaimedFacts, ClaimedBuildStep DEF StageRefresh, rowVars, history

(* A late report revives only a build that was claimed.                    *)
LEMMA StageCommitInv ==
    ASSUME IInv, NEW d \in Deployments, StageCommit(d)
    PROVE  IInv'
  <1> DEFINE k == "pipeline"
             record == IF stages[d][k].to \in Terminal THEN [IdleStage EXCEPT !.step = "release"] ELSE IdleStage
  <1>1. /\ k \in Requestors
        /\ build_node[d] # NoNode
        /\ build_status[d] # "pending"
    BY ClaimedFacts DEF StageCommit, Requestors
  <1>2. record \in StageRecords
    BY LimitAssumption DEF IdleStage, StageRecords, Expired
  <1>3. /\ build_status' \in [Deployments -> BuildStatuses]
        /\ build_status'[d] # "pending"
        /\ \A e \in Deployments \ {d} : build_status'[e] = build_status[e]
    <2>1. build_status' = build_status
          \/ \E to \in BuildStatuses \ {"pending"} : build_status' = [build_status EXCEPT ![d] = to]
      BY DEF StageCommit, CanTransitionBuild, BuildStatuses, Running
    <2>2. build_status \in [Deployments -> BuildStatuses]
      BY DEF IInv, TypeOK
    <2> QED BY <1>1, <2>1, <2>2
  <1>4. stages' = [stages EXCEPT ![d][k] = record] \/ stages' = [stages EXCEPT ![d][k] = IdleStage]
    BY DEF StageCommit
  <1> HIDE DEF k, record
  <1>5. /\ stages' \in [Deployments -> [Requestors -> StageRecords]]
        /\ \A e \in Deployments \ {d} : stages'[e] = stages[e]
    BY <1>1, <1>2, <1>4, StagesUpdate, IdleStageType DEF IInv, TypeOK
  <1>6. TypeOK'
    BY <1>3, <1>5 DEF StageCommit, IInv, TypeOK, SlotWithinLimit, cacheVars, history
  <1> QED BY <1>1, <1>3, <1>5, <1>6, ClaimedBuildStep DEF StageCommit, cacheVars, history

(* A release never takes the counter below zero.                           *)
LEMMA ReleaseSlotType ==
    ASSUME SlotWithinLimit, ReleaseSlot
    PROVE  slot' \in -1..Limit
  BY LimitAssumption DEF ReleaseSlot, Count, Expired, SlotWithinLimit

(* release_build_slot_once decrements for d unless its marker is set.      *)
LEMMA ReleaseOnceInv ==
    ASSUME TypeOK, MarkerInv, NEW d \in Deployments, ReleaseOnce(d)
    PROVE  /\ slot' \in -1..Limit
           /\ released' \in SUBSET Deployments
           /\ releases' \in [Deployments -> Nat]
           /\ released' \subseteq released \cup {d}
           /\ MarkerInv'
  <1>1. CASE d \in released
    BY <1>1 DEF ReleaseOnce, TypeOK, SlotWithinLimit, MarkerInv
  <1>2. CASE d \notin released
    <2>1. slot' \in -1..Limit
      BY <1>2, ReleaseSlotType DEF ReleaseOnce, TypeOK
    <2>2. /\ released' = released \cup {d}
          /\ releases' = [releases EXCEPT ![d] = releases[d] + 1]
          /\ releases[d] = 0
      BY <1>2 DEF ReleaseOnce, MarkerInv
    <2> QED BY <2>1, <2>2 DEF TypeOK, MarkerInv
  <1> QED BY <1>1, <1>2

(* The stage handler releases a build with a node.                         *)
LEMMA StageReleaseInv ==
    ASSUME IInv, NEW d \in Deployments, StageRelease(d)
    PROVE  IInv'
  <1>1. "pipeline" \in Requestors /\ build_node[d] # NoNode
    BY ClaimedFacts DEF StageRelease, Requestors
  <1>2. /\ stages' \in [Deployments -> [Requestors -> StageRecords]]
        /\ \A e \in Deployments \ {d} : stages'[e] = stages[e]
    BY <1>1, StagesUpdate, IdleStageType DEF StageRelease, IInv, TypeOK
  <1>3. /\ slot' \in -1..Limit
        /\ released' \in SUBSET Deployments
        /\ releases' \in [Deployments -> Nat]
        /\ released' \subseteq released \cup {d}
        /\ MarkerInv'
    BY ReleaseOnceInv DEF StageRelease, IInv
  <1>4. TypeOK'
    BY <1>2, <1>3 DEF StageRelease, IInv, TypeOK, SlotWithinLimit, rowVars
  <1>5. ClaimedInv'
    BY <1>1, <1>2, <1>3 DEF StageRelease, IInv, ClaimedInv, rowVars
  <1> QED BY <1>3, <1>4, <1>5 DEF IInv

(* A stage handler whose client disconnects.                               *)
LEMMA StageDroppedInv ==
    ASSUME IInv, NEW d \in Deployments, NEW k \in Requestors, StageDropped(d, k)
    PROVE  IInv'
  <1>1. /\ stages' \in [Deployments -> [Requestors -> StageRecords]]
        /\ \A e \in Deployments, j \in Requestors :
              stages'[e][j] = IF e = d /\ j = k THEN IdleStage ELSE stages[e][j]
    BY IdleStageType DEF StageDropped, IInv, TypeOK
  <1>2. TypeOK' /\ MarkerInv'
    BY <1>1
       DEF StageDropped, IInv, TypeOK, SlotWithinLimit, rowVars, cacheVars, history, MarkerInv
  <1>3. ClaimedInv'
    BY <1>1 DEF StageDropped, IInv, ClaimedInv, rowVars, cacheVars, history, IdleStage
  <1> QED BY <1>2, <1>3 DEF IInv

(* A job that stops.                                                       *)
LEMMA JobLostInv ==
    ASSUME IInv, NEW d \in Deployments, JobLost(d)
    PROVE  IInv'
  <1>1. build_node[d] # NoNode /\ build_status[d] # "pending"
    BY ClaimedFacts DEF JobLost, LiveJobs
  <1>2. TypeOK'
    BY DEF JobLost, IInv, TypeOK, SlotWithinLimit, rowVars, cacheVars, history
  <1> QED BY <1>1, <1>2, ClaimedBuildStep DEF JobLost, rowVars, cacheVars, history, IInv, TypeOK

-------------------------------------------------------------------------------
(* Claims.                                                                 *)

(* A step of a claim handler that claims nothing.                          *)
LEMMA ClaimHandlerStep ==
    ASSUME IInv, NEW n \in Nodes,
           NEW claim \in [candidates : SUBSET Deployments, holding : Deployments \cup {NoCandidate}],
           claims' = [claims EXCEPT ![n] = claim],
           slot' \in -1..Limit,
           UNCHANGED <<rowVars, released, flagged, history, stages, cancels, jobs>>
    PROVE  IInv'
  BY DEF IInv, TypeOK, SlotWithinLimit, rowVars, history, ClaimedInv, MarkerInv

(* The claim handler lists its candidates.                                 *)
LEMMA ClaimBeginInv ==
    ASSUME IInv, NEW n \in Nodes, ClaimBegin(n)
    PROVE  IInv'
  <1> DEFINE claim == [claims[n] EXCEPT !.candidates = {d \in Deployments : build_status[d] = "pending"}]
  <1>1. claims' = [claims EXCEPT ![n] = claim]
    BY DEF ClaimBegin
  <1>2. claim \in [candidates : SUBSET Deployments, holding : Deployments \cup {NoCandidate}]
    <2>1. claims[n] \in [candidates : SUBSET Deployments, holding : Deployments \cup {NoCandidate}]
      BY DEF IInv, TypeOK
    <2> QED BY <2>1
  <1> HIDE DEF claim
  <1> QED BY <1>1, <1>2, ClaimHandlerStep
     DEF ClaimBegin, cacheVars, history, IInv, TypeOK, SlotWithinLimit

(* acquire_slot stays within the limit.                                    *)
LEMMA ClaimAcquireInv ==
    ASSUME IInv, NEW n \in Nodes, ClaimAcquire(n)
    PROVE  IInv'
  <1>1. PICK d \in claims[n].candidates :
           \/ /\ CanAcquire /\ AcquireSlot
              /\ claims' = [claims EXCEPT ![n] =
                     [candidates |-> claims[n].candidates \ {d}, holding |-> d]]
           \/ /\ UNCHANGED slot
              /\ claims' = [claims EXCEPT ![n].candidates = claims[n].candidates \ {d}]
    BY DEF ClaimAcquire
  <1>2. /\ claims[n] \in [candidates : SUBSET Deployments, holding : Deployments \cup {NoCandidate}]
        /\ d \in Deployments
    BY DEF IInv, TypeOK
  <1>3. CASE CanAcquire /\ AcquireSlot /\ claims' = [claims EXCEPT ![n] =
                 [candidates |-> claims[n].candidates \ {d}, holding |-> d]]
    <2>1. slot' \in -1..Limit
      BY <1>3, LimitAssumption
         DEF CanAcquire, AcquireSlot, Count, Expired, IInv, TypeOK, SlotWithinLimit
    <2>2. [candidates |-> claims[n].candidates \ {d}, holding |-> d]
              \in [candidates : SUBSET Deployments, holding : Deployments \cup {NoCandidate}]
      BY <1>2
    <2> QED BY <1>3, <2>1, <2>2, ClaimHandlerStep DEF ClaimAcquire
  <1>4. CASE UNCHANGED slot /\ claims' = [claims EXCEPT ![n].candidates = claims[n].candidates \ {d}]
    <2> DEFINE claim == [claims[n] EXCEPT !.candidates = claims[n].candidates \ {d}]
    <2>1. claim \in [candidates : SUBSET Deployments, holding : Deployments \cup {NoCandidate}]
      BY <1>2
    <2>2. claims' = [claims EXCEPT ![n] = claim]
      BY <1>4
    <2> HIDE DEF claim
    <2>3. slot' \in -1..Limit
      BY <1>4 DEF IInv, TypeOK, SlotWithinLimit
    <2> QED BY <2>1, <2>2, <2>3, ClaimHandlerStep DEF ClaimAcquire
  <1> QED BY <1>1, <1>3, <1>4

(* The one step that gives a build to a node finds it without one.         *)
LEMMA ClaimUpdateInv ==
    ASSUME IInv, NEW n \in Nodes, ClaimUpdate(n)
    PROVE  IInv'
  <1> DEFINE d == claims[n].holding
  <1>1. d \in Deployments
    BY DEF ClaimUpdate, IInv, TypeOK
  <1>2. /\ build_status' = [build_status EXCEPT ![d] = "claimed"]
        /\ build_node' = [build_node EXCEPT ![d] = n]
        /\ \E job \in {"claimed", "over"} : jobs' = [jobs EXCEPT ![d] = job]
        /\ claims' = [claims EXCEPT ![n] = IdleClaim]
        /\ UNCHANGED <<cacheVars, stages, cancels>>
    BY DEF ClaimUpdate
  <1> HIDE DEF d
  <1>3. TypeOK'
    BY <1>1, <1>2
       DEF IInv, TypeOK, SlotWithinLimit, cacheVars, history, BuildStatuses, Running, IdleClaim
  <1>4. ClaimedInv'
    BY <1>1, <1>2, NoNodeAssumption DEF IInv, TypeOK, ClaimedInv, cacheVars, history
  <1>5. MarkerInv'
    BY <1>2 DEF IInv, MarkerInv, cacheVars, history
  <1> QED BY <1>3, <1>4, <1>5 DEF IInv

(* The claim handler gives back its own slot, without a marker.            *)
LEMMA ClaimFailInv ==
    ASSUME IInv, NEW n \in Nodes, ClaimFail(n)
    PROVE  IInv'
  <1> DEFINE claim == IF build_status[claims[n].holding] # "pending"
                      THEN [claims[n] EXCEPT !.holding = NoCandidate] ELSE IdleClaim
  <1>1. claims' = [claims EXCEPT ![n] = claim]
    BY Zenon DEF ClaimFail
  <1>2. claim \in [candidates : SUBSET Deployments, holding : Deployments \cup {NoCandidate}]
    BY DEF IInv, TypeOK, IdleClaim
  <1>3. slot' \in -1..Limit
    BY ReleaseSlotType DEF ClaimFail, IInv, TypeOK
  <1> HIDE DEF claim
  <1> QED BY <1>1, <1>2, <1>3, ClaimHandlerStep DEF ClaimFail

(* A claim handler whose client disconnects.                               *)
LEMMA ClaimDroppedInv ==
    ASSUME IInv, NEW n \in Nodes, ClaimDropped(n)
    PROVE  IInv'
  <1>1. IdleClaim \in [candidates : SUBSET Deployments, holding : Deployments \cup {NoCandidate}]
    BY DEF IdleClaim
  <1> QED BY <1>1, ClaimHandlerStep
     DEF ClaimDropped, cacheVars, history, IInv, TypeOK, SlotWithinLimit

-------------------------------------------------------------------------------
(* Cancellations.                                                          *)

CancelRecords == [step : {"idle", "commit", "flag", "release"}, was_running : BOOLEAN]

(* A step of a cancel handler that leaves rows and markers alone; what it  *)
(* will do to the slot still concerns a claimed build only.                *)
LEMMA CancelHandlerStep ==
    ASSUME IInv, NEW d \in Deployments, NEW cancel \in CancelRecords,
           cancels' = [cancels EXCEPT ![d] = cancel],
           flagged' \in SUBSET Deployments,
           build_node[d] = NoNode => ~cancel.was_running /\ cancel.step \in {"idle", "commit"},
           UNCHANGED <<rowVars, slot, released, history, claims, stages, jobs>>
    PROVE  IInv'
  BY DEF CancelRecords, IInv, TypeOK, SlotWithinLimit, rowVars, history, ClaimedInv, MarkerInv

(* The idle cancel handler is a cancel handler.                            *)
LEMMA IdleCancelType == IdleCancel \in CancelRecords /\ ~IdleCancel.was_running /\ IdleCancel.step = "idle"
  BY DEF IdleCancel, CancelRecords

(* was_running is true only of a build that has a node.                    *)
LEMMA CancelReadInv ==
    ASSUME IInv, NEW d \in Deployments, CancelRead(d)
    PROVE  IInv'
  <1> DEFINE cancel == [step |-> "commit", was_running |-> build_status[d] \in Running]
  <1>1. /\ cancel \in CancelRecords
        /\ build_node[d] = NoNode => ~cancel.was_running /\ cancel.step = "commit"
    <2>1. (build_status[d] \in Running) \in BOOLEAN
      OBVIOUS
    <2>2. cancel \in CancelRecords
      BY <2>1, Zenon DEF CancelRecords
    <2>3. cancel.step = "commit" /\ (cancel.was_running <=> build_status[d] \in Running)
      OBVIOUS
    <2> QED BY <2>2, <2>3, ClaimedFacts
  <1>2. cancels' = [cancels EXCEPT ![d] = cancel]
    BY DEF CancelRead
  <1> HIDE DEF cancel
  <1> QED BY <1>1, <1>2, CancelHandlerStep DEF CancelRead, cacheVars, history, IInv, TypeOK

(* A cancellation goes on to the cache only if was_running.                *)
LEMMA CancelCommitInv ==
    ASSUME IInv, NEW d \in Deployments, CancelCommit(d)
    PROVE  IInv'
  <1> DEFINE cancel == IF cancels[d].was_running THEN [cancels[d] EXCEPT !.step = "flag"] ELSE IdleCancel
  <1>1. cancels[d] \in CancelRecords
    BY DEF IInv, TypeOK, CancelRecords
  <1>2. cancel \in CancelRecords
    BY <1>1, IdleCancelType DEF CancelRecords
  <1>3. build_node[d] = NoNode => ~cancel.was_running /\ cancel.step = "idle"
    BY ClaimedFacts, IdleCancelType
  <1>4. CASE ~CanTransitionBuild(build_status[d], "canceled")
    BY <1>4, IdleCancelType, CancelHandlerStep
       DEF CancelCommit, cacheVars, history, rowVars, IInv, TypeOK
  <1>5. CASE CanTransitionBuild(build_status[d], "canceled")
    <2>1. /\ build_status' = [build_status EXCEPT ![d] = "canceled"]
          /\ cancels' = [cancels EXCEPT ![d] = cancel]
      BY <1>5, Zenon DEF CancelCommit
    <2> HIDE DEF cancel
    <2>2. TypeOK'
      BY <1>2, <2>1
         DEF CancelCommit, cacheVars, history, IInv, TypeOK, SlotWithinLimit, BuildStatuses, CancelRecords
    <2>3. ClaimedInv'
      BY <1>3, <2>1 DEF CancelCommit, cacheVars, history, IInv, TypeOK, ClaimedInv
    <2>4. MarkerInv'
      BY DEF CancelCommit, cacheVars, history, IInv, MarkerInv
    <2> QED BY <2>2, <2>3, <2>4 DEF IInv
  <1> QED BY <1>4, <1>5

(* The flag concerns neither rows nor the counter.                         *)
LEMMA CancelFlagInv ==
    ASSUME IInv, NEW d \in Deployments, CancelFlag(d)
    PROVE  IInv'
  <1> DEFINE cancel == [cancels[d] EXCEPT !.step = "release"]
  <1>1. cancel \in CancelRecords /\ build_node[d] # NoNode
    BY ClaimedFacts DEF CancelFlag, IInv, TypeOK, CancelRecords
  <1>2. cancels' = [cancels EXCEPT ![d] = cancel]
    BY DEF CancelFlag
  <1>3. flagged' \in SUBSET Deployments
    BY DEF CancelFlag, IInv, TypeOK
  <1> HIDE DEF cancel
  <1> QED BY <1>1, <1>2, <1>3, CancelHandlerStep DEF CancelFlag

(* The cancel handler releases a build with a node.                        *)
LEMMA CancelReleaseInv ==
    ASSUME IInv, NEW d \in Deployments, CancelRelease(d)
    PROVE  IInv'
  <1>1. build_node[d] # NoNode
    BY ClaimedFacts DEF CancelRelease
  <1>2. /\ slot' \in -1..Limit
        /\ released' \in SUBSET Deployments
        /\ releases' \in [Deployments -> Nat]
        /\ released' \subseteq released \cup {d}
        /\ MarkerInv'
    BY ReleaseOnceInv DEF CancelRelease, IInv
  <1>3. TypeOK'
    BY <1>2, IdleCancelType
       DEF CancelRelease, IInv, TypeOK, SlotWithinLimit, rowVars, CancelRecords
  <1>4. ClaimedInv'
    BY <1>1, <1>2 DEF CancelRelease, IInv, TypeOK, ClaimedInv, rowVars
  <1> QED BY <1>2, <1>3, <1>4 DEF IInv

(* A cancel handler whose client disconnects.                              *)
LEMMA CancelDroppedInv ==
    ASSUME IInv, NEW d \in Deployments, CancelDropped(d)
    PROVE  IInv'
  BY IdleCancelType, CancelHandlerStep DEF CancelDropped, cacheVars, history, IInv, TypeOK

(* The counter's key disappears.                                           *)
LEMMA ExpireInv ==
    ASSUME IInv, Expire
    PROVE  IInv'
  <1>1. slot' \in -1..Limit
    BY LimitAssumption DEF Expire, ExpireSlot, Expired
  <1> QED BY <1>1 DEF Expire, IInv, TypeOK, SlotWithinLimit, rowVars, ClaimedInv, MarkerInv

-------------------------------------------------------------------------------
(* Every step preserves the invariant.                                     *)
LEMMA StepInv == IInv /\ [Next]_vars => IInv'
  <1> SUFFICES ASSUME IInv, [Next]_vars
               PROVE  IInv'
    OBVIOUS
  <1>1. ASSUME NEW n \in Nodes, ClaimBegin(n) \/ ClaimStep(n) \/ ClaimDropped(n)
        PROVE  IInv'
    BY <1>1, ClaimBeginInv, ClaimAcquireInv, ClaimUpdateInv, ClaimFailInv, ClaimDroppedInv
       DEF ClaimStep
  <1>2. ASSUME NEW d \in Deployments, NEW k \in Requestors,
               NEW to \in Terminal \cup {"none", "queued", "building"}, StageRead(d, k, to)
        PROVE  IInv'
    BY <1>2, StageReadInv
  <1>3. ASSUME NEW d \in Deployments, StageStep(d)
        PROVE  IInv'
    BY <1>3, StageRefreshInv, StageCommitInv, StageReleaseInv DEF StageStep
  <1>4. ASSUME NEW d \in Deployments, NEW k \in Requestors, StageDropped(d, k)
        PROVE  IInv'
    BY <1>4, StageDroppedInv
  <1>5. ASSUME NEW d \in Deployments, JobLost(d)
        PROVE  IInv'
    BY <1>5, JobLostInv
  <1>6. ASSUME NEW d \in Deployments, CancelRead(d) \/ CancelStep(d) \/ CancelDropped(d)
        PROVE  IInv'
    BY <1>6, CancelReadInv, CancelCommitInv, CancelFlagInv, CancelReleaseInv, CancelDroppedInv
    DEF CancelStep
  <1>7. CASE UNCHANGED vars
    BY <1>7
       DEF vars, rowVars, cacheVars, history, IInv, TypeOK, SlotWithinLimit, ClaimedInv, MarkerInv
  <1> QED BY <1>1, <1>2, <1>3, <1>4, <1>5, <1>6, <1>7, ExpireInv DEF Next

(* The inductive invariant holds of every reachable state.                 *)
THEOREM Invariance == Spec => []IInv
  <1>1. Init => IInv
    BY InitInv
  <1>2. IInv /\ [Next]_vars => IInv'
    BY StepInv
  <1> QED BY <1>1, <1>2, PTL DEF Spec

(* The counter stays in range and every handler record is well typed.      *)
THEOREM TypeCorrect == Spec => []TypeOK
  <1>1. IInv => TypeOK
    BY DEF IInv
  <1> QED BY <1>1, Invariance, PTL

(* No build gives its slot back twice, however its reports and its         *)
(* cancellations race (release_build_slot_once).                           *)
THEOREM ReleasedAtMostOnceHolds == Spec => []ReleasedAtMostOnce
  <1>1. IInv => ReleasedAtMostOnce
    BY DEF IInv, MarkerInv, ReleasedAtMostOnce
  <1> QED BY <1>1, Invariance, PTL

(* Only a claimed build gives a slot back (stage, cancel_deployment_core). *)
THEOREM ReleasedWasClaimedHolds == Spec => []ReleasedWasClaimed
  <1>1. IInv => ReleasedWasClaimed
    BY DEF IInv, TypeOK, ClaimedInv, ReleasedWasClaimed
  <1> QED BY <1>1, Invariance, PTL

(* A claimed build is never handed to a node again (claim).                *)
THEOREM OneBuildNodeHolds == Spec => OneBuildNode
  <1> DEFINE Kept == \A d \in Deployments : build_node[d] # NoNode => build_node'[d] = build_node[d]
  <1>1. IInv /\ [Next]_vars => [Kept]_vars
    <2> SUFFICES ASSUME IInv, Next
                 PROVE  Kept
      OBVIOUS
    <2>1. CASE \E n \in Nodes : ClaimUpdate(n)
      BY <2>1, ClaimedFacts DEF ClaimUpdate, IInv, TypeOK
    <2>2. CASE UNCHANGED build_node
      BY <2>2
    <2>3. CASE \E n \in Nodes : ClaimBegin(n) \/ ClaimStep(n) \/ ClaimDropped(n)
      BY <2>1, <2>2, <2>3
         DEF ClaimBegin, ClaimStep, ClaimAcquire, ClaimFail, ClaimDropped, rowVars
    <2>4. ASSUME NEW d \in Deployments, NEW k \in Requestors,
                 NEW to \in Terminal \cup {"none", "queued", "building"},
                 StageRead(d, k, to) \/ StageRefresh(d, k) \/ StageDropped(d, k)
          PROVE  UNCHANGED build_node
      BY <2>4 DEF StageRead, StageRefresh, StageDropped, rowVars
    <2>5. ASSUME NEW d \in Deployments,
                 StageCommit(d) \/ StageRelease(d) \/ JobLost(d) \/ CancelRead(d)
                 \/ CancelStep(d) \/ CancelDropped(d)
          PROVE  UNCHANGED build_node
      BY <2>5
         DEF StageCommit, StageRelease, JobLost, CancelRead, CancelStep, CancelCommit, CancelFlag,
                  CancelRelease, CancelDropped, rowVars
    <2>6. CASE Expire
      BY <2>2, <2>6 DEF Expire, rowVars
    <2>7. "none" \in Terminal \cup {"none", "queued", "building"}
      OBVIOUS
    <2> QED BY <2>2, <2>3, <2>4, <2>5, <2>6, <2>7 DEF Next, StageStep
  <1> QED BY <1>1, Invariance, PTL DEF Spec, OneBuildNode

-------------------------------------------------------------------------------
(* The counter against the slots in use.                                   *)

(* A build the counter has forgotten is over on its node: no report of it  *)
(* is to come that could give its slot back.                               *)
ForgottenInv ==
    \A d \in forgotten :
        /\ build_node[d] # NoNode
        /\ jobs[d] = "over"
        /\ \A k \in Requestors : stages[d][k] = IdleStage

(* A build that was handed to a node has, or had, a job.                   *)
JobInv == \A d \in Deployments : build_node[d] # NoNode => jobs[d] # "none"

SlotInv == IInv /\ JobInv /\ ForgottenInv

LEMMA JobInvNext ==
    ASSUME TypeOK, JobInv, [Next]_vars
    PROVE  JobInv'
  <1>1. CASE UNCHANGED <<build_node, jobs>>
    BY <1>1 DEF JobInv
  <1>2. CASE /\ UNCHANGED build_node
             /\ \E d \in Deployments, job \in Running \cup {"canceling", "over"} :
                   jobs' = [jobs EXCEPT ![d] = job]
    BY <1>2 DEF JobInv, TypeOK, Running
  <1>3. CASE \E n \in Nodes : ClaimUpdate(n)
    <2>1. PICK n \in Nodes : ClaimUpdate(n)
      BY <1>3
    <2>2. PICK job \in {"claimed", "over"} :
             /\ jobs' = [jobs EXCEPT ![claims[n].holding] = job]
             /\ build_node' = [build_node EXCEPT ![claims[n].holding] = n]
      BY <2>1 DEF ClaimUpdate
    <2> QED BY <2>2 DEF JobInv, TypeOK
  <1>4. CASE \E d \in Deployments : JobLost(d)
    BY <1>2, <1>4 DEF JobLost, rowVars
  <1>5. CASE \E d \in Deployments, k \in Requestors, to \in Terminal \cup {"none", "queued", "building"} :
                StageRead(d, k, to)
    <2>1. PICK d \in Deployments, k \in Requestors, to \in Terminal \cup {"none", "queued", "building"} :
             StageRead(d, k, to)
      BY <1>5
    <2>2. /\ jobs[d] \in Running \cup {"canceling"}
          /\ jobs' = [jobs EXCEPT ![d] = JobAfter(jobs[d], to, CancellationWasRequested(d))]
          /\ UNCHANGED build_node
      BY <2>1 DEF StageRead, LiveJobs, TypeOK, rowVars
    <2>3. JobAfter(jobs[d], to, CancellationWasRequested(d)) \in Running \cup {"canceling", "over"}
      BY <2>2 DEF JobAfter, Running, Terminal
    <2> QED BY <1>2, <2>2, <2>3
  <1>6. CASE \E n \in Nodes : ClaimBegin(n) \/ ClaimAcquire(n) \/ ClaimFail(n) \/ ClaimDropped(n)
    BY <1>1, <1>6 DEF ClaimBegin, ClaimAcquire, ClaimFail, ClaimDropped, rowVars
  <1>7. CASE \E d \in Deployments : StageStep(d) \/ \E k \in Requestors : StageDropped(d, k)
    BY <1>1, <1>7 DEF StageStep, StageRefresh, StageCommit, StageRelease, StageDropped, rowVars
  <1>8. CASE \E d \in Deployments : CancelRead(d) \/ CancelStep(d) \/ CancelDropped(d)
    BY <1>1, <1>8
       DEF CancelRead, CancelStep, CancelCommit, CancelFlag, CancelRelease, CancelDropped, rowVars
  <1>9. CASE Expire \/ UNCHANGED vars
    BY <1>1, <1>9 DEF Expire, vars, rowVars
  <1> QED BY <1>3, <1>4, <1>5, <1>6, <1>7, <1>8, <1>9 DEF Next, ClaimStep

(* The sizes are numbers.                                                  *)
Sizes ==
    /\ InUse \in SUBSET Deployments /\ IsFiniteSet(InUse) /\ Cardinality(InUse) \in Nat
    /\ Holding \in SUBSET Nodes /\ IsFiniteSet(Holding) /\ Cardinality(Holding) \in Nat
    /\ Count \in Nat /\ slot \in Int
    /\ Count = IF slot = Expired THEN 0 ELSE slot

LEMMA SizesHold == TypeOK => Sizes
  <1> SUFFICES ASSUME TypeOK PROVE Sizes
    OBVIOUS
  <1>1. InUse \in SUBSET Deployments /\ Holding \in SUBSET Nodes
    BY DEF InUse, Holding
  <1>2. IsFiniteSet(InUse) /\ IsFiniteSet(Holding)
    BY <1>1, DeploymentsAssumption, NodesAssumption, FS_Subset
  <1>3. Cardinality(InUse) \in Nat /\ Cardinality(Holding) \in Nat
    BY <1>2, FS_CardinalityType
  <1>4. Count \in Nat /\ slot \in Int /\ Count = IF slot = Expired THEN 0 ELSE slot
    BY LimitAssumption DEF TypeOK, SlotWithinLimit, Count, Expired
  <1> QED BY <1>1, <1>2, <1>3, <1>4 DEF Sizes

LEMMA SizesHoldNext == TypeOK' => Sizes'
  BY SizesHold, PTL

(* What is said of a step: neither side of the equation gains on the other *)
(* but by the named steps, and nobody leaves a slot behind but by them.    *)
KeepsCover == Covered /\ ~Covered' => LostClaim \/ LateRelease

KeepsUnpinned == Pinned' /\ ~Pinned => LostRelease \/ \E n \in Holding : ClaimDropped(n)

KeepsReleasers ==
    \A d \in Deployments :
        Orphaned(d)' /\ ~Orphaned(d) =>
            \/ StageDropped(d, "pipeline") \/ CancelDropped(d)
            \/ CancelCommit(d) /\ ~cancels[d].was_running

Accounted == ForgottenInv' /\ KeepsCover /\ KeepsUnpinned /\ KeepsReleasers

(* A step that gives and takes no slot.                                    *)
LEMMA SameUse ==
    ASSUME UNCHANGED <<build_node, released, forgotten, slot>>,
           \A n \in Nodes : claims'[n].holding = claims[n].holding
    PROVE  InUse' = InUse /\ Holding' = Holding /\ KeepsCover /\ KeepsUnpinned
  <1>1. InUse' = InUse /\ Holding' = Holding /\ Count' = Count
    BY DEF InUse, Holding, Count
  <1>2. (Covered <=> Covered') /\ (Pinned <=> Pinned')
    BY <1>1 DEF Covered, Pinned
  <1> QED BY <1>1, <1>2 DEF KeepsCover, KeepsUnpinned

(* A step that gives as many as it takes, or changes the counter by them.  *)
LEMMA UseStep ==
    ASSUME TypeOK, TypeOK', NEW use \in {-1, 0, 1}, NEW hold \in {-1, 0, 1},
           Cardinality(InUse)' = Cardinality(InUse) + use,
           Cardinality(Holding)' = Cardinality(Holding) + hold,
           \/ Count' = Count + use + hold
           \/ Count' = 0 /\ Count = 0 /\ use + hold <= 0
    PROVE  KeepsCover /\ KeepsUnpinned
  <1>1. /\ Cardinality(InUse) \in Nat /\ Cardinality(Holding) \in Nat /\ Count \in Nat
    BY SizesHold DEF Sizes
  <1>2. /\ Cardinality(InUse)' \in Nat /\ Cardinality(Holding)' \in Nat /\ Count' \in Nat
    BY SizesHoldNext DEF Sizes
  <1>3. Covered => Covered'
    BY <1>1, <1>2 DEF Covered
  <1>4. Pinned' => Pinned
    BY <1>1, <1>2 DEF Pinned
  <1> QED BY <1>3, <1>4 DEF KeepsCover, KeepsUnpinned

(* A step after which no build has lost the handler that will release it.  *)
LEMMA SameReleasers ==
    ASSUME \A d \in Deployments : Orphaned(d)' => Orphaned(d)
    PROVE  KeepsReleasers
  BY DEF KeepsReleasers

(* The steps of a claim handler.                                           *)
LEMMA ClaimAccounted ==
    ASSUME SlotInv, IInv', NEW n \in Nodes, ClaimBegin(n) \/ ClaimStep(n) \/ ClaimDropped(n)
    PROVE  Accounted
  <1>0. TypeOK /\ TypeOK' /\ IInv /\ Sizes
    BY SizesHold DEF SlotInv, IInv
  <1>1. /\ claims \in [Nodes -> [candidates : SUBSET Deployments, holding : Deployments \cup {NoCandidate}]]
        /\ IdleClaim.holding = NoCandidate
    BY <1>0 DEF TypeOK, IdleClaim
  <1>2. UNCHANGED <<released, forgotten, stages, cancels>>
    BY
       DEF ClaimBegin, ClaimStep, ClaimAcquire, ClaimUpdate, ClaimFail, ClaimDropped, cacheVars, history
  <1>3. \A m \in Nodes \ {n} : claims'[m] = claims[m]
    BY <1>1 DEF ClaimBegin, ClaimStep, ClaimAcquire, ClaimUpdate, ClaimFail, ClaimDropped
  <1>4. ASSUME UNCHANGED rowVars
        PROVE  /\ InUse' = InUse /\ Cardinality(InUse)' = Cardinality(InUse) + 0
               /\ KeepsReleasers
    <2>1. InUse' = InUse
      BY <1>2, <1>4 DEF InUse, rowVars
    <2>2. \A d \in Deployments : Orphaned(d)' => Orphaned(d)
      BY <1>2, <1>4, <2>1 DEF Orphaned, rowVars
    <2> QED BY <1>0, <2>1, <2>2, SameReleasers DEF Sizes
  <1>5. ASSUME UNCHANGED <<rowVars, jobs>>
        PROVE  ForgottenInv'
    BY <1>2, <1>5 DEF ForgottenInv, SlotInv, rowVars
  (* The slot taken is held; the slot given back, or handed to the build,  *)
  (* is held no more.                                                      *)
  <1>6. ASSUME claims[n].holding = NoCandidate, claims'[n].holding # NoCandidate
        PROVE  Cardinality(Holding)' = Cardinality(Holding) + 1
    <2>1. n \notin Holding /\ Holding' = Holding \cup {n}
      BY <1>3, <1>6 DEF Holding
    <2> QED BY <1>0, <2>1, FS_AddElement DEF Sizes
  <1>7. ASSUME claims[n].holding # NoCandidate, claims'[n].holding = NoCandidate
        PROVE  Cardinality(Holding)' = Cardinality(Holding) + (-1)
    <2>1. n \in Holding /\ Holding' = Holding \ {n}
      BY <1>3, <1>7 DEF Holding
    <2> QED BY <1>0, <2>1, FS_RemoveElement DEF Sizes
  <1>8. CASE UNCHANGED <<rowVars, slot, jobs>> /\ claims'[n].holding = claims[n].holding
    <2>1. \A m \in Nodes : claims'[m].holding = claims[m].holding
      BY <1>3, <1>8
    <2>2. KeepsCover /\ KeepsUnpinned
      BY <1>2, <1>8, <2>1, SameUse DEF rowVars
    <2> QED BY <1>4, <1>5, <1>8, <2>2 DEF Accounted
  <1>9. CASE ClaimBegin(n)
    <2>1. claims'[n].holding = claims[n].holding
      BY <1>1, <1>9 DEF ClaimBegin
    <2> QED BY <1>8, <1>9, <2>1 DEF ClaimBegin, cacheVars
  <1>10. CASE ClaimAcquire(n)
    <2>0. UNCHANGED <<rowVars, jobs>> /\ claims[n].holding = NoCandidate
      BY <1>10 DEF ClaimAcquire
    <2>1. PICK d \in claims[n].candidates :
             \/ AcquireSlot /\ claims' = [claims EXCEPT ![n] =
                                  [candidates |-> claims[n].candidates \ {d}, holding |-> d]]
             \/ /\ UNCHANGED slot
                /\ claims' = [claims EXCEPT ![n].candidates = claims[n].candidates \ {d}]
      BY <1>10 DEF ClaimAcquire
    <2>2. CASE AcquireSlot /\ claims' = [claims EXCEPT ![n] =
                                 [candidates |-> claims[n].candidates \ {d}, holding |-> d]]
      <3>1. d \in Deployments /\ claims'[n].holding = d
        BY <1>1, <2>2
      <3>2. d # NoCandidate
        BY <3>1, DeploymentsAssumption DEF NoCandidate
      <3>3. Count' = Count + 1
        BY <1>0, <2>2 DEF AcquireSlot, Count, Sizes, Expired
      <3>4. Count' = Count + 0 + 1
        BY <1>0, <3>3 DEF Sizes
      <3>5. KeepsCover /\ KeepsUnpinned
        BY <1>0, <1>4, <1>6, <2>0, <3>1, <3>2, <3>4, UseStep
      <3> QED BY <1>4, <1>5, <2>0, <3>5 DEF Accounted
    <2>3. CASE UNCHANGED slot /\ claims' = [claims EXCEPT ![n].candidates = claims[n].candidates \ {d}]
      <3>1. claims'[n].holding = claims[n].holding
        BY <1>1, <2>3
      <3> QED BY <1>8, <2>0, <2>3, <3>1
    <2> QED BY <2>1, <2>2, <2>3
  <1>11. CASE ClaimUpdate(n)
    <2> DEFINE d == claims[n].holding
    <2>1. d \in Deployments /\ d # NoCandidate /\ build_status[d] = "pending"
      BY <1>1, <1>11 DEF ClaimUpdate
    <2>2. build_node[d] = NoNode /\ d \notin released /\ d \notin forgotten
      BY <2>1, <1>0 DEF IInv, ClaimedInv, SlotInv, ForgottenInv
    <2>3. /\ build_status' = [build_status EXCEPT ![d] = "claimed"]
          /\ build_node' = [build_node EXCEPT ![d] = n]
          /\ \E job \in {"claimed", "over"} : jobs' = [jobs EXCEPT ![d] = job]
          /\ claims'[n].holding = NoCandidate /\ UNCHANGED slot
      BY <1>1, <1>11 DEF ClaimUpdate, cacheVars
    <2>4. /\ build_node \in [Deployments -> Nodes \cup {NoNode}]
          /\ build_status \in [Deployments -> BuildStatuses]
      BY <1>0 DEF TypeOK
    <2> HIDE DEF d
    <2>5. d \notin InUse /\ InUse' = InUse \cup {d}
      BY <1>2, <2>1, <2>2, <2>3, <2>4, NoNodeAssumption DEF InUse
    <2>6. Cardinality(InUse)' = Cardinality(InUse) + 1
      BY <1>0, <2>5, FS_AddElement DEF Sizes
    <2>7. Count' = Count + 1 + (-1)
      BY <1>0, <2>3 DEF Count, Sizes
    <2>8. Cardinality(Holding)' = Cardinality(Holding) + (-1)
      BY <1>7, <2>1, <2>3 DEF d
    <2>9. KeepsCover /\ KeepsUnpinned
      BY <1>0, <2>6, <2>7, <2>8, UseStep
    <2>10. ForgottenInv'
      BY <1>0, <1>2, <2>2, <2>3 DEF ForgottenInv, SlotInv, TypeOK
    <2>11. \A e \in Deployments : Orphaned(e)' => Orphaned(e)
      BY <1>2, <2>3, <2>4, <2>5 DEF Orphaned, Running
    <2> QED BY <2>9, <2>10, <2>11, SameReleasers DEF Accounted
  <1>12. CASE ClaimFail(n)
    <2>1. /\ claims[n].holding # NoCandidate /\ claims'[n].holding = NoCandidate
          /\ ReleaseSlot /\ UNCHANGED <<rowVars, jobs>>
      BY <1>1, <1>12 DEF ClaimFail
    <2>2. Count' = Count + 0 + (-1) \/ (Count' = 0 /\ Count = 0)
      BY <1>0, <2>1 DEF ReleaseSlot, Sizes, Count, Expired
    <2>3. KeepsCover /\ KeepsUnpinned
      BY <1>0, <1>4, <1>7, <2>1, <2>2, UseStep
    <2> QED BY <1>4, <1>5, <2>1, <2>3 DEF Accounted
  <1>13. CASE ClaimDropped(n)
    <2>1. claims'[n].holding = NoCandidate /\ UNCHANGED <<rowVars, slot, jobs>>
      BY <1>1, <1>13 DEF ClaimDropped, cacheVars
    <2>2. CASE claims[n].holding = NoCandidate
      BY <1>8, <2>1, <2>2
    <2>3. CASE claims[n].holding # NoCandidate
      <3>1. Cardinality(Holding)' = Cardinality(Holding) + (-1) /\ n \in Holding
        BY <1>7, <2>1, <2>3 DEF Holding
      <3>2. Covered => Covered'
        <4>1. Cardinality(InUse)' = Cardinality(InUse) + 0 /\ Count' = Count
          BY <1>4, <2>1 DEF Count
        <4> QED BY <1>0, <3>1, <4>1 DEF Covered, Sizes
      <3>3. KeepsCover /\ KeepsUnpinned
        BY <1>13, <3>1, <3>2 DEF KeepsCover, KeepsUnpinned
      <3> QED BY <1>4, <1>5, <2>1, <3>3 DEF Accounted
    <2> QED BY <2>2, <2>3
  <1> QED BY <1>9, <1>10, <1>11, <1>12, <1>13 DEF ClaimStep

(* A step of the handlers or the job of one build.                         *)
LEMMA BuildStepAccounted ==
    ASSUME SlotInv, NEW d \in Deployments,
           UNCHANGED <<build_node, released, forgotten, claims>>,
           \A e \in Deployments \ {d} :
              /\ build_status'[e] = build_status[e] /\ jobs'[e] = jobs[e]
              /\ stages'[e] = stages[e] /\ cancels'[e] = cancels[e],
           d \in forgotten => jobs'[d] = "over" /\ \A k \in Requestors : stages'[d][k] = IdleStage,
           \/ \A e \in {d} : Orphaned(e)' => Orphaned(e)
           \/ StageDropped(d, "pipeline") \/ CancelDropped(d)
           \/ CancelCommit(d) /\ ~cancels[d].was_running
    PROVE  ForgottenInv' /\ KeepsReleasers
  <1>1. ForgottenInv'
    BY DEF ForgottenInv, SlotInv, IInv, TypeOK
  <1>2. InUse' = InUse
    BY DEF InUse
  <1>3. \A e \in Deployments \ {d} : Orphaned(e)' => Orphaned(e)
    BY <1>2 DEF Orphaned
  <1>4. KeepsReleasers
    BY <1>3 DEF KeepsReleasers
  <1> QED BY <1>1, <1>4

(* A report changes nothing of the slots; its handler is on its way.       *)
LEMMA StageReadAccounted ==
    ASSUME SlotInv, NEW d \in Deployments, NEW k \in Requestors,
           NEW to \in Terminal \cup {"none", "queued", "building"}, StageRead(d, k, to)
    PROVE  Accounted
  <1>0. TypeOK
    BY DEF SlotInv, IInv
  <1>1. /\ jobs[d] # "over" /\ d \notin forgotten
        /\ stages[d][k] = IdleStage
        /\ UNCHANGED <<build_status, build_node, released, forgotten, claims, cancels, slot>>
        /\ \A e \in Deployments \ {d} : jobs'[e] = jobs[e] /\ stages'[e] = stages[e]
    BY <1>0 DEF StageRead, LiveJobs, SlotInv, ForgottenInv, rowVars, history, TypeOK
  <1>2. stages[d]["pipeline"].step = "release" => stages'[d]["pipeline"] = stages[d]["pipeline"]
    <2>1. CASE k = "pipeline"
      BY <1>1, <2>1 DEF IdleStage
    <2>2. CASE k # "pipeline"
      <3>1. "pipeline" \in Requestors /\ stages \in [Deployments -> [Requestors -> StageRecords]]
        BY <1>0 DEF TypeOK, Requestors
      <3>2. stages' = stages \/ \E r : stages' = [stages EXCEPT ![d][k] = r]
        BY DEF StageRead
      <3> QED BY <2>2, <3>1, <3>2
    <2> QED BY <2>1, <2>2
  <1>4. Orphaned(d)' => Orphaned(d)
    <2>1. InUse' = InUse
      BY <1>1 DEF InUse
    <2> QED BY <1>1, <1>2, <2>1 DEF Orphaned
  <1>5. KeepsCover /\ KeepsUnpinned
    BY <1>1, SameUse
  <1>6. ForgottenInv' /\ KeepsReleasers
    BY <1>1, <1>4, BuildStepAccounted
  <1> QED BY <1>5, <1>6 DEF Accounted

(* A refresh is lost or loses a claim or a release, or changes nothing.    *)
LEMMA StageRefreshAccounted ==
    ASSUME SlotInv, IInv', NEW d \in Deployments, NEW k \in Requestors, StageRefresh(d, k)
    PROVE  Accounted
  <1>0. TypeOK /\ TypeOK' /\ Sizes /\ Sizes'
    BY SizesHold, SizesHoldNext DEF SlotInv, IInv
  <1>1. /\ d \notin forgotten
        /\ stages[d][k].step = "refresh"
        /\ UNCHANGED <<build_status, build_node, released, forgotten, claims, cancels, jobs>>
        /\ \A e \in Deployments \ {d} : stages'[e] = stages[e]
    BY <1>0 DEF StageRefresh, SlotInv, ForgottenInv, rowVars, history, TypeOK, IdleStage
  <1>2. /\ stages'[d]["pipeline"].step \in {"idle", "commit"} \/ stages'[d]["pipeline"] = stages[d]["pipeline"]
        /\ stages[d]["pipeline"].step = "refresh" \/ stages'[d]["pipeline"] = stages[d]["pipeline"]
    BY <1>0, <1>1 DEF StageRefresh, TypeOK, IdleStage, Requestors
  <1>3. InUse' = InUse /\ Holding' = Holding
    BY <1>1 DEF InUse, Holding
  <1>4. Orphaned(d)' => Orphaned(d)
    BY <1>1, <1>2, <1>3 DEF Orphaned
  <1>5. /\ slot' = slot => Count' = Count
        /\ Count' < Count => slot' < slot
        /\ Count' > Count => slot' > slot
    <2>1. slot' = slot \/ (slot # Expired /\ slot' # Expired)
      BY DEF StageRefresh, RefreshSlot
    <2> QED BY <1>0, <2>1 DEF Sizes
  <1>6. KeepsCover
    <2>1. Covered /\ ~Covered' => Count' < Count
      BY <1>0, <1>3 DEF Covered, Sizes
    <2> QED BY <1>5, <2>1 DEF KeepsCover, LostClaim
  <1>7. KeepsUnpinned
    <2>1. Pinned' /\ ~Pinned => Count' > Count
      BY <1>0, <1>3 DEF Pinned, Sizes
    <2> QED BY <1>5, <2>1 DEF KeepsUnpinned, LostRelease
  <1>8. ForgottenInv' /\ KeepsReleasers
    BY <1>1, <1>4, BuildStepAccounted
  <1> QED BY <1>6, <1>7, <1>8 DEF Accounted

(* A terminal report goes on to release; another leaves the build running. *)
LEMMA StageCommitAccounted ==
    ASSUME SlotInv, NEW d \in Deployments, StageCommit(d)
    PROVE  Accounted
  <1>0. TypeOK /\ "pipeline" \in Requestors
    BY DEF SlotInv, IInv, Requestors
  <1>1. /\ d \notin forgotten
        /\ stages[d]["pipeline"].step = "commit"
        /\ UNCHANGED <<build_node, released, forgotten, claims, cancels, jobs, slot>>
        /\ \A e \in Deployments \ {d} : stages'[e] = stages[e] /\ build_status'[e] = build_status[e]
    BY <1>0 DEF StageCommit, SlotInv, ForgottenInv, cacheVars, history, TypeOK, IdleStage
  <1>2. \/ build_status'[d] \in Running
        \/ stages'[d]["pipeline"].step = "release"
        \/ build_status'[d] = build_status[d]
    <2> DEFINE to == stages[d]["pipeline"].to
               from == IF to \in Terminal THEN build_status[d] ELSE stages[d]["pipeline"].seen
    <2>1. CASE ~CanTransitionBuild(from, to)
      BY <2>1 DEF StageCommit
    <2>2. CASE CanTransitionBuild(from, to)
      <3>1. /\ build_status' = [build_status EXCEPT ![d] = to]
            /\ stages' = [stages EXCEPT ![d]["pipeline"] =
                   IF to \in Terminal THEN [IdleStage EXCEPT !.step = "release"] ELSE IdleStage]
        BY <2>2 DEF StageCommit
      <3>2. to \in Terminal \/ to \in Running
        BY <2>2 DEF CanTransitionBuild, Terminal, Running
      <3> HIDE DEF to, from
      <3> QED BY <1>0, <3>1, <3>2 DEF TypeOK, IdleStage
    <2> QED BY <2>1, <2>2
  <1>3. InUse' = InUse
    BY <1>1 DEF InUse
  <1>4. Orphaned(d)' => Orphaned(d)
    BY <1>1, <1>2, <1>3 DEF Orphaned
  <1>5. KeepsCover /\ KeepsUnpinned
    BY <1>1, SameUse
  <1>6. ForgottenInv' /\ KeepsReleasers
    BY <1>1, <1>4, BuildStepAccounted
  <1> QED BY <1>5, <1>6 DEF Accounted

(* release_build_slot_once gives back the slot of a build that has one.    *)
LEMMA ReleaseOnceAccounted ==
    ASSUME SlotInv, IInv', NEW d \in Deployments, ReleaseOnce(d), build_node[d] # NoNode,
           UNCHANGED <<rowVars, forgotten, claims, jobs>>
    PROVE  /\ InUse' = InUse \ {d}
           /\ KeepsUnpinned
           /\ d \notin forgotten \/ d \in released => KeepsCover
  <1>0. TypeOK /\ TypeOK' /\ Sizes
    BY SizesHold DEF SlotInv, IInv
  <1>1. CASE d \in released
    <2>1. UNCHANGED <<build_node, released, forgotten, slot, claims>> /\ d \notin InUse
      BY <1>1 DEF ReleaseOnce, InUse, rowVars
    <2>2. InUse' = InUse /\ KeepsCover /\ KeepsUnpinned
      BY <2>1, SameUse
    <2> QED BY <2>1, <2>2
  <1>2. CASE d \notin released
    <2>1. released' = released \cup {d} /\ ReleaseSlot /\ build_node' = build_node
      BY <1>2 DEF ReleaseOnce, rowVars
    <2>2. InUse' = InUse \ {d} /\ Holding' = Holding
      BY <2>1 DEF InUse, Holding
    <2>3. Count' = Count + (-1) + 0 \/ (Count' = 0 /\ Count = 0)
      BY <1>0, <2>1 DEF ReleaseSlot, Sizes, Count, Expired
    <2>4. Cardinality(Holding)' = Cardinality(Holding) + 0
      BY <1>0, <2>2 DEF Sizes
    <2>5. CASE d \notin forgotten
      <3>1. d \in InUse
        BY <1>2, <2>5 DEF InUse
      <3>2. Cardinality(InUse)' = Cardinality(InUse) + (-1)
        BY <1>0, <2>2, <3>1, FS_RemoveElement DEF Sizes
      <3>3. KeepsCover /\ KeepsUnpinned
        BY <1>0, <2>3, <2>4, <3>2, UseStep
      <3> QED BY <2>2, <3>3
    <2>6. CASE d \in forgotten
      <3>1. InUse' = InUse /\ Count' <= Count
        BY <1>0, <2>2, <2>3, <2>6 DEF InUse, Sizes
      <3>2. Count' \in Nat
        BY <1>0, SizesHoldNext DEF Sizes
      <3>3. Pinned' => Pinned
        BY <1>0, <2>2, <3>1, <3>2 DEF Pinned, Sizes
      <3> QED BY <1>2, <2>2, <2>6, <3>3 DEF KeepsUnpinned
    <2> QED BY <2>5, <2>6
  <1> QED BY <1>1, <1>2

LEMMA StageReleaseAccounted ==
    ASSUME SlotInv, IInv', NEW d \in Deployments, StageRelease(d)
    PROVE  Accounted
  <1>0. TypeOK /\ IInv /\ "pipeline" \in Requestors
    BY DEF SlotInv, IInv, Requestors
  <1>1. /\ d \notin forgotten /\ build_node[d] # NoNode
        /\ UNCHANGED <<rowVars, forgotten, claims, cancels, jobs>> /\ ReleaseOnce(d)
        /\ \A e \in Deployments \ {d} : stages'[e] = stages[e]
    BY <1>0, ClaimedFacts DEF StageRelease, SlotInv, ForgottenInv, TypeOK, IdleStage
  <1>2. InUse' = InUse \ {d} /\ KeepsCover /\ KeepsUnpinned
    BY <1>1, ReleaseOnceAccounted
  <1>3. ForgottenInv'
    <2>1. forgotten' = forgotten /\ build_node' = build_node /\ jobs' = jobs
      BY <1>1 DEF rowVars
    <2>2. \A e \in forgotten : e \in Deployments \ {d}
      BY <1>0, <1>1 DEF TypeOK
    <2>3. \A e \in forgotten : stages'[e] = stages[e]
      BY <1>1, <2>2
    <2> QED BY <2>1, <2>3 DEF ForgottenInv, SlotInv
  <1>4. KeepsReleasers
    BY <1>1, <1>2 DEF KeepsReleasers, Orphaned, rowVars
  <1> QED BY <1>2, <1>3, <1>4 DEF Accounted

LEMMA StageDroppedAccounted ==
    ASSUME SlotInv, NEW d \in Deployments, NEW k \in Requestors, StageDropped(d, k)
    PROVE  Accounted
  <1>0. TypeOK /\ "pipeline" \in Requestors
    BY DEF SlotInv, IInv, Requestors
  <1>1. /\ d \notin forgotten
        /\ UNCHANGED <<build_status, build_node, released, forgotten, claims, cancels, jobs, slot>>
        /\ \A e \in Deployments \ {d} : stages'[e] = stages[e]
        /\ k # "pipeline" => stages'[d]["pipeline"] = stages[d]["pipeline"]
    BY <1>0 DEF StageDropped, SlotInv, ForgottenInv, rowVars, cacheVars, history, TypeOK
  <1>2. k # "pipeline" => (Orphaned(d)' => Orphaned(d))
    <2>1. InUse' = InUse
      BY <1>1 DEF InUse
    <2> QED BY <1>1, <2>1 DEF Orphaned
  <1>3. KeepsCover /\ KeepsUnpinned
    BY <1>1, SameUse
  <1>4. ForgottenInv' /\ KeepsReleasers
    BY <1>1, <1>2, BuildStepAccounted
  <1> QED BY <1>3, <1>4 DEF Accounted

LEMMA JobLostAccounted ==
    ASSUME SlotInv, NEW d \in Deployments, JobLost(d)
    PROVE  Accounted
  <1>0. TypeOK
    BY DEF SlotInv, IInv
  <1>1. /\ jobs'[d] = "over"
        /\ UNCHANGED <<build_status, build_node, released, forgotten, claims, cancels, stages, slot>>
        /\ \A e \in Deployments \ {d} : jobs'[e] = jobs[e]
    BY <1>0 DEF JobLost, rowVars, cacheVars, history, TypeOK
  <1>2. Orphaned(d)' => Orphaned(d)
    <2>1. InUse' = InUse
      BY <1>1 DEF InUse
    <2> QED BY <1>1, <2>1 DEF Orphaned
  <1>3. KeepsCover /\ KeepsUnpinned
    BY <1>1, SameUse
  <1>4. d \in forgotten => \A k \in Requestors : stages'[d][k] = IdleStage
    BY <1>1 DEF SlotInv, ForgottenInv
  <1>5. ForgottenInv' /\ KeepsReleasers
    BY <1>1, <1>2, <1>4, BuildStepAccounted
  <1> QED BY <1>3, <1>5 DEF Accounted

(* The steps of a cancel handler.                                          *)
LEMMA CancelAccounted ==
    ASSUME SlotInv, IInv', NEW d \in Deployments, CancelRead(d) \/ CancelStep(d) \/ CancelDropped(d)
    PROVE  Accounted
  <1>0. TypeOK /\ IInv
    BY DEF SlotInv, IInv
  <1>1. /\ UNCHANGED <<build_node, forgotten, claims, stages, jobs>>
        /\ \A e \in Deployments \ {d} : cancels'[e] = cancels[e] /\ build_status'[e] = build_status[e]
    BY <1>0 DEF CancelRead, CancelStep, CancelCommit, CancelFlag, CancelRelease, CancelDropped,
                rowVars, cacheVars, history, TypeOK
  <1>2. ASSUME UNCHANGED <<released, slot>>,
               \/ Orphaned(d)' => Orphaned(d)
               \/ CancelDropped(d) \/ (CancelCommit(d) /\ ~cancels[d].was_running)
        PROVE  Accounted
    <2>1. KeepsCover /\ KeepsUnpinned
      BY <1>1, <1>2, SameUse
    <2>2. d \in forgotten => jobs'[d] = "over" /\ \A k \in Requestors : stages'[d][k] = IdleStage
      BY <1>1 DEF SlotInv, ForgottenInv
    <2>3. ForgottenInv' /\ KeepsReleasers
      BY <1>1, <1>2, <2>2, BuildStepAccounted
    <2> QED BY <2>1, <2>3 DEF Accounted
  <1>3. CASE CancelRead(d)
    <2>1. /\ cancels[d].step = "idle"
          /\ UNCHANGED <<released, slot, build_status>>
      BY <1>3 DEF CancelRead, IdleCancel, rowVars, cacheVars
    <2>2. InUse' = InUse
      BY <1>1, <2>1 DEF InUse
    <2>3. Orphaned(d)' => Orphaned(d)
      BY <1>1, <2>1, <2>2 DEF Orphaned
    <2> QED BY <1>2, <2>1, <2>3
  <1>4. CASE CancelCommit(d)
    <2>1. UNCHANGED <<released, slot>> /\ cancels[d].step = "commit"
      BY <1>4 DEF CancelCommit, cacheVars
    <2>2. CASE ~cancels[d].was_running
      BY <1>2, <1>4, <2>1, <2>2
    <2>3. CASE cancels[d].was_running
      <3>1. build_status'[d] = build_status[d] \/ cancels'[d].step = "flag"
        BY <1>0, <1>4, <2>3 DEF CancelCommit, TypeOK
      <3>2. InUse' = InUse
        BY <1>1, <2>1 DEF InUse
      <3>3. Orphaned(d)' => Orphaned(d)
        BY <1>1, <2>1, <3>1, <3>2 DEF Orphaned
      <3> QED BY <1>2, <2>1, <3>3
    <2> QED BY <2>2, <2>3
  <1>5. CASE CancelFlag(d)
    <2>1. UNCHANGED <<released, slot>> /\ cancels'[d].step = "release"
      BY <1>0, <1>5 DEF CancelFlag, TypeOK
    <2>2. ~Orphaned(d)'
      BY <2>1 DEF Orphaned
    <2> QED BY <1>2, <2>1, <2>2
  <1>6. CASE CancelRelease(d)
    <2>1. build_node[d] # NoNode /\ ReleaseOnce(d) /\ UNCHANGED rowVars
      BY <1>0, <1>6, ClaimedFacts DEF CancelRelease
    <2>2. /\ InUse' = InUse \ {d} /\ KeepsUnpinned
          /\ d \notin forgotten \/ d \in released => KeepsCover
      BY <1>1, <2>1, ReleaseOnceAccounted
    <2>3. KeepsCover
      BY <1>6, <2>2 DEF KeepsCover, LateRelease
    <2>4. ForgottenInv'
      BY <1>1 DEF ForgottenInv, SlotInv
    <2>5. KeepsReleasers
      BY <1>1, <2>1, <2>2 DEF KeepsReleasers, Orphaned, rowVars
    <2> QED BY <2>2, <2>3, <2>4, <2>5 DEF Accounted
  <1>7. CASE CancelDropped(d)
    <2>1. UNCHANGED <<released, slot>>
      BY <1>7 DEF CancelDropped, cacheVars
    <2>2. CancelDropped(d) \/ (CancelCommit(d) /\ ~cancels[d].was_running)
      BY <1>7
    <2> QED BY <1>2, <2>1, <2>2
  <1> QED BY <1>3, <1>4, <1>5, <1>6, <1>7 DEF CancelStep

(* The counter that expires forgets every build with a node: none of them  *)
(* has a job or a report left.                                             *)
LEMMA ExpireAccounted ==
    ASSUME SlotInv, Expire
    PROVE  Accounted
  <1>0. TypeOK
    BY DEF SlotInv, IInv
  <1>1. /\ LiveJobs = {} /\ \A n \in Nodes : claims[n].holding = NoCandidate
        /\ stages = [d \in Deployments |-> [k \in Requestors |-> IdleStage]]
        /\ slot' = Expired
        /\ forgotten' = {d \in Deployments : build_node[d] # NoNode}
        /\ UNCHANGED <<build_node, released, claims, stages, jobs>>
    BY DEF Expire, ExpireSlot, rowVars
  <1>2. InUse' = {} /\ Holding' = {}
    BY <1>1 DEF InUse, Holding
  <1>3. Count' = 0
    BY <1>1 DEF Count
  <1>4. Covered' /\ ~Pinned'
    BY <1>2, <1>3, FS_EmptySet DEF Covered, Pinned
  <1>5. ForgottenInv'
    <2>1. \A d \in Deployments : jobs[d] \in {"none", "over"}
      BY <1>1 DEF LiveJobs
    <2> QED BY <1>1, <2>1 DEF ForgottenInv, SlotInv, JobInv
  <1>6. KeepsReleasers
    BY <1>2 DEF KeepsReleasers, Orphaned
  <1> QED BY <1>4, <1>5, <1>6 DEF Accounted, KeepsCover, KeepsUnpinned

LEMMA SlotInit == Init => SlotInv /\ Covered
  <1> SUFFICES ASSUME Init PROVE SlotInv /\ Covered
    OBVIOUS
  <1>1. IInv
    BY InitInv
  <1>2. JobInv /\ ForgottenInv
    BY DEF Init, JobInv, ForgottenInv
  <1>3. InUse = {} /\ Holding = {} /\ Count = 0
    BY DEF Init, InUse, Holding, IdleClaim, Count
  <1>4. Covered
    BY <1>3, FS_EmptySet DEF Covered
  <1> QED BY <1>1, <1>2, <1>4 DEF SlotInv

LEMMA SlotNext ==
    ASSUME SlotInv, [Next]_vars
    PROVE  SlotInv' /\ Accounted
  <1>1. IInv'
    BY StepInv DEF SlotInv
  <1>2. JobInv'
    BY JobInvNext DEF SlotInv, IInv
  <1>3. Accounted
    <2>1. CASE UNCHANGED vars
      <3>1. UNCHANGED <<build_status, build_node, released, forgotten, slot, claims, stages, cancels, jobs>>
        BY <2>1 DEF vars, rowVars, cacheVars, history
      <3>2. KeepsCover /\ KeepsUnpinned /\ InUse' = InUse
        BY <3>1, SameUse
      <3>3. ForgottenInv'
        BY <3>1 DEF ForgottenInv, SlotInv
      <3>4. KeepsReleasers
        BY <3>1, <3>2 DEF KeepsReleasers, Orphaned
      <3> QED BY <3>2, <3>3, <3>4 DEF Accounted
    <2>2. CASE \E n \in Nodes : ClaimBegin(n) \/ ClaimStep(n) \/ ClaimDropped(n)
      BY <1>1, <2>2, ClaimAccounted
    <2>3. CASE \E d \in Deployments, k \in Requestors, to \in Terminal \cup {"none", "queued", "building"} :
                  StageRead(d, k, to)
      BY <2>3, StageReadAccounted
    <2>4. CASE \E d \in Deployments : StageStep(d)
      BY <1>1, <2>4, StageRefreshAccounted, StageCommitAccounted, StageReleaseAccounted
         DEF StageStep
    <2>5. CASE \E d \in Deployments, k \in Requestors : StageDropped(d, k)
      BY <2>5, StageDroppedAccounted
    <2>6. CASE \E d \in Deployments : JobLost(d)
      BY <2>6, JobLostAccounted
    <2>7. CASE \E d \in Deployments : CancelRead(d) \/ CancelStep(d) \/ CancelDropped(d)
      BY <1>1, <2>7, CancelAccounted
    <2>8. CASE Expire
      BY <2>8, ExpireAccounted
    <2> QED BY <2>1, <2>2, <2>3, <2>4, <2>5, <2>6, <2>7, <2>8 DEF Next
  <1> QED BY <1>1, <1>2, <1>3 DEF SlotInv, Accounted

(* claim.rs:110 and quota/mod.rs: the counter covers the builds with a     *)
(* slot until a refresh loses a claim or a build gives back the slot that  *)
(* the expired counter had forgotten; no other interleaving breaks it.     *)
THEOREM SlotsStayCoveredHolds == Spec => SlotsStayCovered
  <1>1. SlotInv /\ [Next]_vars => SlotInv' /\ (Covered /\ ~Covered' => LostClaim \/ LateRelease)
    BY SlotNext DEF Accounted, KeepsCover
  <1>2. Init => SlotInv
    BY SlotInit
  <1> QED BY <1>1, <1>2, PTL DEF Spec, SlotsStayCovered

(* quota/mod.rs:346: a slot is left behind by a refresh over a release, by *)
(* a handler dropped before its update or its release, and by a            *)
(* cancellation decided on an old row; by nothing else.                    *)
THEOREM SlotsGivenBackHolds == Spec => SlotsGivenBack
  <1>1. SlotInv /\ [Next]_vars =>
           /\ SlotInv'
           /\ Pinned' /\ ~Pinned => LostRelease \/ \E n \in Holding : ClaimDropped(n)
           /\ \A d \in Deployments :
                 Orphaned(d)' /\ ~Orphaned(d) =>
                     \/ StageDropped(d, "pipeline") \/ CancelDropped(d)
                     \/ CancelCommit(d) /\ ~cancels[d].was_running
    BY SlotNext DEF Accounted, KeepsUnpinned, KeepsReleasers
  <1>2. Init => SlotInv
    BY SlotInit
  <1> QED BY <1>1, <1>2, PTL DEF Spec, SlotsGivenBack

(* A counter that covers the builds keeps them within the team's limit.    *)
LEMMA CoverLimits ==
    ASSUME SlotInv, Covered
    PROVE  ClaimedWithinLimit
  <1>0. TypeOK /\ Sizes
    BY SizesHold DEF SlotInv, IInv
  <1>1. LiveJobs \ released \subseteq InUse
    BY <1>0 DEF SlotInv, ForgottenInv, IInv, ClaimedInv, LiveJobs, InUse
  <1>2. Cardinality(LiveJobs \ released) <= Cardinality(InUse) /\ Cardinality(LiveJobs \ released) \in Nat
    BY <1>0, <1>1, FS_Subset, FS_CardinalityType DEF Sizes
  <1>3. Count <= Limit
    BY <1>0, LimitAssumption DEF Count, TypeOK, SlotWithinLimit, Expired
  <1> QED BY <1>0, <1>2, <1>3, LimitAssumption DEF Covered, Sizes, ClaimedWithinLimit

(* claim.rs:111 "so we never claim more than the team may run" holds of    *)
(* every run in which no refresh loses a claim and no build gives back a   *)
(* slot after the counter expired: those two are what it depends on.       *)
THEOREM ClaimedWithinLimitBarring ==
    Spec /\ [][~LostClaim /\ ~LateRelease]_vars => []ClaimedWithinLimit
  <1>1. Init => SlotInv /\ Covered
    BY SlotInit
  <1>2. SlotInv /\ Covered /\ [Next]_vars /\ [~LostClaim /\ ~LateRelease]_vars => (SlotInv /\ Covered)'
    <2> SUFFICES ASSUME SlotInv, Covered, [Next]_vars, [~LostClaim /\ ~LateRelease]_vars
                 PROVE  SlotInv' /\ Covered'
      OBVIOUS
    <2>1. SlotInv' /\ KeepsCover
      BY SlotNext DEF Accounted
    <2>2. CASE UNCHANGED vars
      <3>1. UNCHANGED <<build_node, released, forgotten, slot, claims>>
        BY <2>2 DEF vars, rowVars, cacheVars, history
      <3>2. InUse' = InUse /\ Holding' = Holding /\ Count' = Count
        BY <3>1 DEF InUse, Holding, Count
      <3> QED BY <2>1, <3>2 DEF Covered
    <2>3. CASE ~LostClaim /\ ~LateRelease
      BY <2>1, <2>3 DEF KeepsCover
    <2> QED BY <2>2, <2>3
  <1>3. SlotInv /\ Covered => ClaimedWithinLimit
    BY CoverLimits
  <1> QED BY <1>1, <1>2, <1>3, PTL DEF Spec

-------------------------------------------------------------------------------
(* The slot of a canceled build.  Somebody who will release it is at work, *)
(* whoever canceled it: its own report or the cancellation.                *)
Releasing(d) == stages[d]["pipeline"].step = "release" \/ cancels[d].step \in {"flag", "release"}

GivesBack(d) == build_status[d] = "canceled" /\ build_node[d] # NoNode => d \in released \/ Releasing(d)

(* Neither a handler that owes a release is dropped, nor does a            *)
(* cancellation commit that read the row before its claim.                 *)
NoReleaseLost ==
    \A d \in Deployments :
        /\ StageDropped(d, "pipeline") => stages[d]["pipeline"].step # "release"
        /\ CancelDropped(d) => cancels[d].step \notin {"flag", "release"}
        /\ CancelCommit(d) => cancels[d].was_running \/ build_node[d] = NoNode

(* What leaves the row and the handlers of a build alone.                  *)
LEMMA SameBuildGivesBack ==
    ASSUME NEW d \in Deployments, GivesBack(d), released \subseteq released',
           build_status'[d] = build_status[d], build_node'[d] = build_node[d],
           stages'[d]["pipeline"] = stages[d]["pipeline"], cancels'[d] = cancels[d]
    PROVE  GivesBack(d)'
  BY DEF GivesBack, Releasing

(* The marker is never taken away.                                         *)
LEMMA ReleasedGrows == [Next]_vars => released \subseteq released'
  <1> SUFFICES ASSUME [Next]_vars
               PROVE  released \subseteq released'
    OBVIOUS
  <1>1. CASE UNCHANGED released
    BY <1>1
  <1>2. ASSUME NEW d \in Deployments, StageRelease(d) \/ CancelRelease(d)
        PROVE  released \subseteq released'
    BY <1>2 DEF StageRelease, CancelRelease, ReleaseOnce
  <1>3. CASE \E n \in Nodes : ClaimBegin(n) \/ ClaimStep(n) \/ ClaimDropped(n)
    BY <1>1, <1>3
       DEF ClaimStep, ClaimBegin, ClaimAcquire, ClaimUpdate, ClaimFail, ClaimDropped, cacheVars
  <1>4. ASSUME NEW d \in Deployments, NEW k \in Requestors,
               \/ \E to \in Terminal \cup {"none", "queued", "building"} : StageRead(d, k, to)
               \/ StageRefresh(d, k) \/ StageDropped(d, k)
        PROVE  released \subseteq released'
    BY <1>1, <1>4 DEF StageRead, StageRefresh, StageDropped, cacheVars
  <1>5. ASSUME NEW d \in Deployments,
               \/ StageCommit(d) \/ JobLost(d) \/ CancelRead(d)
               \/ CancelCommit(d) \/ CancelFlag(d) \/ CancelDropped(d)
        PROVE  released \subseteq released'
    BY <1>1, <1>5
       DEF StageCommit, JobLost, CancelRead, CancelCommit, CancelFlag, CancelDropped, cacheVars
  <1>6. CASE Expire
    BY <1>1, <1>6 DEF Expire
  <1>7. CASE UNCHANGED vars
    BY <1>1, <1>7 DEF vars, cacheVars
  <1> QED BY <1>2, <1>3, <1>4, <1>5, <1>6, <1>7 DEF Next, StageStep, CancelStep

(* A claim takes a build that is pending, and nobody else's.               *)
LEMMA ClaimGivesBack ==
    ASSUME IInv, NEW d \in Deployments, GivesBack(d), released \subseteq released',
           NEW n \in Nodes, ClaimBegin(n) \/ ClaimStep(n) \/ ClaimDropped(n)
    PROVE  GivesBack(d)'
  <1>1. CASE ClaimUpdate(n)
    <2>1. UNCHANGED <<stages, cancels>>
      BY <1>1 DEF ClaimUpdate
    <2>2. CASE d = claims[n].holding
      BY <1>1, <2>2 DEF ClaimUpdate, GivesBack, IInv, TypeOK
    <2>3. CASE d # claims[n].holding
      <3>1. build_status'[d] = build_status[d] /\ build_node'[d] = build_node[d]
        BY <1>1, <2>3 DEF ClaimUpdate, IInv, TypeOK
      <3> QED BY <2>1, <3>1, SameBuildGivesBack
    <2> QED BY <2>2, <2>3
  <1>2. CASE ClaimBegin(n) \/ ClaimAcquire(n) \/ ClaimFail(n) \/ ClaimDropped(n)
    <2>1. UNCHANGED <<build_status, build_node, stages, cancels>>
      BY <1>2 DEF ClaimBegin, ClaimAcquire, ClaimFail, ClaimDropped, rowVars
    <2> QED BY <2>1, SameBuildGivesBack
  <1> QED BY <1>1, <1>2 DEF ClaimStep

(* A report either leaves the row, or cancels it and goes on to release,   *)
(* or has released.                                                        *)
LEMMA StageGivesBack ==
    ASSUME IInv, NEW d \in Deployments, GivesBack(d), released \subseteq released',
           NEW e \in Deployments, NEW k \in Requestors,
           \/ \E to \in Terminal \cup {"none", "queued", "building"} : StageRead(e, k, to)
           \/ StageRefresh(e, k) \/ StageCommit(e) \/ StageRelease(e)
           \/ StageDropped(e, k) /\ NoReleaseLost
    PROVE  GivesBack(d)'
  <1>0. stages \in [Deployments -> [Requestors -> StageRecords]] /\ "pipeline" \in Requestors
    BY DEF IInv, TypeOK, Requestors
  <1>1. CASE d # e
    <2>1. stages'[d] = stages[d]
      BY <1>0, <1>1 DEF StageRead, StageRefresh, StageCommit, StageRelease, StageDropped
    <2>2. build_status'[d] = build_status[d] /\ UNCHANGED <<build_node, cancels>>
      BY <1>1
         DEF StageRead, StageRefresh, StageCommit, StageRelease, StageDropped, rowVars, IInv, TypeOK
    <2> QED BY <2>1, <2>2, SameBuildGivesBack
  <1>2. CASE d = e /\ StageCommit(d)
    <2> DEFINE record == stages[d]["pipeline"]
    <2>1. UNCHANGED <<build_node, cancels>> /\ record.step = "commit"
      BY <1>2 DEF StageCommit
    <2>2. CASE build_status' = build_status
      BY <2>1, <2>2 DEF GivesBack, Releasing
    <2>3. CASE build_status' # build_status
      <3>1. build_status' = [build_status EXCEPT ![d] = record.to]
        BY <1>2, <2>3 DEF StageCommit
      <3>2. record.to # "canceled" => build_status'[d] # "canceled"
        BY <3>1 DEF IInv, TypeOK
      <3>3. record.to = "canceled" => stages'[d]["pipeline"].step = "release"
        BY <1>0, <1>2, <2>3 DEF StageCommit, Terminal, IdleStage
      <3> QED BY <3>2, <3>3 DEF GivesBack, Releasing
    <2> QED BY <2>2, <2>3
  <1>3. CASE d = e /\ StageRelease(d)
    <2>1. d \in released'
      BY <1>3 DEF StageRelease, ReleaseOnce
    <2> QED BY <2>1 DEF GivesBack
  <1>4. CASE /\ d = e
             /\ \/ \E to \in Terminal \cup {"none", "queued", "building"} : StageRead(d, k, to)
                \/ StageRefresh(d, k)
                \/ StageDropped(d, k) /\ NoReleaseLost
    <2>1. UNCHANGED <<build_status, build_node, cancels>>
      BY <1>4 DEF StageRead, StageRefresh, StageDropped, rowVars
    <2>2. stages[d]["pipeline"].step = "release" => stages'[d]["pipeline"] = stages[d]["pipeline"]
      <3>1. CASE k = "pipeline"
        BY <1>0, <1>4, <3>1 DEF StageRead, StageRefresh, StageDropped, NoReleaseLost, IdleStage
      <3>2. CASE k # "pipeline"
        BY <1>0, <1>4, <3>2 DEF StageRead, StageRefresh, StageDropped
      <3> QED BY <3>1, <3>2
    <2> QED BY <2>1, <2>2 DEF GivesBack, Releasing
  <1> QED BY <1>1, <1>2, <1>3, <1>4

(* A cancellation that read a running row goes on to release its slot; one *)
(* that did not finds a build without a node.                              *)
LEMMA CancelGivesBack ==
    ASSUME IInv, NEW d \in Deployments, GivesBack(d), released \subseteq released', NoReleaseLost,
           NEW e \in Deployments,
           JobLost(e) \/ CancelRead(e) \/ CancelStep(e) \/ CancelDropped(e)
    PROVE  GivesBack(d)'
  <1>0. cancels \in [Deployments -> CancelRecords] /\ build_status \in [Deployments -> BuildStatuses]
    BY DEF IInv, TypeOK, CancelRecords
  <1>1. CASE d # e
    <2>1. cancels'[d] = cancels[d] /\ build_status'[d] = build_status[d]
      BY <1>0, <1>1
         DEF JobLost, CancelRead, CancelStep, CancelCommit, CancelFlag, CancelRelease,
                        CancelDropped, rowVars
    <2>2. UNCHANGED <<build_node, stages>>
      BY
         DEF JobLost, CancelRead, CancelStep, CancelCommit, CancelFlag, CancelRelease, CancelDropped,
             rowVars
    <2> QED BY <2>1, <2>2, SameBuildGivesBack
  <1>2. CASE d = e /\ CancelCommit(d)
    <2>1. UNCHANGED <<build_node, stages>> /\ cancels[d].step = "commit"
      BY <1>2 DEF CancelCommit
    <2>2. CASE CanTransitionBuild(build_status[d], "canceled")
      <3>1. cancels[d].was_running \/ build_node[d] = NoNode
        BY <1>2 DEF NoReleaseLost
      <3>2. cancels[d].was_running => cancels'[d].step = "flag"
        BY <1>0, <1>2, <2>2 DEF CancelCommit, CancelRecords
      <3> QED BY <2>1, <3>1, <3>2 DEF GivesBack, Releasing
    <2>3. CASE ~CanTransitionBuild(build_status[d], "canceled")
      BY <1>2, <2>1, <2>3 DEF CancelCommit, GivesBack, Releasing
    <2> QED BY <2>2, <2>3
  <1>3. CASE d = e /\ CancelFlag(d)
    <2>1. cancels'[d].step = "release"
      BY <1>0, <1>3 DEF CancelFlag, CancelRecords
    <2> QED BY <2>1 DEF GivesBack, Releasing
  <1>4. CASE d = e /\ CancelRelease(d)
    <2>1. d \in released'
      BY <1>4 DEF CancelRelease, ReleaseOnce
    <2> QED BY <2>1 DEF GivesBack
  <1>5. CASE d = e /\ (JobLost(d) \/ CancelRead(d) \/ CancelDropped(d))
    <2>1. UNCHANGED <<build_status, build_node, stages>>
      BY <1>5 DEF JobLost, CancelRead, CancelDropped, rowVars
    <2>2. cancels'[d] = cancels[d] \/ cancels[d].step \notin {"flag", "release"}
      BY <1>5 DEF JobLost, CancelRead, CancelDropped, IdleCancel, NoReleaseLost
    <2> QED BY <2>1, <2>2 DEF GivesBack, Releasing
  <1> QED BY <1>1, <1>2, <1>3, <1>4, <1>5 DEF CancelStep

(* stage.rs:113 "The concurrency slot was already released by              *)
(* cancel_deployment_core when the cancel was issued" holds of every run in*)
(* which no handler that owes a release is dropped and no cancellation     *)
(* commits on a row it read before the claim.                              *)
THEOREM CanceledSlotReleasedBarring ==
    Spec /\ [][NoReleaseLost]_vars => []CanceledSlotReleased
  <1> DEFINE AllGivenBack == \A d \in Deployments : GivesBack(d)
  <1>1. Init => IInv /\ AllGivenBack
    BY InitInv DEF Init, GivesBack
  <1>2. IInv /\ AllGivenBack /\ [Next]_vars /\ [NoReleaseLost]_vars => (IInv /\ AllGivenBack)'
    <2> SUFFICES ASSUME IInv, AllGivenBack, [Next]_vars, [NoReleaseLost]_vars
                 PROVE  IInv' /\ AllGivenBack'
      OBVIOUS
    <2>1. IInv' /\ released \subseteq released'
      BY StepInv, ReleasedGrows
    <2>2. ASSUME NEW d \in Deployments
          PROVE  GivesBack(d)'
      <3>1. GivesBack(d)
        OBVIOUS
      <3>2. CASE UNCHANGED vars
        BY <3>1, <3>2 DEF GivesBack, Releasing, vars, rowVars, cacheVars
      <3>3. CASE Next /\ NoReleaseLost
        <4>1. CASE \E n \in Nodes : ClaimBegin(n) \/ ClaimStep(n) \/ ClaimDropped(n)
          BY <2>1, <3>1, <4>1, ClaimGivesBack
        <4>2. CASE \E e \in Deployments, k \in Requestors :
                      \/ \E to \in Terminal \cup {"none", "queued", "building"} : StageRead(e, k, to)
                      \/ StageRefresh(e, k) \/ StageDropped(e, k)
          BY <2>1, <3>1, <3>3, <4>2, StageGivesBack
        <4>3. CASE \E e \in Deployments : StageCommit(e) \/ StageRelease(e)
          <5>1. "poll" \in Requestors
            BY DEF Requestors
          <5> QED BY <2>1, <3>1, <4>3, <5>1, StageGivesBack
        <4>4. CASE \E e \in Deployments :
                      JobLost(e) \/ CancelRead(e) \/ CancelStep(e) \/ CancelDropped(e)
          BY <2>1, <3>1, <3>3, <4>4, CancelGivesBack
        <4>5. CASE Expire
          BY <2>1, <3>1, <4>5, SameBuildGivesBack DEF Expire, rowVars
        <4> QED BY <3>3, <4>1, <4>2, <4>3, <4>4, <4>5 DEF Next, StageStep
      <3> QED BY <3>2, <3>3
    <2> QED BY <2>1, <2>2
  <1>3. IInv /\ AllGivenBack => CanceledSlotReleased
    BY DEF CanceledSlotReleased, GivesBack, Releasing, IdleCancel, IdleStage
  <1> HIDE DEF AllGivenBack
  <1> QED BY <1>1, <1>2, <1>3, PTL DEF Spec
===============================================================================
