-------------------------- MODULE PublicationProofs --------------------------
(***************************************************************************)
(* Proofs about Publication, for any targets, requests in flight, faults   *)
(* and bounds: it implements the review it is composed with, and Release;  *)
(* what a target receives was approved and has passed its tests, and the   *)
(* gate's verdict outlives the delivery; the live version has reached      *)
(* every target; a delivery is only repeated for a fault.                  *)
(***************************************************************************)
EXTENDS Publication, ReviewProofs

-----------------------------------------------------------------------------
(* Every step is a step of the review or leaves the review alone.          *)

LEMMA ReviewStepIsReviewNext == ReviewStep => [ReviewNext]_reviewVars
BY DEF ReviewStep, ReviewNext

LEMMA NextRefinesReview == [Next]_vars => [ReviewNext]_reviewVars
<1> SUFFICES ASSUME [Next]_vars PROVE [ReviewNext]_reviewVars
  OBVIOUS
<1>1. CASE ReviewStep
  BY <1>1, ReviewStepIsReviewNext
<1>2. ASSUME NEW t \in TestRunners, RunRead(t) \/ RunRecord(t) \/ RunDies(t)
      PROVE  UNCHANGED reviewVars
  BY <1>2 DEF RunRead, RunRecord, RunDies
<1>3. CASE DriftChanges
  BY <1>3 DEF DriftChanges
<1>4. CASE PublishBegin \/ RollbackBegin
  BY <1>4 DEF PublishBegin, RollbackBegin
<1>5. ASSUME NEW i \in DOMAIN Targets,
             DeliverOk(i) \/ DeliverRefused(i) \/ DeliverUnacknowledged(i)
      PROVE  UNCHANGED reviewVars
  BY <1>5 DEF DeliverOk, DeliverRefused, DeliverUnacknowledged
<1>6. CASE CommitFailed \/ TxLost
  BY <1>6 DEF CommitFailed, TxLost
<1>7. CASE Commit
  BY <1>7 DEF Commit, HeadAfterRollback, ReviewNext
<1>8. CASE UNCHANGED vars
  BY <1>8 DEF vars
<1> QED
  BY <1>1, <1>2, <1>3, <1>4, <1>5, <1>6, <1>7, <1>8 DEF Next, TxStep

\* Publishing and rolling back add nothing to the review but the one
\* transition to published, whatever fails on the way.
THEOREM PublicationImplementsReview == Spec => ReviewSpec
<1>1. Init => ReviewInit
  BY DEF Init
<1> QED BY <1>1, NextRefinesReview, PTL DEF Spec, ReviewSpec

-----------------------------------------------------------------------------
(* Type correctness.                                                       *)

PubTypeInv == PublicationTypeOK /\ TypeInv

LEMMA NoneIsNoRecord == None \notin Run /\ None \notin Tx
BY DEF None, Run, Tx

\* A transaction starts out well typed.
LEMMA BeginType ==
  ASSUME NEW v \in Versions, NEW action \in {"publish", "rollback"}, Begin(v, action)
  PROVE  tx' \in Tx
BY DEF Begin, Tx, ToDeliver

\* The rows a transaction writes.
LEMMA RowType ==
  ASSUME tx \in Tx, NEW i \in DOMAIN Targets
  PROVE  RowOf(i) \in Row /\ Targets[i] \in TargetNames
BY DEF Tx, RowOf, Row, TargetNames

LEMMA PubTypeInit == Init => PubTypeInv
<1> SUFFICES ASSUME Init PROVE PubTypeInv
  OBVIOUS
<1>1. TypeInv
  BY TypeInit DEF Init
<1>2. posts \in [Row -> Nat]
  BY DEF Init
<1>3. holds \in [TargetNames -> Versions \cup {0}]
  BY DEF Init
<1>4. faults \in 0 .. MaxFaults
  BY FaultsAssumption DEF Init
<1>5. runReads \in [TestRunners -> Run \cup {None}]
  BY DEF Init
<1> QED BY <1>1, <1>2, <1>3, <1>4, <1>5 DEF Init, PubTypeInv, PublicationTypeOK, TypeInv

\* A call to a target, however it ends.
LEMMA DeliverType ==
  ASSUME PubTypeInv, NEW i \in DOMAIN Targets,
         DeliverOk(i) \/ DeliverRefused(i) \/ DeliverUnacknowledged(i)
  PROVE  /\ tx' \in Tx
         /\ holds' \in [TargetNames -> Versions \cup {0}]
         /\ posts' \in [Row -> Nat]
         /\ faults' \in 0 .. MaxFaults
<1>1. tx \in Tx
  BY DEF PubTypeInv, PublicationTypeOK, DeliverOk, DeliverRefused, DeliverUnacknowledged, Calling
<1>2. RowOf(i) \in Row /\ Targets[i] \in TargetNames
  BY <1>1, RowType
<1>3. tx.version \in Versions
  BY <1>1 DEF Tx
<1> USE DEF PubTypeInv, PublicationTypeOK
<1>4. CASE DeliverOk(i)
  <2>1. tx' \in Tx
    BY <1>1, <1>2, <1>4 DEF DeliverOk, Tx
  <2> QED BY <1>2, <1>3, <1>4, <2>1 DEF DeliverOk, Received
<1>5. CASE DeliverRefused(i)
  BY <1>1, <1>5 DEF DeliverRefused, Tx
<1>6. CASE DeliverUnacknowledged(i)
  <2>1. tx' \in Tx
    BY <1>1, <1>6 DEF DeliverUnacknowledged, Tx
  <2>2. faults' \in 0 .. MaxFaults
    BY <1>6, FaultsAssumption DEF DeliverUnacknowledged
  <2> QED BY <1>2, <1>3, <1>6, <2>1, <2>2 DEF DeliverUnacknowledged, Received
<1> QED BY <1>4, <1>5, <1>6

\* What a call leaves of the transaction.
LEMMA TxAfterCall ==
  ASSUME tx \in Tx, NEW i \in DOMAIN Targets,
         DeliverOk(i) \/ DeliverRefused(i) \/ DeliverUnacknowledged(i)
  PROVE  /\ tx' # None
         /\ tx'.version = tx.version
         /\ tx'.action = tx.action
         /\ tx'.todo = tx.todo \ {i}
         /\ \/ tx'.failed
            \/ tx'.failed = tx.failed /\ tx'.rows = tx.rows \cup {RowOf(i)}
         /\ tx'.rows = tx.rows \/ tx'.rows = tx.rows \cup {RowOf(i)}
<1>1. tx = [action |-> tx.action, version |-> tx.version, todo |-> tx.todo,
            failed |-> tx.failed, rows |-> tx.rows]
  BY DEF Tx
<1>2. CASE DeliverOk(i)
  BY <1>1, <1>2 DEF DeliverOk, None
<1>3. CASE DeliverRefused(i) \/ DeliverUnacknowledged(i)
  BY <1>1, <1>3 DEF DeliverRefused, DeliverUnacknowledged, None
<1> QED BY <1>2, <1>3

LEMMA PubTypeStep == PubTypeInv /\ [Next]_vars => PubTypeInv'
<1> SUFFICES ASSUME PubTypeInv, [Next]_vars PROVE PubTypeInv'
  OBVIOUS
<1>0. TypeInv' /\ TypeOK'
  BY NextRefinesReview, TypeStep DEF PubTypeInv, TypeInv
<1> USE DEF PubTypeInv, PublicationTypeOK, gateVars, pubVars
<1>1. CASE ReviewStep
  <2>1. version \in Versions
    BY DEF TypeInv, TypeOK
  <2>2. cleared' \subseteq Versions
    BY <1>1, <2>1 DEF ReviewStep
  <2>3. stale' \in BOOLEAN
    BY <1>1 DEF ReviewStep
  <2> QED BY <1>0, <1>1, <2>2, <2>3 DEF ReviewStep
<1>2. ASSUME NEW t \in TestRunners, RunRead(t) PROVE PubTypeInv'
  <2>1. version \in Versions
    BY DEF TypeInv, TypeOK
  <2>2. runReads' \in [TestRunners -> Run \cup {None}]
    BY <1>2, <2>1 DEF RunRead, Run
  <2> QED BY <1>0, <1>2, <2>2 DEF RunRead
<1>3. ASSUME NEW t \in TestRunners, RunRecord(t) PROVE PubTypeInv'
  <2>1. runReads[t] \in Run
    BY <1>3 DEF RunRecord
  <2>2. greens' \subseteq Versions
    BY <1>3, <2>1 DEF RunRecord, Run
  <2> QED BY <1>0, <1>3, <2>1, <2>2 DEF RunRecord
<1>4. ASSUME NEW t \in TestRunners, RunDies(t) PROVE PubTypeInv'
  BY <1>0, <1>4 DEF RunDies
<1>5. CASE DriftChanges
  BY <1>0, <1>5 DEF DriftChanges
<1>6. CASE PublishBegin
  <2>1. version \in Versions
    BY DEF TypeInv, TypeOK
  <2>2. tx' \in Tx
    BY <1>6, <2>1, BeginType DEF PublishBegin
  <2> QED BY <1>0, <1>6, <2>2 DEF PublishBegin
<1>7. CASE RollbackBegin
  <2>1. Earlier \subseteq Versions
    BY DEF Earlier, Row
  <2>2. tx' \in Tx
    BY <1>7, <2>1, BeginType DEF RollbackBegin
  <2> QED BY <1>0, <1>7, <2>2 DEF RollbackBegin
<1>8. ASSUME NEW i \in DOMAIN Targets,
             DeliverOk(i) \/ DeliverRefused(i) \/ DeliverUnacknowledged(i)
      PROVE  PubTypeInv'
  <2>1. UNCHANGED <<gateVars, runReads, delivered, live, cleared>>
    BY <1>8 DEF DeliverOk, DeliverRefused, DeliverUnacknowledged
  <2> QED BY <1>0, <1>8, <2>1, DeliverType
<1>9. CASE CommitFailed
  <2>1. delivered' \subseteq Row
    BY <1>9 DEF CommitFailed, Delivered, Tx
  <2> QED BY <1>0, <1>9, <2>1 DEF CommitFailed
<1>10. CASE Commit
  <2>1. delivered' \subseteq Row /\ live' \in Versions
    BY <1>10 DEF Commit, Delivered, Tx
  <2> QED BY <1>0, <1>10, <2>1 DEF Commit
<1>11. CASE TxLost
  <2>1. faults' \in 0 .. MaxFaults
    BY <1>11, FaultsAssumption DEF TxLost
  <2> QED BY <1>0, <1>11, <2>1 DEF TxLost
<1>12. CASE UNCHANGED vars
  BY <1>0, <1>12 DEF vars
<1> QED
  BY <1>1, <1>2, <1>3, <1>4, <1>5, <1>6, <1>7, <1>8, <1>9, <1>10, <1>11, <1>12
  DEF Next, TxStep

\* Every variable keeps its type, the review's included.
THEOREM PublicationTypeCorrect == Spec => []PublicationTypeOK
<1>1. Spec => []PubTypeInv
  BY PubTypeInit, PubTypeStep, PTL DEF Spec
<1> QED BY <1>1, PTL DEF PubTypeInv

-----------------------------------------------------------------------------
(* What targets receive was approved and is green.  The strengthening      *)
(* follows the version from its approval and its test run into the         *)
(* transaction, from there into the rows and the targets, and from the     *)
(* rows into a rollback.                                                   *)

Shippable == cleared \cap greens

ClearanceIsOnRecord == clearance # None => clearance.version \in cleared
RunIsOnRecord == latestRun # None /\ latestRun.passed => latestRun.version \in greens
TxIsShippable ==
  tx # None => tx.version \in Shippable /\ \A r \in tx.rows : r.version = tx.version
RowsAreShippable == \A r \in delivered : r.version \in Shippable

ClearInv ==
  /\ PubTypeInv
  /\ ApprovedHeadIsEarned
  /\ ClearanceIsOnRecord
  /\ RunIsOnRecord
  /\ TxIsShippable
  /\ RowsAreShippable
  /\ OnlyClearedVersionsReachTargets

LEMMA ClearInit == Init => ClearInv
<1> SUFFICES ASSUME Init PROVE ClearInv
  OBVIOUS
<1>1. PubTypeInv /\ ApprovedHeadIsEarned
  BY PubTypeInit, EarnedInit DEF Init
<1>2. ClearanceIsOnRecord /\ RunIsOnRecord /\ TxIsShippable
  BY DEF Init, ReviewInit, ClearanceIsOnRecord, RunIsOnRecord, TxIsShippable
<1>3. RowsAreShippable /\ OnlyClearedVersionsReachTargets
  BY DEF Init, RowsAreShippable, OnlyClearedVersionsReachTargets
<1> QED BY <1>1, <1>2, <1>3 DEF ClearInv

\* The gate lets only a shippable version through.
LEMMA GateIsShippable ==
  ASSUME ClearInv, PublishGate
  PROVE  version \in Shippable
<1>1. version \in cleared
  BY DEF ClearInv, ApprovedHeadIsEarned, ClearedStates, ClearanceIsOnRecord, PublishGate
<1>2. version \in greens
  BY DEF ClearInv, RunIsOnRecord, PublishGate, LatestRunIsGreen
<1> QED BY <1>1, <1>2 DEF Shippable

\* A review step writes the approve event with the approval.
LEMMA ClearanceStep ==
  ASSUME ClearInv, ReviewStep
  PROVE  ClearanceIsOnRecord' /\ cleared \subseteq cleared'
<1>1. CASE clearance' = clearance
  BY <1>1 DEF ReviewStep, ClearInv, ClearanceIsOnRecord
<1>2. CASE clearance' # clearance
  <2>1. PICK p \in Reviewers : Approve(p)
    BY <1>2 DEF ReviewStep, ReviewUnlocked, ReviewLocked, SubmitRead, SubmitDies, EscalateRead,
         EscalateDies, DeadlinePasses, SubmitCommit, Edit, SetReviewPolicy, RequestChanges,
         Retire, EscalateWrite, setVars
  <2>2. clearance'.version = version
    BY <1>2, <2>1 DEF Approve
  <2>3. cleared' = cleared \cup {version}
    BY <1>2 DEF ReviewStep
  <2> QED BY <2>2, <2>3 DEF ClearanceIsOnRecord
<1> QED BY <1>1, <1>2

\* A step that ships nothing new.
LEMMA ShippableKept ==
  ASSUME ClearInv, Shippable \subseteq Shippable',
         UNCHANGED <<delivered, holds>>, UNCHANGED tx \/ tx' = None
  PROVE  (TxIsShippable /\ RowsAreShippable /\ OnlyClearedVersionsReachTargets)'
BY DEF ClearInv, TxIsShippable, RowsAreShippable, OnlyClearedVersionsReachTargets, Shippable

\* A transaction begins with a shippable version.
LEMMA BeginShippable ==
  ASSUME ClearInv, NEW v \in Shippable, NEW action, Begin(v, action),
         UNCHANGED <<cleared, greens, delivered, holds>>
  PROVE  (TxIsShippable /\ RowsAreShippable /\ OnlyClearedVersionsReachTargets)'
BY DEF ClearInv, Begin, TxIsShippable, RowsAreShippable, OnlyClearedVersionsReachTargets, Shippable

LEMMA ClearStep == ClearInv /\ [Next]_vars => ClearInv'
<1> SUFFICES ASSUME ClearInv, [Next]_vars PROVE ClearInv'
  OBVIOUS
<1>0. PubTypeInv' /\ ApprovedHeadIsEarned'
  BY PubTypeStep, NextRefinesReview, EarnedStep DEF ClearInv, PubTypeInv
<1> DEFINE Rest == TxIsShippable /\ RowsAreShippable /\ OnlyClearedVersionsReachTargets
<1> USE DEF gateVars, pubVars
<1>1. CASE ReviewStep
  <2>1. ClearanceIsOnRecord' /\ cleared \subseteq cleared'
    BY <1>1, ClearanceStep
  <2>2. UNCHANGED <<latestRun, greens, delivered, holds, tx>>
    BY <1>1 DEF ReviewStep
  <2>3. Rest'
    BY <2>1, <2>2, ShippableKept DEF Shippable
  <2>4. RunIsOnRecord'
    BY <2>2 DEF ClearInv, RunIsOnRecord
  <2> QED BY <1>0, <2>1, <2>3, <2>4 DEF ClearInv
<1>2. ASSUME NEW t \in TestRunners, RunRecord(t) PROVE ClearInv'
  <2>1. UNCHANGED <<clearance, cleared, delivered, holds, tx>>
    BY <1>2 DEF RunRecord, reviewVars, setVars
  <2>2. greens \subseteq greens'
    BY <1>2 DEF RunRecord
  <2>3. Rest'
    BY <2>1, <2>2, ShippableKept DEF Shippable
  <2>4. RunIsOnRecord'
    BY <1>2 DEF RunRecord, RunIsOnRecord
  <2>5. ClearanceIsOnRecord'
    BY <2>1 DEF ClearInv, ClearanceIsOnRecord
  <2> QED BY <1>0, <2>3, <2>4, <2>5 DEF ClearInv
\* Every other step leaves the approval, its event and the runs alone.
<1>3. ASSUME UNCHANGED <<clearance, cleared, latestRun, greens>>, Rest' PROVE ClearInv'
  <2>1. ClearanceIsOnRecord' /\ RunIsOnRecord'
    BY <1>3 DEF ClearInv, ClearanceIsOnRecord, RunIsOnRecord
  <2> QED BY <1>0, <1>3, <2>1 DEF ClearInv
<1>4. ASSUME NEW t \in TestRunners, RunRead(t) \/ RunDies(t) PROVE ClearInv'
  <2>1. UNCHANGED <<clearance, cleared, latestRun, greens, delivered, holds, tx>>
    BY <1>4 DEF RunRead, RunDies, reviewVars, setVars
  <2> QED BY <1>3, <2>1, ShippableKept DEF Shippable
<1>5. CASE DriftChanges \/ TxLost \/ UNCHANGED vars
  <2>1. /\ UNCHANGED <<clearance, cleared, latestRun, greens, delivered, holds>>
        /\ UNCHANGED tx \/ tx' = None
    BY <1>5 DEF DriftChanges, TxLost, vars, reviewVars, setVars
  <2> QED BY <1>3, <2>1, ShippableKept DEF Shippable
<1>6. CASE PublishBegin
  <2>1. UNCHANGED <<clearance, cleared, latestRun, greens, delivered, holds>>
    BY <1>6 DEF PublishBegin, reviewVars, setVars
  <2>2. version \in Shippable
    BY <1>6, GateIsShippable DEF PublishBegin
  <2>3. Rest'
    BY <1>6, <2>1, <2>2, BeginShippable DEF PublishBegin
  <2> QED BY <1>3, <2>1, <2>3
<1>7. CASE RollbackBegin
  <2>1. UNCHANGED <<clearance, cleared, latestRun, greens, delivered, holds>>
    BY <1>7 DEF RollbackBegin, reviewVars, setVars
  <2>2. Earlier \subseteq Shippable
    BY DEF Earlier, ClearInv, RowsAreShippable
  <2>3. Rest'
    BY <1>7, <2>1, <2>2, BeginShippable DEF RollbackBegin
  <2> QED BY <1>3, <2>1, <2>3
<1>8. ASSUME NEW i \in DOMAIN Targets,
             DeliverOk(i) \/ DeliverRefused(i) \/ DeliverUnacknowledged(i)
      PROVE  ClearInv'
  <2>1. UNCHANGED <<clearance, cleared, latestRun, greens, delivered>>
    BY <1>8 DEF DeliverOk, DeliverRefused, DeliverUnacknowledged, reviewVars, setVars
  <2>2. /\ tx # None
        /\ tx \in Tx
        /\ tx.version \in Shippable
        /\ \A r \in tx.rows : r.version = tx.version
    BY <1>8 DEF DeliverOk, DeliverRefused, DeliverUnacknowledged, Calling, ClearInv,
         TxIsShippable, PubTypeInv, PublicationTypeOK
  <2>7. /\ tx'.version = tx.version
        /\ tx'.rows = tx.rows \/ tx'.rows = tx.rows \cup {RowOf(i)}
    BY <1>8, <2>2, TxAfterCall
  <2>8. RowOf(i).version = tx.version
    BY DEF RowOf
  <2>3. \A r \in tx'.rows : r.version = tx.version
    BY <2>2, <2>7, <2>8
  <2>4. \A t \in TargetNames : holds'[t] = holds[t] \/ holds'[t] = tx.version
    BY <1>8 DEF DeliverOk, DeliverRefused, DeliverUnacknowledged, Received, ClearInv,
         PubTypeInv, PublicationTypeOK
  <2>5. TxIsShippable' /\ RowsAreShippable'
    BY <2>1, <2>2, <2>3, <2>7 DEF ClearInv, TxIsShippable, RowsAreShippable, Shippable
  <2>6. OnlyClearedVersionsReachTargets'
    BY <2>1, <2>2, <2>4 DEF ClearInv, OnlyClearedVersionsReachTargets, Shippable
  <2> QED BY <1>3, <2>1, <2>5, <2>6
<1>9. CASE CommitFailed \/ Commit
  <2>1. UNCHANGED <<clearance, cleared, latestRun, greens, holds>>
    BY <1>9 DEF CommitFailed, Commit, MarkPublished, HeadAfterRollback, reviewVars, setVars
  <2>2. delivered' = delivered \cup tx.rows /\ tx' = None /\ tx # None
    BY <1>9 DEF CommitFailed, Commit, Delivered
  <2>3. RowsAreShippable'
    BY <2>1, <2>2 DEF ClearInv, TxIsShippable, RowsAreShippable, Shippable
  <2>4. TxIsShippable' /\ OnlyClearedVersionsReachTargets'
    BY <2>1, <2>2 DEF ClearInv, TxIsShippable, OnlyClearedVersionsReachTargets
  <2> QED BY <1>3, <2>1, <2>3, <2>4
<1> QED
  BY <1>1, <1>2, <1>4, <1>5, <1>6, <1>7, <1>8, <1>9 DEF Next, TxStep

\* No target ever holds a version that was not approved or has no green run,
\* whatever overlaps, fails, is retried or rolled back.
THEOREM OnlyClearedVersionsShip == Spec => []OnlyClearedVersionsReachTargets
<1>1. ClearInv => OnlyClearedVersionsReachTargets
  BY DEF ClearInv
<1> QED BY <1>1, ClearInit, ClearStep, PTL DEF Spec

-----------------------------------------------------------------------------
(* What a step of the review does to the head.                             *)

\* While the row is locked the review writes nothing the gate has read.
LEMMA UnlockedLeavesRow ==
  ASSUME ReviewUnlocked
  PROVE  UNCHANGED <<state, version, clearance>>
BY DEF ReviewUnlocked, SubmitRead, SubmitDies, EscalateRead, EscalateDies, DeadlinePasses, setVars

\* Otherwise the head stays, or an edit adds one version; an approval and an
\* edit are different steps.
LEMMA LockedHead ==
  ASSUME ReviewLocked
  PROVE  \/ version' = version
         \/ version' = version + 1 /\ clearance' = clearance
BY DEF ReviewLocked, SubmitCommit, Edit, SetReviewPolicy, RequestChanges, Approve, Retire,
   EscalateWrite, setVars

\* A set is not published by a review step, and a published one keeps its head.
LEMMA LockedPublished ==
  ASSUME ReviewLocked, state' = "published"
  PROVE  state = "published" /\ version' = version
<1>1. ASSUME NEW r \in SubmitRequests, SubmitCommit(r) PROVE FALSE
  BY <1>1 DEF SubmitCommit, SubmitAction, Target, Transitions
<1>2. ASSUME NEW p \in Experts, Edit(p) PROVE FALSE
  BY <1>2 DEF Edit, AfterEdit, EditableStates, Target, Transitions
<1>3. ASSUME NEW p \in Reviewers, RequestChanges(p) \/ Approve(p) PROVE FALSE
  BY <1>3 DEF RequestChanges, Approve, MayDecide, Target, Transitions
<1>4. CASE Retire
  BY <1>4 DEF Retire, Target, Transitions
<1>5. ASSUME NEW q \in Policies, SetReviewPolicy(q)
      PROVE  state = "published" /\ version' = version
  BY <1>5 DEF SetReviewPolicy
<1>6. ASSUME NEW e \in Escalators, EscalateWrite(e)
      PROVE  state = "published" /\ version' = version
  BY <1>6 DEF EscalateWrite
<1> QED BY <1>1, <1>2, <1>3, <1>4, <1>5, <1>6 DEF ReviewLocked

-----------------------------------------------------------------------------
(* The gate, and what a rollback may choose.                               *)

RollbackStepsBack == tx # None /\ tx.action = "rollback" => tx.version < live

\* What was cleared or run is not ahead of the head.
HeadIsLast ==
  /\ \A v \in cleared : v <= version
  /\ \A v \in greens : v <= version
  /\ \A t \in TestRunners : runReads[t] # None => runReads[t].version <= version

DeliveryInv ==
  /\ ClearInv
  /\ GateHoldsWhileDelivering
  /\ RollbackStepsBack
  /\ HeadIsLast

LEMMA DeliveryInit == Init => DeliveryInv
<1> SUFFICES ASSUME Init PROVE DeliveryInv
  OBVIOUS
<1>1. ClearInv
  BY ClearInit
<1>2. GateHoldsWhileDelivering /\ RollbackStepsBack /\ HeadIsLast
  BY DEF Init, GateHoldsWhileDelivering, RollbackStepsBack, HeadIsLast
<1> QED BY <1>1, <1>2 DEF DeliveryInv

\* A step that touches neither the row, nor the gate's other inputs, nor the
\* transaction.
LEMMA GateKept ==
  ASSUME DeliveryInv, UNCHANGED <<state, version, stale, latestRun, live>>,
         \/ tx' = None
         \/ tx # None /\ tx'.action = tx.action /\ tx'.version = tx.version
         \/ UNCHANGED tx
  PROVE  GateHoldsWhileDelivering' /\ RollbackStepsBack'
BY DEF DeliveryInv, GateHoldsWhileDelivering, RollbackStepsBack, PublishGate, LatestRunIsGreen

LEMMA OrderKept ==
  ASSUME DeliveryInv, UNCHANGED <<version, cleared, greens, runReads>>
  PROVE  HeadIsLast'
BY DEF DeliveryInv, HeadIsLast

LEMMA DeliveryStep == DeliveryInv /\ [Next]_vars => DeliveryInv'
<1> SUFFICES ASSUME DeliveryInv, [Next]_vars PROVE DeliveryInv'
  OBVIOUS
<1>0. ClearInv'
  BY ClearStep DEF DeliveryInv
<1>t. /\ version \in Nat /\ version \in Versions
      /\ cleared \subseteq Versions /\ greens \subseteq Versions
      /\ runReads \in [TestRunners -> Run \cup {None}]
  BY BoundsAssumption DEF DeliveryInv, ClearInv, PubTypeInv, TypeInv, PublicationTypeOK, TypeOK, Versions
<1> USE DEF gateVars, pubVars
<1>1. CASE ReviewStep
  <2>1. UNCHANGED <<latestRun, greens, runReads, live, tx>>
    BY <1>1 DEF ReviewStep
  <2>2. CASE ReviewUnlocked
    <3>1. UNCHANGED <<state, version, clearance, stale, cleared>>
      BY <1>1, <2>2, UnlockedLeavesRow DEF ReviewStep
    <3> QED BY <1>0, <2>1, <3>1, GateKept, OrderKept DEF DeliveryInv
  <2>3. CASE LockFree /\ ReviewLocked
    <3>1. GateHoldsWhileDelivering' /\ RollbackStepsBack'
      BY <2>1, <2>3 DEF LockFree, GateHoldsWhileDelivering, RollbackStepsBack
    <3>2. version' >= version /\ version' \in Nat
      BY <1>t, <2>3, LockedHead
    <3>3. \A v \in cleared' : v \in Nat /\ v <= version'
      BY <1>1, <1>t, <3>2 DEF ReviewStep, DeliveryInv, HeadIsLast, Versions
    <3>4. /\ \A v \in greens' : v <= version'
          /\ \A t \in TestRunners : runReads'[t] # None => runReads'[t].version <= version'
      BY <1>t, <2>1, <3>2 DEF DeliveryInv, HeadIsLast, Versions, Run
    <3> QED BY <1>0, <3>1, <3>3, <3>4 DEF DeliveryInv, HeadIsLast
  <2> QED BY <1>1, <2>2, <2>3 DEF ReviewStep
<1>2. ASSUME NEW t \in TestRunners, RunRead(t) PROVE DeliveryInv'
  <2>1. UNCHANGED <<state, version, stale, latestRun, live, tx, cleared, greens>>
    BY <1>2 DEF RunRead, reviewVars, setVars
  <2>2. \A u \in TestRunners : runReads'[u] # None => runReads'[u].version <= version'
    BY <1>2, <1>t, <2>1 DEF RunRead, DeliveryInv, HeadIsLast
  <2>3. HeadIsLast'
    BY <2>1, <2>2 DEF DeliveryInv, HeadIsLast
  <2> QED BY <1>0, <2>1, <2>3, GateKept DEF DeliveryInv
<1>3. ASSUME NEW t \in TestRunners, RunRecord(t) PROVE DeliveryInv'
  <2>1. UNCHANGED <<version, live, tx, cleared>> /\ tx = None
    BY <1>3 DEF RunRecord, reviewVars, setVars, LockFree
  <2>2. GateHoldsWhileDelivering' /\ RollbackStepsBack'
    BY <2>1 DEF GateHoldsWhileDelivering, RollbackStepsBack
  <2>3. HeadIsLast'
    BY <1>3, <1>t, <2>1 DEF RunRecord, DeliveryInv, HeadIsLast
  <2> QED BY <1>0, <2>2, <2>3 DEF DeliveryInv
<1>4. ASSUME NEW t \in TestRunners, RunDies(t) PROVE DeliveryInv'
  <2>1. UNCHANGED <<state, version, stale, latestRun, live, tx, cleared, greens>>
    BY <1>4 DEF RunDies, reviewVars, setVars
  <2>2. HeadIsLast'
    BY <1>4, <1>t, <2>1 DEF RunDies, DeliveryInv, HeadIsLast
  <2> QED BY <1>0, <2>1, <2>2, GateKept DEF DeliveryInv
<1>5. CASE DriftChanges
  <2>1. UNCHANGED <<version, live, tx, cleared, greens, runReads>> /\ tx = None
    BY <1>5 DEF DriftChanges, reviewVars, setVars, LockFree
  <2>2. GateHoldsWhileDelivering' /\ RollbackStepsBack'
    BY <2>1 DEF GateHoldsWhileDelivering, RollbackStepsBack
  <2> QED BY <1>0, <2>1, <2>2, OrderKept DEF DeliveryInv
<1>6. CASE PublishBegin
  <2>1. UNCHANGED <<state, version, stale, latestRun, live, cleared, greens, runReads>>
    BY <1>6 DEF PublishBegin, reviewVars, setVars
  <2>2. tx'.action = "publish" /\ tx'.version = version /\ PublishGate
    BY <1>6 DEF PublishBegin, Begin
  <2>3. GateHoldsWhileDelivering' /\ RollbackStepsBack'
    BY <2>1, <2>2 DEF GateHoldsWhileDelivering, RollbackStepsBack, PublishGate, LatestRunIsGreen
  <2> QED BY <1>0, <2>1, <2>3, OrderKept DEF DeliveryInv
<1>7. CASE RollbackBegin
  <2>1. UNCHANGED <<version, live, cleared, greens, runReads>>
    BY <1>7 DEF RollbackBegin, reviewVars, setVars
  <2>2. tx'.action = "rollback" /\ tx'.version \in Earlier
    BY <1>7 DEF RollbackBegin, Begin
  <2>3. GateHoldsWhileDelivering' /\ RollbackStepsBack'
    BY <2>1, <2>2 DEF GateHoldsWhileDelivering, RollbackStepsBack, Earlier
  <2> QED BY <1>0, <2>1, <2>3, OrderKept DEF DeliveryInv
<1>8. ASSUME NEW i \in DOMAIN Targets,
             DeliverOk(i) \/ DeliverRefused(i) \/ DeliverUnacknowledged(i)
      PROVE  DeliveryInv'
  <2>1. UNCHANGED <<state, version, stale, latestRun, live, cleared, greens, runReads>>
    BY <1>8 DEF DeliverOk, DeliverRefused, DeliverUnacknowledged, reviewVars, setVars
  <2>2. tx # None /\ tx \in Tx
    BY <1>8 DEF DeliverOk, DeliverRefused, DeliverUnacknowledged, Calling, DeliveryInv, ClearInv,
         PubTypeInv, PublicationTypeOK
  <2>3. tx'.action = tx.action /\ tx'.version = tx.version
    BY <1>8, <2>2, TxAfterCall
  <2> QED BY <1>0, <2>1, <2>2, <2>3, GateKept, OrderKept DEF DeliveryInv
<1>9. CASE CommitFailed \/ TxLost \/ UNCHANGED vars
  <2>1. /\ UNCHANGED <<state, version, stale, latestRun, live, cleared, greens, runReads>>
        /\ tx' = None \/ UNCHANGED tx
    BY <1>9 DEF CommitFailed, TxLost, vars, reviewVars, setVars
  <2> QED BY <1>0, <2>1, GateKept, OrderKept DEF DeliveryInv
<1>10. CASE Commit
  <2>1. UNCHANGED <<version, cleared, greens, runReads>> /\ tx' = None
    BY <1>10 DEF Commit, MarkPublished, HeadAfterRollback, reviewVars, setVars
  <2>2. GateHoldsWhileDelivering' /\ RollbackStepsBack'
    BY <2>1 DEF GateHoldsWhileDelivering, RollbackStepsBack
  <2> QED BY <1>0, <2>1, <2>2, OrderKept DEF DeliveryInv
<1> QED
  BY <1>1, <1>2, <1>3, <1>4, <1>5, <1>6, <1>7, <1>8, <1>9, <1>10 DEF Next, TxStep

\* What the gate found holds until the publish commits or is lost, for any
\* number of targets and whatever else goes on: all that could close it waits
\* for the row's lock (_publish_gate, get_instruction_set for_update).
THEOREM GateOutlivesThePublish == Spec => []GateHoldsWhileDelivering
<1>1. DeliveryInv => GateHoldsWhileDelivering
  BY DEF DeliveryInv
<1> QED BY <1>1, DeliveryInit, DeliveryStep, PTL DEF Spec

-----------------------------------------------------------------------------
(* Publication implements Release.                                         *)

Held == {holds[t] : t \in TargetNames} \ {0}

LEMMA ReleaseInit == Init => Released!Init
<1> SUFFICES ASSUME Init PROVE Released!Init
  OBVIOUS
<1>1. Held = {}
  BY DEF Init, Held
<1> QED BY <1>1 DEF Init, ReviewInit, Released!Init, Held

\* A step of the review: an edit, an approval that clears the head, or neither.
LEMMA ReviewReleases ==
  ASSUME DeliveryInv, ReviewStep
  PROVE  Released!Edit \/ Released!Clear \/ UNCHANGED <<version, Shippable, live, Held>>
<1>1. UNCHANGED <<greens, live, holds>>
  BY DEF ReviewStep, pubVars
<1>2. UNCHANGED Held
  BY <1>1 DEF Held
<1>3. version \in Nat /\ version >= 1
  BY BoundsAssumption DEF DeliveryInv, ClearInv, PubTypeInv, TypeInv, TypeOK, Versions
<1>4. CASE version' = version + 1 /\ clearance' = clearance
  <2>1. cleared' = cleared
    BY <1>4 DEF ReviewStep
  <2> QED BY <1>1, <1>2, <1>4, <2>1 DEF Released!Edit, Held
<1>5. CASE version' = version
  <2>1. cleared' = cleared \/ cleared' = cleared \cup {version}
    BY DEF ReviewStep
  <2>2. CASE cleared' = cleared
    BY <1>1, <1>2, <1>5, <2>2 DEF Shippable
  <2>3. CASE cleared' = cleared \cup {version} /\ version \in greens
    <3>1. cleared' \cap greens' = (cleared \cap greens) \cup {version}
      BY <1>1, <2>3
    <3>2. version \in 1 .. version
      BY <1>3
    <3> QED BY <1>1, <1>2, <1>5, <3>1, <3>2 DEF Released!Clear, Held
  <2>4. CASE cleared' = cleared \cup {version} /\ version \notin greens
    BY <1>1, <1>2, <1>5, <2>4 DEF Shippable
  <2> QED BY <2>1, <2>2, <2>3, <2>4
<1> QED BY <1>4, <1>5, UnlockedLeavesRow, LockedHead DEF ReviewStep

\* A test run is recorded: the version it read is cleared if it was approved.
LEMMA RunReleases ==
  ASSUME DeliveryInv, NEW t \in TestRunners, RunRecord(t)
  PROVE  Released!Clear \/ UNCHANGED <<version, Shippable, live, Held>>
<1>1. UNCHANGED <<version, cleared, live, holds>>
  BY DEF RunRecord, reviewVars, setVars, pubVars
<1>2. UNCHANGED Held
  BY <1>1 DEF Held
<1> DEFINE v == runReads[t].version
<1>3. v \in 1 .. version
  BY BoundsAssumption
  DEF RunRecord, DeliveryInv, HeadIsLast, ClearInv, PubTypeInv, PublicationTypeOK, TypeInv, TypeOK,
      Run, Versions
<1>4. greens' = greens \/ greens' = greens \cup {v}
  BY DEF RunRecord
<1>5. cleared' \cap greens' = cleared \cap greens
      \/ cleared' \cap greens' = (cleared \cap greens) \cup {v}
  BY <1>1, <1>4
<1>6. CASE cleared' \cap greens' = cleared \cap greens
  BY <1>1, <1>2, <1>6 DEF Shippable
<1>7. CASE cleared' \cap greens' = (cleared \cap greens) \cup {v}
  BY <1>1, <1>2, <1>3, <1>7 DEF Released!Clear, Held
<1> QED BY <1>5, <1>6, <1>7

\* What a transaction carries may be sent: it is cleared, and it is the head or
\* below the live version.
LEMMA TxMayBeSent ==
  ASSUME DeliveryInv, tx # None
  PROVE  /\ tx.version \in Shippable
         /\ tx.version = version \/ tx.version < live
<1>1. tx \in Tx
  BY DEF DeliveryInv, ClearInv, PubTypeInv, PublicationTypeOK
<1>2. tx.action \in {"publish", "rollback"}
  BY <1>1 DEF Tx
<1> QED BY <1>2
     DEF DeliveryInv, ClearInv, TxIsShippable, GateHoldsWhileDelivering, RollbackStepsBack

\* A call to a target, however it ends.
LEMMA CallReleases ==
  ASSUME DeliveryInv, NEW i \in DOMAIN Targets,
         DeliverOk(i) \/ DeliverRefused(i) \/ DeliverUnacknowledged(i)
  PROVE  Released!Attempt
<1>1. UNCHANGED <<version, cleared, greens, live>>
  BY DEF DeliverOk, DeliverRefused, DeliverUnacknowledged, reviewVars, setVars, gateVars
<1>2. tx # None
  BY DEF DeliverOk, DeliverRefused, DeliverUnacknowledged, Calling
<1>3. \A t \in TargetNames : holds'[t] = holds[t] \/ holds'[t] = tx.version
  BY DEF DeliverOk, DeliverRefused, DeliverUnacknowledged, Received, DeliveryInv, ClearInv,
         PubTypeInv, PublicationTypeOK
<1>4. {holds'[t] : t \in TargetNames} \ {0}
        \in SUBSET (({holds[t] : t \in TargetNames} \ {0}) \cup {tx.version})
  BY <1>3
<1> QED BY <1>1, <1>2, <1>4, TxMayBeSent DEF Released!Attempt, Released!Send, Shippable

\* The commit moves the live version to the one that was delivered.
LEMMA CommitReleases ==
  ASSUME DeliveryInv, Commit
  PROVE  Released!GoLive
<1>1. UNCHANGED <<version, cleared, greens, holds>>
  BY DEF Commit, MarkPublished, HeadAfterRollback, reviewVars, setVars, gateVars
<1>2. tx # None /\ live' = tx.version
  BY DEF Commit, Delivered
<1>3. {holds'[t] : t \in TargetNames} \ {0}
        \in SUBSET (({holds[t] : t \in TargetNames} \ {0}) \cup {tx.version})
  BY <1>1
<1> QED BY <1>1, <1>2, <1>3, TxMayBeSent DEF Released!GoLive, Released!Send, Shippable

LEMMA ReleaseStep ==
  ASSUME DeliveryInv, [Next]_vars
  PROVE  Released!Next \/ UNCHANGED <<version, Shippable, live, Held>>
<1> USE DEF gateVars, pubVars
<1>1. CASE ReviewStep
  BY <1>1, ReviewReleases DEF Released!Next
<1>2. ASSUME NEW t \in TestRunners, RunRecord(t)
      PROVE  Released!Next \/ UNCHANGED <<version, Shippable, live, Held>>
  BY <1>2, RunReleases DEF Released!Next
<1>3. ASSUME NEW i \in DOMAIN Targets,
             DeliverOk(i) \/ DeliverRefused(i) \/ DeliverUnacknowledged(i)
      PROVE  Released!Next
  BY <1>3, CallReleases DEF Released!Next
<1>4. CASE Commit
  BY <1>4, CommitReleases DEF Released!Next
\* All others write none of what Release speaks of.
<1>5. ASSUME UNCHANGED <<version, cleared, greens, live, holds>>
      PROVE  UNCHANGED <<version, Shippable, live, Held>>
  BY <1>5 DEF Shippable, Held
<1>6. ASSUME NEW t \in TestRunners, RunRead(t) \/ RunDies(t)
      PROVE  UNCHANGED <<version, Shippable, live, Held>>
  BY <1>5, <1>6 DEF RunRead, RunDies, reviewVars, setVars
<1>7. CASE DriftChanges \/ PublishBegin \/ RollbackBegin
  BY <1>5, <1>7 DEF DriftChanges, PublishBegin, RollbackBegin, reviewVars, setVars
<1>8. CASE CommitFailed \/ TxLost \/ UNCHANGED vars
  BY <1>5, <1>8 DEF CommitFailed, TxLost, vars, reviewVars, setVars
<1> QED BY <1>1, <1>2, <1>3, <1>4, <1>6, <1>7, <1>8 DEF Next, TxStep

\* Publication implements Release: however requests overlap, and whatever
\* fails, is lost or is repeated, only cleared text is sent, and the live
\* version is a cleared head or one below the live one before (publish,
\* rollback, _publish_gate).
THEOREM PublicationImplementsRelease == Spec => IsReleased
<1>1. DeliveryInv /\ [Next]_vars
        => [Released!Next]_<<version, cleared \cap greens, live,
                            {holds[t] : t \in TargetNames} \ {0}>>
  BY ReleaseStep DEF Shippable, Held
<1> QED BY <1>1, ReleaseInit, DeliveryInit, DeliveryStep, PTL
     DEF Spec, IsReleased, Released!Spec

-----------------------------------------------------------------------------
(* Receipts.                                                               *)

OpenRows == IF tx = None THEN {} ELSE tx.rows

\* A target the open transaction is done with has a receipt, or failed.
DoneIsDelivered ==
  tx # None =>
    \A i \in DOMAIN Targets \ tx.todo : tx.failed \/ RowOf(i) \in delivered \cup tx.rows

ReceiptInv == DeliveryInv /\ DoneIsDelivered /\ LiveVersionReachedEveryTarget

LEMMA ReceiptInit == Init => ReceiptInv
BY DeliveryInit
DEF Init, ReviewInit, ReceiptInv, DoneIsDelivered, LiveVersionReachedEveryTarget

\* A step that publishes nothing.
LEMMA LiveKept ==
  ASSUME ReceiptInv, delivered \subseteq delivered', UNCHANGED live,
         state' = "published" => state = "published" /\ version' = version
  PROVE  LiveVersionReachedEveryTarget'
BY DEF ReceiptInv, LiveVersionReachedEveryTarget, ReachedEveryTarget

\* A transaction begins with the targets that have no receipt.
LEMMA BeginDone ==
  ASSUME ReceiptInv, NEW v, NEW action, Begin(v, action), UNCHANGED delivered
  PROVE  DoneIsDelivered'
<1>1. /\ tx'.version = v /\ tx'.action = action
      /\ tx'.todo = ToDeliver(v, action)
  BY DEF Begin
<1>2. ASSUME NEW i \in DOMAIN Targets \ ToDeliver(v, action)
      PROVE  [version |-> v, action |-> action, target |-> Targets[i]] \in delivered
  <2>1. PICK r \in delivered : r.version = v /\ r.action = action /\ r.target = Targets[i]
    BY DEF ToDeliver, AlreadyDelivered
  <2>2. r \in Row
    BY DEF ReceiptInv, DeliveryInv, ClearInv, PubTypeInv, PublicationTypeOK
  <2>3. r = [version |-> v, action |-> action, target |-> Targets[i]]
    BY <2>1, <2>2 DEF Row
  <2> QED BY <2>3
<1> QED BY <1>1, <1>2 DEF DoneIsDelivered, RowOf

\* When nothing is left to do and nothing failed, every target has a receipt.
LEMMA CommitReached ==
  ASSUME ReceiptInv, Delivered, Succeeded, NEW t \in TargetNames
  PROVE  [version |-> tx.version, action |-> tx.action, target |-> t] \in delivered \cup tx.rows
<1>1. PICK i \in DOMAIN Targets : Targets[i] = t
  BY DEF TargetNames
<1>2. RowOf(i) \in delivered \cup tx.rows
  BY DEF ReceiptInv, DoneIsDelivered, Delivered, Succeeded
<1> QED BY <1>1, <1>2 DEF RowOf

LEMMA ReceiptStep == ReceiptInv /\ [Next]_vars => ReceiptInv'
<1> SUFFICES ASSUME ReceiptInv, [Next]_vars PROVE ReceiptInv'
  OBVIOUS
<1>0. DeliveryInv'
  BY DeliveryStep DEF ReceiptInv
<1> USE DEF gateVars, pubVars
\* Most steps leave the transaction and the receipts alone.
<1>1. ASSUME UNCHANGED <<delivered, live, tx>>,
             state' = "published" => state = "published" /\ version' = version
      PROVE  ReceiptInv'
  <2>1. DoneIsDelivered'
    BY <1>1 DEF ReceiptInv, DoneIsDelivered, RowOf
  <2> QED BY <1>0, <1>1, <2>1, LiveKept DEF ReceiptInv
<1>2. CASE ReviewStep
  <2>1. state' = "published" => state = "published" /\ version' = version
    BY <1>2, UnlockedLeavesRow, LockedPublished DEF ReviewStep
  <2> QED BY <1>1, <1>2, <2>1 DEF ReviewStep
<1>3. ASSUME NEW t \in TestRunners, RunRead(t) \/ RunRecord(t) \/ RunDies(t) PROVE ReceiptInv'
  BY <1>1, <1>3 DEF RunRead, RunRecord, RunDies, reviewVars, setVars
<1>4. CASE DriftChanges \/ UNCHANGED vars
  BY <1>1, <1>4 DEF DriftChanges, vars, reviewVars, setVars
<1>5. CASE PublishBegin \/ RollbackBegin
  <2>1. UNCHANGED <<delivered, live, state, version>>
    BY <1>5 DEF PublishBegin, RollbackBegin, reviewVars, setVars
  <2>2. DoneIsDelivered'
    BY <1>5, <2>1, BeginDone DEF PublishBegin, RollbackBegin
  <2> QED BY <1>0, <2>1, <2>2, LiveKept DEF ReceiptInv
<1>6. ASSUME NEW i \in DOMAIN Targets,
             DeliverOk(i) \/ DeliverRefused(i) \/ DeliverUnacknowledged(i)
      PROVE  ReceiptInv'
  <2>1. UNCHANGED <<delivered, live, state, version>>
    BY <1>6 DEF DeliverOk, DeliverRefused, DeliverUnacknowledged, reviewVars, setVars
  <2>2. tx # None /\ tx \in Tx
    BY <1>6 DEF DeliverOk, DeliverRefused, DeliverUnacknowledged, Calling, ReceiptInv, DeliveryInv,
         ClearInv, PubTypeInv, PublicationTypeOK
  <2>3. /\ tx'.version = tx.version
        /\ tx'.action = tx.action
        /\ tx'.todo = tx.todo \ {i}
        /\ \/ tx'.failed
           \/ tx'.failed = tx.failed /\ tx'.rows = tx.rows \cup {RowOf(i)}
    BY <1>6, <2>2, TxAfterCall
  <2>4. DoneIsDelivered'
    BY <2>1, <2>2, <2>3 DEF ReceiptInv, DoneIsDelivered, RowOf
  <2> QED BY <1>0, <2>1, <2>4, LiveKept DEF ReceiptInv
<1>7. CASE CommitFailed \/ TxLost
  <2>1. UNCHANGED <<live, state, version>> /\ tx' = None /\ delivered \subseteq delivered'
    BY <1>7 DEF CommitFailed, TxLost, reviewVars, setVars
  <2> QED BY <1>0, <2>1, LiveKept DEF ReceiptInv, DoneIsDelivered
<1>8. CASE Commit
  <2>1. tx # None /\ tx' = None /\ live' = tx.version /\ delivered \subseteq delivered'
    BY <1>8 DEF Commit, Delivered
  <2>2. \A t \in TargetNames :
          [version |-> tx.version, action |-> tx.action, target |-> t] \in delivered'
    BY <1>8, CommitReached DEF Commit
  <2>3. CASE tx.action = "publish" /\ MarkPublished
    <3>1. version' = version /\ version = tx.version
      BY <2>1, <2>3 DEF MarkPublished, ReceiptInv, DeliveryInv, GateHoldsWhileDelivering
    <3>2. ReachedEveryTarget(version, "publish")' /\ ReachedEveryTarget(live, "publish")'
      BY <2>1, <2>2, <2>3, <3>1 DEF ReachedEveryTarget
    <3> QED BY <1>0, <2>1, <3>2 DEF ReceiptInv, DoneIsDelivered, LiveVersionReachedEveryTarget
  <2>4. CASE tx.action = "rollback" /\ HeadAfterRollback
    <3>1. UNCHANGED <<state, version>>
      BY <2>4 DEF HeadAfterRollback, reviewVars, setVars
    <3>2. ReachedEveryTarget(live, "rollback")'
      BY <2>1, <2>2, <2>4 DEF ReachedEveryTarget
    <3>3. state' = "published" => ReachedEveryTarget(version, "publish")'
      BY <2>1, <3>1 DEF ReceiptInv, LiveVersionReachedEveryTarget, ReachedEveryTarget
    <3> QED BY <1>0, <2>1, <3>2, <3>3
         DEF ReceiptInv, DoneIsDelivered, LiveVersionReachedEveryTarget
  <2> QED BY <1>8, <2>3, <2>4 DEF Commit
<1> QED BY <1>2, <1>3, <1>4, <1>5, <1>6, <1>7, <1>8 DEF Next, TxStep

\* A published head, and the live version, were accepted by every configured
\* target, over however many attempts and failures (_deliver, publish,
\* rollback).
THEOREM LiveVersionsAreDelivered == Spec => []LiveVersionReachedEveryTarget
<1>1. ReceiptInv => LiveVersionReachedEveryTarget
  BY DEF ReceiptInv
<1> QED BY <1>1, ReceiptInit, ReceiptStep, PTL DEF Spec

-----------------------------------------------------------------------------
(* Repeated deliveries.                                                    *)

\* Each target is configured under a name of its own.
TargetsAreDistinct == \A i, j \in DOMAIN Targets : Targets[i] = Targets[j] => i = j

\* A target still to be called has no receipt, nor one in this transaction.
TodoIsFresh == tx # None => \A i \in tx.todo : RowOf(i) \notin delivered \cup tx.rows

\* A receipt accounts for one delivery, a fault for each other.
PostsAreCounted ==
  \A row \in Row :
    posts[row] <= faults + (IF row \in delivered \cup OpenRows THEN 1 ELSE 0)

PostInv == PubTypeInv /\ TodoIsFresh /\ PostsAreCounted

LEMMA PostInit == Init => PostInv
<1> SUFFICES ASSUME Init PROVE PostInv
  OBVIOUS
<1>1. PubTypeInv
  BY PubTypeInit
<1>2. TodoIsFresh /\ PostsAreCounted
  BY DEF Init, TodoIsFresh, PostsAreCounted
<1> QED BY <1>1, <1>2 DEF PostInv

LEMMA PostCall ==
  ASSUME TargetsAreDistinct, PostInv, NEW i \in DOMAIN Targets,
         DeliverOk(i) \/ DeliverRefused(i) \/ DeliverUnacknowledged(i)
  PROVE  TodoIsFresh' /\ PostsAreCounted'
<1>1. tx # None /\ tx \in Tx /\ i \in tx.todo /\ UNCHANGED delivered
  BY DEF DeliverOk, DeliverRefused, DeliverUnacknowledged, Calling, PostInv, PubTypeInv,
         PublicationTypeOK
<1>2. /\ tx' # None
      /\ tx'.version = tx.version
      /\ tx'.action = tx.action
      /\ tx'.todo = tx.todo \ {i}
      /\ tx'.rows = tx.rows \/ tx'.rows = tx.rows \cup {RowOf(i)}
  BY <1>1, TxAfterCall
<1>3. TodoIsFresh'
  <2>1. tx.todo \subseteq DOMAIN Targets
    BY <1>1 DEF Tx
  <2>2. \A j \in tx.todo \ {i} : RowOf(j) # RowOf(i)
    BY <2>1 DEF TargetsAreDistinct, RowOf
  <2> QED BY <1>1, <1>2, <2>2 DEF TodoIsFresh, PostInv, RowOf
<1>4. RowOf(i) \in Row /\ RowOf(i) \notin delivered \cup tx.rows
  BY <1>1, RowType DEF PostInv, TodoIsFresh
<1>5. posts \in [Row -> Nat] /\ faults \in Nat
  BY FaultsAssumption DEF PostInv, PubTypeInv, PublicationTypeOK
<1>6. OpenRows = tx.rows /\ OpenRows' = tx'.rows
  BY <1>1, <1>2 DEF OpenRows
<1>7. CASE DeliverOk(i)
  <2>1. tx'.rows = tx.rows \cup {RowOf(i)}
    BY <1>1, <1>7 DEF DeliverOk, Tx
  <2>2. posts' = [posts EXCEPT ![RowOf(i)] = @ + 1] /\ faults' = faults
    BY <1>7 DEF DeliverOk, Received
  <2> QED BY <1>1, <1>3, <1>4, <1>5, <1>6, <2>1, <2>2 DEF PostInv, PostsAreCounted
<1>8. CASE DeliverRefused(i)
  <2>1. tx'.rows = tx.rows
    BY <1>1, <1>8 DEF DeliverRefused, Tx
  <2>2. posts' = posts /\ faults' = faults
    BY <1>8 DEF DeliverRefused
  <2> QED BY <1>1, <1>3, <1>6, <2>1, <2>2 DEF PostInv, PostsAreCounted
<1>9. CASE DeliverUnacknowledged(i)
  <2>1. tx'.rows = tx.rows
    BY <1>1, <1>9 DEF DeliverUnacknowledged, Tx
  <2>2. posts' = [posts EXCEPT ![RowOf(i)] = @ + 1] /\ faults' = faults + 1
    BY <1>9 DEF DeliverUnacknowledged, Received
  <2> QED BY <1>1, <1>3, <1>5, <1>6, <2>1, <2>2 DEF PostInv, PostsAreCounted
<1> QED BY <1>7, <1>8, <1>9

LEMMA PostStep == TargetsAreDistinct /\ PostInv /\ [Next]_vars => PostInv'
<1> SUFFICES ASSUME TargetsAreDistinct, PostInv, [Next]_vars PROVE PostInv'
  OBVIOUS
<1>0. PubTypeInv'
  BY PubTypeStep DEF PostInv
<1>t. posts \in [Row -> Nat] /\ faults \in Nat
  BY FaultsAssumption DEF PostInv, PubTypeInv, PublicationTypeOK
<1> USE DEF gateVars, pubVars
<1>1. ASSUME UNCHANGED <<delivered, tx, posts, faults>> PROVE PostInv'
  BY <1>0, <1>1 DEF PostInv, TodoIsFresh, PostsAreCounted, OpenRows, RowOf
<1>2. CASE ReviewStep \/ DriftChanges \/ UNCHANGED vars
  BY <1>1, <1>2 DEF ReviewStep, DriftChanges, vars
<1>3. ASSUME NEW t \in TestRunners, RunRead(t) \/ RunRecord(t) \/ RunDies(t) PROVE PostInv'
  BY <1>1, <1>3 DEF RunRead, RunRecord, RunDies
<1>4. ASSUME NEW v, NEW action, Begin(v, action), LockFree, UNCHANGED <<delivered, posts, faults>>
      PROVE  PostInv'
  <2>1. OpenRows = {} /\ OpenRows' = {}
    BY <1>4 DEF OpenRows, LockFree, Begin
  <2>2. TodoIsFresh'
    <3>1. /\ tx'.version = v /\ tx'.action = action
          /\ tx'.todo = ToDeliver(v, action) /\ tx'.rows = {}
      BY <1>4 DEF Begin
    <3>2. ASSUME NEW i \in ToDeliver(v, action)
          PROVE  [version |-> v, action |-> action, target |-> Targets[i]] \notin delivered
      BY DEF ToDeliver, AlreadyDelivered
    <3> QED BY <1>4, <3>1, <3>2 DEF TodoIsFresh, RowOf
  <2>3. PostsAreCounted'
    BY <1>4, <2>1 DEF PostInv, PostsAreCounted
  <2> QED BY <1>0, <2>2, <2>3 DEF PostInv
<1>5. CASE PublishBegin \/ RollbackBegin
  BY <1>4, <1>5 DEF PublishBegin, RollbackBegin
<1>6. ASSUME NEW i \in DOMAIN Targets,
             DeliverOk(i) \/ DeliverRefused(i) \/ DeliverUnacknowledged(i)
      PROVE  PostInv'
  BY <1>0, <1>6, PostCall DEF PostInv
<1>7. CASE CommitFailed \/ Commit
  <2>1. /\ tx # None /\ tx' = None /\ delivered' = delivered \cup tx.rows
        /\ UNCHANGED <<posts, faults>>
    BY <1>7 DEF CommitFailed, Commit, Delivered
  <2>2. delivered' \cup OpenRows' = delivered \cup OpenRows
    BY <2>1 DEF OpenRows
  <2> QED BY <1>0, <2>1, <2>2 DEF PostInv, TodoIsFresh, PostsAreCounted
<1>8. CASE TxLost
  <2>1. tx' = None /\ UNCHANGED <<posts, delivered>> /\ faults' = faults + 1
    BY <1>8 DEF TxLost
  <2> QED BY <1>0, <1>t, <2>1 DEF PostInv, TodoIsFresh, PostsAreCounted, OpenRows
<1> QED BY <1>2, <1>3, <1>5, <1>6, <1>7, <1>8 DEF Next, TxStep

\* With targets of different names, a target receives the same delivery once
\* more for each answer or transaction that was lost, and for no other reason,
\* over any number of retries and rollbacks (_deliver's already_delivered).
THEOREM PostsNeedFaults == TargetsAreDistinct => (Spec => []RepostsNeedFaults)
<1> SUFFICES ASSUME TargetsAreDistinct PROVE Spec => []RepostsNeedFaults
  OBVIOUS
<1>1. PostInv => RepostsNeedFaults
  BY FaultsAssumption
  DEF PostInv, PostsAreCounted, RepostsNeedFaults, PubTypeInv, PublicationTypeOK
<1> QED BY <1>1, PostInit, PostStep, PTL DEF Spec

=============================================================================
