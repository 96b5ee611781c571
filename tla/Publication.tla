----------------------------- MODULE Publication -----------------------------
(***************************************************************************)
(* The publish gate, delivery to the targets and rollback of one           *)
(* instruction set, composed with its review (service.run_tests,           *)
(* _publish_gate, _deliver, publish, rollback; targets/).                  *)
(*                                                                         *)
(* publish and rollback hold the row's lock from their load to their       *)
(* commit, across the calls to the targets.  Every row another request     *)
(* would insert for the set - a decision, a test run, a drift flag, an     *)
(* audit event - has a foreign key to that row and waits for the lock too; *)
(* plain reads do not.  What a target received stays received when the     *)
(* transaction that posted it is lost.                                     *)
(*                                                                         *)
(* A publications row that says "failed" decides nothing and is left out.  *)
(* Drift is an environment here: open flags come and go between            *)
(* transactions, and an edit may close them.                               *)
(***************************************************************************)
EXTENDS Review, Sequences

CONSTANTS
  Targets,       \* the configured targets, in the order they are called
  TestRunners,   \* run-tests requests that may be in flight together
  MaxFaults      \* bound on lost answers and lost transactions

ASSUME TargetsAssumption == Targets \in Seq(STRING)
ASSUME FaultsAssumption == MaxFaults \in Nat

VARIABLES
  latestRun,   \* the test_runs row with the highest id
  greens,      \* versions some test_runs row says passed
  runReads,    \* what each run-tests request in flight has run
  stale,       \* an open drift flag exists
  delivered,   \* publications rows with status delivered
  live,        \* published_version, 0 for null
  tx,          \* the publish or rollback transaction that holds the lock
  holds,       \* per target, the version it received last
  posts,       \* how often each delivery_id reached each target
  faults,      \* lost answers and lost transactions so far
  cleared      \* versions with an approve event in the audit trail

gateVars == <<latestRun, greens, stale>>
pubVars == <<delivered, live, tx, holds, posts, faults>>
vars == <<reviewVars, gateVars, runReads, pubVars, cleared>>

TargetNames == {Targets[i] : i \in DOMAIN Targets}
Row == [version : Versions, action : {"publish", "rollback"}, target : TargetNames]
Run == [version : Versions, passed : BOOLEAN]
\* todo: the positions in Targets still to be called; rows: the delivered rows
\* the transaction will commit.
Tx == [action : {"publish", "rollback"}, version : Versions,
       todo : SUBSET DOMAIN Targets, failed : BOOLEAN, rows : SUBSET Row]

PublicationTypeOK ==
  /\ TypeOK
  /\ latestRun \in Run \cup {None}
  /\ greens \subseteq Versions
  /\ runReads \in [TestRunners -> Run \cup {None}]
  /\ stale \in BOOLEAN
  /\ delivered \subseteq Row
  /\ live \in Versions \cup {0}
  /\ tx \in Tx \cup {None}
  /\ holds \in [TargetNames -> Versions \cup {0}]
  /\ posts \in [Row -> Nat]
  /\ faults \in 0 .. MaxFaults
  /\ cleared \subseteq Versions

Init ==
  /\ ReviewInit
  /\ latestRun = None
  /\ greens = {}
  /\ runReads = [t \in TestRunners |-> None]
  /\ stale = FALSE
  /\ delivered = {}
  /\ live = 0
  /\ tx = None
  /\ holds = [t \in TargetNames |-> 0]
  /\ posts = [row \in Row |-> 0]
  /\ faults = 0
  /\ cleared = {}

\* Variant: publish and rollback load the row without its lock.
NoLock == TRUE

LockFree == tx = None

-----------------------------------------------------------------------------
(* Everything that is not a publish or a rollback.                         *)

\* The review's handlers; an edit may also close drift flags, and an approval
\* writes its event.
ReviewStep ==
  /\ \/ ReviewUnlocked
     \/ LockFree /\ ReviewLocked
  /\ stale' \in IF version' = version THEN {stale} ELSE {stale, FALSE}
  /\ cleared' = IF clearance' = clearance THEN cleared ELSE cleared \cup {version}
  /\ UNCHANGED <<latestRun, greens, runReads, pubVars>>

\* run_tests executes the document it loaded; the verdict is whatever the
\* cases say of that document.
RunRead(t) ==
  /\ runReads[t] = None
  /\ \E passed \in BOOLEAN :
       runReads' = [runReads EXCEPT ![t] = [version |-> version, passed |-> passed]]
  /\ UNCHANGED <<reviewVars, gateVars, pubVars, cleared>>

RunRecord(t) ==
  /\ LockFree
  /\ runReads[t] # None
  /\ latestRun' = runReads[t]
  /\ greens' = IF runReads[t].passed THEN greens \cup {runReads[t].version} ELSE greens
  /\ runReads' = [runReads EXCEPT ![t] = None]
  /\ UNCHANGED <<reviewVars, stale, pubVars, cleared>>

RunDies(t) ==
  /\ runReads[t] # None
  /\ runReads' = [runReads EXCEPT ![t] = None]
  /\ UNCHANGED <<reviewVars, gateVars, pubVars, cleared>>

\* A scan inserts a flag, or an expert re-verifies the flagged steps.
DriftChanges ==
  /\ LockFree
  /\ stale' = ~stale
  /\ UNCHANGED <<reviewVars, latestRun, greens, runReads, pubVars, cleared>>

-----------------------------------------------------------------------------
(* Publish and rollback.                                                   *)

\* Variant: a green run of any version opens the gate.
AnyGreenRun == latestRun # None /\ latestRun.passed

LatestRunIsGreen ==
  /\ latestRun # None
  /\ latestRun.version = version
  /\ latestRun.passed

\* _publish_gate; a refused publish writes an audit event and nothing else.
PublishGate == state = "approved" /\ ~stale /\ LatestRunIsGreen

\* _deliver: the targets without a delivered row for this version and action.
AlreadyDelivered(v, action) ==
  {row.target : row \in {r \in delivered : r.version = v /\ r.action = action}}

\* Variant: every retry posts to every target.
PostToAll(v, action) == DOMAIN Targets

ToDeliver(v, action) ==
  {i \in DOMAIN Targets : Targets[i] \notin AlreadyDelivered(v, action)}

Begin(v, action) ==
  tx' = [action |-> action, version |-> v, todo |-> ToDeliver(v, action),
         failed |-> FALSE, rows |-> {}]

PublishBegin ==
  /\ LockFree
  /\ PublishGate
  /\ Begin(version, "publish")
  /\ UNCHANGED <<reviewVars, gateVars, runReads, delivered, live, holds, posts,
                 faults, cleared>>

\* Variant: the version numbers below the live one, counted from nought.
AnyEarlier == 0 .. (live - 1)

\* The versions a rollback chooses from.
Earlier == {r.version : r \in {d \in delivered : d.action = "publish" /\ d.version < live}}

RollbackBegin ==
  /\ LockFree
  /\ live # 0
  /\ Earlier # {}
  /\ \E v \in Earlier :
       /\ \A w \in Earlier : w <= v
       /\ Begin(v, "rollback")
  /\ UNCHANGED <<reviewVars, gateVars, runReads, delivered, live, holds, posts,
                 faults, cleared>>

\* The loop over the targets has come to position i.
Calling(i) == tx # None /\ i \in tx.todo /\ \A j \in tx.todo : i <= j

RowOf(i) == [version |-> tx.version, action |-> tx.action, target |-> Targets[i]]

\* The target takes the payload.
Received(i) ==
  /\ holds' = [holds EXCEPT ![Targets[i]] = tx.version]
  /\ posts' = [posts EXCEPT ![RowOf(i)] = @ + 1]

\* It took it and said so.
DeliverOk(i) ==
  /\ Calling(i)
  /\ Received(i)
  /\ tx' = [tx EXCEPT !.todo = @ \ {i}, !.rows = @ \cup {RowOf(i)}]
  /\ UNCHANGED <<reviewVars, gateVars, runReads, delivered, live, faults, cleared>>

\* DeliveryError: it was not reached, or refused.
DeliverRefused(i) ==
  /\ Calling(i)
  /\ tx' = [tx EXCEPT !.todo = @ \ {i}, !.failed = TRUE]
  /\ UNCHANGED <<reviewVars, gateVars, runReads, delivered, live, holds, posts,
                 faults, cleared>>

\* DeliveryError although it took it: a timeout, or the Jira comment without
\* its attachment.
DeliverUnacknowledged(i) ==
  /\ Calling(i)
  /\ faults < MaxFaults
  /\ Received(i)
  /\ tx' = [tx EXCEPT !.todo = @ \ {i}, !.failed = TRUE]
  /\ faults' = faults + 1
  /\ UNCHANGED <<reviewVars, gateVars, runReads, delivered, live, cleared>>

\* Variant: the request waits, lock in hand, until every target has accepted.
AllAccepted == tx # None /\ tx.todo = {} /\ ~tx.failed

Delivered == tx # None /\ tx.todo = {}

\* Some target failed: the rows are kept, the set is not touched, a 409.
CommitFailed ==
  /\ Delivered
  /\ tx.failed
  /\ delivered' = delivered \cup tx.rows
  /\ tx' = None
  /\ UNCHANGED <<reviewVars, gateVars, runReads, live, holds, posts, faults, cleared>>

\* Variant: a rollback reopens the head for editing.
Reopens == state' = "draft" /\ UNCHANGED <<version, round, policy, author, decisions, clock,
             escalated, submissions, clearance, submits, escalations, reminders>>

HeadAfterRollback == UNCHANGED reviewVars

\* Variant: targets that failed do not hold back the publication.
DespiteFailures == TRUE

Succeeded == ~tx.failed

Commit ==
  /\ Delivered
  /\ Succeeded
  /\ \/ tx.action = "publish" /\ MarkPublished
     \/ tx.action = "rollback" /\ HeadAfterRollback
  /\ live' = tx.version
  /\ delivered' = delivered \cup tx.rows
  /\ tx' = None
  /\ UNCHANGED <<gateVars, runReads, holds, posts, faults, cleared>>

\* The process dies, or an exception other than DeliveryError ends the request:
\* the rows of this transaction are gone, what was posted is not.
TxLost ==
  /\ tx # None
  /\ faults < MaxFaults
  /\ faults' = faults + 1
  /\ tx' = None
  /\ UNCHANGED <<reviewVars, gateVars, runReads, delivered, live, holds, posts, cleared>>

-----------------------------------------------------------------------------
TxStep ==
  \/ \E i \in DOMAIN Targets : DeliverOk(i) \/ DeliverRefused(i) \/ DeliverUnacknowledged(i)
  \/ CommitFailed
  \/ Commit
  \/ TxLost

Next ==
  \/ ReviewStep
  \/ \E t \in TestRunners : RunRead(t) \/ RunRecord(t) \/ RunDies(t)
  \/ DriftChanges
  \/ PublishBegin
  \/ RollbackBegin
  \/ TxStep

Spec == Init /\ [][Next]_vars

\* A call to a target returns or times out (httpx, 10 seconds), and the request
\* goes on to its end or its session is closed.
FairSpec == Spec /\ WF_vars(TxStep)

-----------------------------------------------------------------------------
\* A version some target holds was approved and has passed a test run, also
\* when it came by a rollback or in an attempt that failed (_publish_gate,
\* rollback).
OnlyClearedVersionsReachTargets ==
  \A t \in TargetNames : holds[t] # 0 => holds[t] \in cleared \cap greens

\* What the gate found stays true until the publish commits or is lost, however
\* long the targets take: nothing that could close the gate is written while
\* the row is locked (get_instruction_set for_update; the foreign keys).
GateHoldsWhileDelivering ==
  tx # None /\ tx.action = "publish" => PublishGate /\ tx.version = version

ReachedEveryTarget(v, action) ==
  \A t \in TargetNames : [version |-> v, action |-> action, target |-> t] \in delivered

\* A published head was delivered to every target, over however many attempts;
\* the live version reached every target under one action, its publication or a
\* rollback to it (_deliver, the failures that keep publish and rollback from
\* moving anything).
LiveVersionReachedEveryTarget ==
  /\ state = "published" => ReachedEveryTarget(version, "publish")
  /\ live # 0 => ReachedEveryTarget(live, "publish") \/ ReachedEveryTarget(live, "rollback")

\* A target receives the same delivery once more for each answer or transaction
\* that was lost, and for no other reason.
RepostsNeedFaults == \A row \in Row : posts[row] <= 1 + faults

\* A publish or a rollback ends, and gives the row's lock back.
LockIsReleased == tx # None ~> tx = None

\* When a rollback moves published_version back, that version is the one every
\* target received last: a target that is skipped because this delivery is on
\* record still holds it (_deliver's already_delivered).
RollbackIsDelivered ==
  [][live' # live /\ tx.action = "rollback" => \A t \in TargetNames : holds[t] = live']_vars

-----------------------------------------------------------------------------
\* Seen from outside, a set keeps the promise of module Release: whatever fails,
\* is lost or is repeated, only cleared text reaches a target, the head goes live
\* only when cleared, and the live version then only steps back.
Released == INSTANCE Release WITH
  head    <- version,
  cleared <- cleared \cap greens,
  live    <- live,
  held    <- {holds[t] : t \in TargetNames} \ {0}

IsReleased == Released!Spec

=============================================================================
