------------------------------- MODULE Review -------------------------------
(***************************************************************************)
(* The review of one instruction set: submission, edits, the review        *)
(* policy, decisions, the review deadline and its escalation, retirement   *)
(* (service.transition, apply_edit, set_review_policy, review;             *)
(* routers/instruction_sets.submit; reviews.py).                           *)
(*                                                                         *)
(* Every request has a database session of its own.  A handler that loads  *)
(* the row once, FOR UPDATE, is one atomic action here.  Two paths read    *)
(* the row unlocked first and write it later, and are two actions:         *)
(*   - submit: the route loads the row to choose between submit and        *)
(*     resubmit, then service.transition locks it in the same session,     *)
(*     which returns the object the session already holds, unrefreshed,    *)
(*     and writes only the columns that differ from that first read;       *)
(*   - escalate: the overdue sets are selected without a lock and stamped. *)
(* SpacedRequests says that nothing is written between such a read and     *)
(* its write: the handlers one at a time.                                  *)
(***************************************************************************)
EXTENDS Workflow, Naturals, FiniteSets

CONSTANTS
  Principals,       \* the API keys: records [name, role]; a name may hold two
  NoteAuthor,       \* the name that ingested the note
  Policies,         \* the policies an expert may set
  SubmitRequests,   \* submit requests that may be in flight together
  Escalators,       \* callers of escalate_overdue: the route, the scheduler
  Scheduler,        \* the one of them that keeps calling
  SpacedRequests,   \* TRUE: no write between an unlocked read and its write
  MaxVersion,       \* bound on edits
  MaxSubmissions    \* bound on submissions

Role == {"expert", "reviewer", "admin"}
ReviewRoles == {"reviewer", "admin"}

Policy == [approvals : Nat \ {0}, roles : SUBSET ReviewRoles,
           allowSelf : BOOLEAN, deadline : BOOLEAN]

ASSUME PrincipalsAssumption ==
  \A p \in Principals : DOMAIN p = {"name", "role"} /\ p.role \in Role
ASSUME PoliciesAssumption == Policies \subseteq Policy
ASSUME SchedulerAssumption == Scheduler \in Escalators
ASSUME BoundsAssumption ==
  /\ MaxVersion \in Nat \ {0}
  /\ MaxSubmissions \in Nat
  /\ SpacedRequests \in BOOLEAN

Names == {p.name : p \in Principals} \cup {NoteAuthor}
Experts == {p \in Principals : p.role \in {"expert", "admin"}}
Reviewers == {p \in Principals : p.role \in {"reviewer", "admin"}}

VARIABLES
  state,        \* instruction_sets.state
  version,      \* instruction_sets.version, the head
  round,        \* instruction_sets.review_round
  policy,       \* review_policy and required_approvals
  author,       \* edits: who wrote each version (the note's author wrote 1)
  decisions,    \* review_decisions rows
  clock,        \* review_deadline_at: none, in the future, in the past
  escalated,    \* escalated_at is not null
  submissions,  \* submit and resubmit rows of the audit trail
  submits,      \* what each submit request in flight read
  escalations,  \* what each escalation in flight read
  reminders,    \* review_escalated events per submission they are about
  clearance     \* the last approve event and the policy it met

setVars == <<state, version, round, policy, author, decisions, clock,
             escalated, submissions, clearance>>
reviewVars == <<setVars, submits, escalations, reminders>>

Versions == 1 .. MaxVersion
Submissions == 1 .. MaxSubmissions

None == [none |-> TRUE]

\* The columns of the row a submit request depends on.
Snapshot == [state : {"draft", "changes_requested"}, round : Nat,
             deadline : BOOLEAN, clock : {"off", "running", "passed"},
             escalated : BOOLEAN]

\* submission is a ghost: the submission that was under review at the time.
Decision == [reviewer : Names, role : ReviewRoles, version : Versions,
             round : Nat, submission : Submissions,
             decision : {"approve", "request_changes"}]

Clearance == [version : Versions, round : Nat, policy : Policy]

TypeOK ==
  /\ state \in State
  /\ version \in Versions
  /\ round \in Nat
  /\ policy \in Policy
  /\ author \in [Versions -> Names]
  /\ decisions \subseteq Decision
  /\ clock \in {"off", "running", "passed"}
  /\ escalated \in BOOLEAN
  /\ submissions \in 0 .. MaxSubmissions
  /\ submits \in [SubmitRequests -> Snapshot \cup {None}]
  /\ escalations \in [Escalators -> Submissions \cup {0}]
  /\ reminders \in [Submissions -> Nat]
  /\ clearance \in Clearance \cup {None}

-----------------------------------------------------------------------------
\* ingest_note: a draft at version 1, under the policy ingested with it.
ReviewInit ==
  /\ state = "draft"
  /\ version = 1
  /\ round = 0
  /\ policy \in Policies
  /\ author = [v \in Versions |-> NoteAuthor]
  /\ decisions = {}
  /\ clock = "off"
  /\ escalated = FALSE
  /\ submissions = 0
  /\ submits = [r \in SubmitRequests |-> None]
  /\ escalations = [e \in Escalators |-> 0]
  /\ reminders = [n \in Submissions |-> 0]
  /\ clearance = None

\* No unlocked read is waiting for its write.
NoneInFlight ==
  /\ submits = [r \in SubmitRequests |-> None]
  /\ escalations = [e \in Escalators |-> 0]

Spaced == SpacedRequests => NoneInFlight

-----------------------------------------------------------------------------
(* Submission.                                                             *)

\* The route's read.  From any other state the request ends in a 409.
SubmitRead(r) ==
  /\ Spaced
  /\ submits[r] = None
  /\ state \in {"draft", "changes_requested"}
  /\ submits' = [submits EXCEPT ![r] =
       [state |-> state, round |-> round, deadline |-> policy.deadline,
        clock |-> clock, escalated |-> escalated]]
  /\ UNCHANGED <<setVars, escalations, reminders>>

\* Variant: a resubmission stays in the round it was read in.
SameRound(read) == read.round
\* Variant: the new round keeps the escalation stamp of the last one.
KeepsEscalated(read) == escalated

SubmitAction(read) ==
  IF read.state = "changes_requested" THEN "resubmit" ELSE "submit"

NextRound(read) == read.round + 1

\* start_review_clock on the object read: null over null writes no column.
NewClock(read) ==
  IF read.deadline THEN "running" ELSE IF read.clock = "off" THEN clock ELSE "off"
NewEscalated(read) == IF read.escalated THEN FALSE ELSE escalated

\* service.transition: the state machine and every write use what was read.
SubmitCommit(r) ==
  LET read == submits[r] IN
  /\ read # None
  /\ submissions < MaxSubmissions
  /\ CanTransition(SubmitAction(read), read.state)
  /\ state' = Target(SubmitAction(read))
  /\ round' = NextRound(read)
  /\ clock' = NewClock(read)
  /\ escalated' = NewEscalated(read)
  /\ submissions' = submissions + 1
  /\ submits' = [submits EXCEPT ![r] = None]
  /\ UNCHANGED <<version, policy, author, decisions, clearance,
                 escalations, reminders>>

\* The request dies with its session, before it wrote anything.
SubmitDies(r) ==
  /\ submits[r] # None
  /\ submits' = [submits EXCEPT ![r] = None]
  /\ UNCHANGED <<setVars, escalations, reminders>>

-----------------------------------------------------------------------------
(* Edits, policy, decisions, retirement: one locked load, one transaction. *)

\* Variant: an edit of an approved head keeps the approval.
KeepsApproval == IF state = "published" THEN Target("revise") ELSE state

\* _commit_document for a caller whose expected_version is the head's.
AfterEdit == CASE state = "approved"  -> Target("edit_after_approval")
               [] state = "published" -> Target("revise")
               [] OTHER               -> state

Edit(p) ==
  /\ Spaced
  /\ state \in EditableStates
  /\ version < MaxVersion
  /\ version' = version + 1
  /\ author' = [author EXCEPT ![version + 1] = p.name]
  /\ state' = AfterEdit
  /\ UNCHANGED <<round, policy, decisions, clock, escalated, submissions,
                 clearance, submits, escalations, reminders>>

SetReviewPolicy(q) ==
  /\ Spaced
  /\ state # "in_review"
  /\ policy' = q
  /\ UNCHANGED <<state, version, round, author, decisions, clock, escalated,
                 submissions, clearance, submits, escalations, reminders>>

\* Variant: whoever wrote the head may approve it.
IsNoteAuthor(p) == ~policy.allowSelf /\ p.name = NoteAuthor

\* reviews.is_self_approval: the note's author, or whoever wrote the head.
IsSelfApproval(p) ==
  ~policy.allowSelf /\ p.name \in {NoteAuthor, author[version]}

ApprovalsThisRound(rows) ==
  {d \in rows : /\ d.version = version
                /\ d.round = round
                /\ d.decision = "approve"}

\* reviews.policy_satisfied: distinct approvers, and every required role.
PolicySatisfied(approvals, q) ==
  /\ Cardinality({d.reviewer : d \in approvals}) >= q.approvals
  /\ q.roles \subseteq {d.role : d \in approvals}

DecisionBy(p, choice) ==
  [reviewer |-> p.name, role |-> p.role, version |-> version,
   round |-> round, submission |-> submissions, decision |-> choice]

MayDecide(p) == Spaced /\ state = "in_review" /\ ~IsSelfApproval(p)

RequestChanges(p) ==
  /\ MayDecide(p)
  /\ decisions' = decisions \cup {DecisionBy(p, "request_changes")}
  /\ state' = Target("request_changes")
  /\ UNCHANGED <<version, round, policy, author, clock, escalated, submissions,
                 clearance, submits, escalations, reminders>>

Approve(p) ==
  LET rows == decisions \cup {DecisionBy(p, "approve")} IN
  /\ MayDecide(p)
  /\ decisions' = rows
  /\ \/ /\ PolicySatisfied(ApprovalsThisRound(rows), policy)
        /\ state' = Target("approve")
        /\ clearance' = [version |-> version, round |-> round, policy |-> policy]
     \/ /\ ~PolicySatisfied(ApprovalsThisRound(rows), policy)
        /\ UNCHANGED <<state, clearance>>
  /\ UNCHANGED <<version, round, policy, author, clock, escalated, submissions,
                 submits, escalations, reminders>>

\* The write a successful service.publish makes to the row.
MarkPublished ==
  /\ Spaced
  /\ CanTransition("publish", state)
  /\ state' = Target("publish")
  /\ UNCHANGED <<version, round, policy, author, decisions, clock, escalated,
                 submissions, clearance, submits, escalations, reminders>>

Retire ==
  /\ Spaced
  /\ CanTransition("retire", state)
  /\ state' = Target("retire")
  /\ UNCHANGED <<version, round, policy, author, decisions, clock, escalated,
                 submissions, clearance, submits, escalations, reminders>>

-----------------------------------------------------------------------------
(* The deadline and its escalation.                                        *)

DeadlinePasses ==
  /\ clock = "running"
  /\ clock' = "passed"
  /\ UNCHANGED <<state, version, round, policy, author, decisions, escalated,
                 submissions, clearance, submits, escalations, reminders>>

Overdue == state = "in_review" /\ clock = "passed"

\* Variant: a set already escalated is escalated again.
RemindsAgain == Overdue

NeedsReminder == Overdue /\ ~escalated

EscalateRead(e) ==
  /\ Spaced
  /\ escalations[e] = 0
  /\ NeedsReminder
  /\ escalations' = [escalations EXCEPT ![e] = submissions]
  /\ UNCHANGED <<setVars, submits, reminders>>

\* The stamp and the event of the set as it was read.
EscalateWrite(e) ==
  /\ escalations[e] # 0
  /\ escalated' = TRUE
  /\ reminders' = [reminders EXCEPT ![escalations[e]] = @ + 1]
  /\ escalations' = [escalations EXCEPT ![e] = 0]
  /\ UNCHANGED <<state, version, round, policy, author, decisions, clock,
                 submissions, clearance, submits>>

EscalateDies(e) ==
  /\ escalations[e] # 0
  /\ escalations' = [escalations EXCEPT ![e] = 0]
  /\ UNCHANGED <<setVars, submits, reminders>>

-----------------------------------------------------------------------------
\* What may happen while another transaction holds the row's lock ...
ReviewUnlocked ==
  \/ \E r \in SubmitRequests : SubmitRead(r) \/ SubmitDies(r)
  \/ \E e \in Escalators : EscalateRead(e) \/ EscalateDies(e)
  \/ DeadlinePasses

\* ... and what waits for it.
ReviewLocked ==
  \/ \E r \in SubmitRequests : SubmitCommit(r)
  \/ \E p \in Experts : Edit(p)
  \/ \E q \in Policies : SetReviewPolicy(q)
  \/ \E p \in Reviewers : RequestChanges(p) \/ Approve(p)
  \/ Retire
  \/ \E e \in Escalators : EscalateWrite(e)

ReviewNext == ReviewUnlocked \/ ReviewLocked \/ MarkPublished

ReviewSpec == ReviewInit /\ [][ReviewNext]_reviewVars

\* The scheduler ticks for as long as the process runs and outlives a tick that
\* fails (DriftScheduler._loop), so not every one of its calls dies; and a
\* request in flight ends one way or the other.
ReviewFairness ==
  /\ SF_reviewVars(EscalateRead(Scheduler))
  /\ SF_reviewVars(EscalateWrite(Scheduler))
  /\ \A e \in Escalators : WF_reviewVars(EscalateWrite(e) \/ EscalateDies(e))
  /\ \A r \in SubmitRequests : WF_reviewVars(SubmitCommit(r) \/ SubmitDies(r))

FairReviewSpec == ReviewSpec /\ ReviewFairness

-----------------------------------------------------------------------------
(* What holds however requests overlap.                                    *)

ClearedStates == {"approved", "published", "retired"}

\* The decisions the last approve event rested on.
Counted == {d \in decisions : /\ d.version = clearance.version
                              /\ d.round = clearance.round
                              /\ d.decision = "approve"}

\* A head that is approved, live or retired was approved as it stands: the
\* approvals are of that very version, by as many different people as the
\* policy of that moment asked for, with every role it required among them
\* (service.review, _commit_document).
ApprovedHeadIsEarned ==
  state \in ClearedStates =>
    /\ clearance # None
    /\ clearance.version = version
    /\ Cardinality({d.reviewer : d \in Counted}) >= clearance.policy.approvals
    /\ \A r \in clearance.policy.roles : \E d \in Counted : d.role = r

\* Whatever reviewers said since the last submission, they said of the version
\* that is under review or was approved: nothing changes the document beneath
\* an open review (EDITABLE_STATES and the lock in apply_edit and review).
DecisionsAreOnTheHead ==
  state \in {"in_review"} \cup ClearedStates =>
    \A d \in decisions : d.submission = submissions => d.version = version

-----------------------------------------------------------------------------
(* What holds when no write falls between an unlocked read and its write.  *)

\* The state moves along the transition table and in no other way
\* (workflow/state.py assert_transition).
TransitionsFollowTable ==
  [][state' # state => <<state, state'>> \in TransitionPairs]_reviewVars

\* An approval counts in the submission it was given in and in no later one
\* (review_round, approvals_this_round).
OnlyThisSubmissionCounts ==
  state \in {"in_review", "approved"} =>
    \A d \in decisions :
      /\ d.version = version
      /\ d.round = round
      /\ d.decision = "approve"
      => d.submission = submissions

\* Unless the policy in force at the approval allowed it, neither the note's
\* author nor the author of the approved version is among the approvers that
\* carried it, whatever the policy was before and became since (is_self_approval).
AuthorsNeverCount ==
  state \in ClearedStates /\ ~clearance.policy.allowSelf =>
    \A d \in Counted : d.reviewer \notin {NoteAuthor, author[version]}

\* One review_escalated event at most per submission (escalate_overdue).
RemindedOnce == \A n \in Submissions : reminders[n] <= 1

\* A review that stays overdue gets its own review_escalated event, as long as
\* the scheduler runs (escalate_overdue on every tick).
OverdueIsReminded ==
  \A n \in Submissions :
    Overdue /\ submissions = n ~>
      reminders[n] > 0 \/ ~Overdue \/ submissions # n

=============================================================================
