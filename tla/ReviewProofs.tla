---------------------------- MODULE ReviewProofs ----------------------------
(***************************************************************************)
(* Proofs about Review, for any people, policies, requests in flight and   *)
(* bounds, whether requests overlap or not.                                *)
(***************************************************************************)
EXTENDS Review, TLAPS

USE DEF State, Transitions, EditableStates, CanTransition, Target

-----------------------------------------------------------------------------
(* Type correctness.  TypeOK is not inductive by itself: a decision names  *)
(* the submission it was given in, so a set under review must have been    *)
(* submitted.                                                              *)

UnderReviewIsSubmitted == state = "in_review" => submissions # 0

TypeInv == TypeOK /\ UnderReviewIsSubmitted

LEMMA SnapshotIsNotNone == None \notin Snapshot
BY DEF None, Snapshot

\* What an edit leaves: a state in which no review is open and nothing is
\* approved.
LEMMA AfterEditIsOpen ==
  ASSUME state \in EditableStates
  PROVE  AfterEdit \in {"draft", "changes_requested"}
BY DEF AfterEdit

\* The type of a new review_decisions row.
LEMMA DecisionType ==
  ASSUME TypeInv, NEW p \in Reviewers, state = "in_review",
         NEW choice \in {"approve", "request_changes"}
  PROVE  DecisionBy(p, choice) \in Decision
<1>1. p.name \in Names /\ p.role \in ReviewRoles
  BY PrincipalsAssumption DEF Reviewers, Names, ReviewRoles
<1>2. submissions \in Submissions
  BY BoundsAssumption DEF TypeInv, TypeOK, UnderReviewIsSubmitted, Submissions
<1> QED BY <1>1, <1>2 DEF DecisionBy, Decision, TypeInv, TypeOK

LEMMA TypeInit == ReviewInit => TypeInv
<1> SUFFICES ASSUME ReviewInit PROVE TypeInv
  OBVIOUS
<1>1. policy \in Policy
  BY PoliciesAssumption DEF ReviewInit
<1>2. author \in [Versions -> Names]
  BY DEF ReviewInit, Names
<1>3. version \in Versions /\ submissions \in 0 .. MaxSubmissions
  BY BoundsAssumption DEF ReviewInit, Versions
<1> QED BY <1>1, <1>2, <1>3 DEF ReviewInit, TypeInv, TypeOK, UnderReviewIsSubmitted

LEMMA TypeStep == TypeInv /\ [ReviewNext]_reviewVars => TypeInv'
<1> SUFFICES ASSUME TypeInv, [ReviewNext]_reviewVars PROVE TypeInv'
  OBVIOUS
<1> USE DEF TypeInv, TypeOK, UnderReviewIsSubmitted, setVars
<1>1. ASSUME NEW r \in SubmitRequests, SubmitRead(r) PROVE TypeInv'
  <2>1. [state |-> state, round |-> round, deadline |-> policy.deadline,
         clock |-> clock, escalated |-> escalated] \in Snapshot
    BY <1>1 DEF SubmitRead, Snapshot, Policy
  <2> QED BY <1>1, <2>1 DEF SubmitRead
<1>2. ASSUME NEW r \in SubmitRequests, SubmitCommit(r) PROVE TypeInv'
  <2>1. submits[r] \in Snapshot
    BY <1>2 DEF SubmitCommit
  <2>2. state' = "in_review"
    BY <1>2 DEF SubmitCommit, SubmitAction
  <2>6. round' \in Nat /\ clock' \in {"off", "running", "passed"}
    BY <1>2, <2>1 DEF SubmitCommit, Snapshot, NextRound, NewClock
  <2>7. escalated' \in BOOLEAN
    BY <1>2, Zenon DEF SubmitCommit, NewEscalated
  <2>3. submissions' \in 0 .. MaxSubmissions /\ submissions' # 0
    BY <1>2, BoundsAssumption DEF SubmitCommit
  <2>4. submits' \in [SubmitRequests -> Snapshot \cup {None}]
    BY <1>2 DEF SubmitCommit
  <2>5. UNCHANGED <<version, policy, author, decisions, clearance, escalations, reminders>>
    BY <1>2 DEF SubmitCommit
  <2> QED BY <2>2, <2>3, <2>4, <2>5, <2>6, <2>7
<1>3. ASSUME NEW r \in SubmitRequests, SubmitDies(r) PROVE TypeInv'
  BY <1>3 DEF SubmitDies
<1>4. ASSUME NEW p \in Experts, Edit(p) PROVE TypeInv'
  <2>1. version' \in Versions
    BY <1>4, BoundsAssumption DEF Edit, Versions
  <2>2. author' \in [Versions -> Names]
    BY <1>4 DEF Edit, Experts, Names
  <2>3. state' \in {"draft", "changes_requested"}
    BY <1>4, AfterEditIsOpen DEF Edit
  <2> QED BY <1>4, <2>1, <2>2, <2>3 DEF Edit
<1>5. ASSUME NEW q \in Policies, SetReviewPolicy(q) PROVE TypeInv'
  BY <1>5, PoliciesAssumption DEF SetReviewPolicy
<1>6. ASSUME NEW p \in Reviewers, RequestChanges(p) PROVE TypeInv'
  <2>1. DecisionBy(p, "request_changes") \in Decision
    BY <1>6, DecisionType DEF RequestChanges, MayDecide
  <2> QED BY <1>6, <2>1 DEF RequestChanges
<1>7. ASSUME NEW p \in Reviewers, Approve(p) PROVE TypeInv'
  <2>1. DecisionBy(p, "approve") \in Decision
    BY <1>7, DecisionType DEF Approve, MayDecide
  <2>2. decisions' \subseteq Decision
    BY <1>7, <2>1 DEF Approve
  <2>3. /\ state' \in {"in_review", "approved"}
        /\ clearance' \in Clearance \cup {None}
    BY <1>7 DEF Approve, MayDecide, Clearance
  <2>4. submissions # 0
    BY <1>7 DEF Approve, MayDecide
  <2> QED BY <1>7, <2>2, <2>3, <2>4 DEF Approve
<1>8. ASSUME MarkPublished PROVE TypeInv'
  BY <1>8 DEF MarkPublished
<1>9. ASSUME Retire PROVE TypeInv'
  BY <1>9 DEF Retire
<1>10. ASSUME DeadlinePasses PROVE TypeInv'
  BY <1>10 DEF DeadlinePasses
<1>11. ASSUME NEW e \in Escalators, EscalateRead(e) PROVE TypeInv'
  <2>1. submissions \in Submissions \cup {0}
    BY BoundsAssumption DEF Submissions
  <2> QED BY <1>11, <2>1 DEF EscalateRead
<1>12. ASSUME NEW e \in Escalators, EscalateWrite(e) PROVE TypeInv'
  BY <1>12 DEF EscalateWrite
<1>13. ASSUME NEW e \in Escalators, EscalateDies(e) PROVE TypeInv'
  BY <1>13 DEF EscalateDies
<1>14. CASE UNCHANGED reviewVars
  BY <1>14 DEF reviewVars
<1> QED
  BY <1>1, <1>2, <1>3, <1>4, <1>5, <1>6, <1>7, <1>8, <1>9, <1>10, <1>11,
     <1>12, <1>13, <1>14 DEF ReviewNext, ReviewUnlocked, ReviewLocked

\* Every variable keeps its type, whatever the requests do.
THEOREM ReviewTypeCorrect == ReviewSpec => []TypeOK
<1>1. ReviewSpec => []TypeInv
  BY TypeInit, TypeStep, PTL DEF ReviewSpec
<1> QED BY <1>1, PTL DEF TypeInv

-----------------------------------------------------------------------------
(* An approved head was approved as it stands.  The property is inductive  *)
(* with the types: only Approve reaches approved, with the very decisions  *)
(* that PolicySatisfied counted; an edit leaves every cleared state; and   *)
(* nothing takes a decision back.                                          *)

LEMMA EarnedInit == ReviewInit => ApprovedHeadIsEarned
BY DEF ReviewInit, ApprovedHeadIsEarned, ClearedStates

\* A step that leaves the head, its decisions and its clearance alone.
LEMMA EarnedKept ==
  ASSUME ApprovedHeadIsEarned,
         UNCHANGED <<version, decisions, clearance>>,
         state' \in ClearedStates => state \in ClearedStates
  PROVE  ApprovedHeadIsEarned'
<1>1. Counted' = Counted
  BY DEF Counted
<1> QED BY <1>1 DEF ApprovedHeadIsEarned

\* The approval that carries the head.
LEMMA EarnedByApproval ==
  ASSUME TypeInv, NEW p \in Reviewers, Approve(p), state' \in ClearedStates
  PROVE  ApprovedHeadIsEarned'
<1> DEFINE rows == decisions \cup {DecisionBy(p, "approve")}
<1>1. /\ state = "in_review"
      /\ state' = "approved"
      /\ PolicySatisfied(ApprovalsThisRound(rows), policy)
      /\ clearance' = [version |-> version, round |-> round, policy |-> policy]
      /\ decisions' = rows
      /\ version' = version
  BY DEF Approve, MayDecide, ClearedStates
<1>2. Counted' = ApprovalsThisRound(rows)
  BY <1>1 DEF Counted, ApprovalsThisRound
<1>3. clearance' # None
  BY <1>1 DEF None
<1>4. \A r \in policy.roles : \E d \in ApprovalsThisRound(rows) : d.role = r
  BY <1>1 DEF PolicySatisfied
<1>5. Cardinality({d.reviewer : d \in ApprovalsThisRound(rows)}) >= policy.approvals
  BY <1>1 DEF PolicySatisfied
<1> HIDE DEF rows
<1>6. clearance'.version = version' /\ clearance'.policy = policy
  BY <1>1
<1>7. Cardinality({d.reviewer : d \in Counted'}) >= (clearance.policy.approvals)'
  BY <1>2, <1>5, <1>6
<1>8. \A r \in (clearance.policy.roles)' : \E d \in Counted' : d.role = r
  BY <1>2, <1>4, <1>6
<1> QED BY <1>3, <1>6, <1>7, <1>8 DEF ApprovedHeadIsEarned

LEMMA EarnedStep ==
  TypeInv /\ ApprovedHeadIsEarned /\ [ReviewNext]_reviewVars => ApprovedHeadIsEarned'
<1> SUFFICES ASSUME TypeInv, ApprovedHeadIsEarned, [ReviewNext]_reviewVars
             PROVE  ApprovedHeadIsEarned'
  OBVIOUS
<1> USE DEF setVars, ClearedStates
<1>1. ASSUME NEW r \in SubmitRequests, SubmitRead(r) \/ SubmitDies(r)
      PROVE  ApprovedHeadIsEarned'
  BY <1>1, EarnedKept DEF SubmitRead, SubmitDies
<1>2. ASSUME NEW r \in SubmitRequests, SubmitCommit(r) PROVE ApprovedHeadIsEarned'
  <2>1. state' = "in_review"
    BY <1>2 DEF SubmitCommit, SubmitAction
  <2> QED BY <2>1 DEF ApprovedHeadIsEarned
<1>3. ASSUME NEW p \in Experts, Edit(p) PROVE ApprovedHeadIsEarned'
  <2>1. state' \in {"draft", "changes_requested"}
    BY <1>3, AfterEditIsOpen DEF Edit
  <2> QED BY <2>1 DEF ApprovedHeadIsEarned
<1>4. ASSUME NEW q \in Policies, SetReviewPolicy(q) PROVE ApprovedHeadIsEarned'
  BY <1>4, EarnedKept DEF SetReviewPolicy
<1>5. ASSUME NEW p \in Reviewers, RequestChanges(p) PROVE ApprovedHeadIsEarned'
  BY <1>5 DEF RequestChanges, ApprovedHeadIsEarned
<1>6. ASSUME NEW p \in Reviewers, Approve(p) PROVE ApprovedHeadIsEarned'
  <2>1. CASE state' \in ClearedStates
    BY <1>6, <2>1, EarnedByApproval
  <2>2. CASE state' \notin ClearedStates
    BY <2>2 DEF ApprovedHeadIsEarned
  <2> QED BY <2>1, <2>2
<1>7. ASSUME MarkPublished \/ Retire PROVE ApprovedHeadIsEarned'
  BY <1>7, EarnedKept DEF MarkPublished, Retire
<1>8. ASSUME DeadlinePasses PROVE ApprovedHeadIsEarned'
  BY <1>8, EarnedKept DEF DeadlinePasses
<1>9. ASSUME NEW e \in Escalators, EscalateRead(e) \/ EscalateWrite(e) \/ EscalateDies(e)
      PROVE  ApprovedHeadIsEarned'
  BY <1>9, EarnedKept DEF EscalateRead, EscalateWrite, EscalateDies
<1>10. CASE UNCHANGED reviewVars
  BY <1>10, EarnedKept DEF reviewVars
<1> QED
  BY <1>1, <1>2, <1>3, <1>4, <1>5, <1>6, <1>7, <1>8, <1>9, <1>10
  DEF ReviewNext, ReviewUnlocked, ReviewLocked

\* An approved, live or retired head carries the approvals its policy asked
\* for, however submissions, edits, reviews and policy changes overlap.
THEOREM ApprovalsAreEarned == ReviewSpec => []ApprovedHeadIsEarned
<1>1. ReviewInit => TypeInv /\ ApprovedHeadIsEarned
  BY TypeInit, EarnedInit
<1>2. TypeInv /\ ApprovedHeadIsEarned /\ [ReviewNext]_reviewVars
        => (TypeInv /\ ApprovedHeadIsEarned)'
  BY TypeStep, EarnedStep
<1> QED BY <1>1, <1>2, PTL DEF ReviewSpec

-----------------------------------------------------------------------------
(* Nothing changes beneath an open review.  The strengthening: no decision *)
(* belongs to a submission that has not happened.                          *)

NoLaterDecisions == \A d \in decisions : d.submission <= submissions

HeadInv == TypeInv /\ DecisionsAreOnTheHead /\ NoLaterDecisions

LEMMA HeadInit == ReviewInit => DecisionsAreOnTheHead /\ NoLaterDecisions
BY DEF ReviewInit, DecisionsAreOnTheHead, NoLaterDecisions

\* A step that neither decides nor submits nor edits.
LEMMA HeadKept ==
  ASSUME HeadInv, UNCHANGED <<version, decisions, submissions>>,
         state' \in {"in_review"} \cup ClearedStates =>
           state \in {"in_review"} \cup ClearedStates
  PROVE  (DecisionsAreOnTheHead /\ NoLaterDecisions)'
BY DEF HeadInv, DecisionsAreOnTheHead, NoLaterDecisions

\* One more decision on a head under review.
LEMMA HeadDecided ==
  ASSUME HeadInv, NEW p \in Reviewers, NEW choice \in {"approve", "request_changes"},
         state = "in_review", UNCHANGED <<version, submissions>>,
         decisions' = decisions \cup {DecisionBy(p, choice)}
  PROVE  (DecisionsAreOnTheHead /\ NoLaterDecisions)'
<1>1. submissions \in Nat
  BY BoundsAssumption DEF HeadInv, TypeInv, TypeOK
<1>2. /\ DecisionBy(p, choice).version = version
      /\ DecisionBy(p, choice).submission = submissions
  BY DEF DecisionBy
<1>3. \A d \in decisions : d.submission = submissions => d.version = version
  BY DEF HeadInv, DecisionsAreOnTheHead
<1> QED BY <1>1, <1>2, <1>3 DEF HeadInv, DecisionsAreOnTheHead, NoLaterDecisions

LEMMA HeadStep ==
  HeadInv /\ [ReviewNext]_reviewVars => (DecisionsAreOnTheHead /\ NoLaterDecisions)'
<1> SUFFICES ASSUME HeadInv, [ReviewNext]_reviewVars
             PROVE  (DecisionsAreOnTheHead /\ NoLaterDecisions)'
  OBVIOUS
<1> USE DEF setVars, ClearedStates
<1>1. ASSUME NEW r \in SubmitRequests, SubmitRead(r) \/ SubmitDies(r)
      PROVE  (DecisionsAreOnTheHead /\ NoLaterDecisions)'
  BY <1>1, HeadKept DEF SubmitRead, SubmitDies
<1>2. ASSUME NEW r \in SubmitRequests, SubmitCommit(r)
      PROVE  (DecisionsAreOnTheHead /\ NoLaterDecisions)'
  <2>1. submissions \in Nat /\ \A d \in decisions : d.submission \in Nat
    BY BoundsAssumption DEF HeadInv, TypeInv, TypeOK, Decision, Submissions
  <2>2. submissions' = submissions + 1 /\ decisions' = decisions
    BY <1>2 DEF SubmitCommit
  <2>3. \A d \in decisions' : d.submission <= submissions' /\ d.submission # submissions'
    BY <2>1, <2>2 DEF HeadInv, NoLaterDecisions
  <2> QED BY <2>3 DEF DecisionsAreOnTheHead, NoLaterDecisions
<1>3. ASSUME NEW p \in Experts, Edit(p)
      PROVE  (DecisionsAreOnTheHead /\ NoLaterDecisions)'
  <2>1. state' \in {"draft", "changes_requested"}
    BY <1>3, AfterEditIsOpen DEF Edit
  <2>2. UNCHANGED <<decisions, submissions>>
    BY <1>3 DEF Edit
  <2> QED BY <2>1, <2>2 DEF HeadInv, DecisionsAreOnTheHead, NoLaterDecisions
<1>4. ASSUME NEW q \in Policies, SetReviewPolicy(q)
      PROVE  (DecisionsAreOnTheHead /\ NoLaterDecisions)'
  BY <1>4, HeadKept DEF SetReviewPolicy
<1>5. ASSUME NEW p \in Reviewers, RequestChanges(p)
      PROVE  (DecisionsAreOnTheHead /\ NoLaterDecisions)'
  BY <1>5, HeadDecided DEF RequestChanges, MayDecide
<1>6. ASSUME NEW p \in Reviewers, Approve(p)
      PROVE  (DecisionsAreOnTheHead /\ NoLaterDecisions)'
  BY <1>6, HeadDecided DEF Approve, MayDecide
<1>7. ASSUME MarkPublished \/ Retire PROVE (DecisionsAreOnTheHead /\ NoLaterDecisions)'
  BY <1>7, HeadKept DEF MarkPublished, Retire
<1>8. ASSUME DeadlinePasses PROVE (DecisionsAreOnTheHead /\ NoLaterDecisions)'
  BY <1>8, HeadKept DEF DeadlinePasses
<1>9. ASSUME NEW e \in Escalators, EscalateRead(e) \/ EscalateWrite(e) \/ EscalateDies(e)
      PROVE  (DecisionsAreOnTheHead /\ NoLaterDecisions)'
  BY <1>9, HeadKept DEF EscalateRead, EscalateWrite, EscalateDies
<1>10. CASE UNCHANGED reviewVars
  BY <1>10, HeadKept DEF reviewVars
<1> QED
  BY <1>1, <1>2, <1>3, <1>4, <1>5, <1>6, <1>7, <1>8, <1>9, <1>10
  DEF ReviewNext, ReviewUnlocked, ReviewLocked

\* What reviewers said of a submission they said of the version that is under
\* review or was approved.
THEOREM ReviewedAsItStands == ReviewSpec => []DecisionsAreOnTheHead
<1>1. ReviewInit => HeadInv
  BY TypeInit, HeadInit DEF HeadInv
<1>2. HeadInv /\ [ReviewNext]_reviewVars => HeadInv'
  BY TypeStep, HeadStep DEF HeadInv
<1>3. HeadInv => DecisionsAreOnTheHead
  BY DEF HeadInv
<1> QED BY <1>1, <1>2, <1>3, PTL DEF ReviewSpec

-----------------------------------------------------------------------------
(* When no write falls between an unlocked read and the write based on it  *)
(* (SpacedRequests), rounds are never reused, so approvals neither leak    *)
(* from one submission into another nor come from an author, and a review  *)
(* is escalated once.  At most one read is in flight, and what it saw is   *)
(* still so.                                                               *)

OneInFlight ==
  /\ \A r, q \in SubmitRequests : submits[r] # None /\ submits[q] # None => r = q
  /\ \A e, f \in Escalators : escalations[e] # 0 /\ escalations[f] # 0 => e = f
  /\ \A r \in SubmitRequests, e \in Escalators : submits[r] = None \/ escalations[e] = 0

SubmitsAreCurrent ==
  \A r \in SubmitRequests :
    submits[r] # None => /\ submits[r].state = state
                         /\ state \in {"draft", "changes_requested"}
                         /\ submits[r].round = round
                         /\ submits[r].escalated = escalated

EscalationsAreCurrent ==
  \A e \in Escalators :
    escalations[e] # 0 => escalations[e] = submissions /\ ~escalated

\* A submission opens the round of its own number.
RoundsAreSubmissions ==
  /\ round = submissions
  /\ \A d \in decisions : d.round = d.submission /\ d.submission <= submissions

\* The stamp stands for the event of the last submission, and no later one has
\* an event.
StampIsReminder ==
  /\ \A n \in Submissions : n > submissions => reminders[n] = 0
  /\ submissions # 0 /\ ~escalated => reminders[submissions] = 0

\* What counts in the open review comes from no author, unless the policy allows
\* it; the policy stays while the review is open.
OpenReviewIsByOthers ==
  state = "in_review" /\ ~policy.allowSelf =>
    \A d \in ApprovalsThisRound(decisions) : d.reviewer \notin {NoteAuthor, author[version]}

ReadsInv == TypeInv /\ OneInFlight /\ SubmitsAreCurrent /\ EscalationsAreCurrent
RoundInv == RoundsAreSubmissions /\ StampIsReminder /\ RemindedOnce
AuthorInv == OpenReviewIsByOthers /\ AuthorsNeverCount
SpacedReviewInv == ReadsInv /\ RoundInv /\ AuthorInv

LEMMA SpacedReviewInit == ReviewInit => SpacedReviewInv
<1> SUFFICES ASSUME ReviewInit PROVE SpacedReviewInv
  OBVIOUS
<1>1. ReadsInv
  BY TypeInit
  DEF ReviewInit, ReadsInv, OneInFlight, SubmitsAreCurrent, EscalationsAreCurrent
<1>2. RoundInv
  BY DEF ReviewInit, RoundInv, RoundsAreSubmissions, StampIsReminder, RemindedOnce
<1>3. AuthorInv
  BY DEF ReviewInit, AuthorInv, OpenReviewIsByOthers, AuthorsNeverCount, ClearedStates
<1> QED BY <1>1, <1>2, <1>3 DEF SpacedReviewInv

\* With requests spaced, a write that is not based on a read finds none in
\* flight.
LEMMA SpacedFindsNone ==
  ASSUME SpacedRequests, Spaced
  PROVE  /\ \A r \in SubmitRequests : submits[r] = None
         /\ \A e \in Escalators : escalations[e] = 0
BY DEF Spaced, NoneInFlight

\* A step after which nothing is in flight leaves nothing to be current.
LEMMA NothingToRead ==
  ASSUME TypeInv', \A r \in SubmitRequests : submits'[r] = None,
         \A e \in Escalators : escalations'[e] = 0
  PROVE  ReadsInv'
BY DEF ReadsInv, OneInFlight, SubmitsAreCurrent, EscalationsAreCurrent

LEMMA ReadsStep ==
  ASSUME SpacedRequests, SpacedReviewInv, [ReviewNext]_reviewVars
  PROVE  ReadsInv'
<1>0. TypeInv'
  BY TypeStep DEF SpacedReviewInv, ReadsInv
<1>t. /\ submits \in [SubmitRequests -> Snapshot \cup {None}]
      /\ escalations \in [Escalators -> Submissions \cup {0}]
  BY DEF SpacedReviewInv, ReadsInv, TypeInv, TypeOK
<1>o. OneInFlight /\ SubmitsAreCurrent /\ EscalationsAreCurrent
  BY DEF SpacedReviewInv, ReadsInv
<1> USE DEF setVars
<1>1. ASSUME NEW r \in SubmitRequests, SubmitRead(r) PROVE ReadsInv'
  <2>1. /\ \A q \in SubmitRequests : submits[q] = None
        /\ \A e \in Escalators : escalations[e] = 0
    BY <1>1, SpacedFindsNone DEF SubmitRead
  <2>2. /\ \A q \in SubmitRequests : q # r => submits'[q] = None
        /\ submits'[r].state = state /\ submits'[r].round = round
        /\ submits'[r].escalated = escalated
        /\ UNCHANGED <<escalations, state, round, escalated>>
        /\ state \in {"draft", "changes_requested"}
    BY <1>1, <1>t, <2>1 DEF SubmitRead
  <2> QED BY <1>0, <2>1, <2>2
       DEF ReadsInv, OneInFlight, SubmitsAreCurrent, EscalationsAreCurrent
<1>2. ASSUME NEW r \in SubmitRequests, SubmitCommit(r) \/ SubmitDies(r) PROVE ReadsInv'
  <2>1. submits[r] # None /\ submits' = [submits EXCEPT ![r] = None] /\ escalations' = escalations
    BY <1>2 DEF SubmitCommit, SubmitDies
  <2>2. /\ \A q \in SubmitRequests : submits'[q] = None
        /\ \A e \in Escalators : escalations'[e] = 0
    BY <1>t, <1>o, <2>1 DEF OneInFlight
  <2> QED BY <1>0, <2>2, NothingToRead
<1>3. ASSUME Spaced, UNCHANGED <<submits, escalations>> PROVE ReadsInv'
  BY <1>0, <1>3, SpacedFindsNone, NothingToRead
<1>4. ASSUME NEW p \in Experts, Edit(p) PROVE ReadsInv'
  BY <1>3, <1>4 DEF Edit
<1>5. ASSUME NEW q \in Policies, SetReviewPolicy(q) PROVE ReadsInv'
  BY <1>3, <1>5 DEF SetReviewPolicy
<1>6. ASSUME NEW p \in Reviewers, RequestChanges(p) \/ Approve(p) PROVE ReadsInv'
  BY <1>3, <1>6 DEF RequestChanges, Approve, MayDecide
<1>7. CASE MarkPublished \/ Retire
  BY <1>3, <1>7 DEF MarkPublished, Retire
<1>8. CASE DeadlinePasses \/ UNCHANGED reviewVars
  <2>1. UNCHANGED <<submits, escalations, state, round, escalated, submissions>>
    BY <1>8 DEF DeadlinePasses, reviewVars
  <2> QED BY <1>0, <1>o, <2>1
       DEF ReadsInv, OneInFlight, SubmitsAreCurrent, EscalationsAreCurrent
<1>9. ASSUME NEW e \in Escalators, EscalateRead(e) PROVE ReadsInv'
  <2>1. /\ \A q \in SubmitRequests : submits[q] = None
        /\ \A f \in Escalators : escalations[f] = 0
    BY <1>9, SpacedFindsNone DEF EscalateRead
  <2>2. /\ \A f \in Escalators : f # e => escalations'[f] = 0
        /\ escalations'[e] = submissions
        /\ UNCHANGED <<submits, escalated, submissions>> /\ ~escalated
    BY <1>9, <1>t, <2>1 DEF EscalateRead, NeedsReminder
  <2> QED BY <1>0, <2>1, <2>2
       DEF ReadsInv, OneInFlight, SubmitsAreCurrent, EscalationsAreCurrent
<1>10. ASSUME NEW e \in Escalators, EscalateWrite(e) \/ EscalateDies(e) PROVE ReadsInv'
  <2>1. /\ escalations[e] # 0 /\ escalations' = [escalations EXCEPT ![e] = 0]
        /\ submits' = submits
    BY <1>10 DEF EscalateWrite, EscalateDies
  <2>2. /\ \A q \in SubmitRequests : submits'[q] = None
        /\ \A f \in Escalators : escalations'[f] = 0
    BY <1>t, <1>o, <2>1 DEF OneInFlight
  <2> QED BY <1>0, <2>2, NothingToRead
<1> QED
  BY <1>1, <1>2, <1>4, <1>5, <1>6, <1>7, <1>8, <1>9, <1>10
  DEF ReviewNext, ReviewUnlocked, ReviewLocked

\* A submission is from the state that was read, into the round after the one
\* that was read, and drops the stamp.
LEMMA SubmitIsCurrent ==
  ASSUME SpacedReviewInv, NEW r \in SubmitRequests, SubmitCommit(r)
  PROVE  /\ <<state, state'>> \in {<<"draft", "in_review">>, <<"changes_requested", "in_review">>}
         /\ round' = round + 1
         /\ submissions' = submissions + 1
         /\ ~escalated'
         /\ UNCHANGED <<version, policy, author, decisions, clearance, reminders>>
<1>1. /\ submits[r] # None
      /\ submits[r].state = state /\ submits[r].round = round /\ submits[r].escalated = escalated
      /\ state \in {"draft", "changes_requested"}
  BY DEF SpacedReviewInv, ReadsInv, SubmitsAreCurrent, SubmitCommit
<1>2. state' = "in_review"
  BY DEF SubmitCommit, SubmitAction
<1>3. escalated' = IF escalated THEN FALSE ELSE escalated
  BY <1>1 DEF SubmitCommit, NewEscalated
<1>4. escalated \in BOOLEAN
  BY DEF SpacedReviewInv, ReadsInv, TypeInv, TypeOK
<1>5. ~escalated'
  BY <1>3, <1>4, Zenon
<1> QED BY <1>1, <1>2, <1>5 DEF SubmitCommit, NextRound

-----------------------------------------------------------------------------
(* Rounds and reminders.                                                   *)

\* A step that neither submits, decides nor escalates.
LEMMA RoundKept ==
  ASSUME RoundInv, UNCHANGED <<round, submissions, decisions, escalated, reminders>>
  PROVE  RoundInv'
BY DEF RoundInv, RoundsAreSubmissions, StampIsReminder, RemindedOnce

\* One more decision, of this round and this submission.
LEMMA RoundDecided ==
  ASSUME SpacedReviewInv, NEW p, NEW choice,
         UNCHANGED <<round, submissions, escalated, reminders>>,
         decisions' = decisions \cup {DecisionBy(p, choice)}
  PROVE  RoundInv'
<1>1. submissions \in Nat
  BY BoundsAssumption DEF SpacedReviewInv, ReadsInv, TypeInv, TypeOK
<1>2. /\ DecisionBy(p, choice).round = round
      /\ DecisionBy(p, choice).submission = submissions
  BY DEF DecisionBy
<1>3. RoundsAreSubmissions'
  BY <1>1, <1>2 DEF SpacedReviewInv, RoundInv, RoundsAreSubmissions
<1> QED BY <1>3 DEF SpacedReviewInv, RoundInv, StampIsReminder, RemindedOnce

LEMMA RoundStep ==
  ASSUME SpacedReviewInv, [ReviewNext]_reviewVars
  PROVE  RoundInv'
<1>t. /\ submissions \in 0 .. MaxSubmissions /\ MaxSubmissions \in Nat
      /\ reminders \in [Submissions -> Nat]
      /\ \A d \in decisions : d.submission \in Nat
  BY BoundsAssumption
  DEF SpacedReviewInv, ReadsInv, TypeInv, TypeOK, Decision, Submissions
<1>o. RoundInv
  BY DEF SpacedReviewInv
<1> USE DEF setVars
<1>1. ASSUME NEW r \in SubmitRequests, SubmitRead(r) \/ SubmitDies(r) PROVE RoundInv'
  BY <1>1, <1>o, RoundKept DEF SubmitRead, SubmitDies
<1>2. ASSUME NEW r \in SubmitRequests, SubmitCommit(r) PROVE RoundInv'
  <2>1. /\ round' = round + 1 /\ submissions' = submissions + 1 /\ ~escalated'
        /\ UNCHANGED <<decisions, reminders>>
    BY <1>2, SubmitIsCurrent
  <2>2. submissions' \in Submissions
    BY <1>2, <1>t, <2>1 DEF SubmitCommit, Submissions
  <2>3. RoundsAreSubmissions'
    BY <1>t, <1>o, <2>1 DEF RoundInv, RoundsAreSubmissions
  <2>4. StampIsReminder'
    BY <1>t, <1>o, <2>1, <2>2 DEF RoundInv, StampIsReminder, Submissions
  <2>5. RemindedOnce'
    BY <1>o, <2>1 DEF RoundInv, RemindedOnce
  <2> QED BY <2>3, <2>4, <2>5 DEF RoundInv
<1>3. ASSUME NEW p \in Experts, Edit(p) PROVE RoundInv'
  BY <1>3, <1>o, RoundKept DEF Edit
<1>4. ASSUME NEW q \in Policies, SetReviewPolicy(q) PROVE RoundInv'
  BY <1>4, <1>o, RoundKept DEF SetReviewPolicy
<1>5. ASSUME NEW p \in Reviewers, RequestChanges(p) PROVE RoundInv'
  BY <1>5, RoundDecided DEF RequestChanges
<1>6. ASSUME NEW p \in Reviewers, Approve(p) PROVE RoundInv'
  BY <1>6, RoundDecided DEF Approve
<1>7. CASE MarkPublished \/ Retire \/ DeadlinePasses \/ UNCHANGED reviewVars
  BY <1>7, <1>o, RoundKept DEF MarkPublished, Retire, DeadlinePasses, reviewVars
<1>8. ASSUME NEW e \in Escalators, EscalateRead(e) \/ EscalateDies(e) PROVE RoundInv'
  BY <1>8, <1>o, RoundKept DEF EscalateRead, EscalateDies
<1>9. ASSUME NEW e \in Escalators, EscalateWrite(e) PROVE RoundInv'
  <2>1. /\ escalations[e] = submissions /\ submissions # 0 /\ ~escalated
        /\ submissions \in Submissions
    BY <1>9, <1>t DEF EscalateWrite, SpacedReviewInv, ReadsInv, EscalationsAreCurrent, Submissions
  <2>2. reminders[submissions] = 0
    BY <1>o, <2>1 DEF RoundInv, StampIsReminder
  <2>3. /\ UNCHANGED <<round, submissions, decisions>> /\ escalated'
        /\ reminders' = [reminders EXCEPT ![submissions] = 1]
    BY <1>9, <2>1, <2>2 DEF EscalateWrite
  <2>4. RoundsAreSubmissions'
    BY <1>o, <2>3 DEF RoundInv, RoundsAreSubmissions
  <2>5. StampIsReminder' /\ RemindedOnce'
    BY <1>t, <1>o, <2>1, <2>3 DEF RoundInv, StampIsReminder, RemindedOnce, Submissions
  <2> QED BY <2>4, <2>5 DEF RoundInv
<1> QED
  BY <1>1, <1>2, <1>3, <1>4, <1>5, <1>6, <1>7, <1>8, <1>9
  DEF ReviewNext, ReviewUnlocked, ReviewLocked

-----------------------------------------------------------------------------
(* Authors.                                                                *)

\* A step that leaves what was approved, by whom and of what.
LEMMA AuthorsKept ==
  ASSUME AuthorInv, UNCHANGED <<version, round, author, decisions, clearance>>,
         state' = "in_review" => state = "in_review" /\ policy' = policy,
         state' \in ClearedStates => state \in ClearedStates
  PROVE  AuthorInv'
<1>1. Counted' = Counted /\ ApprovalsThisRound(decisions)' = ApprovalsThisRound(decisions)
  BY DEF Counted, ApprovalsThisRound
<1> QED BY <1>1 DEF AuthorInv, OpenReviewIsByOthers, AuthorsNeverCount

\* Nobody decides on their own version, unless the policy allows it.
LEMMA AuthorsDoNotApprove ==
  ASSUME SpacedReviewInv, NEW p \in Reviewers, Approve(p)
  PROVE  AuthorInv'
<1> DEFINE d0 == DecisionBy(p, "approve")
<1> DEFINE rows == decisions \cup {d0}
<1>1. /\ state = "in_review" /\ ~IsSelfApproval(p) /\ decisions' = rows
      /\ UNCHANGED <<version, round, policy, author>>
      /\ state' \in {"in_review", "approved"}
  BY DEF Approve, MayDecide
<1>2. d0.reviewer = p.name
  BY DEF DecisionBy
<1>3. ~policy.allowSelf =>
        \A d \in ApprovalsThisRound(rows) : d.reviewer \notin {NoteAuthor, author[version]}
  <2>1. SUFFICES ASSUME ~policy.allowSelf, NEW d \in ApprovalsThisRound(rows)
                 PROVE  d.reviewer \notin {NoteAuthor, author[version]}
    OBVIOUS
  <2>2. CASE d = d0
    BY <1>1, <1>2, <2>1, <2>2 DEF IsSelfApproval
  <2>3. CASE d \in ApprovalsThisRound(decisions)
    BY <1>1, <2>1, <2>3 DEF SpacedReviewInv, AuthorInv, OpenReviewIsByOthers
  <2> QED BY <2>1, <2>2, <2>3 DEF ApprovalsThisRound
<1>4. ApprovalsThisRound(decisions)' = ApprovalsThisRound(rows)
  BY <1>1 DEF ApprovalsThisRound
<1>5. OpenReviewIsByOthers'
  BY <1>1, <1>3, <1>4 DEF OpenReviewIsByOthers
<1>6. CASE state' = "approved"
  <2>1. clearance' = [version |-> version, round |-> round, policy |-> policy]
    BY <1>1, <1>6 DEF Approve
  <2>2. Counted' = ApprovalsThisRound(rows)
    BY <1>1, <2>1 DEF Counted, ApprovalsThisRound
  <2>3. clearance'.policy = policy
    BY <2>1
  <2>4. AuthorsNeverCount'
    BY <1>1, <1>3, <2>2, <2>3 DEF AuthorsNeverCount
  <2> QED BY <1>5, <2>4 DEF AuthorInv
<1>7. CASE state' = "in_review"
  BY <1>5, <1>7 DEF AuthorInv, AuthorsNeverCount, ClearedStates
<1> QED BY <1>1, <1>6, <1>7

LEMMA AuthorStep ==
  ASSUME SpacedReviewInv, [ReviewNext]_reviewVars
  PROVE  AuthorInv'
<1>o. AuthorInv
  BY DEF SpacedReviewInv
<1> USE DEF setVars, ClearedStates
<1>1. ASSUME NEW r \in SubmitRequests, SubmitRead(r) \/ SubmitDies(r) PROVE AuthorInv'
  BY <1>1, <1>o, AuthorsKept DEF SubmitRead, SubmitDies
<1>2. ASSUME NEW r \in SubmitRequests, SubmitCommit(r) PROVE AuthorInv'
  <2>1. state' = "in_review" /\ round' = round + 1 /\ UNCHANGED <<version, decisions>>
    BY <1>2, SubmitIsCurrent
  <2>2. /\ round = submissions /\ submissions \in Nat
        /\ \A d \in decisions : d.round <= submissions /\ d.round \in Nat
    BY BoundsAssumption
    DEF SpacedReviewInv, RoundInv, RoundsAreSubmissions, ReadsInv, TypeInv, TypeOK, Decision, Submissions
  <2>3. ApprovalsThisRound(decisions)' = {}
    BY <2>1, <2>2 DEF ApprovalsThisRound
  <2> QED BY <2>1, <2>3 DEF AuthorInv, OpenReviewIsByOthers, AuthorsNeverCount
<1>3. ASSUME state' \in {"draft", "changes_requested"} PROVE AuthorInv'
  BY <1>3 DEF AuthorInv, OpenReviewIsByOthers, AuthorsNeverCount
<1>4. ASSUME NEW p \in Experts, Edit(p) PROVE AuthorInv'
  BY <1>3, <1>4, AfterEditIsOpen DEF Edit
<1>5. ASSUME NEW q \in Policies, SetReviewPolicy(q) PROVE AuthorInv'
  BY <1>5, <1>o, AuthorsKept DEF SetReviewPolicy
<1>6. ASSUME NEW p \in Reviewers, RequestChanges(p) PROVE AuthorInv'
  BY <1>3, <1>6 DEF RequestChanges
<1>7. ASSUME NEW p \in Reviewers, Approve(p) PROVE AuthorInv'
  BY <1>7, AuthorsDoNotApprove
<1>8. CASE MarkPublished \/ Retire
  BY <1>8, <1>o, AuthorsKept DEF MarkPublished, Retire
<1>9. CASE DeadlinePasses \/ UNCHANGED reviewVars
  BY <1>9, <1>o, AuthorsKept DEF DeadlinePasses, reviewVars
<1>10. ASSUME NEW e \in Escalators, EscalateRead(e) \/ EscalateWrite(e) \/ EscalateDies(e)
      PROVE  AuthorInv'
  BY <1>10, <1>o, AuthorsKept DEF EscalateRead, EscalateWrite, EscalateDies
<1> QED
  BY <1>1, <1>2, <1>4, <1>5, <1>6, <1>7, <1>8, <1>9, <1>10
  DEF ReviewNext, ReviewUnlocked, ReviewLocked

LEMMA SpacedReviewStep ==
  SpacedRequests /\ SpacedReviewInv /\ [ReviewNext]_reviewVars => SpacedReviewInv'
BY ReadsStep, RoundStep, AuthorStep DEF SpacedReviewInv

-----------------------------------------------------------------------------
(* The theorems about spaced requests.                                     *)

\* With requests spaced, an approval counts in the submission it was given in
\* and in no later one: no round number is used twice (transition,
\* approvals_this_round).
THEOREM RoundsAreSeparate == SpacedRequests => (ReviewSpec => []OnlyThisSubmissionCounts)
<1> SUFFICES ASSUME SpacedRequests PROVE ReviewSpec => []OnlyThisSubmissionCounts
  OBVIOUS
<1>1. SpacedReviewInv => OnlyThisSubmissionCounts
  BY DEF SpacedReviewInv, RoundInv, RoundsAreSubmissions, OnlyThisSubmissionCounts
<1> QED BY <1>1, SpacedReviewInit, SpacedReviewStep, PTL DEF ReviewSpec

\* With requests spaced, no author is among the approvers that carried a head,
\* unless the policy in force allowed it, through any changes of policy
\* (is_self_approval, set_review_policy).
THEOREM AuthorsDoNotCount == SpacedRequests => (ReviewSpec => []AuthorsNeverCount)
<1> SUFFICES ASSUME SpacedRequests PROVE ReviewSpec => []AuthorsNeverCount
  OBVIOUS
<1>1. SpacedReviewInv => AuthorsNeverCount
  BY DEF SpacedReviewInv, AuthorInv
<1> QED BY <1>1, SpacedReviewInit, SpacedReviewStep, PTL DEF ReviewSpec

\* With requests spaced, a submission has one escalation event at most, for any
\* number of escalators (escalate_overdue).
THEOREM OneReminder == SpacedRequests => (ReviewSpec => []RemindedOnce)
<1> SUFFICES ASSUME SpacedRequests PROVE ReviewSpec => []RemindedOnce
  OBVIOUS
<1>1. SpacedReviewInv => RemindedOnce
  BY DEF SpacedReviewInv, RoundInv
<1> QED BY <1>1, SpacedReviewInit, SpacedReviewStep, PTL DEF ReviewSpec

\* With requests spaced, the state moves along the transition table and in no
\* other way (assert_transition, decided on a read that is still current).
THEOREM StateFollowsTable == SpacedRequests => (ReviewSpec => TransitionsFollowTable)
<1> SUFFICES ASSUME SpacedRequests PROVE ReviewSpec => TransitionsFollowTable
  OBVIOUS
<1>1. ASSUME SpacedReviewInv, [ReviewNext]_reviewVars, state' # state
      PROVE  <<state, state'>> \in TransitionPairs
  <2> USE DEF setVars
  <2>0. TransitionPairs =
          {<<"draft", "in_review">>, <<"changes_requested", "in_review">>,
           <<"in_review", "changes_requested">>, <<"in_review", "approved">>,
           <<"approved", "draft">>, <<"approved", "published">>,
           <<"published", "draft">>, <<"published", "retired">>}
    <3>1. DOMAIN Transitions =
            {"submit", "resubmit", "request_changes", "approve", "edit_after_approval",
             "publish", "revise", "retire"}
      OBVIOUS
    <3> QED BY <3>1 DEF TransitionPairs
  <2>1. CASE \E r \in SubmitRequests : SubmitRead(r) \/ SubmitDies(r)
    BY <1>1, <2>1 DEF SubmitRead, SubmitDies
  <2>2. CASE \E r \in SubmitRequests : SubmitCommit(r)
    BY <1>1, <2>0, <2>2, SubmitIsCurrent
  <2>3. CASE \E p \in Experts : Edit(p)
    BY <1>1, <2>0, <2>3 DEF Edit, AfterEdit
  <2>4. CASE \E q \in Policies : SetReviewPolicy(q)
    BY <1>1, <2>4 DEF SetReviewPolicy
  <2>5. CASE \E p \in Reviewers : RequestChanges(p) \/ Approve(p)
    BY <1>1, <2>0, <2>5 DEF RequestChanges, Approve, MayDecide
  <2>6. CASE MarkPublished \/ Retire
    BY <1>1, <2>0, <2>6 DEF MarkPublished, Retire
  <2>7. CASE DeadlinePasses \/ UNCHANGED reviewVars
    BY <1>1, <2>7 DEF DeadlinePasses, reviewVars
  <2>8. CASE \E e \in Escalators : EscalateRead(e) \/ EscalateWrite(e) \/ EscalateDies(e)
    BY <1>1, <2>8 DEF EscalateRead, EscalateWrite, EscalateDies
  <2> QED BY <1>1, <2>1, <2>2, <2>3, <2>4, <2>5, <2>6, <2>7, <2>8
       DEF ReviewNext, ReviewUnlocked, ReviewLocked
<1>2. SpacedReviewInv /\ [ReviewNext]_reviewVars
        => [state' # state => <<state, state'>> \in TransitionPairs]_reviewVars
  BY <1>1
<1> QED BY <1>2, SpacedReviewInit, SpacedReviewStep, PTL DEF ReviewSpec, TransitionsFollowTable

=============================================================================
