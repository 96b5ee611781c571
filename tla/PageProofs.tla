------------------------------ MODULE PageProofs ------------------------------
(***************************************************************************)
(* Proofs about Pages, for any bounds, targets, test verdicts and people   *)
(* of the service under it: what a section remembers beside the service    *)
(* stays true of it.  A section has its own reason, so the invariant has a *)
(* part per section, and each is proved for the steps of its section.      *)
(***************************************************************************)
EXTENDS Pages, ServiceProofs, FiniteSetTheorems

-----------------------------------------------------------------------------
(* The invariant.                                                          *)

\* Conflicts are shown of a branch there is.
VersionsInv ==
  /\ ui = [shown |-> ui.shown]
  /\ ui.shown # {} => Branched /\ ui.shown = Clashes(TheBranch)

Escalated == {i \in DOMAIN sets : sets[i].escalated}

\* No set is added to the queue.
WorkloadInv ==
  /\ ui = [escalations |-> ui.escalations]
  /\ DOMAIN sets = 1 .. 3
  /\ \A i \in DOMAIN sets : HasFields(sets[i]) /\ sets[i].escalated \in BOOLEAN
  /\ ui.escalations = Cardinality(Escalated)

ReviewInv ==
  /\ ui = [typed |-> ui.typed, last |-> ui.last]
  /\ Incident \in DOMAIN sets /\ HasFields(sets[Incident])
  /\ ui.last \in {"none", "submit", "resubmit", "approve", "request_changes"}
  /\ ui.last # "none" =>
       \/ sets[Incident].state = Target(ui.last)
       \/ ui.last = "approve" /\ sets[Incident].state = "draft"

PanelInv ==
  /\ page = "versions" => VersionsInv
  /\ page = "workload" => WorkloadInv
  /\ page = "review" => ReviewInv

-----------------------------------------------------------------------------
(* Where the sections start, and start over.                               *)

LEMMA WorldsHaveFields ==
  /\ DOMAIN SeededWorld = 1 .. 3
  /\ \A i \in 1 .. 3 : HasFields(SeededWorld[i])
BY DEF SeededWorld, Ingested, NewSet, HasFields, Fields

LEMMA QueueIsFresh ==
  /\ DOMAIN QueueWorld = 1 .. 3
  /\ \A i \in 1 .. 3 : HasFields(QueueWorld[i]) /\ QueueWorld[i].escalated = FALSE
<1>1. DOMAIN QueueWorld = 1 .. 3
  BY DEF QueueWorld
<1>2. ASSUME NEW i \in 1 .. 3
      PROVE  HasFields(QueueWorld[i]) /\ QueueWorld[i].escalated = FALSE
  <2>1. PICK s : s = [SeededWorld[i] EXCEPT !.policy = QueuePolicy[i]]
    OBVIOUS
  <2>2. HasFields(s)
    BY <2>1, WorldsHaveFields DEF HasFields
  <2>3. QueueWorld[i] = SubmittedAt(s, i - 1)
    BY <2>1 DEF QueueWorld
  <2>4. DOMAIN Submitted(s) = DOMAIN s /\ Submitted(s).escalated = FALSE
    BY <2>2 DEF Submitted, HasFields, Fields
  <2>5. DOMAIN SubmittedAt(s, i - 1) = DOMAIN s /\ SubmittedAt(s, i - 1).escalated = FALSE
    BY <2>2, <2>4 DEF SubmittedAt, HasFields, Fields
  <2> QED BY <2>2, <2>3, <2>5 DEF HasFields
<1> QED BY <1>1, <1>2

Fresh == sets = WorldOf(page) /\ ui = StartOf(page)

LEMMA StartsRight == Fresh => PanelInv
<1> SUFFICES ASSUME Fresh PROVE PanelInv
  OBVIOUS
<1>1. ASSUME page = "versions" PROVE VersionsInv
  BY <1>1 DEF Fresh, StartOf, VersionsStart, VersionsInv
<1>2. ASSUME page = "workload" PROVE WorkloadInv
  <2>1. sets = QueueWorld /\ ui = [escalations |-> 0]
    BY <1>2 DEF Fresh, WorldOf, StartOf, WorkloadStart
  <2>2. Escalated = {}
    BY <2>1, QueueIsFresh DEF Escalated
  <2> QED BY <2>1, <2>2, QueueIsFresh, FS_EmptySet DEF WorkloadInv
<1>3. ASSUME page = "review" PROVE ReviewInv
  <2>1. sets = SeededWorld /\ ui = [typed |-> <<>>, last |-> "none"]
    BY <1>3 DEF Fresh, WorldOf, StartOf, ReviewStart
  <2> QED BY <2>1, WorldsHaveFields DEF ReviewInv, Incident
<1> QED BY <1>1, <1>2, <1>3 DEF PanelInv

-----------------------------------------------------------------------------
(* The steps of the sections.                                              *)

LEMMA VersionsStepKeeps ==
  ASSUME VersionsInv, MakeBranch \/ VersionEdits \/ MergeBranch
  PROVE  VersionsInv'
<1>1. CASE MakeBranch
  BY <1>1 DEF MakeBranch, VersionsInv
<1>2. CASE VersionEdits
  <2>1. ui' = [ui EXCEPT !.shown = {}]
    BY <1>2 DEF VersionEdits, EditSet
  <2> QED BY <2>1 DEF VersionsInv
<1>3. CASE MergeBranch
  <2>1. CASE ui' = [ui EXCEPT !.shown = {}]
    BY <2>1 DEF VersionsInv
  <2>2. CASE ui' = [ui EXCEPT !.shown = Clashes(TheBranch)] /\ UNCHANGED vars /\ CanMerge
    BY <2>2 DEF VersionsInv, CanMerge, Branched, Clashes, vars
  <2> QED BY <1>3, <2>1, <2>2 DEF MergeBranch
<1> QED BY <1>1, <1>2, <1>3

\* A sweep marks the sets it counts, and no set twice.
LEMMA SweepCounts ==
  ASSUME WorkloadInv, Sweep
  PROVE  WorkloadInv'
<1> DEFINE Marked == {i \in DOMAIN sets : ToEscalate(sets[i])}
<1>1. /\ ui' = [escalations |-> ui.escalations + Cardinality(Marked)]
      /\ sets' = [i \in DOMAIN sets |->
                    IF ToEscalate(sets[i]) THEN [sets[i] EXCEPT !.escalated = TRUE] ELSE sets[i]]
  BY DEF Sweep, EscalateOverdue
<1>2. DOMAIN sets' = 1 .. 3
  BY <1>1 DEF WorkloadInv
<1>3. ASSUME NEW i \in DOMAIN sets'
      PROVE  /\ HasFields(sets'[i]) /\ sets'[i].escalated \in BOOLEAN
             /\ sets'[i].escalated <=> i \in Escalated \cup Marked
  BY <1>1 DEF WorkloadInv, HasFields, Fields, Escalated
<1>4. Escalated' = Escalated \cup Marked
  BY <1>1, <1>3 DEF Escalated
<1>5. Escalated \cap Marked = {}
  BY DEF Escalated, ToEscalate
<1>6. IsFiniteSet(Escalated) /\ IsFiniteSet(Marked)
  <2>1. 1 \in Int /\ 3 \in Int
    OBVIOUS
  <2>2. IsFiniteSet(1 .. 3)
    BY <2>1, FS_Interval
  <2> QED BY <2>2, FS_Subset DEF WorkloadInv, Escalated
<1>7. Cardinality(Escalated') = Cardinality(Escalated) + Cardinality(Marked)
  <2>1. Cardinality(Escalated \cap Marked) = 0
    BY <1>5, FS_EmptySet
  <2>2. Cardinality(Escalated) \in Nat /\ Cardinality(Marked) \in Nat
    BY <1>6, FS_CardinalityType
  <2> HIDE DEF Marked
  <2>3. Cardinality(Escalated \cup Marked)
          = Cardinality(Escalated) + Cardinality(Marked) - Cardinality(Escalated \cap Marked)
    BY <1>6, FS_Union
  <2> QED BY <1>4, <2>1, <2>2, <2>3
<1> QED BY <1>1, <1>2, <1>3, <1>7 DEF WorkloadInv

LEMMA WorkloadStepKeeps ==
  ASSUME WorkloadInv, AdvanceClock \/ Sweep \/ Decide
  PROVE  WorkloadInv'
<1>1. CASE AdvanceClock
  BY <1>1 DEF AdvanceClock, Advance, WorkloadInv, Escalated
<1>2. CASE Decide
  <2>1. PICK i \in DOMAIN sets : \E p : \E decision : Review(p, i, decision)
    <3>1. PICK i \in DOMAIN sets :
            \/ \E p \in People : Review(p, i, "approve")
            \/ Review(Mei, i, "request_changes")
      BY <1>2 DEF Decide
    <3> QED BY <3>1
  <2>a. PICK p, decision : Review(p, i, decision)
    BY <2>1
  <2>2. sets' = [sets EXCEPT ![i] = Reviewed(sets[i], p, decision)] /\ ui' = ui
    BY <1>2, <2>a DEF Decide, Review, Put
  <2>3. /\ DOMAIN Reviewed(sets[i], p, decision) = DOMAIN sets[i]
        /\ Reviewed(sets[i], p, decision).escalated = sets[i].escalated
    BY DEF Reviewed, WorkloadInv, HasFields, Fields
  <2>4. /\ DOMAIN sets' = DOMAIN sets
        /\ \A j \in DOMAIN sets : DOMAIN sets'[j] = DOMAIN sets[j]
                                  /\ sets'[j].escalated = sets[j].escalated
    BY <2>2, <2>3
  <2>5. Escalated' = Escalated
    BY <2>4 DEF Escalated
  <2> QED BY <2>2, <2>4, <2>5 DEF WorkloadInv, HasFields
<1>3. CASE Sweep
  BY <1>3, SweepCounts
<1> QED BY <1>1, <1>2, <1>3

LEMMA ReviewStepKeeps ==
  ASSUME ReviewInv, Type \/ SendEdit \/ SubmitIt \/ DecideIt
  PROVE  ReviewInv'
<1> DEFINE s == sets[Incident]
<1>1. CASE Type
  BY <1>1 DEF Type, ReviewInv, vars
<1>2. CASE SendEdit
  <2>1. PICK d : /\ CanCommit(s, d)
                 /\ sets' = [sets EXCEPT ![Incident] = Committed(s, "dana", d)]
                 /\ ui' = [ui EXCEPT !.typed = <<>>]
    BY <1>2 DEF SendEdit, Put
  <2>2. /\ HasFields(Committed(s, "dana", d))
        /\ Committed(s, "dana", d).state = AfterEdit(s.state)
    BY DEF Committed, ReviewInv, HasFields, Fields
  <2>3. s.state \in EditableStates
    BY <2>1 DEF CanCommit
  <2>4. /\ Incident \in DOMAIN sets' /\ HasFields(sets'[Incident])
        /\ sets'[Incident].state = AfterEdit(s.state)
    BY <2>1, <2>2 DEF ReviewInv
  <2>5. ui' = [typed |-> ui'.typed, last |-> ui'.last] /\ ui'.last = ui.last
    BY <2>1 DEF ReviewInv
  <2>6. AfterEdit(s.state) = IF s.state \in {"approved", "published"} THEN "draft" ELSE s.state
    BY DEF AfterEdit, Target, Transitions
  <2>7. /\ Target("approve") = "approved" /\ Target("request_changes") = "changes_requested"
        /\ \A a \in {"submit", "resubmit"} : Target(a) = "in_review"
    BY DEF Target, Transitions
  <2>8. ui.last \in {"none", "submit", "resubmit", "approve", "request_changes"}
    BY DEF ReviewInv
  <2> QED BY <2>3, <2>4, <2>5, <2>6, <2>7, <2>8 DEF ReviewInv, EditableStates
<1>3. CASE SubmitIt
  <2>1. /\ sets' = [sets EXCEPT ![Incident] = Submitted(s)]
        /\ ui' = [ui EXCEPT !.last = SubmitAction(s)]
    BY <1>3 DEF SubmitIt, Submit, Put
  <2>2. HasFields(Submitted(s)) /\ Submitted(s).state = Target(SubmitAction(s))
    BY DEF Submitted, ReviewInv, HasFields, Fields
  <2>3. /\ Incident \in DOMAIN sets' /\ HasFields(sets'[Incident])
        /\ sets'[Incident].state = Target(SubmitAction(s))
    BY <2>1, <2>2 DEF ReviewInv
  <2>4. /\ ui' = [typed |-> ui'.typed, last |-> ui'.last] /\ ui'.last = SubmitAction(s)
        /\ SubmitAction(s) \in {"submit", "resubmit"}
    BY <2>1 DEF ReviewInv, SubmitAction
  <2> QED BY <2>3, <2>4 DEF ReviewInv
<1>4. CASE DecideIt
  <2>0. PICK p \in {Ravi, Mei, Dana} : \E decision \in {"approve", "request_changes"} :
          /\ Review(p, Incident, decision)
          /\ ui' = [ui EXCEPT !.last =
                       IF decision = "request_changes" THEN "request_changes"
                       ELSE IF sets'[Incident].state = "approved" THEN "approve" ELSE "none"]
    BY <1>4 DEF DecideIt
  <2>1. PICK decision \in {"approve", "request_changes"} :
          /\ Review(p, Incident, decision)
          /\ ui' = [ui EXCEPT !.last =
                       IF decision = "request_changes" THEN "request_changes"
                       ELSE IF sets'[Incident].state = "approved" THEN "approve" ELSE "none"]
    BY <2>0
  <2> DEFINE t == Reviewed(s, p, decision)
  <2>2. s.state = "in_review" /\ sets' = [sets EXCEPT ![Incident] = t]
    BY <2>1 DEF Review, MayReview, Put
  <2>3. DOMAIN t = DOMAIN s
    BY DEF Reviewed, ReviewInv, HasFields, Fields
  <2>4. decision = "request_changes" => t.state = "changes_requested"
    <3>1. IsDecided(s, p, decision, t)
      BY <2>2, DecisionEffect DEF ReviewInv
    <3> HIDE DEF t
    <3> QED BY <3>1 DEF IsDecided
  <2> HIDE DEF t
  <2>5. Incident \in DOMAIN sets' /\ HasFields(sets'[Incident]) /\ sets'[Incident] = t
    BY <2>2, <2>3 DEF ReviewInv, HasFields
  <2>6. /\ ui' = [typed |-> ui'.typed, last |-> ui'.last]
        /\ ui'.last = IF decision = "request_changes" THEN "request_changes"
                      ELSE IF t.state = "approved" THEN "approve" ELSE "none"
    BY <2>1, <2>5 DEF ReviewInv
  <2>7. Target("approve") = "approved" /\ Target("request_changes") = "changes_requested"
    BY DEF Target, Transitions
  <2> QED BY <2>4, <2>5, <2>6, <2>7 DEF ReviewInv
<1> QED BY <1>1, <1>2, <1>3, <1>4

-----------------------------------------------------------------------------
(* The theorem.                                                            *)

LEMMA PanelStep == PanelInv /\ [PageNext]_pageVars => PanelInv'
<1> SUFFICES ASSUME PanelInv, [PageNext]_pageVars PROVE PanelInv'
  OBVIOUS
<1>1. CASE Reset
  <2>1. Fresh'
    BY <1>1 DEF Reset, Fresh
  <2>2. Fresh' => PanelInv'
    BY StartsRight, PTL
  <2> QED BY <2>1, <2>2
<1>2. CASE GateStep \/ DriftStep
  BY <1>2 DEF GateStep, DriftStep, PanelInv
<1>3. CASE VersionsStep
  BY <1>3, VersionsStepKeeps DEF VersionsStep, PanelInv
<1>4. CASE WorkloadStep
  BY <1>4, WorkloadStepKeeps DEF WorkloadStep, PanelInv
<1>5. CASE ReviewStep
  BY <1>5, ReviewStepKeeps DEF ReviewStep, PanelInv
<1>6. CASE UNCHANGED pageVars
  BY <1>6 DEF pageVars, vars, PanelInv, VersionsInv, WorkloadInv, ReviewInv, Branched, Clashes,
              Escalated
<1> QED BY <1>1, <1>2, <1>3, <1>4, <1>5, <1>6 DEF PageNext

\* Whatever is clicked in a section and however often it is started over, the
\* conflicts it shows are those of its branch, the escalations it counts are the
\* marks on the sets, and the last review action is the one that led to the state
\* shown, unless an edit followed (setConflicts, escalations, lastAction).
THEOREM PanelsAgree == PageSpec => []PanelsAgreeWithTheService
<1>1. PageInit => PanelInv
  BY StartsRight DEF PageInit, Fresh
<1>2. PanelInv => PanelsAgreeWithTheService
  BY DEF PanelInv, PanelsAgreeWithTheService, VersionsInv, WorkloadInv, ReviewInv, Escalated
<1> QED BY <1>1, <1>2, PanelStep, PTL DEF PageSpec
=============================================================================
