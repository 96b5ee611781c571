------------------------------- MODULE Pages -------------------------------
(***************************************************************************)
(* The sections of the page that work on a set of their own                *)
(* (web/src/components): what their buttons call, what they remember       *)
(* beside the service, and the worlds they start from (sim/demo.ts,        *)
(* store.tsx).  A behaviour stays in one section.  A click is handled in   *)
(* one step; the autoplay timer of the publish gate is the only thing that *)
(* happens by itself.  Buttons whose click the service always refuses, and *)
(* clicks it happens to refuse, change nothing but a log line.             *)
(*                                                                         *)
(* The three sample notes are cut down to the steps the buttons touch.     *)
(* The action of a step is the sequence of the texts and rules it is made  *)
(* of.                                                                     *)
(***************************************************************************)
EXTENDS Service

VARIABLES
  page,   \* the section
  ui      \* what the section keeps in React state

pageVars == <<vars, page, ui>>

Dana == [name |-> "dana", role |-> "expert"]
Ravi == [name |-> "ravi", role |-> "reviewer"]
Mei  == [name |-> "mei",  role |-> "reviewer"]
Ops  == [name |-> "ops",  role |-> "admin"]
People == {Dana, Ravi, Mei, Ops}

-----------------------------------------------------------------------------
(* The worlds.                                                             *)

SampleStep(order, texts, cited) ==
  [order |-> order, action |-> texts, citations |-> [source \in cited |-> "unlinked"]]

SampleDocument(title, steps) == [title |-> title, steps |-> steps, entries |-> <<>>]

RefundNote ==
  [approvals |-> 2,
   document |-> SampleDocument("refund", ("s4" :> SampleStep(4, <<"issue the refund">>, {"refunds-v4"}))
                                   @@ ("s5" :> SampleStep(5, <<"confirm">>, {})))]
OnboardingNote ==
  [approvals |-> 1,
   document |-> SampleDocument("onboarding", ("s3" :> SampleStep(3, <<"invite">>, {}))
                                       @@ ("s4" :> SampleStep(4, <<"channels">>, {"week-one"})))]
IncidentNote ==
  [approvals |-> 1,
   document |-> SampleDocument("incident", "s6" :> SampleStep(6, <<"mitigate">>, {}))]

NoPolicy == [roles |-> {}, allowSelf |-> FALSE, hours |-> {}]

\* Sets 1, 2 and 3 in the order of the sample notes.
Refund == 1
Onboarding == 2
Incident == 3

\* A refund above 500 must go to a manager (applyManagerThreshold); every other
\* sample case passes whatever the buttons do to the documents.
HighValue == "high value refund needs manager approval"

SampleAccepts(case, action) ==
  case = HighValue /\ action[1] = "issue the refund" => "manager rule" \in ToSet(action)

HasManagerRule(s) == "manager rule" \in ToSet(s.document.steps["s4"].action)

Ingested(note) == NewSet(ResolveCitations(note.document), note.approvals, NoPolicy, 0, 0)

\* createSeededWorld: the three notes with their sources and test cases.
SeededWorld ==
  <<[Ingested(RefundNote) EXCEPT !.cases = {HighValue, "standard refund completes"}],
    [Ingested(OnboardingNote) EXCEPT !.cases = {"never grants admin"}],
    [Ingested(IncidentNote) EXCEPT !.cases = {"low error rate"}]>>

\* createApprovedWorld: the onboarding set is approved and has a green run.
ApprovedWorld ==
  [SeededWorld EXCEPT
     ![Onboarding] = Tested(Reviewed(Submitted(@), Ravi, "approve"))]

\* The policy and the hour of submission of each set on the workload page.
QueuePolicy == <<[NoPolicy EXCEPT !.roles = {"admin"}, !.hours = {4}],
                 [NoPolicy EXCEPT !.hours = {24}],
                 [NoPolicy EXCEPT !.hours = {2}]>>

SubmittedAt(s, hour) ==
  [Submitted(s) EXCEPT !.deadline = {hour + h : h \in s.policy.hours}]

\* seed: three sets in review, submitted an hour apart.
QueueWorld ==
  [i \in 1 .. 3 |-> SubmittedAt([SeededWorld[i] EXCEPT !.policy = QueuePolicy[i]], i - 1)]

WorldOf(section) ==
  CASE section = "drift"    -> ApprovedWorld
    [] section = "workload" -> QueueWorld
    [] OTHER                -> SeededWorld

-----------------------------------------------------------------------------
(* The publish gate (GateSection.tsx).  Its handlers take the desk to the  *)
(* desk: the set, the counters of blocked publishes and of deliveries, and *)
(* whether the handler threw.                                              *)

GateStart == [cursor |-> 0, playing |-> FALSE, armed |-> FALSE, free |-> FALSE,
              blocked |-> 0, deliveries |-> 0]

Desk == [set |-> sets[Refund], blocked |-> ui.blocked, deliveries |-> ui.deliveries,
         threw |-> FALSE]

\* A review that is not open throws, and nothing catches it.
ApproveByBoth(desk) ==
  LET s == desk.set
      open == IF s.state \in {"draft", "changes_requested"} THEN Submitted(s) ELSE s
  IN  IF s.state = "approved" THEN desk
      ELSE IF open.state # "in_review" THEN [desk EXCEPT !.threw = TRUE]
      ELSE [desk EXCEPT !.set = Reviewed(Reviewed(open, Ravi, "approve"), Mei, "approve")]

RunTheTests(desk) == [desk EXCEPT !.set = Tested(@)]

PublishIt(desk) ==
  IF PublishGate(desk.set)
  THEN [desk EXCEPT !.set = Published(@, {}), !.deliveries = @ + Cardinality(Targets)]
  ELSE [desk EXCEPT !.blocked = @ + 1]

\* editDocument: dana edits the head; a refusal is logged.
EditIt(desk, document) ==
  IF CanCommit(desk.set, document)
  THEN [desk EXCEPT !.set = Committed(@, "dana", document)]
  ELSE desk

Extended(d, id, text) == [d EXCEPT !.steps[id].action = Append(@, text)]

\* applyManagerThreshold: the rule, and a citation of the policy it is from.
ApplyFix(desk) ==
  EditIt(desk, [Extended(desk.set.document, "s4", "manager rule") EXCEPT
                  !.steps["s4"].citations = "refunds-v4" :> "unlinked" @@ @])

Revise(desk) == EditIt(desk, Extended(desk.set.document, "s5", "record the number"))

RollBackIt(desk) ==
  IF Earlier(desk.set) = {} THEN desk
  ELSE [desk EXCEPT !.set = RolledBack(@, {}), !.deliveries = @ + Cardinality(Targets)]

Stages == 10

\* STAGE_RUNNERS.
RunStage(stage, desk) ==
  CASE stage \in {1, 5} -> ApproveByBoth(desk)
    [] stage \in {2, 6} -> RunTheTests(desk)
    [] stage \in {3, 7} -> PublishIt(desk)
    [] stage = 4        -> ApplyFix(desk)
    [] stage = 8        -> Revise(desk)
    [] stage = 9        -> LET approved == ApproveByBoth(desk)
                           IN  IF approved.threw THEN approved
                               ELSE PublishIt(RunTheTests(approved))
    [] stage = 10       -> RollBackIt(desk)

\* The bounds leave room for one more version and one more round.
Room(s) == Version(s) < MaxVersion /\ s.round < MaxRounds

Shown(desk, memory) ==
  /\ sets' = [sets EXCEPT ![Refund] = desk.set]
  /\ ui' = [memory EXCEPT !.blocked = desk.blocked, !.deliveries = desk.deliveries]

\* The cursor moves on unless the stage threw.
After(desk) == IF desk.threw THEN ui.cursor ELSE ui.cursor + 1

GateNext ==
  /\ ui.cursor < Stages /\ ~ui.playing
  /\ Room(sets[Refund])
  /\ LET desk == RunStage(ui.cursor + 1, Desk)
     IN  Shown(desk, [ui EXCEPT !.cursor = After(desk)])
  /\ UNCHANGED <<registry, now>>

\* Autoplay and Pause: the effect sets the timer, or clears it.
GatePlay ==
  /\ ui.cursor < Stages
  /\ ui' = [ui EXCEPT !.playing = ~@, !.armed = ~ui.playing]
  /\ UNCHANGED vars

\* Variant: the timer is not set again.
FiresOnce(cursor) == FALSE

\* The effect runs again when the cursor has moved, and stops at the end.
Rearms(cursor) == cursor # ui.cursor /\ cursor < Stages

GateTimer ==
  /\ ui.armed
  /\ Room(sets[Refund])
  /\ LET desk   == RunStage(ui.cursor + 1, Desk)
         cursor == After(desk)
     IN  Shown(desk, [ui EXCEPT !.cursor = cursor, !.armed = Rearms(cursor),
                               !.playing = cursor < Stages])
  /\ UNCHANGED <<registry, now>>

\* Free play; "Apply fix" is disabled while the document has the rule.
GateFree ==
  /\ Room(sets[Refund])
  /\ \E desk \in {ApproveByBoth(Desk), RunTheTests(Desk), PublishIt(Desk), Revise(Desk),
                  RollBackIt(Desk)}
                 \cup (IF HasManagerRule(sets[Refund]) THEN {} ELSE {ApplyFix(Desk)}) :
       /\ desk.blocked <= MaxRounds /\ desk.deliveries <= 4 * MaxRounds
       /\ Shown(desk, [ui EXCEPT !.free = TRUE])
  /\ UNCHANGED <<registry, now>>

GateStep == page = "gate" /\ (GateNext \/ GatePlay \/ GateTimer \/ GateFree) /\ UNCHANGED page

-----------------------------------------------------------------------------
(* Versions, branches and merges (VersionSection.tsx).                     *)

VersionsStart == [shown |-> {}]

TheBranch == 4
Branched == Len(sets) >= TheBranch
CanMerge == Branched /\ sets[TheBranch].merged = 0

MakeBranch ==
  /\ ~Branched
  /\ Branch(Onboarding, Version(sets[Onboarding]))
  /\ UNCHANGED ui

\* editSet; an edit that changes nothing is refused and clears nothing.
EditSet(i, document) ==
  /\ CanCommit(sets[i], document)
  /\ Put(i, Committed(sets[i], "dana", document))
  /\ ui' = [ui EXCEPT !.shown = {}]
  /\ UNCHANGED <<registry, now>>

Rewritten(d, id, text) == [d EXCEPT !.steps[id].action = <<text>>]

VersionEdits ==
  \/ CanMerge /\ EditSet(TheBranch, Rewritten(sets[TheBranch].document, "s3", "collaborator"))
  \/ EditSet(Onboarding, Extended(sets[Onboarding].document, "s4", "#eng-oncall"))
  \/ EditSet(Onboarding, Rewritten(sets[Onboarding].document, "s3", "to the organisation"))

\* A merge that conflicts shows where; one that would change nothing is refused
\* too, with an empty list.
MergeBranch ==
  /\ CanMerge
  /\ \/ Merge(Dana, TheBranch, 0) /\ ui' = [ui EXCEPT !.shown = {}]
     \/ /\ Clashes(TheBranch) # {} \/ ~CanCommit(sets[Onboarding], MergeOf(TheBranch))
        /\ ui' = [ui EXCEPT !.shown = Clashes(TheBranch)]
        /\ UNCHANGED vars

VersionsStep ==
  /\ page = "versions" /\ UNCHANGED page
  /\ MakeBranch \/ VersionEdits \/ MergeBranch

-----------------------------------------------------------------------------
(* Source drift (DriftSection.tsx).  What it keeps is a log; the model     *)
(* keeps what the last re-verification said.                               *)

DriftStart == [toast |-> "none"]

\* The source is rewritten, or restored.
ToggleSource ==
  /\ Rehash("week-one", IF registry["week-one"] = "original" THEN "rewritten" ELSE "original")
  /\ ui' = DriftStart

DriftPublish ==
  /\ Publish(Ops, Onboarding, {})
  /\ ui' = DriftStart

ReverifyAll ==
  /\ Reverify(Onboarding, DOMAIN sets[Onboarding].document.steps)
  /\ ui' = [toast |-> "carries the current hash"]

StaleSteps(s) == {pair[1] : pair \in OpenFlags(s)}

\* Every stale step gets a few words more; linking it again refreshes it.
EditStale ==
  LET s == sets[Onboarding]
      d == [s.document EXCEPT !.steps =
              [id \in DOMAIN @ |->
                 IF id \in StaleSteps(s)
                 THEN [@[id] EXCEPT !.action = Append(@, "badge office")] ELSE @[id]]]
  IN  /\ OpenFlags(s) # {}
      /\ CanCommit(s, d)
      /\ Put(Onboarding, Committed(s, "dana", d))
      /\ ui' = DriftStart
      /\ UNCHANGED <<registry, now>>

DriftStep ==
  /\ page = "drift" /\ UNCHANGED page
  /\ ToggleSource \/ DriftPublish \/ ReverifyAll \/ EditStale

-----------------------------------------------------------------------------
(* The review queue (WorkloadSection.tsx).                                 *)

WorkloadStart == [escalations |-> 0]

AdvanceClock == \E hours \in {1, 3} : Advance(hours) /\ UNCHANGED ui

\* The sweep writes an event for every set it escalates.
Sweep ==
  /\ EscalateOverdue
  /\ ui' = [escalations |->
              ui.escalations + Cardinality({i \in DOMAIN sets : ToEscalate(sets[i])})]

\* Everybody may try to approve, mei also to request changes.
Decide ==
  /\ \E i \in DOMAIN sets :
       \/ \E p \in People : Review(p, i, "approve")
       \/ Review(Mei, i, "request_changes")
  /\ UNCHANGED ui

WorkloadStep ==
  /\ page = "workload" /\ UNCHANGED page
  /\ AdvanceClock \/ Sweep \/ Decide

-----------------------------------------------------------------------------
(* Edit and review (ReviewSection.tsx).  The page's publish and retire are *)
(* refused whatever was clicked before: the set is never tested here.      *)

ReviewStart == [typed |-> <<>>, last |-> "none"]

Typed == {<<"mitigate">>, <<"announce, then mitigate">>, <<"mitigate at once">>}

Type ==
  /\ \E text \in Typed : ui' = [ui EXCEPT !.typed = text]
  /\ UNCHANGED vars

ActionText ==
  IF ui.typed = <<>> THEN sets[Incident].document.steps["s6"].action ELSE ui.typed

\* One behind the head, but never below 1.
StaleVersion(s) == IF Version(s) > 1 THEN Version(s) - 1 ELSE 1

\* applyEdit, with the head's version or the one behind it.  The state shown
\* before the edit is read from the set after it, so the last action stays.
SendEdit ==
  LET s == sets[Incident]
      document == [s.document EXCEPT !.steps["s6"].action = ActionText]
  IN  /\ \E expected \in {Version(s), StaleVersion(s)} : SeenHead(s, expected)
      /\ CanCommit(s, document)
      /\ Put(Incident, Committed(s, "dana", document))
      /\ ui' = [ui EXCEPT !.typed = <<>>]
      /\ UNCHANGED <<registry, now>>

SubmitIt ==
  /\ Submit(Incident)
  /\ ui' = [ui EXCEPT !.last = SubmitAction(sets[Incident])]

DecideIt ==
  \E p \in {Ravi, Mei, Dana}, decision \in {"approve", "request_changes"} :
    /\ Review(p, Incident, decision)
    /\ ui' = [ui EXCEPT !.last =
                 IF decision = "request_changes" THEN "request_changes"
                 ELSE IF sets'[Incident].state = "approved" THEN "approve" ELSE "none"]

ReviewStep == page = "review" /\ (Type \/ SendEdit \/ SubmitIt \/ DecideIt) /\ UNCHANGED page

-----------------------------------------------------------------------------
Sections == {"gate", "versions", "drift", "workload", "review"}

StartOf(section) ==
  CASE section = "gate"     -> GateStart
    [] section = "versions" -> VersionsStart
    [] section = "drift"    -> DriftStart
    [] section = "workload" -> WorkloadStart
    [] section = "review"   -> ReviewStart

TimeOf(section) == IF section = "workload" THEN 3 ELSE 0

PageInit ==
  /\ page \in Sections
  /\ registry = [source \in Sources |-> "original"]
  /\ now = TimeOf(page)
  /\ sets = WorldOf(page)
  /\ ui = StartOf(page)

\* Three of the sections start over on a click; the new world's citations are
\* linked to the sources as they are again.
Reset ==
  /\ page \in {"versions", "drift", "workload"} /\ UNCHANGED page
  /\ registry' = [source \in Sources |-> "original"]
  /\ now' = TimeOf(page)
  /\ sets' = WorldOf(page)'
  /\ ui' = StartOf(page)

PageNext == Reset \/ GateStep \/ VersionsStep \/ DriftStep \/ WorkloadStep \/ ReviewStep

PageSpec == PageInit /\ [][PageNext]_pageVars

\* A timer that is set fires, unless it is cleared.
FairPageSpec == PageSpec /\ WF_pageVars(page = "gate" /\ GateTimer /\ UNCHANGED page)

-----------------------------------------------------------------------------
(* Properties.                                                             *)

At(n) == ui.cursor >= n

\* What the page tells in its labels and hints is what the service answers, as
\* long as nobody plays freely in between: the first publish is blocked by a
\* red run, the fix takes the approval away, v2 and v3 go out to both targets,
\* the rollback takes the live version back and leaves the head
\* (STAGES, STAGE_RUNNERS).
ScriptIsAsTold ==
  page = "gate" /\ ~ui.free =>
    LET s == sets[Refund] IN
    /\ ui.blocked = IF At(3) THEN 1 ELSE 0
    /\ Version(s) = IF At(8) THEN 3 ELSE IF At(4) THEN 2 ELSE 1
    /\ s.state = IF At(9) THEN "published" ELSE IF At(8) THEN "draft"
                 ELSE IF At(7) THEN "published" ELSE IF At(5) THEN "approved"
                 ELSE IF At(4) THEN "draft" ELSE IF At(1) THEN "approved" ELSE "draft"
    /\ At(2) => s.run.passed = At(6)
    /\ s.published = IF At(10) THEN 2 ELSE IF At(9) THEN 3 ELSE IF At(7) THEN 2 ELSE 0
    /\ ui.deliveries = Cardinality(Targets) * (IF At(10) THEN 3 ELSE IF At(9) THEN 2 ELSE IF At(7) THEN 1 ELSE 0)

\* What a section keeps for itself stays true of the service it works on: the
\* conflicts shown are those a merge would have now; the escalations counted
\* are the marks on the sets; and after a review action the state shown is
\* where that action leads, or where an edit has taken it from there
\* (setConflicts, escalations, lastAction).
PanelsAgreeWithTheService ==
  /\ page = "versions" /\ ui.shown # {} => ui.shown = Clashes(TheBranch)
  /\ page = "workload" => ui.escalations = Cardinality({i \in DOMAIN sets : sets[i].escalated})
  /\ page = "review" /\ ui.last # "none" =>
       \/ sets[Incident].state = Target(ui.last)
       \/ ui.last = "approve" /\ sets[Incident].state = "draft"

AutoplayOnly == IF page = "gate" THEN ui.playing /\ ~ui.free ELSE FALSE

\* Autoplay comes to its end and stops there, unless somebody plays freely
\* meanwhile or pauses it (the effect that sets the timer).
AutoplayEnds == AutoplayOnly ~> ~AutoplayOnly

-----------------------------------------------------------------------------
(* What the page says, and the code does not do.                           *)

\* "Re-verifying stamps the current hash onto the citation."
ReverifiedIsCurrent ==
  page = "drift" /\ ui.toast = "carries the current hash" =>
    Behind(sets[Onboarding].document) = {}
=============================================================================
