------------------------------ MODULE Service ------------------------------
(***************************************************************************)
(* ExpertLoopService of the browser port (web/src/sim/service.ts with its  *)
(* helpers state.ts, reviews.ts, registry.ts, drift.ts and targets.ts):    *)
(* instruction sets from their note to their retirement, source drift,     *)
(* delivery and rollback, branches and merges.  The port runs on one       *)
(* thread, so an operation is one step; a request that throws changes      *)
(* nothing (audit and counters aside) and is no step.                      *)
(*                                                                         *)
(* Documents are those of module Documents.  Whether a test case passes is *)
(* decided by the actions of its steps (Accepts); how the code runs a      *)
(* document is in module Compiler.                                         *)
(***************************************************************************)
EXTENDS Workflow, Documents

CONSTANTS
  Principals,         \* records [name, role]
  NoteAuthor,         \* who ingests the notes
  Notes,              \* records [document, approvals]: what is ingested
  Policies,           \* records [roles, allowSelf, hours]; hours is {} for no deadline
  Sources, Hashes,    \* registered sources, what their content hashes to
  Changes,            \* what an editor may do to a document, see Apply
  Cases,              \* test cases
  Accepts(_, _),      \* whether a test case lets an action pass
  Targets,            \* where publications go
  SpacedRehashes,     \* sources are not changed again before they were re-read
  MaxNotes, MaxSets, MaxVersion, MaxBranchVersion, MaxRounds, MaxHours   \* bounds

\* PEOPLE: everybody has one role.
ASSUME RolesAssumption ==
  /\ \A p \in Principals : p.role \in {"expert", "reviewer", "admin"}
  /\ \A p, q \in Principals : p.name = q.name => p.role = q.role
ASSUME NotesAssumption == \A note \in Notes : note.approvals \in Nat
ASSUME PoliciesAssumption == \A policy \in Policies : policy.hours \subseteq Nat
ASSUME BoundsAssumption ==
  /\ {MaxSets, MaxRounds, MaxHours, MaxBranchVersion} \subseteq Nat
  /\ MaxVersion \in Nat \ {0} /\ MaxBranchVersion <= MaxVersion

IsStep(step) == StepFields \subseteq DOMAIN step

IsDocument(d) ==
  /\ {"title", "steps", "entries"} \subseteq DOMAIN d
  /\ \A id \in DOMAIN d.steps : IsStep(d.steps[id])

ASSUME ContentAssumption ==
  /\ \A note \in Notes : IsDocument(note.document)
  /\ \A change \in Changes :
       /\ change.kind \in {"put", "remove", "title", "entries"}
       /\ change.kind = "put" => IsStep(change.step)

VARIABLES
  sets,      \* the instruction sets, by id
  registry,  \* the current hash of each source
  now        \* hours the virtual clock was advanced

vars == <<sets, registry, now>>

NoRun == [version |-> 0, passed |-> FALSE]

\* A new set: version 1 by the note's author, in draft.
NewSet(document, approvals, policy, parent, base) ==
  [state |-> "draft", document |-> document,
   versions |-> <<document>>, authors |-> <<NoteAuthor>>,
   required |-> approvals, policy |-> policy, round |-> 0,
   deadline |-> {}, escalated |-> FALSE,   \* {} or {an instant}
   reviews |-> {},           \* every decision, with its version and round
   cases |-> {}, run |-> NoRun,
   flags |-> <<>>,           \* <<step, source>> -> its latest drift flag
   delivered |-> {},         \* versions with a delivered publish row
   published |-> 0,          \* published_version
   parent |-> parent, base |-> base, merged |-> 0,
   \* What the properties look back on: versions approved and versions passed,
   \* what each target received last, whether the last delivery failed nowhere.
   approved |-> {}, greens |-> {}, holds |-> [t \in Targets |-> 0], settled |-> TRUE]

Version(s) == Len(s.versions)

Names == {p.name : p \in Principals}
Decision == [reviewer : Names, role : {"reviewer", "admin"}, version : Nat, round : Nat,
             decision : {"approve", "request_changes"}]

ServiceTypeOK ==
  /\ registry \in [Sources -> Hashes]
  /\ now \in 0 .. MaxHours
  /\ Len(sets) <= MaxSets
  /\ \A i \in DOMAIN sets : LET s == sets[i] IN
       /\ s.state \in State
       /\ Version(s) <= MaxVersion /\ Len(s.authors) = Version(s)
       /\ s.policy \in Policies
       /\ s.round \in 0 .. MaxRounds
       /\ s.deadline \subseteq Nat /\ s.escalated \in BOOLEAN
       /\ s.reviews \subseteq Decision
       /\ \A r \in s.reviews : r.version \in 1 .. Version(s) /\ r.round \in 1 .. s.round
       /\ s.cases \subseteq Cases /\ s.run.version \in 0 .. Version(s)
       /\ \A pair \in DOMAIN s.flags : s.flags[pair] \in [current : Hashes, open : BOOLEAN]
       /\ s.delivered \subseteq 1 .. Version(s)
       /\ s.published \in 0 .. Version(s)
       /\ Targets # {} => s.published \in s.delivered \cup {0}
       /\ s.parent \in 0 .. i - 1 /\ s.merged \in 0 .. MaxVersion

Init ==
  /\ sets = <<>>
  /\ registry \in [Sources -> Hashes]
  /\ now = 0

Put(i, s) == sets' = [sets EXCEPT ![i] = s]
Add(s) == sets' = Append(sets, s)

\* A request about set i.
Request(i) == i \in DOMAIN sets /\ UNCHANGED <<registry, now>>

Admin(p) == p.role = "admin"

-----------------------------------------------------------------------------
(* Citations and drift.                                                    *)

Linked(citations) == [source \in DOMAIN citations |-> registry[source]]

ResolveCitations(d) ==
  [d EXCEPT
     !.steps   = [id \in DOMAIN d.steps |-> [d.steps[id] EXCEPT !.citations = Linked(@)]],
     !.entries = [n \in DOMAIN d.entries |-> [d.entries[n] EXCEPT !.citations = Linked(@)]]]

\* Variant: every step of the new document cites what the registry has now.
RefreshesAll(old, new) == new

\* A step that was not edited keeps the hashes it had.
KeepHashes(old, new) ==
  [new EXCEPT !.steps =
     [id \in DOMAIN new.steps |->
        IF id \in DOMAIN old.steps /\ SameStep(old.steps[id], new.steps[id])
        THEN old.steps[id] ELSE new.steps[id]]]

NextDocument(s, incoming) == KeepHashes(s.document, ResolveCitations(incoming))

\* stepSources: the (step, source) pairs a document cites.
Pairs(d) == {pair \in (DOMAIN d.steps) \X Sources : pair[2] \in DOMAIN d.steps[pair[1]].citations}

CitedHash(d, pair) == d.steps[pair[1]].citations[pair[2]]

OpenFlags(s) == {pair \in DOMAIN s.flags : s.flags[pair].open}

\* Variant: a pair that was flagged once is not flagged again.
FlagOnce(s, hashes, source) ==
  {pair \in Pairs(s.document) :
     /\ pair[2] = source
     /\ CitedHash(s.document, pair) # hashes[source]
     /\ pair \notin DOMAIN s.flags}

\* scanDocument: the pairs to flag, once the registry has these hashes.
ScanDocument(s, hashes, source) ==
  {pair \in Pairs(s.document) :
     /\ pair[2] = source
     /\ CitedHash(s.document, pair) # hashes[source]
     /\ pair \in DOMAIN s.flags =>
          ~s.flags[pair].open /\ s.flags[pair].current # hashes[source]}

Scanned(s, hashes, source) ==
  LET fresh == ScanDocument(s, hashes, source) IN
  IF s.state = "retired" THEN s
  ELSE [s EXCEPT !.flags = [pair \in fresh \cup DOMAIN @ |->
                              IF pair \in fresh THEN [current |-> hashes[source], open |-> TRUE]
                              ELSE @[pair]]]

\* An edit closes the flags whose step now cites the flagged hash, or does not
\* cite the source any more.
FlagsClosedByEdit(s, d) ==
  {pair \in OpenFlags(s) :
     pair \in Pairs(d) => CitedHash(d, pair) = s.flags[pair].current}

Closed(flags, pairs) ==
  [pair \in DOMAIN flags |->
     IF pair \in pairs THEN [flags[pair] EXCEPT !.open = FALSE] ELSE flags[pair]]

Rehash(source, hash) ==
  /\ SpacedRehashes =>
       \A i \in DOMAIN sets : \A pair \in OpenFlags(sets[i]) : pair[2] # source
  /\ hash # registry[source]
  /\ registry' = [registry EXCEPT ![source] = hash]
  /\ sets' = [i \in DOMAIN sets |-> Scanned(sets[i], registry', source)]
  /\ UNCHANGED now

\* reverify: the open flags of the wanted steps are closed, and their citations
\* get the hash they were flagged for.
Verified(s, wanted) == {pair \in OpenFlags(s) : pair[1] \in wanted}

Reverified(s, wanted) ==
  LET d == s.document
      Stamped(id) ==
        [source \in DOMAIN d.steps[id].citations |->
           IF <<id, source>> \in Verified(s, wanted) THEN s.flags[<<id, source>>].current
           ELSE d.steps[id].citations[source]]
  IN  [s EXCEPT !.flags = Closed(@, Verified(s, wanted)),
                !.document.steps =
                   [id \in DOMAIN @ |-> [d.steps[id] EXCEPT !.citations = Stamped(id)]]]

Reverify(i, wanted) ==
  /\ Request(i)
  /\ Verified(sets[i], wanted) # {}
  /\ Put(i, Reverified(sets[i], wanted))

-----------------------------------------------------------------------------
(* Documents and versions.                                                 *)

IngestNote(note, policy) ==
  /\ Cardinality({i \in DOMAIN sets : sets[i].parent = 0}) < MaxNotes
  /\ Len(sets) < MaxSets
  /\ Add(NewSet(ResolveCitations(note.document), note.approvals, policy, 0, 0))
  /\ UNCHANGED <<registry, now>>

\* Variant: an edit leaves an approval standing.
KeepsApproval(state) == IF state = "published" THEN Target("revise") ELSE state

AfterEdit(state) ==
  IF state = "approved" THEN Target("edit_after_approval")
  ELSE IF state = "published" THEN Target("revise")
  ELSE state

\* A document that is not the head over again, hashes included.
CanCommit(s, incoming) ==
  /\ s.state \in EditableStates
  /\ Version(s) < IF s.parent = 0 THEN MaxVersion ELSE MaxBranchVersion
  /\ NextDocument(s, incoming) # s.document

\* commitDocument.
Committed(s, author, incoming) ==
  LET d == NextDocument(s, incoming) IN
  [s EXCEPT !.document = d,
            !.versions = Append(@, d),
            !.authors  = Append(@, author),
            !.flags    = Closed(@, FlagsClosedByEdit(s, d)),
            !.state    = AfterEdit(@)]

\* A change is a step put in place, a step removed, or the title or the entries
\* rewritten.
Apply(change, d) ==
  CASE change.kind = "put"     -> [d EXCEPT !.steps =
                                [id \in DOMAIN @ \cup {change.id} |->
                                   IF id = change.id THEN change.step ELSE @[id]]]
    [] change.kind = "remove"  -> [d EXCEPT !.steps = [id \in DOMAIN @ \ {change.id} |-> @[id]]]
    [] change.kind = "title"   -> [d EXCEPT !.title = change.title]
    [] change.kind = "entries" -> [d EXCEPT !.entries = change.entries]

\* Variant: what is sent replaces the head, whichever version it was made from.
AnyVersion(s, expected) == TRUE

\* expected_version against the head.
SeenHead(s, expected) == expected = Version(s)

\* An editor sends their copy of a version, changed in one thing.
ApplyEdit(p, i, expected, change) ==
  /\ Request(i)
  /\ expected \in DOMAIN sets[i].versions
  /\ LET s == sets[i]
         incoming == Apply(change, s.versions[expected])
     IN  /\ SeenHead(s, expected)
         /\ CanCommit(s, incoming)
         /\ Put(i, Committed(s, p.name, incoming))

\* branch: a draft of its own from any version of a set that is no branch.
Branch(i, version) ==
  /\ Request(i)
  /\ Len(sets) < MaxSets
  /\ sets[i].parent = 0
  /\ version \in DOMAIN sets[i].versions
  /\ Add(NewSet(sets[i].versions[version], sets[i].required, sets[i].policy, i, version))

\* Variant: what both sides have is taken from the branch as it is.
BranchReplaces(base, parent, branch) == branch.document

MergedInto(base, parent, branch) == Merged(base, parent.document, branch.document)

\* previewMerge: where branch i and its parent say different things.
Clashes(i) ==
  LET parent == sets[sets[i].parent]
  IN  Conflicts(parent.versions[sets[i].base], parent.document, sets[i].document)

\* The document a merge of branch i would make the parent's head.
MergeOf(i) ==
  LET parent == sets[sets[i].parent]
  IN  MergedInto(parent.versions[sets[i].base], parent, sets[i])

\* merge; expected is 0 when no version of the parent was named.
Merge(p, i, expected) ==
  /\ Request(i)
  /\ sets[i].parent # 0
  /\ sets[i].merged = 0
  /\ Clashes(i) = {}
  /\ LET parent == sets[sets[i].parent] IN
     /\ expected # 0 => SeenHead(parent, expected)
     /\ CanCommit(parent, MergeOf(i))
     /\ sets' = [sets EXCEPT ![sets[i].parent] = Committed(parent, p.name, MergeOf(i)),
                             ![i].merged = Version(parent) + 1]

-----------------------------------------------------------------------------
(* Review.                                                                 *)

VersionAuthor(s) == s.authors[Version(s)]

IsSelfApproval(s, name) == ~s.policy.allowSelf /\ name \in {NoteAuthor, VersionAuthor(s)}

ApprovalsThisRound(s) ==
  {r \in s.reviews : r.version = Version(s) /\ r.round = s.round /\ r.decision = "approve"}

\* Who has said anything on the head in this round.
Decided(s) == {r.reviewer : r \in {q \in s.reviews : q.version = Version(s) /\ q.round = s.round}}

CountApprovals(s) == Cardinality({r.reviewer : r \in ApprovalsThisRound(s)})

MissingRoles(s) == s.policy.roles \ {r.role : r \in ApprovalsThisRound(s)}

SubmitAction(s) == IF s.state = "changes_requested" THEN "resubmit" ELSE "submit"

\* submit, transition, startReviewClock.
Submitted(s) ==
  [s EXCEPT !.state = Target(SubmitAction(s)),
            !.round = @ + 1,
            !.deadline = {now + h : h \in s.policy.hours},
            !.escalated = FALSE]

CanSubmit(s) == s.round < MaxRounds /\ CanTransition(SubmitAction(s), s.state)

Submit(i) ==
  /\ Request(i)
  /\ CanSubmit(sets[i])
  /\ Put(i, Submitted(sets[i]))

SetReviewPolicy(i, policy) ==
  /\ Request(i)
  /\ sets[i].state # "in_review"
  /\ Put(i, [sets[i] EXCEPT !.policy = policy])

MayReview(p, s) ==
  /\ s.state = "in_review"
  /\ ~IsSelfApproval(s, p.name)
  /\ p.role \in {"reviewer", "admin"}

\* The set after somebody's decision on the head in this round.
Reviewed(s, p, decision) ==
  LET row == [reviewer |-> p.name, role |-> p.role, version |-> Version(s),
              round |-> s.round, decision |-> decision]
      t == [s EXCEPT !.reviews = @ \cup {row}]
  IN  IF decision = "request_changes"
      THEN [t EXCEPT !.state = Target("request_changes")]
      ELSE IF CountApprovals(t) >= t.required /\ MissingRoles(t) = {}
      THEN [t EXCEPT !.state = Target("approve"), !.approved = @ \cup {Version(s)}]
      ELSE t

Review(p, i, decision) ==
  /\ Request(i)
  /\ MayReview(p, sets[i])
  /\ Put(i, Reviewed(sets[i], p, decision))

IsOverdue(s) == s.state = "in_review" /\ \E d \in s.deadline : d <= now

\* Variant: whoever is late, reminded or not.
Late(s) == IsOverdue(s)

ToEscalate(s) == IsOverdue(s) /\ ~s.escalated

EscalateOverdue ==
  /\ \E i \in DOMAIN sets : ToEscalate(sets[i])
  /\ sets' = [i \in DOMAIN sets |->
                IF ToEscalate(sets[i]) THEN [sets[i] EXCEPT !.escalated = TRUE] ELSE sets[i]]
  /\ UNCHANGED <<registry, now>>

Advance(hours) ==
  /\ now + hours <= MaxHours
  /\ now' = now + hours
  /\ UNCHANGED <<sets, registry>>

\* Variant: only people whose role is still missing are waited for.
OnlyMissingRoles(s) ==
  {p \in Principals :
     /\ p.name \notin Decided(s)
     /\ s.policy.allowSelf \/ p.name \notin {NoteAuthor, VersionAuthor(s)}
     /\ p.role \in MissingRoles(s)}

\* workload: who the queue says a set in review waits for.
WaitingOn(s) ==
  {p \in Principals :
     /\ p.name \notin Decided(s)
     /\ s.policy.allowSelf \/ p.name \notin {NoteAuthor, VersionAuthor(s)}
     /\ \/ MissingRoles(s) = {}
        \/ p.role \in MissingRoles(s)
        \/ CountApprovals(s) < s.required}

-----------------------------------------------------------------------------
(* Tests, publication, rollback.                                           *)

AddTestCase(i, case) ==
  /\ Request(i)
  /\ case \notin sets[i].cases
  /\ Put(i, [sets[i] EXCEPT !.cases = @ \cup {case}])

\* runTestCase, as far as the actions decide it.
CasePasses(case, d) == \A id \in DOMAIN d.steps : Accepts(case, d.steps[id].action)

Passes(s) == \A case \in s.cases : CasePasses(case, s.document)

Tested(s) ==
  [s EXCEPT !.run = [version |-> Version(s), passed |-> Passes(s)],
            !.greens = IF Passes(s) THEN @ \cup {Version(s)} ELSE @]

RunTests(i) ==
  /\ Request(i)
  /\ sets[i].cases # {}
  /\ Put(i, Tested(sets[i]))

\* Variant: a green run of any version will do.
AnyGreenRun(s) == s.state = "approved" /\ OpenFlags(s) = {} /\ s.run.passed

\* Variant: flags are not asked.
IgnoresFlags(s) == s.state = "approved" /\ s.run = [version |-> Version(s), passed |-> TRUE]

PublishGate(s) ==
  /\ s.state = "approved"
  /\ OpenFlags(s) = {}
  /\ s.run = [version |-> Version(s), passed |-> TRUE]

\* Variant: a target that has this version on record is not called again.
SkipsDelivered(s, version, refusing) ==
  [s EXCEPT !.holds = [t \in Targets |->
              IF t \in refusing \/ version \in s.delivered THEN @[t] ELSE version],
            !.settled = refusing = {}]

\* deliver: every target is called, those that refuse keep what they have.
Deliver(s, version, refusing) ==
  [s EXCEPT !.holds = [t \in Targets |-> IF t \in refusing THEN @[t] ELSE version],
            !.settled = refusing = {}]

\* publish: a delivery that failed somewhere keeps its rows and nothing else.
Published(s, refusing) ==
  LET t == [Deliver(s, Version(s), refusing) EXCEPT
              !.delivered = IF refusing = Targets THEN @ ELSE @ \cup {Version(s)}]
  IN  IF refusing # {} THEN t
      ELSE [t EXCEPT !.state = Target("publish"), !.published = Version(s)]

Publish(p, i, refusing) ==
  /\ Request(i)
  /\ Admin(p)
  /\ PublishGate(sets[i])
  /\ Put(i, Published(sets[i], refusing))

\* Variant: the version below the live one, published or not.
OneBelow(s) == {s.published - 1} \cap DOMAIN s.versions

\* The versions a rollback chooses from.
Earlier(s) == {v \in s.delivered : v < s.published}

\* rollback: to the highest of them; the head stays what it is.
RolledBack(s, refusing) ==
  LET previous == CHOOSE v \in Earlier(s) : \A w \in Earlier(s) : w <= v
  IN  [Deliver(s, previous, refusing) EXCEPT
         !.published = IF refusing = {} THEN previous ELSE @]

Rollback(p, i, refusing) ==
  /\ Request(i)
  /\ Admin(p)
  /\ Earlier(sets[i]) # {}
  /\ Put(i, RolledBack(sets[i], refusing))

Retire(p, i) ==
  /\ Request(i)
  /\ Admin(p)
  /\ CanTransition("retire", sets[i].state)
  /\ Put(i, [sets[i] EXCEPT !.state = Target("retire")])

-----------------------------------------------------------------------------
OnSet(i) ==
  \/ Submit(i)
  \/ \E policy \in Policies : SetReviewPolicy(i, policy)
  \/ \E case \in Cases : AddTestCase(i, case)
  \/ RunTests(i)
  \/ \E wanted \in SUBSET DOMAIN sets[i].document.steps : Reverify(i, wanted)
  \/ \E version \in 1 .. MaxVersion : Branch(i, version)
  \/ \E p \in Principals :
       \/ \E decision \in {"approve", "request_changes"} : Review(p, i, decision)
       \/ \E expected \in 1 .. MaxVersion, change \in Changes : ApplyEdit(p, i, expected, change)
       \/ \E expected \in 0 .. MaxVersion : Merge(p, i, expected)
       \/ \E refusing \in SUBSET Targets : Publish(p, i, refusing) \/ Rollback(p, i, refusing)
       \/ Retire(p, i)

Next ==
  \/ \E note \in Notes, policy \in Policies : IngestNote(note, policy)
  \/ \E i \in DOMAIN sets : OnSet(i)
  \/ \E source \in Sources, hash \in Hashes : Rehash(source, hash)
  \/ EscalateOverdue
  \/ \E hours \in 1 .. MaxHours : Advance(hours)

Spec == Init /\ [][Next]_vars

-----------------------------------------------------------------------------
(* Properties.                                                             *)

\* Unless the last delivery failed somewhere, every target holds the version
\* the set calls live, whatever publishes and rollbacks went before
\* (deliver calls every target each time).
TargetsHoldTheLiveVersion ==
  \A i \in DOMAIN sets :
    sets[i].settled => \A t \in Targets : sets[i].holds[t] = sets[i].published

\* An approved head has its approvals from enough people who wrote neither the
\* note nor this version, given since it was last submitted; an edit, a policy
\* change or another round in between does not lend it older ones (review,
\* isSelfApproval, commitDocument).  Stated where no policy lets authors approve.
ApprovedHeadIsEarned ==
  (\A policy \in Policies : ~policy.allowSelf) =>
    \A i \in DOMAIN sets :
      LET s == sets[i]
          given == {r \in s.reviews : r.version = Version(s) /\ r.round = s.round}
          approvers == {r.reviewer : r \in {q \in given : q.decision = "approve"}}
      IN  s.state \in {"approved", "published"} =>
            Cardinality(approvers \ {NoteAuthor, VersionAuthor(s)}) >= s.required

\* The citations of a document the registry has moved on from.
Behind(d) == {pair \in Pairs(d) : CitedHash(d, pair) # registry[pair[2]]}

\* The citations a scan leaves alone although they may be behind: their latest
\* flag is closed and was about what the source says now (scanDocument).
PassedOver(s) ==
  {pair \in DOMAIN s.flags : ~s.flags[pair].open /\ s.flags[pair].current = registry[pair[2]]}

\* While sources are re-read before they change again, every flag is about a step
\* that cites what its source no longer says, and every such step is flagged or
\* passed over; no edit, re-verification or publication in between loses sight of
\* it (scanDocument, flagsClosedByEdit, keepHashesOfUnchangedSteps).  A citation
\* is passed over when an edit took it out, which closed its flag, and another
\* put it back while the source read as before: the code does not flag it again.
\* Branches are no part of it: what an old version cites is not compared.
BehindIsFlagged ==
  SpacedRehashes =>
    \A i \in DOMAIN sets :
      LET s == sets[i] IN
      s.parent = 0 /\ s.state # "retired" =>
        /\ OpenFlags(s) \subseteq Behind(s.document)
        /\ Behind(s.document) \subseteq OpenFlags(s) \cup PassedOver(s)

\* What a publish hands to a target cites its sources as they are at that
\* moment, what is passed over excepted (the same assumption; publishGate).
NothingStaleGoesOut ==
  [][SpacedRehashes =>
       \A i \in DOMAIN sets :
         sets[i].parent = 0 /\ sets'[i].delivered # sets[i].delivered =>
           Behind(sets[i].document) \subseteq PassedOver(sets[i])]_vars

\* Whoever could end a review by approving now is among those the queue says it
\* waits for, so no review that somebody could end waits for nobody (workload).
WhoCanFinishIsAsked ==
  \A i \in DOMAIN sets : LET s == sets[i] IN
    s.state = "in_review" =>
      \A p \in Principals :
        MayReview(p, s) /\ Reviewed(s, p, "approve").state = "approved" => p \in WaitingOn(s)

\* A new version differs from the one before in what its author changed: nobody
\* takes back what another wrote meanwhile, and a step that was left alone keeps
\* its hashes and its open flags (applyEdit's expected_version,
\* keepHashesOfUnchangedSteps, flagsClosedByEdit).
Grown(i) == i \in DOMAIN sets /\ Version(sets'[i]) > Version(sets[i])

StepsThatDiffer(d, e) ==
  {id \in DOMAIN d.steps \cup DOMAIN e.steps :
     ~(id \in DOMAIN d.steps \cap DOMAIN e.steps /\ SameStep(d.steps[id], e.steps[id]))}

EditsAreLocal ==
  [][\A i \in DOMAIN sets' : Grown(i) =>
       LET d == sets[i].document
           e == sets'[i].document
           same == DOMAIN e.steps \ StepsThatDiffer(d, e)
           merging == \E j \in DOMAIN sets : sets'[j].merged # sets[j].merged
       IN  /\ merging \/ Cardinality(StepsThatDiffer(d, e)) <= 1
           /\ \A id \in same : e.steps[id] = d.steps[id]
           /\ \A pair \in OpenFlags(sets[i]) : pair[1] \in same => pair \in OpenFlags(sets'[i])]_vars

\* A merge takes every step the branch changed as the branch's head has it, and
\* leaves every step the branch did not change as the parent has it, edits the
\* parent had since the branch was taken included (merge, mergeDocuments).
MergeTakesBothSides ==
  [][\A j \in DOMAIN sets : sets'[j].merged # sets[j].merged =>
       LET parent == sets[j].parent
           base   == sets[parent].versions[sets[j].base]
           ours   == sets[parent].document
           theirs == sets[j].document
           result == sets'[parent].document
       IN  /\ sets'[j].merged = Version(sets'[parent])
           /\ \A id \in StepsThatDiffer(base, theirs) \ StepsThatDiffer(base, ours) :
                id \notin StepsThatDiffer(theirs, result)
           /\ \A id \in (DOMAIN ours.steps \cup DOMAIN base.steps) \ StepsThatDiffer(base, theirs) :
                id \notin StepsThatDiffer(ours, result)]_vars

\* A set keeps the promise of module Release: only cleared text reaches a target,
\* also in deliveries that fail half way; the head goes live first, and then the
\* live version only steps back to cleared ones (publishGate, deliver,
\* rollback).  Stated of the first set; all sets go through the same operations.
Released == INSTANCE Release WITH
  head    <- IF sets = <<>> THEN 1 ELSE Version(sets[1]),
  cleared <- IF sets = <<>> THEN {} ELSE sets[1].approved \cap sets[1].greens,
  live    <- IF sets = <<>> THEN 0 ELSE sets[1].published,
  held    <- IF sets = <<>> THEN {} ELSE {sets[1].holds[t] : t \in Targets} \ {0}

IsReleased == Released!Spec
=============================================================================
