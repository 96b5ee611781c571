------------------------------ MODULE EditProofs ------------------------------
(***************************************************************************)
(* Proofs about what Service makes of documents, for any sets, sources and *)
(* changes: a new version differs from the one before in what its author   *)
(* changed, and a merge takes both sides.  The lemmas come in three kinds: *)
(* which documents say the same step by step, hashes aside; what the       *)
(* operations on documents leave the same; and which steps of the service  *)
(* make a version at all.  The last section is the service's type.         *)
(***************************************************************************)
EXTENDS ServiceProofs, FiniteSetTheorems

-----------------------------------------------------------------------------
(* Documents that say the same.                                            *)

\* Step by step, hashes aside.
SameSteps(d, e) ==
  /\ DOMAIN d.steps = DOMAIN e.steps
  /\ \A id \in DOMAIN d.steps : SameStep(d.steps[id], e.steps[id])

LEMMA SameStepIsAnEquivalence ==
  /\ \A s : SameStep(s, s)
  /\ \A s, t : SameStep(s, t) => SameStep(t, s)
  /\ \A s, t, u : SameStep(s, t) /\ SameStep(t, u) => SameStep(s, u)
BY DEF SameStep, SameField

LEMMA SameStepsIsAnEquivalence ==
  /\ \A d : SameSteps(d, d)
  /\ \A d, e : SameSteps(d, e) => SameSteps(e, d)
  /\ \A d, e, f : SameSteps(d, e) /\ SameSteps(e, f) => SameSteps(d, f)
BY SameStepIsAnEquivalence DEF SameSteps

\* Whether a step differs does not depend on hashes.
LEMMA DifferUpToHashes ==
  ASSUME NEW d, NEW e, NEW f, SameSteps(e, f)
  PROVE  /\ StepsThatDiffer(d, e) = StepsThatDiffer(d, f)
         /\ StepsThatDiffer(e, d) = StepsThatDiffer(f, d)
<1>1. \A id : id \in StepsThatDiffer(d, e) <=> id \in StepsThatDiffer(d, f)
  BY SameStepIsAnEquivalence DEF SameSteps, StepsThatDiffer
<1>2. \A id : id \in StepsThatDiffer(e, d) <=> id \in StepsThatDiffer(f, d)
  BY SameStepIsAnEquivalence DEF SameSteps, StepsThatDiffer
<1> QED BY <1>1, <1>2

\* Resolving citations touches hashes only.
LEMMA ResolvedIsSame ==
  ASSUME NEW d, IsDocument(d)
  PROVE  SameSteps(ResolveCitations(d), d)
<1> DEFINE S == [id \in DOMAIN d.steps |-> [d.steps[id] EXCEPT !.citations = Linked(@)]]
           E == [n \in DOMAIN d.entries |-> [d.entries[n] EXCEPT !.citations = Linked(@)]]
           e == [d EXCEPT !.steps = S, !.entries = E]
<1>1. ResolveCitations(d) = e
  BY DEF ResolveCitations
<1>2. ASSUME NEW id \in DOMAIN d.steps PROVE SameStep(S[id], d.steps[id])
  <2> DEFINE step == d.steps[id]
             t == [step EXCEPT !.citations = Linked(step.citations)]
  <2>1. S[id] = t
    OBVIOUS
  <2>2. StepFields \subseteq DOMAIN step
    BY DEF IsDocument, IsStep
  <2>3. DOMAIN Linked(step.citations) = DOMAIN step.citations
    BY DEF Linked
  <2>4. t.citations = Linked(step.citations) /\ t.order = step.order /\ t.action = step.action
    BY <2>2 DEF StepFields
  <2> HIDE DEF t, step
  <2>5. SameStep(t, step)
    BY <2>3, <2>4 DEF SameStep, SameField, Canon, StepFields
  <2> QED BY <2>1, <2>5 DEF step
<1>3. DOMAIN S = DOMAIN d.steps
  OBVIOUS
<1> HIDE DEF S, E
<1>4. e.steps = S
  BY DEF IsDocument
<1> HIDE DEF e
<1> QED BY <1>1, <1>2, <1>3, <1>4 DEF SameSteps

\* The next head says what came in, and what it says as the head did it cites as
\* the head does.
LEMMA NextHeadIsSame ==
  ASSUME NEW s, NEW d, IsDocument(d)
  PROVE  LET e == NextDocument(s, d) IN
         /\ SameSteps(e, d)
         /\ \A id \in DOMAIN e.steps \cap DOMAIN s.document.steps :
              SameStep(s.document.steps[id], e.steps[id]) => e.steps[id] = s.document.steps[id]
<1> DEFINE old == s.document
           new == ResolveCitations(d)
           S == [id \in DOMAIN new.steps |->
                   IF id \in DOMAIN old.steps /\ SameStep(old.steps[id], new.steps[id])
                   THEN old.steps[id] ELSE new.steps[id]]
           e == [new EXCEPT !.steps = S]
<1>1. e = NextDocument(s, d)
  BY DEF NextDocument, KeepHashes
<1>2. IsDocument(new) /\ SameSteps(new, d)
  BY ResolvedDocument, ResolvedIsSame
<1> HIDE DEF new
<1>3. /\ DOMAIN S = DOMAIN new.steps
      /\ \A id \in DOMAIN new.steps : SameStep(S[id], new.steps[id])
      /\ \A id \in DOMAIN new.steps \cap DOMAIN old.steps :
           SameStep(old.steps[id], S[id]) => S[id] = old.steps[id]
  BY SameStepIsAnEquivalence
<1> HIDE DEF S
<1>4. e.steps = S
  BY <1>2 DEF IsDocument
<1> HIDE DEF e
<1>5. SameSteps(e, new)
  BY <1>3, <1>4 DEF SameSteps
<1>6. SameSteps(e, d)
  BY <1>2, <1>5, SameStepsIsAnEquivalence
<1> QED BY <1>1, <1>3, <1>4, <1>6

\* A change is about one step at most.
LEMMA ChangeIsLocal ==
  ASSUME NEW d, IsDocument(d), NEW change \in Changes
  PROVE  \E id : StepsThatDiffer(d, Apply(change, d)) \subseteq {id}
<1>0. change.kind \in {"put", "remove", "title", "entries"}
  BY ContentAssumption
<1> DEFINE Same(e) == \A id : id # change.id =>
             (id \in DOMAIN d.steps <=> id \in DOMAIN e.steps)
             /\ (id \in DOMAIN d.steps => e.steps[id] = d.steps[id])
<1>1. Same(Apply(change, d)) => StepsThatDiffer(d, Apply(change, d)) \subseteq {change.id}
  BY SameStepIsAnEquivalence DEF StepsThatDiffer
<1>2. {"title", "steps", "entries"} \subseteq DOMAIN d
  BY DEF IsDocument
<1>3. CASE change.kind = "put"
  <2> DEFINE S == [id \in DOMAIN d.steps \cup {change.id} |->
                      IF id = change.id THEN change.step ELSE d.steps[id]]
             e == [d EXCEPT !.steps = S]
  <2>1. Apply(change, d) = e
    BY <1>3 DEF Apply
  <2>2. DOMAIN S = DOMAIN d.steps \cup {change.id}
        /\ \A id \in DOMAIN d.steps : id # change.id => S[id] = d.steps[id]
    OBVIOUS
  <2> HIDE DEF S
  <2>3. e.steps = S
    BY <1>2
  <2> HIDE DEF e
  <2>4. Same(e)
    BY <2>2, <2>3
  <2> QED BY <1>1, <2>1, <2>4
<1>4. CASE change.kind = "remove"
  <2> DEFINE S == [id \in DOMAIN d.steps \ {change.id} |-> d.steps[id]]
             e == [d EXCEPT !.steps = S]
  <2>1. Apply(change, d) = e
    BY <1>4 DEF Apply
  <2>2. DOMAIN S = DOMAIN d.steps \ {change.id}
        /\ \A id \in DOMAIN d.steps : id # change.id => S[id] = d.steps[id]
    OBVIOUS
  <2> HIDE DEF S
  <2>3. e.steps = S
    BY <1>2
  <2> HIDE DEF e
  <2>4. Same(e)
    BY <2>2, <2>3
  <2> QED BY <1>1, <2>1, <2>4
<1>5. CASE change.kind \in {"title", "entries"}
  <2>1. Apply(change, d).steps = d.steps
    BY <1>2, <1>5 DEF Apply
  <2> QED BY <1>1, <2>1
<1> QED BY <1>0, <1>3, <1>4, <1>5

-----------------------------------------------------------------------------
(* The three-way merge.                                                    *)

\* Of a step that one side left as it was, the merge has what the other side has.
LEMMA MergedStepOfOneSide ==
  ASSUME NEW base, NEW ours, NEW theirs, NEW id
  PROVE  LET m == Merged(base, ours, theirs) IN
         /\ id \in StepsThatDiffer(base, theirs) \ StepsThatDiffer(base, ours) =>
              id \notin StepsThatDiffer(theirs, m)
         /\ id \in (DOMAIN ours.steps \cup DOMAIN base.steps) \ StepsThatDiffer(base, theirs) =>
              id \notin StepsThatDiffer(ours, m)
<1> DEFINE m == Merged(base, ours, theirs)
           M == [i \in MergedIds(base, ours, theirs) |-> MergedStep(base, ours, theirs, i)]
<1>1. m.steps = M
  BY DEF Merged
<1>2. DOMAIN M = MergedIds(base, ours, theirs)
  OBVIOUS
<1>3. id \in DOMAIN M => M[id] = MergedStep(base, ours, theirs, id)
  OBVIOUS
<1> HIDE DEF M, m
<1>4. id \in DOMAIN m.steps <=> \/ id \in DOMAIN ours.steps /\ id \in DOMAIN theirs.steps
                                \/ /\ id \in DOMAIN ours.steps \/ id \in DOMAIN theirs.steps
                                   /\ id \notin DOMAIN base.steps
  BY <1>1, <1>2 DEF MergedIds
<1>5. ASSUME id \in DOMAIN ours.steps, id \in DOMAIN theirs.steps, id \in DOMAIN base.steps
      PROVE  /\ SameStep(base.steps[id], ours.steps[id]) => SameStep(theirs.steps[id], m.steps[id])
             /\ SameStep(base.steps[id], theirs.steps[id]) => SameStep(ours.steps[id], m.steps[id])
  <2> DEFINE F == [field \in StepFields |-> MergedField(base, ours, theirs, id, field)]
  <2>1. m.steps[id] = F
    BY <1>1, <1>3, <1>4, <1>5 DEF MergedStep
  <2>2. \A field \in StepFields :
          F[field] = IF SameField(field, ours.steps[id], base.steps[id])
                     THEN theirs.steps[id][field] ELSE ours.steps[id][field]
    BY <1>5 DEF MergedField, Untouched
  <2> HIDE DEF F
  <2> QED BY <2>1, <2>2 DEF SameStep, SameField
<1>6. ASSUME id \in DOMAIN ours.steps, id \notin DOMAIN theirs.steps, id \notin DOMAIN base.steps
      PROVE  m.steps[id] = ours.steps[id]
  BY <1>1, <1>3, <1>4, <1>6 DEF MergedStep
<1>7. ASSUME id \notin DOMAIN ours.steps, id \in DOMAIN theirs.steps, id \notin DOMAIN base.steps
      PROVE  m.steps[id] = theirs.steps[id]
  BY <1>1, <1>3, <1>4, <1>7 DEF MergedStep
<1>8. ASSUME id \in StepsThatDiffer(base, theirs), id \notin StepsThatDiffer(base, ours)
      PROVE  id \notin StepsThatDiffer(theirs, m)
  BY <1>4, <1>5, <1>7, <1>8, SameStepIsAnEquivalence DEF StepsThatDiffer
<1>9. ASSUME id \in DOMAIN ours.steps \cup DOMAIN base.steps, id \notin StepsThatDiffer(base, theirs)
      PROVE  id \notin StepsThatDiffer(ours, m)
  BY <1>4, <1>5, <1>6, <1>9, SameStepIsAnEquivalence DEF StepsThatDiffer
<1> QED BY <1>8, <1>9 DEF m

-----------------------------------------------------------------------------
(* What makes a version, and what marks a branch as merged.                *)

\* Set i gets t, and versions and marks stay as they are.
Quietly(i, t) == Put(i, t) /\ t.versions = sets[i].versions /\ t.merged = sets[i].merged

LEMMA QuietRequests ==
  ASSUME SetsInv, NEW i \in DOMAIN sets, OnSet(i),
         ~ \E version \in 1 .. MaxVersion : Branch(i, version),
         ~ \E p \in Principals, expected \in 0 .. MaxVersion : Merge(p, i, expected),
         ~ \E p \in Principals, expected \in 1 .. MaxVersion, change \in Changes :
             ApplyEdit(p, i, expected, change)
  PROVE  \E t : Quietly(i, t)
<1> DEFINE s == sets[i]
<1>0. HasFields(s)
  BY DEF SetsInv
<1> USE DEF HasFields, Fields, Quietly
<1>1. ASSUME Submit(i) PROVE Quietly(i, Submitted(s))
  BY <1>0, <1>1 DEF Submit, Submitted
<1>2. ASSUME NEW policy \in Policies, SetReviewPolicy(i, policy)
      PROVE  Quietly(i, [s EXCEPT !.policy = policy])
  BY <1>0, <1>2 DEF SetReviewPolicy
<1>3. ASSUME NEW case \in Cases, AddTestCase(i, case)
      PROVE  Quietly(i, [s EXCEPT !.cases = @ \cup {case}])
  BY <1>0, <1>3 DEF AddTestCase
<1>4. ASSUME RunTests(i) PROVE Quietly(i, Tested(s))
  BY <1>0, <1>4 DEF RunTests, Tested
<1>5. ASSUME NEW wanted, Reverify(i, wanted) PROVE Quietly(i, Reverified(s, wanted))
  BY <1>0, <1>5 DEF Reverify, Reverified
<1>6. ASSUME NEW p \in Principals, NEW decision \in {"approve", "request_changes"},
             Review(p, i, decision)
      PROVE  Quietly(i, Reviewed(s, p, decision))
  BY <1>0, <1>6 DEF Review, Reviewed
<1>7. ASSUME NEW p \in Principals, NEW refusing \in SUBSET Targets, Publish(p, i, refusing)
      PROVE  Quietly(i, Published(s, refusing))
  BY <1>0, <1>7 DEF Publish, Published, Deliver
<1>8. ASSUME NEW p \in Principals, NEW refusing \in SUBSET Targets, Rollback(p, i, refusing)
      PROVE  Quietly(i, RolledBack(s, refusing))
  BY <1>0, <1>8 DEF Rollback, RolledBack, Deliver
<1>9. ASSUME NEW p \in Principals, Retire(p, i)
      PROVE  Quietly(i, [s EXCEPT !.state = Target("retire")])
  BY <1>0, <1>9 DEF Retire
<1> QED BY <1>1, <1>2, <1>3, <1>4, <1>5, <1>6, <1>7, <1>8, <1>9 DEF OnSet

\* What a commit writes.
LEMMA CommittedFields ==
  ASSUME NEW s, HasFields(s), NEW author, NEW d
  PROVE  LET t == Committed(s, author, d) IN
         /\ t.document = NextDocument(s, d)
         /\ t.versions = Append(s.versions, NextDocument(s, d))
         /\ t.flags = Closed(s.flags, FlagsClosedByEdit(s, NextDocument(s, d)))
         /\ t.merged = s.merged
BY DEF Committed, HasFields, Fields

\* What a merge writes: the parent's next version, and the branch's mark.
LEMMA MergeEffect ==
  ASSUME SetsInv, NEW p \in Principals, NEW j \in DOMAIN sets, NEW expected, Merge(p, j, expected)
  PROVE  LET q == sets[j].parent IN
         /\ q \in DOMAIN sets /\ q # j
         /\ sets[j].merged = 0
         /\ sets'[q] = Committed(sets[q], p.name, MergeOf(j))
         /\ sets'[j] = [sets[j] EXCEPT !.merged = Version(sets[q]) + 1]
         /\ DOMAIN sets' = DOMAIN sets
         /\ \A k \in DOMAIN sets : k \notin {q, j} => sets'[k] = sets[k]
<1> DEFINE q == sets[j].parent
           t == Committed(sets[q], p.name, MergeOf(j))
           u == [sets[j] EXCEPT !.merged = Version(sets[q]) + 1]
<1>1. PICK S : sets \in Seq(S)
  BY DEF SetsInv
<1>2. q \in Nat /\ q < j /\ q # 0
  BY DEF SetsInv, Merge
<1>3. j \in 1 .. Len(sets) /\ Len(sets) \in Nat
  BY <1>1
<1>4. q \in DOMAIN sets /\ q # j
  BY <1>1, <1>2, <1>3
<1>5. sets' = [sets EXCEPT ![q] = t, ![j].merged = Version(sets[q]) + 1] /\ sets[j].merged = 0
  BY DEF Merge
<1>6. sets' = [sets EXCEPT ![q] = t, ![j] = u]
  BY <1>4, <1>5
<1> HIDE DEF t, u, q
<1>7. /\ DOMAIN sets' = DOMAIN sets /\ sets'[q] = t /\ sets'[j] = u
      /\ \A k \in DOMAIN sets : k \notin {q, j} => sets'[k] = sets[k]
  BY <1>4, <1>6
<1> QED BY <1>4, <1>5, <1>7 DEF t, u, q

AnEdit(i) ==
  \E p \in Principals, change \in Changes :
    LET s == sets[i] IN
    /\ Version(s) \in DOMAIN s.versions
    /\ sets'[i] = Committed(s, p.name, Apply(change, s.versions[Version(s)]))
    /\ sets'[i].merged = s.merged

AMergeOf(j) ==
  \E p \in Principals, expected \in 0 .. MaxVersion : Merge(p, j, expected)

\* Whatever happens to a set: its versions grow in an edit and in a merge of a
\* branch of it, and its mark changes in its own merge; nothing else touches them.
LEMMA WhatChangesVersions ==
  ASSUME SetsInv, [Next]_vars, NEW i \in DOMAIN sets
  PROVE  \/ sets'[i].versions = sets[i].versions /\ sets'[i].merged = sets[i].merged
         \/ AnEdit(i)
         \/ AMergeOf(i)
         \/ \E j \in DOMAIN sets : AMergeOf(j) /\ sets[j].parent = i
<1> DEFINE Calm == sets'[i].versions = sets[i].versions /\ sets'[i].merged = sets[i].merged
<1>1. ASSUME NEW k \in DOMAIN sets, NEW t, Quietly(k, t) PROVE Calm
  BY <1>1, OneSetChanges DEF Quietly
<1>2. ASSUME NEW t, Add(t) PROVE Calm
  BY <1>2, OneSetMore
<1>3. ASSUME NEW k \in DOMAIN sets, NEW p \in Principals, NEW expected, NEW change \in Changes,
             ApplyEdit(p, k, expected, change)
      PROVE  Calm \/ AnEdit(i)
  <2> DEFINE s == sets[k]
             d == Apply(change, s.versions[Version(s)])
             t == Committed(s, p.name, d)
  <2>1. /\ expected = Version(s) /\ expected \in DOMAIN s.versions
        /\ Put(k, t)
    BY <1>3 DEF ApplyEdit, SeenHead
  <2>2. HasFields(s)
    BY DEF SetsInv
  <2>3. t.merged = s.merged
    BY <2>2, CommittedFields
  <2>4. sets'[k] = t /\ \A j \in DOMAIN sets : j # k => sets'[j] = sets[j]
    BY <2>1, OneSetChanges
  <2>5. CASE i = k
    BY <2>1, <2>3, <2>4, <2>5 DEF AnEdit
  <2>6. CASE i # k
    BY <2>4, <2>6
  <2> QED BY <2>5, <2>6
<1>4. ASSUME NEW j \in DOMAIN sets, AMergeOf(j), i # j, i # sets[j].parent PROVE Calm
  <2>1. PICK p \in Principals, expected \in 0 .. MaxVersion : Merge(p, j, expected)
    BY <1>4 DEF AMergeOf
  <2>2. \A k \in DOMAIN sets : k \notin {sets[j].parent, j} => sets'[k] = sets[k]
    BY <2>1, MergeEffect
  <2>3. sets'[i] = sets[i]
    BY <1>4, <2>2
  <2> QED BY <2>3
<1>5. ASSUME NEW source \in Sources, NEW hash \in Hashes, Rehash(source, hash) PROVE Calm
  <2>1. sets'[i] = Scanned(sets[i], registry', source) /\ HasFields(sets[i])
    BY <1>5, RehashScansAll DEF SetsInv
  <2> QED BY <2>1 DEF Scanned, HasFields, Fields
<1>6. CASE EscalateOverdue
  <2>1. sets'[i] \in {sets[i], [sets[i] EXCEPT !.escalated = TRUE]} /\ HasFields(sets[i])
    BY <1>6 DEF EscalateOverdue, SetsInv
  <2> QED BY <2>1 DEF HasFields, Fields
<1>7. CASE (\E hours \in 1 .. MaxHours : Advance(hours)) \/ UNCHANGED vars
  BY <1>7 DEF Advance, vars
<1>8. CASE \E note \in Notes, policy \in Policies : IngestNote(note, policy)
  BY <1>2, <1>8, NotesAreNew
<1>9. ASSUME NEW k \in DOMAIN sets, OnSet(k)
      PROVE  \/ Calm
             \/ AnEdit(i)
             \/ AMergeOf(i)
             \/ \E j \in DOMAIN sets : AMergeOf(j) /\ sets[j].parent = i
  <2>1. CASE \E version \in 1 .. MaxVersion : Branch(k, version)
    BY <1>2, <2>1, BranchesAreNew
  <2>2. CASE AMergeOf(k)
    BY <1>4, <2>2
  <2>3. CASE \E p \in Principals, expected \in 1 .. MaxVersion, change \in Changes :
               ApplyEdit(p, k, expected, change)
    BY <1>3, <2>3
  <2>4. CASE /\ ~ \E version \in 1 .. MaxVersion : Branch(k, version)
             /\ ~ AMergeOf(k)
             /\ ~ \E p \in Principals, expected \in 1 .. MaxVersion, change \in Changes :
                    ApplyEdit(p, k, expected, change)
    BY <1>1, <1>9, <2>4, QuietRequests DEF AMergeOf
  <2> QED BY <2>1, <2>2, <2>3, <2>4
<1> QED BY <1>5, <1>6, <1>7, <1>8, <1>9 DEF Next

-----------------------------------------------------------------------------
(* What a head and its flags have to do with each other.                   *)

\* The head document says what the last version says; only re-verification
\* makes them differ, in hashes.
HeadInv(s) == SameSteps(s.document, s.versions[Version(s)])

\* An open flag is about a citation of the head, with another hash than the one
\* flagged.
OpenInv(s) ==
  /\ FlagShape(s)
  /\ \A pair \in OpenFlags(s) :
       pair \in Pairs(s.document) /\ CitedHash(s.document, pair) # s.flags[pair].current

LEMMA SameHead ==
  ASSUME NEW s, NEW t, HeadInv(s), OpenInv(s),
         t.document = s.document, t.versions = s.versions, t.flags = s.flags
  PROVE  HeadInv(t) /\ OpenInv(t)
BY DEF HeadInv, OpenInv, FlagShape, OpenFlags, Version

LEMMA CommitKeepsHead ==
  ASSUME NEW s, NEW author, NEW d, HasFields(s), HistoryInv(s), OpenInv(s)
  PROVE  LET t == Committed(s, author, d) IN HeadInv(t) /\ OpenInv(t)
<1> DEFINE t == Committed(s, author, d)
           e == NextDocument(s, d)
           closing == FlagsClosedByEdit(s, e)
<1>0. FlagShape(s)
  BY DEF OpenInv
<1>1. /\ t.document = e /\ t.versions = Append(s.versions, e)
      /\ t.flags = Closed(s.flags, closing)
  BY CommittedFields
<1>2. closing \in SUBSET OpenFlags(s)
  BY DEF FlagsClosedByEdit
<1>3. \A pair \in OpenFlags(s) :
        pair \in closing <=> (pair \in Pairs(e) => CitedHash(e, pair) = s.flags[pair].current)
  BY DEF FlagsClosedByEdit
<1> HIDE DEF t, e, closing
<1>4. /\ FlagShape(t)
      /\ OpenFlags(t) = OpenFlags(s) \ closing
      /\ \A pair \in DOMAIN s.flags : t.flags[pair].current = s.flags[pair].current
  BY <1>0, <1>1, <1>2, ClosedFlags
<1>5. OpenInv(t)
  BY <1>1, <1>3, <1>4 DEF OpenInv, OpenFlags
<1>6. t.versions[Version(t)] = e
  <2>1. PICK S : s.versions \in Seq(S)
    BY DEF HistoryInv
  <2>2. s.versions \in Seq(S \cup {e}) /\ e \in S \cup {e}
    BY <2>1
  <2> QED BY <1>1, <2>2 DEF Version
<1>7. HeadInv(t)
  BY <1>1, <1>6, SameStepsIsAnEquivalence DEF HeadInv
<1> QED BY <1>5, <1>7 DEF t

LEMMA ReverifyKeepsHead ==
  ASSUME NEW s, NEW wanted, HasFields(s), DocInv(s), HeadInv(s), OpenInv(s)
  PROVE  LET t == Reverified(s, wanted) IN HeadInv(t) /\ OpenInv(t)
<1> DEFINE t == Reverified(s, wanted)
           done == Verified(s, wanted)
<1>0. FlagShape(s)
  BY DEF OpenInv
<1>1. /\ t.flags = Closed(s.flags, done) /\ t.versions = s.versions
      /\ Pairs(t.document) = Pairs(s.document)
      /\ \A pair \in Pairs(s.document) :
           CitedHash(t.document, pair) =
             IF pair \in done THEN s.flags[pair].current ELSE CitedHash(s.document, pair)
  BY ReverifyEffect DEF DocInv
<1>2. done \in SUBSET OpenFlags(s)
  BY DEF Verified
<1>3. SameSteps(t.document, s.document)
  <2> DEFINE d == s.document
             Stamped(id) ==
               [source \in DOMAIN d.steps[id].citations |->
                  IF <<id, source>> \in done THEN s.flags[<<id, source>>].current
                  ELSE d.steps[id].citations[source]]
             S == [id \in DOMAIN d.steps |-> [d.steps[id] EXCEPT !.citations = Stamped(id)]]
             e == [d EXCEPT !.steps = S]
  <2>1. t.document = e
    BY DEF Reverified, HasFields, Fields
  <2>2. ASSUME NEW id \in DOMAIN d.steps PROVE SameStep(S[id], d.steps[id])
    <3> DEFINE step == d.steps[id]
               u == [step EXCEPT !.citations = Stamped(id)]
    <3>1. S[id] = u
      OBVIOUS
    <3>2. StepFields \subseteq DOMAIN step
      BY DEF DocInv, IsDocument, IsStep
    <3>3. DOMAIN Stamped(id) = DOMAIN step.citations
      OBVIOUS
    <3> HIDE DEF Stamped
    <3>4. u.citations = Stamped(id) /\ u.order = step.order /\ u.action = step.action
      BY <3>2 DEF StepFields
    <3> HIDE DEF u, step
    <3>5. SameStep(u, step)
      BY <3>3, <3>4 DEF SameStep, SameField, Canon, StepFields
    <3> QED BY <3>1, <3>5 DEF step
  <2>3. DOMAIN S = DOMAIN d.steps /\ "steps" \in DOMAIN d
    BY DEF DocInv, IsDocument
  <2> HIDE DEF S
  <2>4. e.steps = S
    BY <2>3
  <2> QED BY <2>1, <2>2, <2>3, <2>4 DEF SameSteps
<1> HIDE DEF t, done
<1>4. /\ FlagShape(t)
      /\ OpenFlags(t) = OpenFlags(s) \ done
      /\ \A pair \in DOMAIN s.flags : t.flags[pair].current = s.flags[pair].current
  BY <1>0, <1>1, <1>2, ClosedFlags
<1>5. OpenInv(t)
  BY <1>1, <1>4 DEF OpenInv, OpenFlags
<1>6. HeadInv(t)
  BY <1>1, <1>3, SameStepsIsAnEquivalence DEF HeadInv, Version
<1> QED BY <1>5, <1>6 DEF t

LEMMA ScanKeepsHead ==
  ASSUME NEW s, NEW hashes, NEW source \in Sources, HasFields(s), HeadInv(s), OpenInv(s)
  PROVE  LET t == Scanned(s, hashes, source) IN HeadInv(t) /\ OpenInv(t)
<1> DEFINE fresh == ScanDocument(s, hashes, source)
           F == [pair \in fresh \cup DOMAIN s.flags |->
                   IF pair \in fresh THEN [current |-> hashes[source], open |-> TRUE]
                   ELSE s.flags[pair]]
           u == [s EXCEPT !.flags = F]
<1>1. Scanned(s, hashes, source) = IF s.state = "retired" THEN s ELSE u
  BY DEF Scanned
<1>2. /\ DOMAIN F = fresh \cup DOMAIN s.flags
      /\ \A pair \in fresh :
           {"current", "open"} \subseteq DOMAIN F[pair] /\ F[pair].current = hashes[source]
      /\ \A pair \in DOMAIN s.flags \ fresh : F[pair] = s.flags[pair]
  OBVIOUS
<1>3. \A pair \in fresh : pair \in Pairs(s.document) /\ CitedHash(s.document, pair) # hashes[source]
  BY DEF ScanDocument
<1> HIDE DEF F, fresh
<1>4. u.flags = F /\ u.document = s.document /\ u.versions = s.versions
  BY DEF HasFields, Fields
<1> HIDE DEF u
<1>5. OpenInv(u)
  <2>1. FlagShape(u)
    BY <1>2, <1>4 DEF OpenInv, FlagShape
  <2>2. ASSUME NEW pair \in OpenFlags(u)
        PROVE  pair \in Pairs(s.document) /\ CitedHash(s.document, pair) # F[pair].current
    <3>1. CASE pair \in fresh
      BY <1>2, <1>3, <3>1
    <3>2. CASE pair \notin fresh
      BY <1>2, <1>4, <3>2 DEF OpenInv, OpenFlags
    <3> QED BY <3>1, <3>2
  <2> QED BY <1>4, <2>1, <2>2 DEF OpenInv
<1>6. HeadInv(u)
  BY <1>4 DEF HeadInv, Version
<1> QED BY <1>1, <1>5, <1>6

LEMMA StepKeepsHead ==
  ASSUME NEW s, NEW t, HasFields(s), HistoryInv(s), DocInv(s), StepOf(s, t), HeadInv(s), OpenInv(s)
  PROVE  HeadInv(t) /\ OpenInv(t)
<1>0. s.delivered \subseteq Nat /\ s.published \in Nat
  BY DEF HistoryInv
<1>1. CASE Noted(s, t)
  BY <1>1, SameHead DEF Noted, HasFields, Fields
<1>2. CASE \E source \in Sources : \E hashes : t = Scanned(s, hashes, source)
  BY <1>2, ScanKeepsHead
<1>3. CASE \E wanted : t = Reverified(s, wanted)
  BY <1>3, ReverifyKeepsHead
<1>4. CASE MayCommit(s, t)
  BY <1>4, CommitKeepsHead DEF MayCommit
<1>5. CASE CanSubmit(s) /\ t = Submitted(s)
  BY <1>5, SameHead DEF Submitted, HasFields, Fields
<1>6. CASE ByPolicy(s, t) \/ ByRetire(s, t) \/ t = Tested(s)
  BY <1>6, SameHead DEF ByPolicy, ByRetire, Tested, HasFields, Fields
<1>7. CASE ByReview(s, t)
  <2>1. t.document = s.document /\ t.versions = s.versions /\ t.flags = s.flags
    BY <1>7 DEF ByReview, Reviewed, HasFields, Fields
  <2> QED BY <2>1, SameHead
<1>8. CASE ByPublish(s, t)
  <2>1. t.document = s.document /\ t.versions = s.versions /\ t.flags = s.flags
    BY <1>8, PublishEffect DEF ByPublish, Text
  <2> QED BY <2>1, SameHead
<1>9. CASE ByRollback(s, t)
  <2>1. t.document = s.document /\ t.versions = s.versions /\ t.flags = s.flags
    BY <1>0, <1>9, RollbackEffect DEF ByRollback, Text
  <2> QED BY <2>1, SameHead
<1> QED BY <1>1, <1>2, <1>3, <1>4, <1>5, <1>6, <1>7, <1>8, <1>9 DEF StepOf, ByRequest

HeadsInv ==
  HistoriesInv /\ \A i \in DOMAIN sets : HeadInv(sets[i]) /\ OpenInv(sets[i])

LEMMA HeadsStay == Spec => []HeadsInv
<1> DEFINE I == \A i \in DOMAIN sets : HeadInv(sets[i]) /\ OpenInv(sets[i])
<1>1. Init => I
  BY DEF Init
<1>2. HistoriesInv /\ I /\ [Next]_vars => I'
  <2> SUFFICES ASSUME HistoriesInv, I, [Next]_vars, NEW i \in DOMAIN sets'
               PROVE  HeadInv(sets'[i]) /\ OpenInv(sets'[i])
    OBVIOUS
  <2>1. CASE i \in DOMAIN sets
    <3>1. /\ StepOf(sets[i], sets'[i]) /\ HasFields(sets[i]) /\ HistoryInv(sets[i])
          /\ DocInv(sets[i])
      BY <2>1, EverySetMakesAStep DEF HistoriesInv, SetsInv
    <3> QED BY <2>1, <3>1, StepKeepsHead
  <2>2. CASE i \notin DOMAIN sets
    <3>1. IsNew(i, sets'[i])
      BY <2>2, EverySetSteps DEF HistoriesInv
    <3>2. PICK document : /\ sets'[i].document = document /\ sets'[i].versions = <<document>>
                          /\ sets'[i].flags = <<>>
      BY <3>1 DEF IsNew, NewSet
    <3>3. OpenFlags(sets'[i]) = {} /\ FlagShape(sets'[i])
      BY <3>2 DEF OpenFlags, FlagShape
    <3>4. sets'[i].versions[Version(sets'[i])] = document
      BY <3>2 DEF Version
    <3> QED BY <3>2, <3>3, <3>4, SameStepsIsAnEquivalence DEF HeadInv, OpenInv
  <2> QED BY <2>1, <2>2
<1> QED BY <1>1, <1>2, HistoriesStay, PTL DEF Spec, HeadsInv

-----------------------------------------------------------------------------
(* Edits.                                                                  *)

\* A commit leaves the steps that stay the same, with their hashes and their
\* open flags.
LeavesTheRest(s, t) ==
  LET same == DOMAIN t.document.steps \ StepsThatDiffer(s.document, t.document)
  IN  /\ \A id \in same : t.document.steps[id] = s.document.steps[id]
      /\ \A pair \in OpenFlags(s) : pair[1] \in same => pair \in OpenFlags(t)

LEMMA CommitIsLocal ==
  ASSUME NEW s, NEW author, NEW d, HasFields(s), OpenInv(s), IsDocument(d)
  PROVE  /\ SameSteps(Committed(s, author, d).document, d)
         /\ LeavesTheRest(s, Committed(s, author, d))
<1> DEFINE t == Committed(s, author, d)
           e == NextDocument(s, d)
           closing == FlagsClosedByEdit(s, e)
           same == DOMAIN e.steps \ StepsThatDiffer(s.document, e)
<1>0. FlagShape(s)
  BY DEF OpenInv
<1>1. t.document = e /\ t.flags = Closed(s.flags, closing)
  BY CommittedFields
<1>2. /\ SameSteps(e, d)
      /\ \A id \in DOMAIN e.steps \cap DOMAIN s.document.steps :
           SameStep(s.document.steps[id], e.steps[id]) => e.steps[id] = s.document.steps[id]
  BY NextHeadIsSame
<1>3. closing \in SUBSET OpenFlags(s)
  BY DEF FlagsClosedByEdit
<1>4. \A pair \in OpenFlags(s) :
        pair \in closing <=> (pair \in Pairs(e) => CitedHash(e, pair) = s.flags[pair].current)
  BY DEF FlagsClosedByEdit
<1> HIDE DEF t, e, closing
<1>5. OpenFlags(t) = OpenFlags(s) \ closing
  BY <1>0, <1>1, <1>3, ClosedFlags
<1>6. \A id \in same : id \in DOMAIN s.document.steps /\ e.steps[id] = s.document.steps[id]
  BY <1>2 DEF StepsThatDiffer
<1>7. ASSUME NEW pair \in OpenFlags(s), pair[1] \in same PROVE pair \in OpenFlags(t)
  <2>1. pair \in Pairs(s.document) /\ CitedHash(s.document, pair) # s.flags[pair].current
    BY DEF OpenInv
  <2>2. pair \in Pairs(e) /\ CitedHash(e, pair) = CitedHash(s.document, pair)
    BY <1>6, <1>7, <2>1 DEF Pairs, CitedHash
  <2> QED BY <1>4, <1>5, <2>1, <2>2
<1> QED BY <1>1, <1>2, <1>6, <1>7 DEF LeavesTheRest, t

LEMMA MergedIsDocument ==
  ASSUME SetsInv, NEW j \in DOMAIN sets, sets[j].parent \in DOMAIN sets
  PROVE  IsDocument(MergeOf(j))
<1>1. IsDocument(sets[sets[j].parent].document) /\ IsDocument(sets[j].document)
  BY DEF SetsInv, DocInv
<1> QED BY <1>1, MergedDocument DEF MergeOf, MergedInto

\* An edit differs from the head in one step at most: it is the last version,
\* which says what the head says, changed in one thing.
LEMMA EditIsOfOneStep ==
  ASSUME NEW s, NEW author, NEW change \in Changes, HasFields(s), DocInv(s), HeadInv(s), OpenInv(s),
         Version(s) \in DOMAIN s.versions
  PROVE  LET t == Committed(s, author, Apply(change, s.versions[Version(s)]))
         IN  Cardinality(StepsThatDiffer(s.document, t.document)) <= 1
<1> DEFINE last == s.versions[Version(s)]
           d == Apply(change, last)
           t == Committed(s, author, d)
<1>1. IsDocument(last) /\ SameSteps(s.document, last)
  BY DEF DocInv, HeadInv
<1>2. IsDocument(d)
  BY <1>1, AppliedDocument
<1>3. SameSteps(t.document, d)
  BY <1>2, CommitIsLocal
<1>4. StepsThatDiffer(s.document, t.document) = StepsThatDiffer(last, d)
  BY <1>1, <1>3, DifferUpToHashes
<1>5. PICK id : StepsThatDiffer(last, d) \subseteq {id}
  BY <1>1, ChangeIsLocal
<1> HIDE DEF last, d, t
<1>6. Cardinality(StepsThatDiffer(last, d)) <= Cardinality({id})
  BY <1>5, FS_Singleton, FS_Subset
<1>7. Cardinality({id}) = 1
  BY FS_Singleton
<1> QED BY <1>4, <1>6, <1>7 DEF t, d, last

\* However edits, merges, re-verifications and changes of sources interleave: a
\* new version that is no merge differs from the head before in one step at most,
\* and every step it leaves alone keeps its hashes and its open flags (applyEdit,
\* keepHashesOfUnchangedSteps, flagsClosedByEdit).
THEOREM PortEditsAreLocal == Spec => EditsAreLocal
<1> DEFINE Local(i) ==
      LET d == sets[i].document
          e == sets'[i].document
          same == DOMAIN e.steps \ StepsThatDiffer(d, e)
          merging == \E j \in DOMAIN sets : sets'[j].merged # sets[j].merged
      IN  /\ merging \/ Cardinality(StepsThatDiffer(d, e)) <= 1
          /\ \A id \in same : e.steps[id] = d.steps[id]
          /\ \A pair \in OpenFlags(sets[i]) : pair[1] \in same => pair \in OpenFlags(sets'[i])
<1>1. HeadsInv /\ [Next]_vars => [\A i \in DOMAIN sets' : Grown(i) => Local(i)]_vars
  <2> SUFFICES ASSUME HeadsInv, [Next]_vars, NEW i \in DOMAIN sets', Grown(i) PROVE Local(i)
    OBVIOUS
  <2> DEFINE s == sets[i]
  <2>1. SetsInv /\ i \in DOMAIN sets
    BY DEF HeadsInv, HistoriesInv, Grown
  <2>2. HasFields(s) /\ DocInv(s) /\ HistoryInv(s) /\ HeadInv(s) /\ OpenInv(s)
    BY <2>1 DEF HeadsInv, HistoriesInv, SetsInv
  <2>3. sets'[i].versions # s.versions
    <3>1. Version(s) \in Nat
      BY <2>2 DEF HistoryInv, Version
    <3> QED BY <3>1 DEF Grown, Version
  <2>4. CASE AnEdit(i)
    <3>1. PICK p \in Principals, change \in Changes :
            /\ Version(s) \in DOMAIN s.versions
            /\ sets'[i] = Committed(s, p.name, Apply(change, s.versions[Version(s)]))
      BY <2>4 DEF AnEdit
    <3>2. IsDocument(Apply(change, s.versions[Version(s)]))
      BY <2>2, <3>1, AppliedDocument DEF DocInv
    <3>3. Cardinality(StepsThatDiffer(s.document, sets'[i].document)) <= 1
      BY <2>2, <3>1, EditIsOfOneStep
    <3>4. LeavesTheRest(s, sets'[i])
      BY <2>2, <3>1, <3>2, CommitIsLocal
    <3> HIDE DEF s
    <3> QED BY <3>3, <3>4 DEF LeavesTheRest, s
  <2>5. ASSUME NEW j \in DOMAIN sets, AMergeOf(j), sets[j].parent = i PROVE Local(i)
    <3>1. PICK p \in Principals, expected \in 0 .. MaxVersion : Merge(p, j, expected)
      BY <2>5 DEF AMergeOf
    <3>2. /\ sets'[i] = Committed(s, p.name, MergeOf(j))
          /\ sets[j].merged = 0
          /\ sets'[j] = [sets[j] EXCEPT !.merged = Version(s) + 1]
      BY <2>1, <2>5, <3>1, MergeEffect
    <3>3. sets'[j].merged = Version(s) + 1 /\ Version(s) \in Nat
      BY <2>1, <2>2, <3>2 DEF SetsInv, HasFields, Fields, HistoryInv, Version
    <3>4. IsDocument(MergeOf(j))
      BY <2>1, <2>5, MergedIsDocument
    <3>5. sets'[j].merged # sets[j].merged
      BY <3>2, <3>3
    <3>6. LeavesTheRest(s, sets'[i])
      BY <2>2, <3>2, <3>4, CommitIsLocal
    <3> QED BY <3>5, <3>6 DEF LeavesTheRest
  <2>6. ~AMergeOf(i)
    <3>1. AMergeOf(i) => sets'[i] = [s EXCEPT !.merged = Version(sets[s.parent]) + 1]
      BY <2>1, MergeEffect DEF AMergeOf
    <3> QED BY <2>2, <2>3, <3>1 DEF HasFields, Fields
  <2> QED BY <2>1, <2>3, <2>4, <2>5, <2>6, WhatChangesVersions
<1> QED BY <1>1, HeadsStay, PTL DEF Spec, EditsAreLocal

-----------------------------------------------------------------------------
(* Merges.                                                                 *)

\* For any documents and any edits on both sides: a merge has every step that
\* only the branch changed as the branch has it and every step the branch left
\* alone as the parent has it, and the branch says which version it became
\* (merge, mergeDocuments, keepHashesOfUnchangedSteps).
THEOREM PortMergeTakesBothSides == Spec => MergeTakesBothSides
<1> DEFINE Both(j) ==
      LET parent == sets[j].parent
          base   == sets[parent].versions[sets[j].base]
          ours   == sets[parent].document
          theirs == sets[j].document
          result == sets'[parent].document
      IN  /\ sets'[j].merged = Version(sets'[parent])
          /\ \A id \in StepsThatDiffer(base, theirs) \ StepsThatDiffer(base, ours) :
               id \notin StepsThatDiffer(theirs, result)
          /\ \A id \in (DOMAIN ours.steps \cup DOMAIN base.steps) \ StepsThatDiffer(base, theirs) :
               id \notin StepsThatDiffer(ours, result)
<1>1. HeadsInv /\ [Next]_vars =>
        [\A j \in DOMAIN sets : sets'[j].merged # sets[j].merged => Both(j)]_vars
  <2> SUFFICES ASSUME HeadsInv, [Next]_vars, NEW j \in DOMAIN sets,
                      sets'[j].merged # sets[j].merged
               PROVE  Both(j)
    OBVIOUS
  <2>1. SetsInv
    BY DEF HeadsInv, HistoriesInv
  <2>2. AMergeOf(j)
    <3>1. ASSUME NEW k \in DOMAIN sets, AMergeOf(k), sets[k].parent = j PROVE FALSE
      <4>1. PICK p \in Principals, expected \in 0 .. MaxVersion : Merge(p, k, expected)
        BY <3>1 DEF AMergeOf
      <4>2. sets'[j] = Committed(sets[j], p.name, MergeOf(k))
        <5> HIDE DEF Both
        <5>1. k \in DOMAIN sets
          BY <3>1
        <5>2. sets'[sets[k].parent] = Committed(sets[sets[k].parent], p.name, MergeOf(k))
          BY <2>1, <4>1, <5>1, MergeEffect
        <5> QED BY <3>1, <5>2
      <4>3. sets'[j].merged = sets[j].merged
        BY <2>1, <4>2, CommittedFields DEF SetsInv
      <4> QED BY <4>3
    <3>2. ~AnEdit(j)
      BY DEF AnEdit
    <3> QED BY <2>1, <3>1, <3>2, WhatChangesVersions
  <2>3. PICK p \in Principals, expected \in 0 .. MaxVersion : Merge(p, j, expected)
    BY <2>2 DEF AMergeOf
  <2> DEFINE q == sets[j].parent
             base == sets[q].versions[sets[j].base]
             ours == sets[q].document
             theirs == sets[j].document
             m == Merged(base, ours, theirs)
  <2>4. /\ q \in DOMAIN sets
        /\ sets'[q] = Committed(sets[q], p.name, MergeOf(j))
        /\ sets'[j] = [sets[j] EXCEPT !.merged = Version(sets[q]) + 1]
    BY <2>1, <2>3, MergeEffect
  <2>5. MergeOf(j) = m
    BY DEF MergeOf, MergedInto
  <2>6. /\ HasFields(sets[q]) /\ OpenInv(sets[q]) /\ HistoryInv(sets[q]) /\ HasFields(sets[j])
    BY <2>1, <2>4 DEF HeadsInv, HistoriesInv, SetsInv
  <2>7. SameSteps(sets'[q].document, m)
    BY <2>1, <2>4, <2>5, <2>6, MergedIsDocument, CommitIsLocal
  <2>8. sets'[j].merged = Version(sets'[q])
    <3>1. sets'[q].versions = Append(sets[q].versions, NextDocument(sets[q], MergeOf(j)))
      BY <2>4, <2>6, CommittedFields
    <3>2. PICK S : sets[q].versions \in Seq(S)
      BY <2>6 DEF HistoryInv
    <3>3. Len(sets'[q].versions) = Len(sets[q].versions) + 1
      <4>1. sets[q].versions \in Seq(S \cup {NextDocument(sets[q], MergeOf(j))})
        BY <3>2
      <4> QED BY <3>1, <4>1
    <3>4. sets'[j].merged = Version(sets[q]) + 1
      BY <2>4, <2>6 DEF HasFields, Fields
    <3> QED BY <3>3, <3>4 DEF Version
  <2>9. StepsThatDiffer(theirs, sets'[q].document) = StepsThatDiffer(theirs, m)
        /\ StepsThatDiffer(ours, sets'[q].document) = StepsThatDiffer(ours, m)
    BY <2>7, DifferUpToHashes
  <2> HIDE DEF m, base, ours, theirs, q
  <2>10. \A id : /\ id \in StepsThatDiffer(base, theirs) \ StepsThatDiffer(base, ours) =>
                      id \notin StepsThatDiffer(theirs, m)
                 /\ id \in (DOMAIN ours.steps \cup DOMAIN base.steps) \ StepsThatDiffer(base, theirs) =>
                      id \notin StepsThatDiffer(ours, m)
    BY MergedStepOfOneSide DEF m
  <2> QED BY <2>8, <2>9, <2>10 DEF m, base, ours, theirs, q
<1> QED BY <1>1, HeadsStay, PTL DEF Spec, MergeTakesBothSides

-----------------------------------------------------------------------------
(* Type correctness.                                                       *)

FlagsTyped(s) == \A pair \in DOMAIN s.flags : s.flags[pair] \in [current : Hashes, open : BOOLEAN]

\* What is typed of a set, beside its history.  A set in review has been
\* submitted, so its decisions have a round to be in.
SetTypeInv(s) ==
  /\ s.state \in State
  /\ Version(s) <= MaxVersion
  /\ s.round \in 0 .. MaxRounds /\ (s.state = "in_review" => s.round >= 1)
  /\ s.deadline \subseteq Nat /\ s.escalated \in BOOLEAN
  /\ s.reviews \subseteq Decision
  /\ \A r \in s.reviews : r.version \in 1 .. Version(s) /\ r.round \in 1 .. s.round
  /\ s.cases \subseteq Cases /\ s.run.version \in 0 .. Version(s)
  /\ FlagsTyped(s)
  /\ Targets # {} => s.published \in s.delivered \cup {0}

\* The fields a request that is about something else leaves alone.
Rest(s) == <<s.deadline, s.escalated, s.cases, s.run, s.flags, s.delivered, s.published>>

LEMMA SameType ==
  ASSUME NEW s, NEW t, SetTypeInv(s), Rest(t) = Rest(s), t.versions = s.versions,
         t.round = s.round, t.reviews = s.reviews,
         t.state \in State, t.state = "in_review" => s.state = "in_review"
  PROVE  SetTypeInv(t)
BY DEF SetTypeInv, Rest, FlagsTyped, Version

LEMMA ClosedFlagsTyped ==
  ASSUME NEW s, NEW t, NEW pairs, FlagsTyped(s), t.flags = Closed(s.flags, pairs)
  PROVE  FlagsTyped(t)
<1>1. DOMAIN t.flags = DOMAIN s.flags
  BY DEF Closed
<1>2. ASSUME NEW pair \in DOMAIN s.flags
      PROVE  t.flags[pair] \in [current : Hashes, open : BOOLEAN]
  <2>1. t.flags[pair] = IF pair \in pairs THEN [s.flags[pair] EXCEPT !.open = FALSE]
                        ELSE s.flags[pair]
    BY DEF Closed
  <2>2. s.flags[pair] \in [current : Hashes, open : BOOLEAN]
    BY DEF FlagsTyped
  <2> QED BY <2>1, <2>2
<1> QED BY <1>1, <1>2 DEF FlagsTyped

LEMMA CommitKeepsType ==
  ASSUME NEW s, NEW t, HasFields(s), HistoryInv(s), SetTypeInv(s), MayCommit(s, t)
  PROVE  SetTypeInv(t)
<1>1. PICK p \in Principals : \E d : CanCommit(s, d) /\ t = Committed(s, p.name, d)
  BY DEF MayCommit
<1>2. PICK d : CanCommit(s, d) /\ t = Committed(s, p.name, d)
  BY <1>1
<1>3. /\ t.flags = Closed(s.flags, FlagsClosedByEdit(s, NextDocument(s, d)))
      /\ t.deadline = s.deadline /\ t.escalated = s.escalated /\ t.cases = s.cases
      /\ t.state = AfterEdit(s.state)
  BY <1>2 DEF Committed, HasFields, Fields
<1>4. FlagsTyped(t)
  BY <1>3, ClosedFlagsTyped DEF SetTypeInv
<1>5. /\ Version(t) = Version(s) + 1 /\ t.state # "in_review"
      /\ t.round = s.round /\ t.reviews = s.reviews /\ t.run = s.run
      /\ t.delivered = s.delivered /\ t.published = s.published
  BY CommitEffect
<1>6. t.state \in State
  BY <1>3 DEF SetTypeInv, AfterEdit, Target, Transitions, State
<1>7. Version(s) \in Nat /\ Version(s) < MaxVersion
  BY <1>2, BoundsAssumption DEF CanCommit, HistoryInv, Version
<1>8. Version(t) \in Nat /\ Version(t) <= MaxVersion
  BY <1>5, <1>7, BoundsAssumption
<1> QED BY <1>3, <1>4, <1>5, <1>6, <1>7, <1>8 DEF SetTypeInv

LEMMA SubmitKeepsType ==
  ASSUME NEW s, HasFields(s), SetTypeInv(s), CanSubmit(s), now \in Nat, s.policy \in Policies
  PROVE  SetTypeInv(Submitted(s))
<1> DEFINE t == Submitted(s)
           deadline == {now + h : h \in s.policy.hours}
<1>1. /\ t.state = "in_review" /\ t.round = s.round + 1 /\ t.deadline = deadline
      /\ t.escalated = FALSE /\ t.versions = s.versions /\ t.reviews = s.reviews
      /\ t.cases = s.cases /\ t.run = s.run /\ t.flags = s.flags
      /\ t.delivered = s.delivered /\ t.published = s.published
  BY DEF Submitted, HasFields, Fields, Target, SubmitAction, Transitions
<1>2. deadline \subseteq Nat
  BY PoliciesAssumption
<1> HIDE DEF t, deadline
<1>3. t.round \in 1 .. MaxRounds /\ s.round \in Nat
  BY <1>1, BoundsAssumption DEF CanSubmit, SetTypeInv
<1>4. \A r \in s.reviews : r.round \in 1 .. t.round
  BY <1>1, <1>3 DEF SetTypeInv
<1>5. t.round \in 0 .. MaxRounds /\ t.round >= 1
  BY <1>3
<1>6. FlagsTyped(t) /\ Version(t) = Version(s)
  BY <1>1 DEF SetTypeInv, FlagsTyped, Version
<1>7. t.state \in State /\ t.escalated \in BOOLEAN
  BY <1>1 DEF State
<1>8. \A r \in t.reviews : r.version \in 1 .. Version(t) /\ r.round \in 1 .. t.round
  BY <1>1, <1>4, <1>6 DEF SetTypeInv
<1>9. SetTypeInv(t)
  BY <1>1, <1>2, <1>5, <1>6, <1>7, <1>8 DEF SetTypeInv
<1> QED BY <1>9 DEF t

LEMMA ReviewKeepsType ==
  ASSUME NEW s, NEW t, HasFields(s), HistoryInv(s), SetTypeInv(s), ByReview(s, t)
  PROVE  SetTypeInv(t)
<1>1. PICK p \in Principals, decision \in {"approve", "request_changes"} :
        MayReview(p, s) /\ t = Reviewed(s, p, decision)
  BY DEF ByReview
<1> DEFINE row == [reviewer |-> p.name, role |-> p.role, version |-> Version(s),
                   round |-> s.round, decision |-> decision]
<1>2. /\ s.state = "in_review" /\ p.role \in {"reviewer", "admin"} /\ p.name \in Names
  BY <1>1 DEF MayReview, Names
<1>3. /\ t.reviews = s.reviews \cup {row}
      /\ t.round = s.round /\ t.versions = s.versions
      /\ t.state \in {"changes_requested", "approved", "in_review"}
  <2>1. IsDecided(s, p, decision, t)
    BY <1>1, <1>2, DecisionEffect
  <2> QED BY <2>1 DEF IsDecided
<1>4. Rest(t) = Rest(s)
  BY <1>1 DEF Rest, Reviewed, HasFields, Fields
<1>5. Version(s) \in 1 .. Version(s) /\ s.round \in 1 .. s.round
  BY <1>2 DEF HistoryInv, Version, SetTypeInv
<1>6. row \in Decision /\ row.version = Version(s) /\ row.round = s.round
  BY <1>2, <1>5 DEF Decision
<1> HIDE DEF row
<1>7. /\ t.reviews \subseteq Decision
      /\ \A r \in t.reviews : r.version \in 1 .. Version(t) /\ r.round \in 1 .. t.round
  BY <1>3, <1>5, <1>6 DEF SetTypeInv, Version
<1>8. t.state \in State
  BY <1>3 DEF State
<1> QED BY <1>2, <1>3, <1>4, <1>7, <1>8 DEF SetTypeInv, Rest, FlagsTyped, Version

LEMMA PublishKeepsType ==
  ASSUME NEW s, NEW t, HasFields(s), SetTypeInv(s), ByPublish(s, t)
  PROVE  SetTypeInv(t)
<1>1. PICK refusing \in SUBSET Targets : t = Published(s, refusing)
  BY DEF ByPublish
<1>2. /\ Text(t) = Text(s) /\ t.flags = s.flags
      /\ IF refusing = {} THEN t.state = "published" /\ t.published = Version(s)
         ELSE t.state = s.state /\ t.published = s.published
  BY <1>1, PublishEffect
<1>3. /\ t.deadline = s.deadline /\ t.escalated = s.escalated /\ t.cases = s.cases
      /\ t.delivered = IF refusing = Targets THEN s.delivered ELSE s.delivered \cup {Version(s)}
  BY <1>1 DEF Published, Deliver, HasFields, Fields
<1>4. Targets # {} => t.published \in t.delivered \cup {0}
  BY <1>2, <1>3 DEF SetTypeInv
<1> QED BY <1>2, <1>3, <1>4 DEF SetTypeInv, Text, FlagsTyped, Version, State

LEMMA RequestKeepsType ==
  ASSUME NEW s, NEW t, HasFields(s), HistoryInv(s), s.policy \in Policies, now \in Nat,
         SetTypeInv(s), ByRequest(s, t)
  PROVE  SetTypeInv(t)
<1>0. s.delivered \subseteq Nat /\ s.published \in Nat /\ Version(s) \in Nat
  BY DEF HistoryInv, Version
<1>1. CASE Noted(s, t)
  <2>1. CASE t = [s EXCEPT !.escalated = TRUE]
    BY <2>1 DEF SetTypeInv, HasFields, Fields, FlagsTyped, Version
  <2>2. ASSUME NEW case \in Cases, t = [s EXCEPT !.cases = @ \cup {case}] PROVE SetTypeInv(t)
    BY <2>2 DEF SetTypeInv, HasFields, Fields, FlagsTyped, Version
  <2>3. CASE \E v : t = [s EXCEPT !.merged = v]
    BY <2>3, SameType DEF SetTypeInv, HasFields, Fields, Rest
  <2> QED BY <1>1, <2>1, <2>2, <2>3 DEF Noted
<1>2. ASSUME NEW wanted, t = Reverified(s, wanted) PROVE SetTypeInv(t)
  <2>1. /\ t.flags = Closed(s.flags, Verified(s, wanted))
        /\ t.state = s.state /\ t.round = s.round /\ t.versions = s.versions
        /\ t.reviews = s.reviews /\ t.deadline = s.deadline /\ t.escalated = s.escalated
        /\ t.cases = s.cases /\ t.run = s.run /\ t.delivered = s.delivered
        /\ t.published = s.published
    BY <1>2 DEF Reverified, HasFields, Fields
  <2>2. FlagsTyped(t)
    BY <2>1, ClosedFlagsTyped DEF SetTypeInv
  <2> QED BY <2>1, <2>2 DEF SetTypeInv, Version
<1>3. CASE MayCommit(s, t)
  BY <1>3, CommitKeepsType
<1>4. CASE CanSubmit(s) /\ t = Submitted(s)
  BY <1>4, SubmitKeepsType
<1>5. CASE ByPolicy(s, t) \/ ByRetire(s, t)
  BY <1>5, SameType DEF ByPolicy, ByRetire, Rest, HasFields, Fields, Target, Transitions, State,
                        SetTypeInv
<1>6. CASE t = Tested(s)
  <2>1. /\ t.run.version = Version(s)
        /\ t.state = s.state /\ t.round = s.round /\ t.versions = s.versions
        /\ t.reviews = s.reviews /\ t.deadline = s.deadline /\ t.escalated = s.escalated
        /\ t.cases = s.cases /\ t.flags = s.flags /\ t.delivered = s.delivered
        /\ t.published = s.published
    BY <1>6 DEF Tested, HasFields, Fields
  <2> QED BY <1>0, <2>1 DEF SetTypeInv, FlagsTyped, Version
<1>7. CASE ByReview(s, t)
  BY <1>7, ReviewKeepsType
<1>8. CASE ByPublish(s, t)
  BY <1>8, PublishKeepsType
<1>9. CASE ByRollback(s, t)
  <2>1. PICK v \in Earlier(s) :
          /\ Text(t) = Text(s) /\ t.state = s.state /\ t.delivered = s.delivered
          /\ t.flags = s.flags /\ t.published \in {s.published, v}
    BY <1>0, <1>9, RollbackEffect DEF ByRollback
  <2>2. t.deadline = s.deadline /\ t.escalated = s.escalated /\ t.cases = s.cases
    BY <1>9 DEF ByRollback, RolledBack, Deliver, HasFields, Fields
  <2>3. v \in s.delivered
    BY DEF Earlier
  <2> QED BY <2>1, <2>2, <2>3 DEF SetTypeInv, Text, FlagsTyped, Version
<1> QED BY <1>1, <1>2, <1>3, <1>4, <1>5, <1>6, <1>7, <1>8, <1>9 DEF ByRequest

LEMMA ScanKeepsType ==
  ASSUME NEW s, NEW hashes \in [Sources -> Hashes], NEW source \in Sources,
         HasFields(s), SetTypeInv(s)
  PROVE  SetTypeInv(Scanned(s, hashes, source))
<1> DEFINE fresh == ScanDocument(s, hashes, source)
           F == [pair \in fresh \cup DOMAIN s.flags |->
                   IF pair \in fresh THEN [current |-> hashes[source], open |-> TRUE]
                   ELSE s.flags[pair]]
           u == [s EXCEPT !.flags = F]
<1>1. Scanned(s, hashes, source) = IF s.state = "retired" THEN s ELSE u
  BY DEF Scanned
<1>2. \A pair \in DOMAIN F : F[pair] \in [current : Hashes, open : BOOLEAN]
  BY DEF SetTypeInv, FlagsTyped
<1> HIDE DEF F
<1>3. /\ u.flags = F
      /\ u.state = s.state /\ u.round = s.round /\ u.versions = s.versions
      /\ u.reviews = s.reviews /\ u.deadline = s.deadline /\ u.escalated = s.escalated
      /\ u.cases = s.cases /\ u.run = s.run /\ u.delivered = s.delivered
      /\ u.published = s.published
  BY DEF HasFields, Fields
<1> HIDE DEF u
<1>4. SetTypeInv(u)
  BY <1>2, <1>3 DEF SetTypeInv, FlagsTyped, Version
<1> QED BY <1>1, <1>4

\* A set that was not there: at version 1, with everything still to come.
LEMMA NewIsTyped ==
  ASSUME NEW i, NEW s, IsNew(i, s)
  PROVE  SetTypeInv(s) /\ s.merged = 0
<1>1. PICK document : /\ s.versions = <<document>> /\ s.state = "draft" /\ s.round = 0
                      /\ s.deadline = {} /\ s.escalated = FALSE /\ s.reviews = {}
                      /\ s.cases = {} /\ s.run = NoRun /\ s.flags = <<>> /\ s.published = 0
                      /\ s.merged = 0
  BY DEF IsNew, NewSet
<1>2. Version(s) = 1 /\ DOMAIN s.flags = {}
  BY <1>1 DEF Version
<1>3. s.run.version = 0 /\ s.state \in State /\ FlagsTyped(s)
  BY <1>1, <1>2 DEF NoRun, State, FlagsTyped
<1>4. 1 <= MaxVersion /\ 0 \in 0 .. MaxRounds /\ 0 \in 0 .. 1
  BY BoundsAssumption
<1> QED BY <1>1, <1>2, <1>3, <1>4 DEF SetTypeInv

LEMMA FewSets ==
  ASSUME SetsInv, Len(sets) <= MaxSets, [Next]_vars
  PROVE  Len(sets') <= MaxSets
<1>1. PICK S : sets \in Seq(S)
  BY DEF SetsInv
<1>2. ASSUME DOMAIN sets' = DOMAIN sets, \E T : sets' \in Seq(T) PROVE Len(sets') <= MaxSets
  BY <1>1, <1>2
<1>3. ASSUME NEW t, Add(t), Len(sets) < MaxSets PROVE Len(sets') <= MaxSets
  <2>1. sets \in Seq(S \cup {t}) /\ sets' = Append(sets, t)
    BY <1>1, <1>3 DEF Add
  <2> QED BY <1>3, <2>1, BoundsAssumption
<1>4. CASE \E note \in Notes, policy \in Policies : IngestNote(note, policy)
  BY <1>3, <1>4 DEF IngestNote
<1>5. ASSUME NEW i \in DOMAIN sets, OnSet(i) PROVE Len(sets') <= MaxSets
  <2>1. CASE \E version \in 1 .. MaxVersion : Branch(i, version)
    BY <1>3, <2>1 DEF Branch
  <2>2. CASE AMergeOf(i)
    BY <1>2, <2>2, MergeIsTwoSteps DEF AMergeOf
  <2>3. CASE /\ ~ \E version \in 1 .. MaxVersion : Branch(i, version)
             /\ ~ AMergeOf(i)
    <3>1. PICK t : Put(i, t)
      BY <1>5, <2>3, RequestsAreSteps DEF AMergeOf
    <3> QED BY <1>2, <3>1, OneSetChanges
  <2> QED BY <2>1, <2>2, <2>3
<1>6. CASE \E source \in Sources, hash \in Hashes : Rehash(source, hash)
  BY <1>2, <1>6, RehashScansAll
<1>7. CASE EscalateOverdue
  BY <1>2, <1>7, EscalationMarks
<1>8. CASE (\E hours \in 1 .. MaxHours : Advance(hours)) \/ UNCHANGED vars
  BY <1>1, <1>2, <1>8 DEF Advance, vars
<1> QED BY <1>4, <1>5, <1>6, <1>7, <1>8 DEF Next

TypeInv ==
  /\ HistoriesInv
  /\ RegistryInv
  /\ now \in 0 .. MaxHours
  /\ Len(sets) <= MaxSets
  /\ \A i \in DOMAIN sets : SetTypeInv(sets[i]) /\ sets[i].merged \in 0 .. MaxVersion

LEMMA TypeStays == Spec => []TypeInv
<1> DEFINE I == /\ RegistryInv
                /\ now \in 0 .. MaxHours
                /\ Len(sets) <= MaxSets
                /\ \A i \in DOMAIN sets : SetTypeInv(sets[i]) /\ sets[i].merged \in 0 .. MaxVersion
<1>1. Init => I
  BY BoundsAssumption DEF Init, RegistryInv
<1>2. HistoriesInv /\ I /\ [Next]_vars => I'
  <2> SUFFICES ASSUME HistoriesInv, I, [Next]_vars PROVE I'
    OBVIOUS
  <2>1. SetsInv
    BY DEF HistoriesInv
  <2>2. RegistryInv'
    <3>1. CASE registry' = registry
      BY <3>1 DEF RegistryInv
    <3>2. ASSUME NEW source \in Sources, NEW hash \in Hashes, Rehash(source, hash)
          PROVE  RegistryInv'
      BY <3>2 DEF Rehash, RegistryInv
    <3> QED BY <2>1, <3>1, <3>2, EverySetSteps
  <2>3. now' \in 0 .. MaxHours
    <3>1. ASSUME NEW hours \in 1 .. MaxHours, Advance(hours) PROVE now' \in 0 .. MaxHours
      BY <3>1, BoundsAssumption DEF Advance
    <3>2. CASE now' = now
      BY <3>2
    <3>3. now' = now \/ \E hours \in 1 .. MaxHours : Advance(hours)
      <4>1. ASSUME NEW j \in DOMAIN sets, OnSet(j) PROVE now' = now
        <5>1. CASE Submit(j) \/ RunTests(j) \/ \E case \in Cases : AddTestCase(j, case)
          BY <5>1 DEF Submit, RunTests, AddTestCase, Request
        <5>2. CASE \/ \E policy \in Policies : SetReviewPolicy(j, policy)
                   \/ \E wanted \in SUBSET DOMAIN sets[j].document.steps : Reverify(j, wanted)
                   \/ \E version \in 1 .. MaxVersion : Branch(j, version)
          BY <5>2 DEF SetReviewPolicy, Reverify, Branch, Request
        <5>3. ASSUME NEW p \in Principals,
                     \/ \E decision \in {"approve", "request_changes"} : Review(p, j, decision)
                     \/ \E expected \in 1 .. MaxVersion, change \in Changes : ApplyEdit(p, j, expected, change)
                     \/ \E expected \in 0 .. MaxVersion : Merge(p, j, expected)
              PROVE  now' = now
          BY <5>3 DEF Review, ApplyEdit, Merge, Request
        <5>4. ASSUME NEW p \in Principals,
                     \/ Retire(p, j)
                     \/ \E refusing \in SUBSET Targets : Publish(p, j, refusing) \/ Rollback(p, j, refusing)
              PROVE  now' = now
          BY <5>4 DEF Retire, Publish, Rollback, Request
        <5> QED BY <4>1, <5>1, <5>2, <5>3, <5>4 DEF OnSet
      <4>2. ASSUME NEW note \in Notes, NEW policy \in Policies, IngestNote(note, policy)
            PROVE  now' = now
        BY <4>2 DEF IngestNote
      <4>3. (\E source \in Sources, hash \in Hashes : Rehash(source, hash)) => now' = now
        BY DEF Rehash
      <4>4. EscalateOverdue \/ UNCHANGED vars => now' = now
        BY DEF EscalateOverdue, vars
      <4> QED BY <4>1, <4>2, <4>3, <4>4 DEF Next
    <3> QED BY <3>1, <3>2, <3>3
  <2>4. Len(sets') <= MaxSets
    BY <2>1, FewSets
  <2>5. ASSUME NEW i \in DOMAIN sets', i \in DOMAIN sets
        PROVE  SetTypeInv(sets'[i])
    <3>1. /\ HasFields(sets[i]) /\ HistoryInv(sets[i]) /\ SetTypeInv(sets[i])
          /\ sets[i].policy \in Policies /\ now \in Nat
      BY <2>5, BoundsAssumption DEF HistoriesInv, SetsInv
    <3>2. CASE ByRequest(sets[i], sets'[i])
      BY <3>1, <3>2, RequestKeepsType
    <3>3. CASE \E source \in Sources : sets'[i] = Scanned(sets[i], registry', source)
      BY <2>2, <3>1, <3>3, ScanKeepsType DEF RegistryInv
    <3> QED BY <2>1, <2>5, <3>2, <3>3, EverySetSteps
  <2>6. ASSUME NEW i \in DOMAIN sets', i \in DOMAIN sets
        PROVE  sets'[i].merged \in 0 .. MaxVersion
    <3>1. sets[i].merged \in 0 .. MaxVersion
      BY <2>6
    <3>2. ASSUME AMergeOf(i) PROVE sets'[i].merged \in 0 .. MaxVersion
      <4>1. PICK p \in Principals, expected \in 0 .. MaxVersion : Merge(p, i, expected)
        BY <3>2 DEF AMergeOf
      <4> DEFINE q == sets[i].parent
      <4>2. /\ q \in DOMAIN sets
            /\ sets'[i] = [sets[i] EXCEPT !.merged = Version(sets[q]) + 1]
        BY <2>1, <2>6, <4>1, MergeEffect
      <4>3. sets'[i].merged = Version(sets[q]) + 1
        BY <2>1, <2>6, <4>2 DEF SetsInv, HasFields, Fields
      <4>4. Version(sets[q]) \in Nat
        BY <4>2 DEF HistoriesInv, HistoryInv, Version
      <4>5. Version(sets[q]) < MaxVersion
        BY <4>1, <4>4, BoundsAssumption DEF Merge, CanCommit
      <4> QED BY <4>3, <4>4, <4>5, BoundsAssumption
    <3>3. ASSUME NEW j \in DOMAIN sets, AMergeOf(j), sets[j].parent = i
          PROVE  sets'[i].merged = sets[i].merged
      <4>1. PICK p \in Principals, expected \in 0 .. MaxVersion : Merge(p, j, expected)
        BY <3>3 DEF AMergeOf
      <4>2. sets'[i] = Committed(sets[i], p.name, MergeOf(j))
        <5>1. sets'[sets[j].parent] = Committed(sets[sets[j].parent], p.name, MergeOf(j))
          BY <2>1, <4>1, MergeEffect
        <5> QED BY <3>3, <5>1
      <4> QED BY <2>1, <2>6, <4>2, CommittedFields DEF SetsInv
    <3> QED BY <2>1, <2>6, <3>1, <3>2, <3>3, WhatChangesVersions DEF AnEdit
  <2>7. ASSUME NEW i \in DOMAIN sets', i \notin DOMAIN sets
        PROVE  SetTypeInv(sets'[i]) /\ sets'[i].merged \in 0 .. MaxVersion
    BY <2>1, <2>7, EverySetSteps, NewIsTyped, BoundsAssumption
  <2> QED BY <2>2, <2>3, <2>4, <2>5, <2>6, <2>7
<1> QED BY <1>1, <1>2, HistoriesStay, PTL DEF Spec, TypeInv

\* Whatever is asked of the service in whatever order, its records stay what
\* their types say: decisions and runs are of versions and rounds there were,
\* what is live was delivered, branches come after their parents.
THEOREM PortTypeCorrect == Spec => []ServiceTypeOK
<1>1. TypeInv => ServiceTypeOK
  <2> SUFFICES ASSUME TypeInv PROVE ServiceTypeOK
    OBVIOUS
  <2>1. SetsInv
    BY DEF TypeInv, HistoriesInv
  <2>2. ASSUME NEW i \in DOMAIN sets
        PROVE  LET s == sets[i] IN
               /\ s.state \in State
               /\ Version(s) <= MaxVersion /\ Len(s.authors) = Version(s)
               /\ s.policy \in Policies
               /\ s.round \in 0 .. MaxRounds
               /\ s.deadline \subseteq Nat /\ s.escalated \in BOOLEAN
               /\ s.reviews \subseteq Decision
               /\ \A r \in s.reviews : r.version \in 1 .. Version(s) /\ r.round \in 1 .. s.round
               /\ s.cases \subseteq Cases /\ s.run.version \in 0 .. Version(s)
               /\ \A pair \in DOMAIN s.flags : s.flags[pair] \in [current : Hashes, open : BOOLEAN]
               /\ s.delivered \subseteq 1 .. Version(s)
               /\ s.published \in 0 .. Version(s)
               /\ Targets # {} => s.published \in s.delivered \cup {0}
               /\ s.parent \in 0 .. i - 1 /\ s.merged \in 0 .. MaxVersion
    <3>1. /\ SetTypeInv(sets[i]) /\ sets[i].merged \in 0 .. MaxVersion /\ HistoryInv(sets[i])
          /\ sets[i].policy \in Policies
      BY <2>1 DEF TypeInv, HistoriesInv, SetsInv
    <3>2. sets[i].parent \in 0 .. i - 1
      <4>1. i \in Nat
        BY <2>1 DEF SetsInv
      <4>2. sets[i].parent \in Nat /\ sets[i].parent < i
        BY <2>1 DEF SetsInv
      <4> QED BY <4>1, <4>2
    <3> QED BY <3>1, <3>2 DEF SetTypeInv, FlagsTyped, HistoryInv
  <2> QED BY <2>2 DEF TypeInv, RegistryInv, ServiceTypeOK
<1> QED BY <1>1, TypeStays, PTL
=============================================================================
