---------------------------- MODULE ServiceProofs ----------------------------
(***************************************************************************)
(* Proofs about Service, for any number of sets, people, notes, policies,  *)
(* sources, targets and changes: what a live version means for the         *)
(* targets, what an approved head rests on, that a set keeps the promise   *)
(* of Release, and that stale citations are flagged.                       *)
(*                                                                         *)
(* An operation changes one set, by one of the functions in StepOf; a scan *)
(* or an escalation changes each set by one of them.  The invariants are   *)
(* about single sets and are proved for StepOf.                            *)
(***************************************************************************)
EXTENDS Service, WellFoundedInduction, TLAPS

Fields ==
  {"state", "document", "versions", "authors", "required", "policy", "round", "deadline",
   "escalated", "reviews", "cases", "run", "flags", "delivered", "published", "parent",
   "base", "merged", "approved", "greens", "holds", "settled"}

HasFields(s) == Fields \subseteq DOMAIN s

MayCommit(s, t) ==
  \E p \in Principals : \E d :
    IsDocument(d) /\ CanCommit(s, d) /\ t = Committed(s, p.name, d)

DocInv(s) ==
  /\ IsDocument(s.document)
  /\ \E S : s.versions \in Seq(S)
  /\ \A v \in DOMAIN s.versions : IsDocument(s.versions[v])

ByReview(s, t) ==
  \E p \in Principals, decision \in {"approve", "request_changes"} :
    MayReview(p, s) /\ t = Reviewed(s, p, decision)

ByPublish(s, t) ==
  \E refusing \in SUBSET Targets : PublishGate(s) /\ t = Published(s, refusing)

ByRollback(s, t) ==
  \E refusing \in SUBSET Targets : Earlier(s) # {} /\ t = RolledBack(s, refusing)

ByRetire(s, t) ==
  CanTransition("retire", s.state) /\ t = [s EXCEPT !.state = Target("retire")]

ByPolicy(s, t) ==
  s.state # "in_review" /\ \E policy \in Policies : t = [s EXCEPT !.policy = policy]

\* Bookkeeping that none of state, versions, reviews or deliveries takes part in.
Noted(s, t) ==
  \/ t = s
  \/ t = [s EXCEPT !.escalated = TRUE]
  \/ \E case \in Cases : t = [s EXCEPT !.cases = @ \cup {case}]
  \/ \E v : t = [s EXCEPT !.merged = v]

\* What a request may make of a set.
ByRequest(s, t) ==
  \/ Noted(s, t)
  \/ \E wanted : t = Reverified(s, wanted)
  \/ MayCommit(s, t)
  \/ CanSubmit(s) /\ t = Submitted(s)
  \/ ByPolicy(s, t)
  \/ ByReview(s, t)
  \/ t = Tested(s)
  \/ ByPublish(s, t)
  \/ ByRollback(s, t)
  \/ ByRetire(s, t)

\* What any step may make of it.
StepOf(s, t) ==
  \/ ByRequest(s, t)
  \/ \E source \in Sources : \E hashes : t = Scanned(s, hashes, source)

\* A set that was not there before, which comes after its parent; what is no
\* branch cites the registry.
IsNew(i, s) ==
  \E parent \in Nat, approvals \in Nat, policy \in Policies : \E document, base :
    /\ s = NewSet(document, approvals, policy, parent, base)
    /\ parent < i
    /\ IsDocument(document)
    /\ parent = 0 => \E d : IsDocument(d) /\ document = ResolveCitations(d)

-----------------------------------------------------------------------------
(* Documents.                                                              *)

\* An operation on the citations of every step.
LEMMA ResolvedDocument ==
  ASSUME NEW d, IsDocument(d)
  PROVE  /\ IsDocument(ResolveCitations(d))
         /\ DOMAIN ResolveCitations(d).steps = DOMAIN d.steps
         /\ \A id \in DOMAIN d.steps :
              ResolveCitations(d).steps[id].citations = Linked(d.steps[id].citations)
<1> DEFINE S == [id \in DOMAIN d.steps |-> [d.steps[id] EXCEPT !.citations = Linked(@)]]
           E == [n \in DOMAIN d.entries |-> [d.entries[n] EXCEPT !.citations = Linked(@)]]
           e == [d EXCEPT !.steps = S, !.entries = E]
<1>1. ResolveCitations(d) = e
  BY DEF ResolveCitations
<1>2. /\ DOMAIN S = DOMAIN d.steps
      /\ \A id \in DOMAIN d.steps :
           IsStep(S[id]) /\ S[id].citations = Linked(d.steps[id].citations)
  BY DEF IsDocument, IsStep, StepFields
<1> HIDE DEF S, E
<1>3. e.steps = S /\ {"title", "steps", "entries"} \subseteq DOMAIN e
  BY DEF IsDocument
<1> HIDE DEF e
<1>4. IsDocument(e)
  BY <1>2, <1>3 DEF IsDocument
<1> QED BY <1>1, <1>2, <1>3, <1>4

\* In the next head a citation is what the registry says, or what it was.
LEMMA NextHead ==
  ASSUME NEW s, NEW d, IsDocument(s.document), IsDocument(d)
  PROVE  LET e == NextDocument(s, d) IN
         /\ IsDocument(e)
         /\ \A pair \in Pairs(e) :
              \/ CitedHash(e, pair) = registry[pair[2]]
              \/ pair \in Pairs(s.document) /\ CitedHash(e, pair) = CitedHash(s.document, pair)
<1> DEFINE old == s.document
           new == ResolveCitations(d)
           S == [id \in DOMAIN new.steps |->
                   IF id \in DOMAIN old.steps /\ SameStep(old.steps[id], new.steps[id])
                   THEN old.steps[id] ELSE new.steps[id]]
           e == [new EXCEPT !.steps = S]
<1>1. e = NextDocument(s, d)
  BY DEF NextDocument, KeepHashes
<1>2. /\ IsDocument(new) /\ DOMAIN new.steps = DOMAIN d.steps
      /\ \A id \in DOMAIN d.steps : new.steps[id].citations = Linked(d.steps[id].citations)
  BY ResolvedDocument
<1>3. /\ DOMAIN S = DOMAIN d.steps
      /\ \A id \in DOMAIN d.steps :
           \/ id \in DOMAIN old.steps /\ S[id] = old.steps[id]
           \/ S[id] = new.steps[id]
  BY <1>2
<1> HIDE DEF new, S
<1>4. e.steps = S /\ {"title", "steps", "entries"} \subseteq DOMAIN e
  BY <1>2 DEF IsDocument
<1> HIDE DEF e
<1>5. IsDocument(e)
  BY <1>2, <1>3, <1>4 DEF IsDocument
<1>6. ASSUME NEW pair \in Pairs(e)
      PROVE  \/ CitedHash(e, pair) = registry[pair[2]]
             \/ pair \in Pairs(old) /\ CitedHash(e, pair) = CitedHash(old, pair)
  <2> DEFINE id == pair[1]
             source == pair[2]
  <2>1. pair \in (DOMAIN e.steps) \X Sources /\ source \in DOMAIN e.steps[id].citations
    BY DEF Pairs
  <2>2. id \in DOMAIN S /\ id \in DOMAIN d.steps
    BY <1>3, <1>4, <2>1
  <2>3. CASE id \in DOMAIN old.steps /\ S[id] = old.steps[id]
    BY <1>4, <2>1, <2>3 DEF Pairs, CitedHash
  <2>4. CASE S[id] = new.steps[id]
    <3>1. S[id].citations = Linked(d.steps[id].citations)
      BY <1>2, <2>2, <2>4
    <3>2. S[id].citations[source] = registry[source]
      BY <1>4, <2>1, <3>1 DEF Linked
    <3> QED BY <1>4, <3>2 DEF CitedHash
  <2> QED BY <1>3, <2>2, <2>3, <2>4
<1> QED BY <1>1, <1>5, <1>6

LEMMA AppliedDocument ==
  ASSUME NEW d, IsDocument(d), NEW change \in Changes
  PROVE  IsDocument(Apply(change, d))
<1> USE DEF IsDocument
<1>1. CASE change.kind = "put"
  <2> DEFINE S == [id \in DOMAIN d.steps \cup {change.id} |->
                      IF id = change.id THEN change.step ELSE d.steps[id]]
             e == [d EXCEPT !.steps = S]
  <2>1. \A id \in DOMAIN S : IsStep(S[id])
    BY <1>1, ContentAssumption
  <2> HIDE DEF S
  <2>2. IsDocument(e)
    BY <2>1
  <2>3. Apply(change, d) = e
    BY <1>1 DEF Apply, S
  <2> QED BY <2>2, <2>3
<1>2. CASE change.kind = "remove"
  <2> DEFINE S == [id \in DOMAIN d.steps \ {change.id} |-> d.steps[id]]
             e == [d EXCEPT !.steps = S]
  <2>1. \A id \in DOMAIN S : IsStep(S[id])
    OBVIOUS
  <2>2. Apply(change, d) = e
    BY <1>2 DEF Apply
  <2> HIDE DEF S
  <2>3. IsDocument(e)
    BY <2>1
  <2> QED BY <2>2, <2>3
<1>3. CASE change.kind = "title"
  <2>1. Apply(change, d) = [d EXCEPT !.title = change.title]
    BY <1>3 DEF Apply
  <2> QED BY <2>1
<1>4. CASE change.kind = "entries"
  <2>1. Apply(change, d) = [d EXCEPT !.entries = change.entries]
    BY <1>4 DEF Apply
  <2> QED BY <2>1
<1> QED BY <1>1, <1>2, <1>3, <1>4, ContentAssumption

LEMMA MergedDocument ==
  ASSUME NEW base, NEW ours, NEW theirs, IsDocument(ours), IsDocument(theirs)
  PROVE  IsDocument(Merged(base, ours, theirs))
<1> DEFINE e == Merged(base, ours, theirs)
<1>1. /\ {"title", "steps", "entries"} \subseteq DOMAIN e
      /\ e.steps = [id \in MergedIds(base, ours, theirs) |-> MergedStep(base, ours, theirs, id)]
  BY DEF Merged
<1>2. ASSUME NEW id \in MergedIds(base, ours, theirs)
      PROVE  IsStep(MergedStep(base, ours, theirs, id))
  <2>1. id \in DOMAIN ours.steps \/ id \in DOMAIN theirs.steps
    BY DEF MergedIds
  <2>2. CASE id \notin DOMAIN theirs.steps \/ id \notin DOMAIN ours.steps
    BY <2>1, <2>2 DEF MergedStep, IsDocument
  <2>3. CASE id \in DOMAIN theirs.steps /\ id \in DOMAIN ours.steps
    <3> DEFINE M == [field \in StepFields |-> MergedField(base, ours, theirs, id, field)]
    <3>1. MergedStep(base, ours, theirs, id) = M
      BY <2>3 DEF MergedStep
    <3>2. DOMAIN M = StepFields
      OBVIOUS
    <3> QED BY <3>1, <3>2 DEF IsStep
  <2> QED BY <2>2, <2>3
<1> HIDE DEF e
<1>3. IsDocument(e)
  BY <1>1, <1>2 DEF IsDocument
<1> QED BY <1>3 DEF e

\* A re-verification stamps the flagged hashes and closes their flags.
LEMMA ReverifyEffect ==
  ASSUME NEW s, HasFields(s), IsDocument(s.document), NEW wanted
  PROVE  LET t == Reverified(s, wanted) IN
         /\ HasFields(t) /\ IsDocument(t.document)
         /\ t.flags = Closed(s.flags, Verified(s, wanted))
         /\ t.versions = s.versions /\ t.parent = s.parent /\ t.state = s.state
         /\ Pairs(t.document) = Pairs(s.document)
         /\ \A pair \in Pairs(s.document) :
              CitedHash(t.document, pair) =
                IF pair \in Verified(s, wanted) THEN s.flags[pair].current
                ELSE CitedHash(s.document, pair)
<1> DEFINE d == s.document
           Stamped(id) ==
             [source \in DOMAIN d.steps[id].citations |->
                IF <<id, source>> \in Verified(s, wanted) THEN s.flags[<<id, source>>].current
                ELSE d.steps[id].citations[source]]
           S == [id \in DOMAIN d.steps |-> [d.steps[id] EXCEPT !.citations = Stamped(id)]]
           e == [d EXCEPT !.steps = S]
           F == Closed(s.flags, Verified(s, wanted))
           t == [s EXCEPT !.flags = F, !.document = e]
<1>1. Reverified(s, wanted) = t
  BY DEF Reverified
<1>2. /\ DOMAIN S = DOMAIN d.steps
      /\ \A id \in DOMAIN d.steps :
           IsStep(S[id]) /\ S[id].citations = Stamped(id)
  BY DEF IsDocument, IsStep, StepFields
<1> HIDE DEF S
<1>3. e.steps = S /\ {"title", "steps", "entries"} \subseteq DOMAIN e
  BY DEF IsDocument
<1> HIDE DEF e
<1>4. IsDocument(e)
  BY <1>2, <1>3 DEF IsDocument
<1>5. \A id \in DOMAIN d.steps :
        /\ DOMAIN e.steps[id].citations = DOMAIN d.steps[id].citations
        /\ \A source \in DOMAIN d.steps[id].citations :
             e.steps[id].citations[source] =
               IF <<id, source>> \in Verified(s, wanted) THEN s.flags[<<id, source>>].current
               ELSE d.steps[id].citations[source]
  <2> TAKE id \in DOMAIN d.steps
  <2>1. e.steps[id].citations = Stamped(id)
    BY <1>2, <1>3
  <2> HIDE DEF d
  <2> QED BY <2>1
<1>6. Pairs(e) = Pairs(d)
  <2>1. DOMAIN e.steps = DOMAIN d.steps
    BY <1>2, <1>3
  <2> HIDE DEF d
  <2> QED BY <1>5, <2>1 DEF Pairs
<1>7. ASSUME NEW pair \in Pairs(d)
      PROVE  CitedHash(e, pair) = IF pair \in Verified(s, wanted) THEN s.flags[pair].current
                                  ELSE CitedHash(d, pair)
  <2>1. pair[1] \in DOMAIN d.steps /\ pair[2] \in DOMAIN d.steps[pair[1]].citations
        /\ pair = <<pair[1], pair[2]>>
    BY DEF Pairs
  <2>2. e.steps[pair[1]].citations[pair[2]] =
          IF <<pair[1], pair[2]>> \in Verified(s, wanted)
          THEN s.flags[<<pair[1], pair[2]>>].current ELSE d.steps[pair[1]].citations[pair[2]]
    BY <1>5, <2>1
  <2> HIDE DEF d
  <2> QED BY <2>1, <2>2 DEF CitedHash
<1> HIDE DEF F
<1>8. /\ HasFields(t) /\ t.document = e /\ t.flags = F
      /\ t.versions = s.versions /\ t.parent = s.parent /\ t.state = s.state
  BY DEF HasFields, Fields
<1> HIDE DEF t
<1> QED BY <1>1, <1>4, <1>6, <1>7, <1>8 DEF F

-----------------------------------------------------------------------------
(* The sets as a sequence.                                                 *)

\* Ids are given in order, a branch comes after its parent, and what a branch
\* takes over from its parent is there.
SetsInv ==
  /\ \E S : sets \in Seq(S)
  /\ \A i \in DOMAIN sets :
       /\ HasFields(sets[i])
       /\ sets[i].parent \in Nat /\ sets[i].parent < i
       /\ sets[i].required \in Nat
       /\ sets[i].policy \in Policies
       /\ DocInv(sets[i])

LEMMA NewHasFields ==
  ASSUME NEW document, NEW approvals \in Nat, NEW policy \in Policies, NEW parent, NEW base
  PROVE  LET s == NewSet(document, approvals, policy, parent, base) IN
         /\ HasFields(s) /\ s.parent = parent /\ s.required = approvals /\ s.policy = policy
         /\ IsDocument(document) => DocInv(s)
<1> DEFINE s == NewSet(document, approvals, policy, parent, base)
<1>0. s = NewSet(document, approvals, policy, parent, base)
  OBVIOUS
<1>1. HasFields(s) /\ s.parent = parent /\ s.required = approvals /\ s.policy = policy
  BY DEF HasFields, Fields, NewSet
<1>2. s.document = document /\ s.versions = <<document>>
  BY DEF NewSet
<1> HIDE DEF s
<1>3. s.versions \in Seq({document}) /\ DOMAIN s.versions = {1} /\ s.versions[1] = document
  BY <1>2
<1>4. IsDocument(document) => DocInv(s)
  BY <1>2, <1>3 DEF DocInv
<1> QED BY <1>0, <1>1, <1>4

LEMMA StepKeepsShape ==
  ASSUME NEW s, NEW t, HasFields(s), StepOf(s, t), s.policy \in Policies
  PROVE  /\ HasFields(t)
         /\ t.parent = s.parent
         /\ t.required = s.required
         /\ t.policy \in Policies
<1> USE DEF HasFields, Fields
<1>1. CASE Noted(s, t)
  BY <1>1 DEF Noted
<1>2. ASSUME NEW source \in Sources, NEW hashes, t = Scanned(s, hashes, source)
      PROVE  HasFields(t) /\ t.parent = s.parent /\ t.required = s.required /\ t.policy = s.policy
  BY <1>2 DEF Scanned
<1>3. ASSUME NEW wanted, t = Reverified(s, wanted)
      PROVE  HasFields(t) /\ t.parent = s.parent /\ t.required = s.required /\ t.policy = s.policy
  BY <1>3 DEF Reverified
<1>4. CASE MayCommit(s, t)
  BY <1>4 DEF MayCommit, Committed
<1>5. CASE CanSubmit(s) /\ t = Submitted(s)
  BY <1>5 DEF Submitted
<1>6. CASE ByPolicy(s, t) \/ ByRetire(s, t) \/ t = Tested(s)
  BY <1>6 DEF ByPolicy, ByRetire, Tested
<1>7. CASE ByReview(s, t)
  BY <1>7 DEF ByReview, Reviewed
<1>8. CASE ByPublish(s, t)
  BY <1>8 DEF ByPublish, Published, Deliver
<1>9. CASE ByRollback(s, t)
  BY <1>9 DEF ByRollback, RolledBack, Deliver
<1> QED BY <1>1, <1>2, <1>3, <1>4, <1>5, <1>6, <1>7, <1>8, <1>9 DEF StepOf, ByRequest

-----------------------------------------------------------------------------
(* What a step makes of the sequence.                                      *)

LEMMA OneSetChanges ==
  ASSUME SetsInv, NEW i \in DOMAIN sets, NEW t, Put(i, t)
  PROVE  /\ \E S : sets' \in Seq(S)
         /\ DOMAIN sets' = DOMAIN sets
         /\ sets'[i] = t
         /\ \A j \in DOMAIN sets : j # i => sets'[j] = sets[j]
<1>1. PICK S : sets \in Seq(S)
  BY DEF SetsInv
<1>2. sets \in Seq(S \cup {t})
  BY <1>1
<1>3. sets' = [sets EXCEPT ![i] = t]
  BY DEF Put
<1>4. sets' \in Seq(S \cup {t})
  BY <1>2, <1>3
<1> QED BY <1>1, <1>3, <1>4

LEMMA OneSetMore ==
  ASSUME SetsInv, NEW t, Add(t)
  PROVE  /\ \E S : sets' \in Seq(S)
         /\ DOMAIN sets' = DOMAIN sets \cup {Len(sets) + 1}
         /\ Len(sets) + 1 \notin DOMAIN sets
         /\ \A j \in DOMAIN sets : j < Len(sets) + 1 /\ sets'[j] = sets[j]
         /\ sets'[Len(sets) + 1] = t
<1>1. PICK S : sets \in Seq(S)
  BY DEF SetsInv
<1>2. sets \in Seq(S \cup {t}) /\ t \in S \cup {t}
  BY <1>1
<1>3. sets' = Append(sets, t)
  BY DEF Add
<1>4. sets' \in Seq(S \cup {t})
  BY <1>2, <1>3
<1> QED BY <1>2, <1>3, <1>4

\* A request about a set that is there, merges apart.
LEMMA RequestsAreSteps ==
  ASSUME SetsInv, NEW i \in DOMAIN sets, OnSet(i),
         ~ \E version \in 1 .. MaxVersion : Branch(i, version),
         ~ \E p \in Principals, expected \in 0 .. MaxVersion : Merge(p, i, expected)
  PROVE  registry' = registry /\ \E t : ByRequest(sets[i], t) /\ Put(i, t)
<1> USE DEF Request
<1>1. ASSUME Submit(i) PROVE CanSubmit(sets[i]) /\ Put(i, Submitted(sets[i])) /\ registry' = registry
  BY <1>1 DEF Submit
<1>2. ASSUME NEW policy \in Policies, SetReviewPolicy(i, policy)
      PROVE  /\ ByPolicy(sets[i], [sets[i] EXCEPT !.policy = policy])
             /\ Put(i, [sets[i] EXCEPT !.policy = policy]) /\ registry' = registry
  BY <1>2 DEF SetReviewPolicy, ByPolicy
<1>3. ASSUME NEW case \in Cases, AddTestCase(i, case)
      PROVE  /\ Noted(sets[i], [sets[i] EXCEPT !.cases = @ \cup {case}])
             /\ Put(i, [sets[i] EXCEPT !.cases = @ \cup {case}]) /\ registry' = registry
  BY <1>3 DEF AddTestCase, Noted
<1>4. ASSUME RunTests(i) PROVE Put(i, Tested(sets[i])) /\ registry' = registry
  BY <1>4 DEF RunTests
<1>5. ASSUME NEW wanted, Reverify(i, wanted)
      PROVE  Put(i, Reverified(sets[i], wanted)) /\ registry' = registry
  BY <1>5 DEF Reverify
<1>6. ASSUME NEW p \in Principals, NEW decision \in {"approve", "request_changes"},
             Review(p, i, decision)
      PROVE  /\ ByReview(sets[i], Reviewed(sets[i], p, decision))
             /\ Put(i, Reviewed(sets[i], p, decision)) /\ registry' = registry
  BY <1>6 DEF Review, ByReview
<1>7. ASSUME NEW p \in Principals, NEW expected, NEW change \in Changes,
             ApplyEdit(p, i, expected, change)
      PROVE  \E t : MayCommit(sets[i], t) /\ Put(i, t) /\ registry' = registry
  <2> DEFINE d == Apply(change, sets[i].versions[expected])
             t == Committed(sets[i], p.name, d)
  <2>1. expected \in DOMAIN sets[i].versions /\ CanCommit(sets[i], d) /\ Put(i, t)
        /\ registry' = registry
    BY <1>7 DEF ApplyEdit
  <2>2. IsDocument(sets[i].versions[expected])
    BY <2>1 DEF SetsInv, DocInv
  <2>3. IsDocument(d)
    BY <2>2, AppliedDocument
  <2> HIDE DEF d
  <2>4. MayCommit(sets[i], t)
    BY <2>1, <2>3 DEF MayCommit
  <2> QED BY <2>1, <2>4
<1>8. ASSUME NEW p \in Principals, NEW refusing \in SUBSET Targets, Publish(p, i, refusing)
      PROVE  /\ ByPublish(sets[i], Published(sets[i], refusing))
             /\ Put(i, Published(sets[i], refusing)) /\ registry' = registry
  BY <1>8 DEF Publish, ByPublish
<1>9. ASSUME NEW p \in Principals, NEW refusing \in SUBSET Targets, Rollback(p, i, refusing)
      PROVE  /\ ByRollback(sets[i], RolledBack(sets[i], refusing))
             /\ Put(i, RolledBack(sets[i], refusing)) /\ registry' = registry
  BY <1>9 DEF Rollback, ByRollback
<1>10. ASSUME NEW p \in Principals, Retire(p, i)
       PROVE  /\ ByRetire(sets[i], [sets[i] EXCEPT !.state = Target("retire")])
              /\ Put(i, [sets[i] EXCEPT !.state = Target("retire")]) /\ registry' = registry
  BY <1>10 DEF Retire, ByRetire
<1> QED BY <1>1, <1>2, <1>3, <1>4, <1>5, <1>6, <1>7, <1>8, <1>9, <1>10 DEF OnSet, ByRequest

LEMMA NotesAreNew ==
  ASSUME SetsInv, NEW note \in Notes, NEW policy \in Policies, IngestNote(note, policy)
  PROVE  /\ registry' = registry
         /\ \E t : IsNew(Len(sets) + 1, t) /\ Add(t)
<1> DEFINE document == ResolveCitations(note.document)
           t == NewSet(document, note.approvals, policy, 0, 0)
<1>1. Add(t) /\ registry' = registry
  BY DEF IngestNote
<1>2. note.approvals \in Nat /\ IsDocument(note.document)
  BY NotesAssumption, ContentAssumption
<1>3. Len(sets) + 1 \in Nat /\ 0 < Len(sets) + 1
  <2>1. PICK S : sets \in Seq(S)
    BY DEF SetsInv
  <2> QED BY <2>1
<1>4. IsDocument(document) /\ \E d : IsDocument(d) /\ document = ResolveCitations(d)
  BY <1>2, ResolvedDocument
<1> HIDE DEF document
<1> HIDE DEF t
<1>5. IsNew(Len(sets) + 1, t)
  <2>1. t = NewSet(document, note.approvals, policy, 0, 0)
    BY DEF t
  <2> QED BY <1>2, <1>3, <1>4, <2>1 DEF IsNew
<1> QED BY <1>1, <1>5

LEMMA BranchesAreNew ==
  ASSUME SetsInv, NEW i \in DOMAIN sets, NEW version, Branch(i, version)
  PROVE  /\ registry' = registry
         /\ \E t : IsNew(Len(sets) + 1, t) /\ Add(t)
<1> DEFINE document == sets[i].versions[version]
           t == NewSet(document, sets[i].required, sets[i].policy, i, version)
<1>1. Add(t) /\ registry' = registry
  BY DEF Branch, Request
<1>2. /\ sets[i].required \in Nat /\ sets[i].policy \in Policies
      /\ IsDocument(document)
  <2>1. version \in DOMAIN sets[i].versions
    BY DEF Branch
  <2> QED BY <2>1 DEF SetsInv, DocInv
<1>3. i \in Nat /\ i # 0 /\ i < Len(sets) + 1
  <2>1. PICK S : sets \in Seq(S)
    BY DEF SetsInv
  <2> QED BY <2>1
<1> HIDE DEF document
<1> HIDE DEF t
<1>4. IsNew(Len(sets) + 1, t)
  <2>1. t = NewSet(document, sets[i].required, sets[i].policy, i, version)
    BY DEF t
  <2> QED BY <1>2, <1>3, <2>1 DEF IsNew
<1> QED BY <1>1, <1>4

\* A merge commits to the parent and marks the branch, which are two sets.
LEMMA MergeIsTwoSteps ==
  ASSUME SetsInv, NEW p \in Principals, NEW i \in DOMAIN sets, NEW expected, Merge(p, i, expected)
  PROVE  /\ \E S : sets' \in Seq(S)
         /\ DOMAIN sets' = DOMAIN sets
         /\ \A j \in DOMAIN sets : ByRequest(sets[j], sets'[j])
         /\ registry' = registry
<1> DEFINE q == sets[i].parent
           t == Committed(sets[q], p.name, MergeOf(i))
           u == [sets[i] EXCEPT !.merged = Version(sets[q]) + 1]
<1>1. PICK S : sets \in Seq(S)
  BY DEF SetsInv
<1>2. q \in Nat /\ q < i /\ q # 0
  BY DEF SetsInv, Merge
<1>3. i \in 1 .. Len(sets) /\ Len(sets) \in Nat
  BY <1>1
<1>4. q \in DOMAIN sets /\ q # i
  BY <1>1, <1>2, <1>3
<1>5. sets' = [sets EXCEPT ![q] = t, ![i].merged = Version(sets[q]) + 1]
  BY DEF Merge
<1>6. sets' = [sets EXCEPT ![q] = t, ![i] = u]
  BY <1>4, <1>5
<1> HIDE DEF t, u, q
<1>7. sets' \in Seq(S \cup {t, u})
  <2>1. sets \in Seq(S \cup {t, u})
    BY <1>1
  <2> QED BY <1>4, <1>6, <2>1
<1>8. DOMAIN sets' = DOMAIN sets /\ sets'[q] = t /\ sets'[i] = u
      /\ \A j \in DOMAIN sets : j \notin {q, i} => sets'[j] = sets[j]
  BY <1>4, <1>6
<1>9. CanCommit(sets[q], MergeOf(i)) /\ registry' = registry
  BY DEF Merge, Request, q
<1>10. MayCommit(sets[q], t)
  <2>1. IsDocument(sets[q].document) /\ IsDocument(sets[i].document)
    BY <1>4 DEF SetsInv, DocInv
  <2>2. IsDocument(MergeOf(i))
    BY <2>1, MergedDocument DEF MergeOf, MergedInto, q
  <2> QED BY <1>9, <2>2 DEF MayCommit, t
<1>11. Noted(sets[i], u)
  BY DEF Noted, u
<1>12. \A j \in DOMAIN sets : ByRequest(sets[j], sets'[j])
  BY <1>8, <1>10, <1>11 DEF ByRequest, Noted
<1> QED BY <1>7, <1>8, <1>9, <1>12

LEMMA RehashScansAll ==
  ASSUME SetsInv, NEW source \in Sources, NEW hash \in Hashes, Rehash(source, hash)
  PROVE  /\ \E S : sets' \in Seq(S)
         /\ DOMAIN sets' = DOMAIN sets
         /\ \A i \in DOMAIN sets : sets'[i] = Scanned(sets[i], registry', source)
<1>1. sets' = [i \in DOMAIN sets |-> Scanned(sets[i], registry', source)]
  BY DEF Rehash
<1>2. DOMAIN sets = 1 .. Len(sets) /\ Len(sets) \in Nat
  BY DEF SetsInv
<1> DEFINE S == {Scanned(sets[i], registry', source) : i \in DOMAIN sets}
<1>3. \A i \in DOMAIN sets : Scanned(sets[i], registry', source) \in S
  OBVIOUS
<1> HIDE DEF S
<1>4. sets' \in Seq(S)
  BY <1>1, <1>2, <1>3
<1> QED BY <1>1, <1>4

LEMMA EscalationMarks ==
  ASSUME SetsInv, EscalateOverdue
  PROVE  /\ \E S : sets' \in Seq(S)
         /\ DOMAIN sets' = DOMAIN sets
         /\ \A i \in DOMAIN sets : Noted(sets[i], sets'[i])
         /\ registry' = registry
<1> DEFINE E(s) == IF ToEscalate(s) THEN [s EXCEPT !.escalated = TRUE] ELSE s
<1>1. sets' = [i \in DOMAIN sets |-> E(sets[i])] /\ registry' = registry
  BY DEF EscalateOverdue
<1>2. DOMAIN sets = 1 .. Len(sets) /\ Len(sets) \in Nat
  BY DEF SetsInv
<1> DEFINE S == {E(sets[i]) : i \in DOMAIN sets}
<1>3. \A i \in DOMAIN sets : E(sets[i]) \in S /\ Noted(sets[i], E(sets[i]))
  BY DEF Noted
<1> HIDE DEF S, E
<1>4. sets' \in Seq(S)
  BY <1>1, <1>2, <1>3
<1> QED BY <1>1, <1>3, <1>4

\* Whatever happens, every set makes one step and new ones come at the end.
LEMMA EverySetSteps ==
  ASSUME SetsInv, [Next]_vars
  PROVE  /\ \E S : sets' \in Seq(S)
         /\ \A i \in DOMAIN sets : i \in DOMAIN sets'
         /\ \A i \in DOMAIN sets' : i \notin DOMAIN sets => IsNew(i, sets'[i])
         /\ \/ registry' = registry /\ \A i \in DOMAIN sets : ByRequest(sets[i], sets'[i])
            \/ \E source \in Sources, hash \in Hashes :
                 /\ Rehash(source, hash)
                 /\ \A i \in DOMAIN sets : sets'[i] = Scanned(sets[i], registry', source)
<1>1. ASSUME NEW s, s \in {sets[i] : i \in DOMAIN sets} PROVE ByRequest(s, s)
  BY DEF ByRequest, Noted
<1>2. ASSUME NEW t, IsNew(Len(sets) + 1, t), Add(t), registry' = registry
      PROVE  /\ \E S : sets' \in Seq(S)
             /\ \A i \in DOMAIN sets : i \in DOMAIN sets' /\ ByRequest(sets[i], sets'[i])
             /\ \A i \in DOMAIN sets' : i \notin DOMAIN sets => IsNew(i, sets'[i])
  BY <1>1, <1>2, OneSetMore
<1>3. ASSUME NEW note \in Notes, NEW policy \in Policies, IngestNote(note, policy)
      PROVE  \E t : IsNew(Len(sets) + 1, t) /\ Add(t) /\ registry' = registry
  BY <1>3, NotesAreNew
<1>4. ASSUME NEW i \in DOMAIN sets, NEW version, Branch(i, version)
      PROVE  \E t : IsNew(Len(sets) + 1, t) /\ Add(t) /\ registry' = registry
  BY <1>4, BranchesAreNew
<1>5. ASSUME NEW i \in DOMAIN sets, NEW t, ByRequest(sets[i], t), Put(i, t)
      PROVE  /\ \E S : sets' \in Seq(S)
             /\ DOMAIN sets' = DOMAIN sets
             /\ \A j \in DOMAIN sets : ByRequest(sets[j], sets'[j])
  BY <1>1, <1>5, OneSetChanges
<1>6. ASSUME NEW i \in DOMAIN sets, OnSet(i)
      PROVE  /\ \E S : sets' \in Seq(S)
             /\ \A j \in DOMAIN sets : j \in DOMAIN sets' /\ ByRequest(sets[j], sets'[j])
             /\ \A j \in DOMAIN sets' : j \notin DOMAIN sets => IsNew(j, sets'[j])
             /\ registry' = registry
  <2>1. CASE \E version \in 1 .. MaxVersion : Branch(i, version)
    BY <1>2, <1>4, <2>1
  <2>2. CASE \E p \in Principals, expected \in 0 .. MaxVersion : Merge(p, i, expected)
    BY <2>2, MergeIsTwoSteps
  <2>3. CASE /\ ~ \E version \in 1 .. MaxVersion : Branch(i, version)
             /\ ~ \E p \in Principals, expected \in 0 .. MaxVersion : Merge(p, i, expected)
    BY <1>5, <1>6, <2>3, RequestsAreSteps
  <2> QED BY <2>1, <2>2, <2>3
<1>7. ASSUME NEW source \in Sources, NEW hash \in Hashes, Rehash(source, hash)
      PROVE  /\ \E S : sets' \in Seq(S)
             /\ DOMAIN sets' = DOMAIN sets
             /\ \A i \in DOMAIN sets : sets'[i] = Scanned(sets[i], registry', source)
  BY <1>7, RehashScansAll
<1>8. CASE EscalateOverdue
  BY <1>8, EscalationMarks DEF ByRequest
<1>9. CASE UNCHANGED <<sets, registry>>
  BY <1>1, <1>9 DEF SetsInv
<1>10. CASE (\E hours \in 1 .. MaxHours : Advance(hours)) \/ UNCHANGED vars
  BY <1>9, <1>10 DEF Advance, vars
<1>11. CASE \E note \in Notes, policy \in Policies : IngestNote(note, policy)
  BY <1>2, <1>3, <1>11
<1>12. CASE \E i \in DOMAIN sets : OnSet(i)
  BY <1>6, <1>12
<1>13. CASE \E source \in Sources, hash \in Hashes : Rehash(source, hash)
  BY <1>7, <1>13
<1> QED BY <1>8, <1>10, <1>11, <1>12, <1>13 DEF Next

COROLLARY EverySetMakesAStep ==
  ASSUME SetsInv, [Next]_vars
  PROVE  \A i \in DOMAIN sets : i \in DOMAIN sets' /\ StepOf(sets[i], sets'[i])
BY EverySetSteps DEF StepOf

LEMMA StepKeepsDocuments ==
  ASSUME NEW s, NEW t, HasFields(s), StepOf(s, t), DocInv(s)
  PROVE  DocInv(t)
<1>0. ASSUME t.document = s.document, t.versions = s.versions PROVE DocInv(t)
  BY <1>0 DEF DocInv
<1> USE DEF HasFields, Fields
<1>1. CASE Noted(s, t)
  BY <1>0, <1>1 DEF Noted
<1>2. ASSUME NEW source \in Sources, NEW hashes, t = Scanned(s, hashes, source)
      PROVE  DocInv(t)
  BY <1>0, <1>2 DEF Scanned
<1>3. ASSUME NEW wanted, t = Reverified(s, wanted)
      PROVE  DocInv(t)
  BY <1>3, ReverifyEffect DEF DocInv
<1>4. CASE MayCommit(s, t)
  <2>1. PICK p \in Principals : \E d : IsDocument(d) /\ t = Committed(s, p.name, d)
    BY <1>4 DEF MayCommit
  <2>2. PICK d : IsDocument(d) /\ t = Committed(s, p.name, d)
    BY <2>1
  <2> DEFINE e == NextDocument(s, d)
  <2>3. t.document = e /\ t.versions = Append(s.versions, e)
    BY <2>2 DEF Committed
  <2>4. IsDocument(e)
    BY <2>2, NextHead DEF DocInv
  <2> HIDE DEF e
  <2>5. PICK S : s.versions \in Seq(S)
    BY DEF DocInv
  <2>6. s.versions \in Seq(S \cup {e}) /\ e \in S \cup {e}
    BY <2>5
  <2>7. /\ t.versions \in Seq(S \cup {e})
        /\ \A v \in DOMAIN t.versions :
             t.versions[v] = e \/ (v \in DOMAIN s.versions /\ t.versions[v] = s.versions[v])
    BY <2>3, <2>6
  <2>8. \A v \in DOMAIN t.versions : IsDocument(t.versions[v])
    BY <2>4, <2>7 DEF DocInv
  <2>9. IsDocument(t.document) /\ \E T : t.versions \in Seq(T)
    BY <2>3, <2>4, <2>7
  <2> QED BY <2>8, <2>9 DEF DocInv
<1>5. CASE CanSubmit(s) /\ t = Submitted(s)
  BY <1>0, <1>5 DEF Submitted
<1>6. CASE ByPolicy(s, t) \/ ByRetire(s, t) \/ t = Tested(s)
  <2>1. CASE ByPolicy(s, t)
    BY <1>0, <2>1 DEF ByPolicy
  <2>2. CASE ByRetire(s, t)
    BY <1>0, <2>2 DEF ByRetire
  <2>3. CASE t = Tested(s)
    BY <1>0, <2>3 DEF Tested
  <2> QED BY <1>6, <2>1, <2>2, <2>3
<1>7. CASE ByReview(s, t)
  <2>1. PICK p \in Principals, decision \in {"approve", "request_changes"} :
          t = Reviewed(s, p, decision)
    BY <1>7 DEF ByReview
  <2>2. t.document = s.document /\ t.versions = s.versions
    BY <2>1 DEF Reviewed
  <2> QED BY <1>0, <2>2
<1>8. CASE ByPublish(s, t)
  <2>1. PICK refusing : t = Published(s, refusing)
    BY <1>8 DEF ByPublish
  <2>2. t.document = s.document /\ t.versions = s.versions
    BY <2>1 DEF Published, Deliver
  <2> QED BY <1>0, <2>2
<1>9. CASE ByRollback(s, t)
  <2>1. PICK refusing : t = RolledBack(s, refusing)
    BY <1>9 DEF ByRollback
  <2>2. t.document = s.document /\ t.versions = s.versions
    BY <2>1 DEF RolledBack, Deliver
  <2> QED BY <1>0, <2>2
<1> QED BY <1>1, <1>2, <1>3, <1>4, <1>5, <1>6, <1>7, <1>8, <1>9 DEF StepOf, ByRequest

LEMMA SetsStay == Spec => []SetsInv
<1>1. Init => SetsInv
  BY DEF Init, SetsInv
<1>2. SetsInv /\ [Next]_vars => SetsInv'
  <2> SUFFICES ASSUME SetsInv, [Next]_vars PROVE SetsInv'
    OBVIOUS
  <2>1. ASSUME NEW i \in DOMAIN sets', i \in DOMAIN sets
        PROVE  /\ HasFields(sets'[i]) /\ DocInv(sets'[i])
               /\ sets'[i].parent \in Nat /\ sets'[i].parent < i
               /\ sets'[i].required \in Nat
               /\ sets'[i].policy \in Policies
    <3>1. StepOf(sets[i], sets'[i])
      BY <2>1, EverySetMakesAStep
    <3> QED BY <2>1, <3>1, StepKeepsShape, StepKeepsDocuments DEF SetsInv
  <2>2. ASSUME NEW i \in DOMAIN sets', i \notin DOMAIN sets
        PROVE  /\ HasFields(sets'[i]) /\ DocInv(sets'[i])
               /\ sets'[i].parent \in Nat /\ sets'[i].parent < i
               /\ sets'[i].required \in Nat
               /\ sets'[i].policy \in Policies
    <3>1. IsNew(i, sets'[i])
      BY <2>2, EverySetSteps
    <3> QED BY <3>1, NewHasFields DEF IsNew
  <2> QED BY <2>1, <2>2, EverySetSteps DEF SetsInv
<1> QED BY <1>1, <1>2, PTL DEF Spec

-----------------------------------------------------------------------------
(* Numbers.                                                                *)

LEMMA GreatestOfBounded ==
  ASSUME NEW S, S # {}, NEW n \in Nat, \A u \in S : u \in Nat /\ u <= n
  PROVE  \E u \in S : \A w \in S : w <= u
<1> DEFINE Gap == {g \in Nat : \E u \in S : g = n - u}
<1>1. PICK x \in S : x \in Nat /\ x <= n
  OBVIOUS
<1>2. n - x \in Gap
  BY <1>1
<1>3. PICK g \in Gap : \A h \in Gap : <<h, g>> \notin OpToRel(<, Nat)
  <2>1. Gap \subseteq Nat /\ Gap # {}
    BY <1>2
  <2> QED BY <2>1, NatLessThanWellFounded, WFMin
<1>4. \A h \in Gap : g <= h
  <2>1. \A h \in Gap : ~ (h < g)
    BY <1>3 DEF OpToRel
  <2> QED BY <2>1
<1>5. PICK u \in S : g = n - u
  OBVIOUS
<1>6. ASSUME NEW w \in S PROVE w <= u
  <2>1. n - w \in Gap
    BY <1>6
  <2>2. g <= n - w
    BY <1>4, <2>1
  <2> QED BY <1>5, <2>2
<1> QED BY <1>6

-----------------------------------------------------------------------------
(* What a delivery leaves behind.                                          *)

\* What a publish or a rollback leaves alone.
Text(s) == <<s.versions, s.authors, s.required, s.policy, s.round, s.reviews, s.approved,
             s.greens, s.run, s.parent>>

LEMMA DeliverEffect ==
  ASSUME NEW s, HasFields(s), NEW version, NEW refusing \in SUBSET Targets
  PROVE  LET d == Deliver(s, version, refusing) IN
         /\ HasFields(d)
         /\ Text(d) = Text(s)
         /\ d.state = s.state /\ d.delivered = s.delivered /\ d.published = s.published
         /\ d.document = s.document /\ d.flags = s.flags
         /\ d.settled <=> refusing = {}
         /\ \A t \in Targets : d.holds[t] = IF t \in refusing THEN s.holds[t] ELSE version
<1> DEFINE h == [t \in Targets |-> IF t \in refusing THEN s.holds[t] ELSE version]
           b == refusing = {}
           d == [s EXCEPT !.holds = h, !.settled = b]
<1>1. d = Deliver(s, version, refusing)
  BY DEF Deliver
<1>2. \A t \in Targets : h[t] = IF t \in refusing THEN s.holds[t] ELSE version
  OBVIOUS
<1>3. b <=> refusing = {}
  OBVIOUS
<1> HIDE DEF h, b
<1>4. d.holds = h /\ d.settled = b /\ HasFields(d)
  BY DEF HasFields, Fields
<1>5. /\ Text(d) = Text(s)
      /\ d.state = s.state /\ d.delivered = s.delivered /\ d.published = s.published
      /\ d.document = s.document /\ d.flags = s.flags
  BY DEF HasFields, Fields, Text
<1> HIDE DEF d
<1> QED BY <1>1, <1>2, <1>3, <1>4, <1>5

LEMMA PublishEffect ==
  ASSUME NEW s, HasFields(s), NEW refusing \in SUBSET Targets
  PROVE  LET t == Published(s, refusing) IN
         /\ HasFields(t)
         /\ Text(t) = Text(s)
         /\ t.document = s.document /\ t.flags = s.flags
         /\ t.delivered \subseteq s.delivered \cup {Version(s)}
         /\ t.settled <=> refusing = {}
         /\ \A x \in Targets : t.holds[x] = IF x \in refusing THEN s.holds[x] ELSE Version(s)
         /\ IF refusing = {} THEN t.state = "published" /\ t.published = Version(s)
            ELSE t.state = s.state /\ t.published = s.published
<1> DEFINE d == Deliver(s, Version(s), refusing)
           r == IF refusing = Targets THEN d.delivered ELSE d.delivered \cup {Version(s)}
           e == [d EXCEPT !.delivered = r]
           f == [e EXCEPT !.state = Target("publish"), !.published = Version(s)]
<1>1. Published(s, refusing) = IF refusing # {} THEN e ELSE f
  BY DEF Published
<1>2. /\ HasFields(d) /\ Text(d) = Text(s)
      /\ d.state = s.state /\ d.delivered = s.delivered /\ d.published = s.published
      /\ d.document = s.document /\ d.flags = s.flags
      /\ d.settled <=> refusing = {}
      /\ \A x \in Targets : d.holds[x] = IF x \in refusing THEN s.holds[x] ELSE Version(s)
  BY DeliverEffect
<1>3. r \subseteq s.delivered \cup {Version(s)}
  BY <1>2
<1> HIDE DEF d, r
<1>4. /\ HasFields(e) /\ Text(e) = Text(d) /\ e.delivered = r
      /\ e.state = d.state /\ e.published = d.published /\ e.document = d.document
      /\ e.flags = d.flags /\ e.settled = d.settled /\ e.holds = d.holds
  BY <1>2 DEF HasFields, Fields, Text
<1> HIDE DEF e
<1>5. /\ HasFields(f) /\ Text(f) = Text(e) /\ f.delivered = e.delivered
      /\ f.state = "published" /\ f.published = Version(s) /\ f.document = e.document
      /\ f.flags = e.flags /\ f.settled = e.settled /\ f.holds = e.holds
  BY <1>4 DEF HasFields, Fields, Text, Target, Transitions
<1> HIDE DEF f
<1> QED BY <1>1, <1>2, <1>3, <1>4, <1>5

LEMMA RollbackEffect ==
  ASSUME NEW s, HasFields(s), NEW refusing \in SUBSET Targets,
         s.delivered \subseteq Nat, s.published \in Nat, Earlier(s) # {}
  PROVE  LET t == RolledBack(s, refusing) IN
         \E v \in Earlier(s) :
           /\ HasFields(t)
           /\ Text(t) = Text(s)
           /\ t.state = s.state /\ t.delivered = s.delivered
           /\ t.document = s.document /\ t.flags = s.flags
           /\ t.settled <=> refusing = {}
           /\ \A x \in Targets : t.holds[x] = IF x \in refusing THEN s.holds[x] ELSE v
           /\ t.published = IF refusing = {} THEN v ELSE s.published
<1> DEFINE v == CHOOSE u \in Earlier(s) : \A w \in Earlier(s) : w <= u
           d == Deliver(s, v, refusing)
           q == IF refusing = {} THEN v ELSE d.published
           t == [d EXCEPT !.published = q]
<1>1. RolledBack(s, refusing) = t
  BY DEF RolledBack
<1>2. v \in Earlier(s)
  <2>1. \A u \in Earlier(s) : u \in Nat /\ u <= s.published
    BY DEF Earlier
  <2>2. \E u \in Earlier(s) : \A w \in Earlier(s) : w <= u
    BY <2>1, GreatestOfBounded
  <2> QED BY <2>2
<1>3. /\ HasFields(d) /\ Text(d) = Text(s)
      /\ d.state = s.state /\ d.delivered = s.delivered /\ d.published = s.published
      /\ d.document = s.document /\ d.flags = s.flags
      /\ d.settled <=> refusing = {}
      /\ \A x \in Targets : d.holds[x] = IF x \in refusing THEN s.holds[x] ELSE v
  BY DeliverEffect
<1> HIDE DEF v, d
<1>4. q = IF refusing = {} THEN v ELSE s.published
  BY <1>3
<1> HIDE DEF q
<1>5. /\ HasFields(t) /\ Text(t) = Text(d) /\ t.published = q
      /\ t.state = d.state /\ t.delivered = d.delivered /\ t.document = d.document
      /\ t.flags = d.flags /\ t.settled = d.settled /\ t.holds = d.holds
  BY <1>3 DEF HasFields, Fields, Text
<1> HIDE DEF t
<1> QED BY <1>1, <1>2, <1>3, <1>4, <1>5

-----------------------------------------------------------------------------
(* The versions of a set, one author for each.                             *)

HistoryInv(s) ==
  /\ \E S : s.versions \in Seq(S)
  /\ s.authors \in Seq(Names \cup {NoteAuthor})
  /\ Len(s.authors) = Version(s) /\ Version(s) >= 1
  /\ s.delivered \subseteq 1 .. Version(s)
  /\ s.published \in 0 .. Version(s)

\* All of it that most operations leave alone.
History(s) == <<s.versions, s.authors, s.delivered, s.published>>

LEMMA SameHistory ==
  ASSUME NEW s, NEW t, HistoryInv(s), History(t) = History(s)
  PROVE  HistoryInv(t)
BY DEF History, HistoryInv, Version

LEMMA CommitEffect ==
  ASSUME NEW s, NEW t, HasFields(s), HistoryInv(s), MayCommit(s, t)
  PROVE  /\ \E S : t.versions \in Seq(S)
         /\ t.authors \in Seq(Names \cup {NoteAuthor})
         /\ Len(t.authors) = Version(t) /\ Version(t) = Version(s) + 1
         /\ \A v \in 1 .. Version(s) : t.authors[v] = s.authors[v]
         /\ t.state \notin {"in_review", "approved", "published", "retired"}
         /\ s.state \notin {"in_review", "retired"}
         /\ t.required = s.required /\ t.policy = s.policy /\ t.round = s.round
         /\ t.reviews = s.reviews /\ t.approved = s.approved /\ t.greens = s.greens
         /\ t.run = s.run /\ t.parent = s.parent /\ t.delivered = s.delivered
         /\ t.published = s.published /\ t.holds = s.holds /\ t.settled = s.settled
<1>1. PICK p \in Principals : \E d : CanCommit(s, d) /\ t = Committed(s, p.name, d)
  BY DEF MayCommit
<1>2. PICK d : CanCommit(s, d) /\ t = Committed(s, p.name, d)
  BY <1>1
<1> DEFINE e == NextDocument(s, d)
           g == Closed(s.flags, FlagsClosedByEdit(s, e))
<1>3. t = [s EXCEPT !.document = e, !.versions = Append(@, e), !.authors = Append(@, p.name),
                    !.flags = g, !.state = AfterEdit(@)]
  BY <1>2 DEF Committed
<1> HIDE DEF e, g
<1>4. /\ t.versions = Append(s.versions, e) /\ t.authors = Append(s.authors, p.name)
      /\ t.state = AfterEdit(s.state)
      /\ t.required = s.required /\ t.policy = s.policy /\ t.round = s.round
      /\ t.reviews = s.reviews /\ t.approved = s.approved /\ t.greens = s.greens
      /\ t.run = s.run /\ t.parent = s.parent /\ t.delivered = s.delivered
      /\ t.published = s.published /\ t.holds = s.holds /\ t.settled = s.settled
  BY <1>3 DEF HasFields, Fields
<1>5. PICK S : s.versions \in Seq(S)
  BY DEF HistoryInv
<1>6. s.versions \in Seq(S \cup {e}) /\ e \in S \cup {e}
  BY <1>5
<1>7. t.versions \in Seq(S \cup {e}) /\ Len(t.versions) = Len(s.versions) + 1
  BY <1>4, <1>6
<1>8. p.name \in Names
  BY DEF Names
<1>9. /\ t.authors \in Seq(Names \cup {NoteAuthor}) /\ Len(t.authors) = Len(s.authors) + 1
      /\ \A v \in 1 .. Len(s.authors) : t.authors[v] = s.authors[v]
  BY <1>4, <1>8 DEF HistoryInv
<1>10. /\ s.state \in EditableStates
       /\ t.state \notin {"in_review", "approved", "published", "retired"}
  BY <1>2, <1>4 DEF CanCommit, AfterEdit, EditableStates, Target, Transitions
<1> QED BY <1>4, <1>7, <1>9, <1>10 DEF HistoryInv, Version, EditableStates

LEMMA NewHistory ==
  ASSUME NEW document, NEW approvals, NEW policy, NEW parent, NEW base
  PROVE  HistoryInv(NewSet(document, approvals, policy, parent, base))
<1> DEFINE s == NewSet(document, approvals, policy, parent, base)
<1>0. s = NewSet(document, approvals, policy, parent, base)
  OBVIOUS
<1>1. /\ s.versions = <<document>> /\ s.authors = <<NoteAuthor>>
      /\ s.delivered = {} /\ s.published = 0
  BY DEF NewSet
<1> HIDE DEF s
<1>2. s.versions \in Seq({document}) /\ Len(s.versions) = 1
  BY <1>1
<1>3. s.authors \in Seq(Names \cup {NoteAuthor}) /\ Len(s.authors) = 1
  BY <1>1
<1>4. (\E S : s.versions \in Seq(S)) /\ Version(s) = 1
  BY <1>2 DEF Version
<1>5. HistoryInv(s)
  BY <1>1, <1>3, <1>4 DEF HistoryInv
<1> QED BY <1>0, <1>5

LEMMA StepKeepsHistory ==
  ASSUME NEW s, NEW t, HasFields(s), StepOf(s, t), HistoryInv(s)
  PROVE  HistoryInv(t)
<1>0. s.delivered \subseteq Nat /\ s.published \in Nat /\ Version(s) \in Nat
  BY DEF HistoryInv, Version
<1>1. CASE Noted(s, t)
  BY <1>1, SameHistory DEF Noted, History, HasFields, Fields
<1>2. ASSUME NEW source \in Sources, NEW hashes, t = Scanned(s, hashes, source)
      PROVE  HistoryInv(t)
  BY <1>2, SameHistory DEF Scanned, History, HasFields, Fields
<1>3. ASSUME NEW wanted, t = Reverified(s, wanted)
      PROVE  HistoryInv(t)
  BY <1>3, SameHistory DEF Reverified, History, HasFields, Fields
<1>4. CASE MayCommit(s, t)
  BY <1>0, <1>4, CommitEffect DEF HistoryInv
<1>5. CASE CanSubmit(s) /\ t = Submitted(s)
  BY <1>5, SameHistory DEF Submitted, History, HasFields, Fields
<1>6. CASE ByPolicy(s, t) \/ ByRetire(s, t) \/ t = Tested(s)
  BY <1>6, SameHistory DEF ByPolicy, ByRetire, Tested, History, HasFields, Fields
<1>7. CASE ByReview(s, t)
  <2>1. History(t) = History(s)
    BY <1>7 DEF ByReview, Reviewed, History, HasFields, Fields
  <2> QED BY <2>1, SameHistory
<1>8. CASE ByPublish(s, t)
  <2>1. /\ Text(t) = Text(s) /\ t.delivered \subseteq s.delivered \cup {Version(s)}
        /\ t.published \in {s.published, Version(s)}
    BY <1>8, PublishEffect DEF ByPublish
  <2> QED BY <1>0, <2>1 DEF HistoryInv, Text, Version
<1>9. CASE ByRollback(s, t)
  <2>1. PICK v \in Earlier(s) :
          /\ Text(t) = Text(s) /\ t.delivered = s.delivered
          /\ t.published \in {s.published, v}
    BY <1>0, <1>9, RollbackEffect DEF ByRollback
  <2>2. v \in 1 .. Version(s)
    BY DEF Earlier, HistoryInv
  <2> QED BY <1>0, <2>1, <2>2 DEF HistoryInv, Text, Version
<1> QED BY <1>1, <1>2, <1>3, <1>4, <1>5, <1>6, <1>7, <1>8, <1>9 DEF StepOf, ByRequest

HistoriesInv == SetsInv /\ \A i \in DOMAIN sets : HistoryInv(sets[i])

LEMMA HistoriesStay == Spec => []HistoriesInv
<1>1. Init => \A i \in DOMAIN sets : HistoryInv(sets[i])
  BY DEF Init
<1>2. HistoriesInv /\ [Next]_vars => (\A i \in DOMAIN sets : HistoryInv(sets[i]))'
  <2> SUFFICES ASSUME HistoriesInv, [Next]_vars, NEW i \in DOMAIN sets'
               PROVE  HistoryInv(sets'[i])
    OBVIOUS
  <2>1. CASE i \in DOMAIN sets
    <3>1. StepOf(sets[i], sets'[i]) /\ HasFields(sets[i]) /\ HistoryInv(sets[i])
      BY <2>1, EverySetMakesAStep DEF HistoriesInv, SetsInv
    <3> QED BY <3>1, StepKeepsHistory
  <2>2. CASE i \notin DOMAIN sets
    <3>1. IsNew(i, sets'[i])
      BY <2>2, EverySetSteps DEF HistoriesInv
    <3> QED BY <3>1, NewHistory DEF IsNew
  <2> QED BY <2>1, <2>2
<1> QED BY <1>1, <1>2, SetsStay, PTL DEF Spec, HistoriesInv
-----------------------------------------------------------------------------
(* The targets and the live version.                                       *)

LiveInv(s) == s.settled => \A t \in Targets : s.holds[t] = s.published

LEMMA StepKeepsLive ==
  ASSUME NEW s, NEW t, HasFields(s), HistoryInv(s), StepOf(s, t), LiveInv(s)
  PROVE  LiveInv(t)
<1> USE DEF HasFields, Fields, LiveInv
<1>1. CASE Noted(s, t)
  BY <1>1 DEF Noted
<1>2. ASSUME NEW source \in Sources, NEW hashes, t = Scanned(s, hashes, source)
      PROVE  LiveInv(t)
  BY <1>2 DEF Scanned
<1>3. ASSUME NEW wanted, t = Reverified(s, wanted)
      PROVE  LiveInv(t)
  BY <1>3 DEF Reverified
<1>4. CASE MayCommit(s, t)
  BY <1>4, CommitEffect
<1>5. CASE CanSubmit(s) /\ t = Submitted(s)
  BY <1>5 DEF Submitted
<1>6. CASE ByPolicy(s, t) \/ ByRetire(s, t) \/ t = Tested(s)
  BY <1>6 DEF ByPolicy, ByRetire, Tested
<1>7. CASE ByReview(s, t)
  BY <1>7 DEF ByReview, Reviewed
<1>8. CASE ByPublish(s, t)
  BY <1>8, PublishEffect DEF ByPublish
<1>9. CASE ByRollback(s, t)
  <2>1. s.delivered \subseteq Nat /\ s.published \in Nat
    BY DEF HistoryInv
  <2> QED BY <1>9, <2>1, RollbackEffect DEF ByRollback
<1> QED BY <1>1, <1>2, <1>3, <1>4, <1>5, <1>6, <1>7, <1>8, <1>9 DEF StepOf, ByRequest

\* After any number of publishes, refusals, retries and rollbacks, every target
\* of every set holds the version the set calls live, unless the last delivery
\* was refused somewhere (deliver, publish, rollback).
THEOREM TargetsFollowTheLiveVersion == Spec => []TargetsHoldTheLiveVersion
<1> DEFINE I == \A i \in DOMAIN sets : LiveInv(sets[i])
<1>1. Init => I
  BY DEF Init
<1>2. HistoriesInv /\ I /\ [Next]_vars => I'
  <2> SUFFICES ASSUME HistoriesInv, I, [Next]_vars, NEW i \in DOMAIN sets' PROVE LiveInv(sets'[i])
    OBVIOUS
  <2>1. CASE i \in DOMAIN sets
    <3>1. StepOf(sets[i], sets'[i]) /\ HasFields(sets[i]) /\ HistoryInv(sets[i])
      BY <2>1, EverySetMakesAStep DEF HistoriesInv, SetsInv
    <3> QED BY <2>1, <3>1, StepKeepsLive
  <2>2. CASE i \notin DOMAIN sets
    <3>1. IsNew(i, sets'[i])
      BY <2>2, EverySetSteps DEF HistoriesInv
    <3> QED BY <3>1 DEF IsNew, NewSet, LiveInv
  <2> QED BY <2>1, <2>2
<1>3. I => TargetsHoldTheLiveVersion
  BY DEF LiveInv, TargetsHoldTheLiveVersion
<1> QED BY <1>1, <1>2, <1>3, HistoriesStay, PTL DEF Spec

-----------------------------------------------------------------------------
(* What an approved head rests on.                                         *)

LEMMA ReviewEffect ==
  ASSUME NEW s, NEW t, HasFields(s), ByReview(s, t)
  PROVE  \E p \in Principals : \E row :
           /\ MayReview(p, s)
           /\ row.reviewer = p.name /\ row.version = Version(s)
           /\ t.reviews = s.reviews \cup {row}
           /\ \/ t.state = "approved" /\ CountApprovals(t) >= t.required
                 /\ t.approved = s.approved \cup {Version(s)}
              \/ t.state \in {"in_review", "changes_requested"} /\ t.approved = s.approved
           /\ t.versions = s.versions /\ t.authors = s.authors /\ t.required = s.required
           /\ t.round = s.round /\ t.greens = s.greens /\ t.run = s.run
           /\ t.delivered = s.delivered /\ t.published = s.published /\ t.holds = s.holds
<1>1. PICK p \in Principals, decision \in {"approve", "request_changes"} :
        MayReview(p, s) /\ t = Reviewed(s, p, decision)
  BY DEF ByReview
<1> DEFINE row == [reviewer |-> p.name, role |-> p.role, version |-> Version(s),
                   round |-> s.round, decision |-> decision]
           u == [s EXCEPT !.reviews = @ \cup {row}]
           enough == CountApprovals(u) >= u.required /\ MissingRoles(u) = {}
<1>2. t = IF decision = "request_changes" THEN [u EXCEPT !.state = Target("request_changes")]
          ELSE IF enough
          THEN [u EXCEPT !.state = Target("approve"), !.approved = @ \cup {Version(s)}]
          ELSE u
  BY <1>1 DEF Reviewed
<1>3. row.reviewer = p.name /\ row.version = Version(s)
  OBVIOUS
<1>4. enough => CountApprovals(u) >= u.required
  OBVIOUS
<1> HIDE DEF row, enough
<1>5. /\ u.reviews = s.reviews \cup {row} /\ u.state = s.state /\ u.approved = s.approved
      /\ u.versions = s.versions /\ u.authors = s.authors /\ u.required = s.required
      /\ u.round = s.round /\ u.greens = s.greens /\ u.run = s.run
      /\ u.delivered = s.delivered /\ u.published = s.published /\ u.holds = s.holds
      /\ HasFields(u)
  BY DEF HasFields, Fields
<1> HIDE DEF u
<1>6. s.state = "in_review"
  BY <1>1 DEF MayReview
<1>7. /\ t.reviews = u.reviews /\ t.versions = u.versions /\ t.authors = u.authors
      /\ t.required = u.required /\ t.round = u.round /\ t.greens = u.greens /\ t.run = u.run
      /\ t.delivered = u.delivered /\ t.published = u.published /\ t.holds = u.holds
  BY <1>2, <1>5 DEF HasFields, Fields
<1>8. CountApprovals(t) = CountApprovals(u)
  BY <1>7 DEF CountApprovals, ApprovalsThisRound, Version
<1>9. \/ t.state = "approved" /\ enough /\ t.approved = u.approved \cup {Version(s)}
      \/ t.state \in {"in_review", "changes_requested"} /\ t.approved = u.approved
  BY <1>2, <1>5, <1>6 DEF HasFields, Fields, Target, Transitions
<1> QED BY <1>1, <1>3, <1>4, <1>5, <1>7, <1>8, <1>9

NobodyApprovesTheirOwn == \A policy \in Policies : ~policy.allowSelf

\* A decision is about a version that is there, by somebody who wrote neither the
\* note nor that version; this is what no later edit can take away.
EarnedInv(s) ==
  /\ \A r \in s.reviews :
       r.version \in 1 .. Version(s) /\ r.reviewer \notin {NoteAuthor, s.authors[r.version]}
  /\ s.state \in {"approved", "published"} => CountApprovals(s) >= s.required

LEMMA SameEarned ==
  ASSUME NEW s, NEW t, EarnedInv(s),
         t.reviews = s.reviews, t.versions = s.versions, t.authors = s.authors,
         t.round = s.round, t.required = s.required,
         t.state \in {"approved", "published"} => s.state \in {"approved", "published"}
  PROVE  EarnedInv(t)
BY DEF EarnedInv, CountApprovals, ApprovalsThisRound, Version

LEMMA StepKeepsEarned ==
  ASSUME NobodyApprovesTheirOwn, NEW s, NEW t, HasFields(s), HistoryInv(s), s.policy \in Policies,
         StepOf(s, t), EarnedInv(s)
  PROVE  EarnedInv(t)
<1>0. s.delivered \subseteq Nat /\ s.published \in Nat /\ Version(s) \in Nat
  BY DEF HistoryInv, Version
<1>1. CASE Noted(s, t)
  BY <1>1, SameEarned DEF Noted, HasFields, Fields
<1>2. ASSUME NEW source \in Sources, NEW hashes, t = Scanned(s, hashes, source)
      PROVE  EarnedInv(t)
  BY <1>2, SameEarned DEF Scanned, HasFields, Fields
<1>3. ASSUME NEW wanted, t = Reverified(s, wanted)
      PROVE  EarnedInv(t)
  BY <1>3, SameEarned DEF Reverified, HasFields, Fields
<1>4. CASE MayCommit(s, t)
  <2>1. /\ Version(t) = Version(s) + 1 /\ t.reviews = s.reviews
        /\ \A v \in 1 .. Version(s) : t.authors[v] = s.authors[v]
        /\ t.state \notin {"approved", "published"}
    BY <1>4, CommitEffect
  <2> QED BY <1>0, <2>1 DEF EarnedInv
<1>5. CASE CanSubmit(s) /\ t = Submitted(s)
  <2>1. /\ t.reviews = s.reviews /\ t.versions = s.versions /\ t.authors = s.authors
        /\ t.state = Target(SubmitAction(s))
    BY <1>5 DEF Submitted, HasFields, Fields
  <2>2. t.state = "in_review"
    BY <2>1 DEF Target, SubmitAction, Transitions
  <2> QED BY <2>1, <2>2 DEF EarnedInv, Version
<1>6. CASE ByPolicy(s, t) \/ ByRetire(s, t) \/ t = Tested(s)
  BY <1>6, SameEarned DEF ByPolicy, ByRetire, Tested, HasFields, Fields, Target, Transitions
<1>7. CASE ByReview(s, t)
  <2>1. PICK p \in Principals : \E row :
           /\ MayReview(p, s)
           /\ row.reviewer = p.name /\ row.version = Version(s)
           /\ t.reviews = s.reviews \cup {row}
           /\ t.state \in {"approved", "published"} => CountApprovals(t) >= t.required
           /\ t.versions = s.versions /\ t.authors = s.authors
    BY <1>7, ReviewEffect
  <2>2. p.name \notin {NoteAuthor, s.authors[Version(s)]}
    BY <2>1 DEF MayReview, IsSelfApproval, VersionAuthor, NobodyApprovesTheirOwn
  <2>3. Version(s) \in 1 .. Version(s)
    BY <1>0 DEF HistoryInv
  <2> QED BY <2>1, <2>2, <2>3 DEF EarnedInv, Version
<1>8. CASE ByPublish(s, t)
  <2>1. Text(t) = Text(s) /\ s.state = "approved"
    BY <1>8, PublishEffect DEF ByPublish, PublishGate
  <2> QED BY <2>1, SameEarned DEF Text
<1>9. CASE ByRollback(s, t)
  <2>1. Text(t) = Text(s) /\ t.state = s.state
    BY <1>0, <1>9, RollbackEffect DEF ByRollback
  <2> QED BY <2>1, SameEarned DEF Text
<1> QED BY <1>1, <1>2, <1>3, <1>4, <1>5, <1>6, <1>7, <1>8, <1>9 DEF StepOf, ByRequest

\* Where no policy lets authors approve, an approved or published head has its
\* approvals from enough people who wrote neither the note nor this version,
\* whatever edits, rounds and policies went before (review, isSelfApproval).
THEOREM PortApprovalsAreEarned == Spec => []ApprovedHeadIsEarned
<1> DEFINE I == NobodyApprovesTheirOwn => \A i \in DOMAIN sets : EarnedInv(sets[i])
<1>1. Init => I
  BY DEF Init
<1>2. HistoriesInv /\ I /\ [Next]_vars => I'
  <2> SUFFICES ASSUME HistoriesInv, I, [Next]_vars, NobodyApprovesTheirOwn,
                      NEW i \in DOMAIN sets'
               PROVE  EarnedInv(sets'[i])
    BY DEF NobodyApprovesTheirOwn
  <2>1. CASE i \in DOMAIN sets
    <3>1. /\ StepOf(sets[i], sets'[i]) /\ HasFields(sets[i]) /\ HistoryInv(sets[i])
          /\ sets[i].policy \in Policies
      BY <2>1, EverySetMakesAStep DEF HistoriesInv, SetsInv
    <3> QED BY <2>1, <3>1, StepKeepsEarned
  <2>2. CASE i \notin DOMAIN sets
    <3>1. IsNew(i, sets'[i])
      BY <2>2, EverySetSteps DEF HistoriesInv
    <3>2. sets'[i].reviews = {} /\ sets'[i].state = "draft"
      BY <3>1 DEF IsNew, NewSet
    <3> QED BY <3>2 DEF EarnedInv
  <2> QED BY <2>1, <2>2
<1>3. I => ApprovedHeadIsEarned
  <2> SUFFICES ASSUME NobodyApprovesTheirOwn, NEW i \in DOMAIN sets, EarnedInv(sets[i]),
                      sets[i].state \in {"approved", "published"}
               PROVE  LET s == sets[i]
                          given == {r \in s.reviews : r.version = Version(s) /\ r.round = s.round}
                          approvers == {r.reviewer : r \in {q \in given : q.decision = "approve"}}
                      IN  Cardinality(approvers \ {NoteAuthor, VersionAuthor(s)}) >= s.required
    BY DEF ApprovedHeadIsEarned, NobodyApprovesTheirOwn
  <2> DEFINE s == sets[i]
             given == {r \in s.reviews : r.version = Version(s) /\ r.round = s.round}
             approvers == {r.reviewer : r \in {q \in given : q.decision = "approve"}}
  <2>1. approvers = {r.reviewer : r \in ApprovalsThisRound(s)}
    BY DEF ApprovalsThisRound
  <2>2. \A r \in ApprovalsThisRound(s) : r.reviewer \notin {NoteAuthor, VersionAuthor(s)}
    BY DEF ApprovalsThisRound, EarnedInv, VersionAuthor
  <2>3. approvers \ {NoteAuthor, VersionAuthor(s)} = {r.reviewer : r \in ApprovalsThisRound(s)}
    BY <2>1, <2>2
  <2> QED BY <2>3 DEF EarnedInv, CountApprovals
<1> QED BY <1>1, <1>2, <1>3, HistoriesStay, PTL DEF Spec

-----------------------------------------------------------------------------
(* Whom an open review waits for.                                          *)

RowBy(r, p) == r.reviewer = p.name /\ r.role = p.role

EndsReview(s) == CountApprovals(s) >= s.required /\ MissingRoles(s) = {}

\* While a review is open, all that was said in it is approvals, each by
\* somebody who may be asked, and once there is one they are not enough: the
\* policy cannot change meanwhile, and the approval that is enough ends it.
QueueInv(s) ==
  /\ s.round \in Nat
  /\ \A r \in s.reviews :
       /\ r = [reviewer |-> r.reviewer, role |-> r.role, version |-> r.version,
               round |-> r.round, decision |-> r.decision]
       /\ \E p \in Principals : RowBy(r, p)
       /\ r.round \in Nat /\ r.round <= s.round
       /\ s.state = "in_review" /\ r.version = Version(s) /\ r.round = s.round =>
            r.decision = "approve"
  /\ s.state = "in_review" /\ ApprovalsThisRound(s) # {} => ~EndsReview(s)

LEMMA SameQueue ==
  ASSUME NEW s, NEW t, QueueInv(s),
         t.reviews = s.reviews, t.versions = s.versions, t.round = s.round,
         t.required = s.required, t.policy = s.policy,
         t.state = "in_review" => s.state = "in_review"
  PROVE  QueueInv(t)
BY DEF QueueInv, EndsReview, CountApprovals, MissingRoles, ApprovalsThisRound, Version, RowBy

\* A set that is not in review.
LEMMA ClosedQueue ==
  ASSUME NEW s, NEW t, QueueInv(s),
         t.reviews = s.reviews, t.round = s.round, t.state # "in_review"
  PROVE  QueueInv(t)
BY DEF QueueInv, RowBy

\* What a decision makes of the rows and of the state.
IsDecided(s, p, decision, t) ==
  /\ t.reviews = s.reviews \cup {[reviewer |-> p.name, role |-> p.role, version |-> Version(s),
                                  round |-> s.round, decision |-> decision]}
  /\ t.round = s.round /\ t.versions = s.versions
  /\ t.required = s.required /\ t.policy = s.policy
  /\ decision = "request_changes" => t.state = "changes_requested"
  /\ decision = "approve" => t.state = IF EndsReview(t) THEN "approved" ELSE "in_review"

LEMMA DecisionEffect ==
  ASSUME NEW s, HasFields(s), s.state = "in_review", NEW p, NEW decision \in {"approve", "request_changes"}
  PROVE  IsDecided(s, p, decision, Reviewed(s, p, decision))
<1> DEFINE row == [reviewer |-> p.name, role |-> p.role, version |-> Version(s),
                   round |-> s.round, decision |-> decision]
           u == [s EXCEPT !.reviews = @ \cup {row}]
           t == Reviewed(s, p, decision)
<1>1. t = IF decision = "request_changes" THEN [u EXCEPT !.state = Target("request_changes")]
          ELSE IF CountApprovals(u) >= u.required /\ MissingRoles(u) = {}
          THEN [u EXCEPT !.state = Target("approve"), !.approved = @ \cup {Version(s)}]
          ELSE u
  BY DEF Reviewed
<1> HIDE DEF row, t
<1>2. /\ u.reviews = s.reviews \cup {row} /\ u.state = s.state
      /\ u.versions = s.versions /\ u.required = s.required
      /\ u.round = s.round /\ u.policy = s.policy /\ HasFields(u)
  BY DEF HasFields, Fields
<1> HIDE DEF u
<1>3. /\ t.reviews = u.reviews /\ t.versions = u.versions /\ t.required = u.required
      /\ t.round = u.round /\ t.policy = u.policy
  BY <1>1, <1>2 DEF HasFields, Fields
<1>4. EndsReview(t) <=> CountApprovals(u) >= u.required /\ MissingRoles(u) = {}
  BY <1>3 DEF EndsReview, CountApprovals, MissingRoles, ApprovalsThisRound, Version
<1>5. /\ decision = "request_changes" => t.state = "changes_requested"
      /\ decision = "approve" => t.state = IF EndsReview(t) THEN "approved" ELSE "in_review"
  BY <1>1, <1>2, <1>4 DEF HasFields, Fields, Target, Transitions
<1> QED BY <1>2, <1>3, <1>5 DEF IsDecided, row, t

\* A submission opens a round nobody has decided in yet; a commit closes the review.
LEMMA StepKeepsQueue ==
  ASSUME NEW s, NEW t, HasFields(s), HistoryInv(s), StepOf(s, t), QueueInv(s)
  PROVE  QueueInv(t)
<1>0. s.delivered \subseteq Nat /\ s.published \in Nat
  BY DEF HistoryInv
<1>1. CASE Noted(s, t)
  BY <1>1, SameQueue DEF Noted, HasFields, Fields
<1>2. ASSUME NEW source \in Sources, NEW hashes, t = Scanned(s, hashes, source)
      PROVE  QueueInv(t)
  BY <1>2, SameQueue DEF Scanned, HasFields, Fields
<1>3. ASSUME NEW wanted, t = Reverified(s, wanted)
      PROVE  QueueInv(t)
  BY <1>3, SameQueue DEF Reverified, HasFields, Fields
<1>4. CASE MayCommit(s, t)
  <2>1. t.reviews = s.reviews /\ t.round = s.round /\ t.state # "in_review"
    BY <1>4, CommitEffect
  <2> QED BY <2>1, ClosedQueue
<1>5. CASE CanSubmit(s) /\ t = Submitted(s)
  <2>1. t.reviews = s.reviews /\ t.round = s.round + 1
    BY <1>5 DEF Submitted, HasFields, Fields
  <2>2. \A r \in t.reviews : r.round # t.round /\ r.round <= t.round
    BY <2>1 DEF QueueInv
  <2>3. ApprovalsThisRound(t) = {}
    BY <2>2 DEF ApprovalsThisRound
  <2> QED BY <2>1, <2>2, <2>3 DEF QueueInv
<1>6. CASE ByPolicy(s, t)
  BY <1>6, ClosedQueue DEF ByPolicy, HasFields, Fields
<1>7. CASE ByRetire(s, t) \/ t = Tested(s)
  BY <1>7, SameQueue DEF ByRetire, Tested, HasFields, Fields, Target, Transitions
<1>8. CASE ByReview(s, t)
  <2>1. PICK p \in Principals, decision \in {"approve", "request_changes"} :
          s.state = "in_review" /\ t = Reviewed(s, p, decision)
    BY <1>8 DEF ByReview, MayReview
  <2> DEFINE row == [reviewer |-> p.name, role |-> p.role, version |-> Version(s),
                     round |-> s.round, decision |-> decision]
  <2>2. /\ t.reviews = s.reviews \cup {row}
        /\ t.round = s.round /\ t.versions = s.versions
        /\ t.state = "in_review" => decision = "approve" /\ ~EndsReview(t)
    <3>1. IsDecided(s, p, decision, t)
      BY <2>1, DecisionEffect
    <3> QED BY <3>1 DEF IsDecided
  <2>3. /\ row = [reviewer |-> row.reviewer, role |-> row.role, version |-> row.version,
                  round |-> row.round, decision |-> row.decision]
        /\ RowBy(row, p) /\ row.round = s.round /\ row.decision = decision
    BY DEF RowBy
  <2> HIDE DEF row
  <2>4. ASSUME NEW r \in t.reviews
        PROVE  /\ r = [reviewer |-> r.reviewer, role |-> r.role, version |-> r.version,
                       round |-> r.round, decision |-> r.decision]
               /\ \E q \in Principals : RowBy(r, q)
               /\ r.round \in Nat /\ r.round <= t.round
               /\ t.state = "in_review" /\ r.version = Version(t) /\ r.round = t.round =>
                    r.decision = "approve"
    <3>1. CASE r = row
      BY <2>1, <2>2, <2>3, <3>1 DEF QueueInv
    <3>2. CASE r \in s.reviews
      BY <2>1, <2>2, <3>2 DEF QueueInv, Version
    <3> QED BY <2>2, <3>1, <3>2
  <2> QED BY <2>2, <2>4 DEF QueueInv
<1>9. CASE ByPublish(s, t)
  <2>1. Text(t) = Text(s) /\ t.state \in {s.state, "published"}
    BY <1>9, PublishEffect DEF ByPublish
  <2> QED BY <2>1, SameQueue DEF Text
<1>10. CASE ByRollback(s, t)
  <2>1. Text(t) = Text(s) /\ t.state = s.state
    BY <1>0, <1>10, RollbackEffect DEF ByRollback
  <2> QED BY <2>1, SameQueue DEF Text
<1> QED BY <1>1, <1>2, <1>3, <1>4, <1>5, <1>6, <1>7, <1>8, <1>9, <1>10 DEF StepOf, ByRequest

\* Who could end it has not decided yet, and is asked.
LEMMA FinishersAreAsked ==
  ASSUME NEW s, HasFields(s), QueueInv(s), s.state = "in_review", NEW p \in Principals,
         MayReview(p, s), Reviewed(s, p, "approve").state = "approved"
  PROVE  p \in WaitingOn(s)
<1> DEFINE row == [reviewer |-> p.name, role |-> p.role, version |-> Version(s),
                   round |-> s.round, decision |-> "approve"]
           t == Reviewed(s, p, "approve")
<1>1. /\ t.reviews = s.reviews \cup {row} /\ t.versions = s.versions /\ t.round = s.round
      /\ t.required = s.required /\ t.policy = s.policy /\ EndsReview(t)
  <2>1. IsDecided(s, p, "approve", t) /\ t.state = "approved"
    BY DecisionEffect
  <2> HIDE DEF t
  <2> QED BY <2>1 DEF IsDecided
<1> HIDE DEF t
<1>2. ApprovalsThisRound(t) = ApprovalsThisRound(s) \cup {row}
  BY <1>1 DEF ApprovalsThisRound, Version
<1>3. p.name \notin Decided(s)
  <2> SUFFICES ASSUME NEW r \in s.reviews, r.version = Version(s), r.round = s.round,
                      r.reviewer = p.name
               PROVE  FALSE
    BY DEF Decided
  <2>1. r.decision = "approve" /\ r.role = p.role
    BY RolesAssumption DEF QueueInv, RowBy
  <2>2. r = row
    BY <2>1 DEF QueueInv
  <2>3. r \in ApprovalsThisRound(s)
    BY <2>1 DEF ApprovalsThisRound
  <2>4. ApprovalsThisRound(t) = ApprovalsThisRound(s)
    BY <1>2, <2>2, <2>3
  <2>5. EndsReview(s)
    BY <1>1, <2>4 DEF EndsReview, CountApprovals, MissingRoles
  <2> QED BY <2>3, <2>5 DEF QueueInv
<1>4. s.policy.allowSelf \/ p.name \notin {NoteAuthor, VersionAuthor(s)}
  BY DEF MayReview, IsSelfApproval
<1>5. MissingRoles(s) = {} \/ p.role \in MissingRoles(s)
  <2>1. row.role = p.role
    OBVIOUS
  <2> HIDE DEF row
  <2>2. {r.role : r \in ApprovalsThisRound(t)} = {r.role : r \in ApprovalsThisRound(s)} \cup {p.role}
    BY <1>2, <2>1
  <2>3. MissingRoles(t) = MissingRoles(s) \ {p.role}
    BY <1>1, <2>2 DEF MissingRoles
  <2> QED BY <1>1, <2>3 DEF EndsReview
<1> QED BY <1>3, <1>4, <1>5 DEF WaitingOn

\* Nobody who could end an open review is missing from the queue, whatever was
\* decided, edited and submitted before (review, workload).
THEOREM PortQueueIsComplete == Spec => []WhoCanFinishIsAsked
<1> DEFINE I == \A i \in DOMAIN sets : QueueInv(sets[i])
<1>1. Init => I
  BY DEF Init
<1>2. HistoriesInv /\ I /\ [Next]_vars => I'
  <2> SUFFICES ASSUME HistoriesInv, I, [Next]_vars, NEW i \in DOMAIN sets'
               PROVE  QueueInv(sets'[i])
    OBVIOUS
  <2>1. CASE i \in DOMAIN sets
    <3>1. StepOf(sets[i], sets'[i]) /\ HasFields(sets[i]) /\ HistoryInv(sets[i])
      BY <2>1, EverySetMakesAStep DEF HistoriesInv, SetsInv
    <3> QED BY <2>1, <3>1, StepKeepsQueue
  <2>2. CASE i \notin DOMAIN sets
    <3>1. IsNew(i, sets'[i])
      BY <2>2, EverySetSteps DEF HistoriesInv
    <3>2. sets'[i].reviews = {} /\ sets'[i].state = "draft" /\ sets'[i].round = 0
      BY <3>1 DEF IsNew, NewSet
    <3> QED BY <3>2 DEF QueueInv
  <2> QED BY <2>1, <2>2
<1>3. HistoriesInv /\ I => WhoCanFinishIsAsked
  BY FinishersAreAsked DEF HistoriesInv, SetsInv, WhoCanFinishIsAsked
<1> QED BY <1>1, <1>2, <1>3, HistoriesStay, PTL DEF Spec
-----------------------------------------------------------------------------
(* Refinement of Release.                                                  *)

\* What is on record about a version: approvals and green runs, and through the
\* gate the deliveries.
ClearedInv(s) ==
  /\ s.approved \subseteq 1 .. Version(s)
  /\ s.run.passed => s.run.version \in s.greens
  /\ s.state \in {"approved", "published"} => Version(s) \in s.approved
  /\ s.delivered \subseteq s.approved \cap s.greens

Cleared(s) == s.approved \cap s.greens

Held(s) == {s.holds[t] : t \in Targets} \ {0}

SameRelease(s, t) ==
  /\ t.approved = s.approved /\ t.greens = s.greens
  /\ t.published = s.published /\ t.holds = s.holds

\* A set's step as Release has it.
ReleaseStep(s, t) ==
  \/ Version(t) = Version(s) + 1 /\ SameRelease(s, t)
  \/ Version(t) = Version(s) /\ SameRelease(s, t)
  \/ /\ Version(t) = Version(s) /\ t.published = s.published /\ t.holds = s.holds
     /\ Cleared(t) \in {Cleared(s), Cleared(s) \cup {Version(s)}}
  \/ /\ Version(t) = Version(s) /\ Cleared(t) = Cleared(s)
     /\ \E v \in Cleared(s) :
          /\ v = Version(s) \/ v < s.published
          /\ Held(t) \subseteq Held(s) \cup {v}
          /\ t.published \in {s.published, v}

LEMMA SameCleared ==
  ASSUME NEW s, NEW t, ClearedInv(s), SameRelease(s, t), t.versions = s.versions,
         t.run = s.run, t.delivered = s.delivered,
         t.state \in {"approved", "published"} => s.state \in {"approved", "published"}
  PROVE  ClearedInv(t) /\ ReleaseStep(s, t)
BY DEF ClearedInv, Version, SameRelease, ReleaseStep

LEMMA TestedEffect ==
  ASSUME NEW s, HasFields(s)
  PROVE  LET t == Tested(s) IN
         /\ t.run.version = Version(s) /\ (t.run.passed <=> Passes(s))
         /\ t.greens = IF Passes(s) THEN s.greens \cup {Version(s)} ELSE s.greens
         /\ t.approved = s.approved /\ t.versions = s.versions /\ t.state = s.state
         /\ t.delivered = s.delivered /\ t.published = s.published /\ t.holds = s.holds
<1> DEFINE b == Passes(s)
           r == [version |-> Version(s), passed |-> b]
           g == IF b THEN s.greens \cup {Version(s)} ELSE s.greens
           t == [s EXCEPT !.run = r, !.greens = g]
<1>1. Tested(s) = t
  BY DEF Tested
<1>2. r.version = Version(s) /\ (r.passed <=> b)
  OBVIOUS
<1> HIDE DEF r, g, b
<1>3. /\ t.run = r /\ t.greens = g
      /\ t.approved = s.approved /\ t.versions = s.versions /\ t.state = s.state
      /\ t.delivered = s.delivered /\ t.published = s.published /\ t.holds = s.holds
  BY DEF HasFields, Fields
<1> HIDE DEF t
<1> QED BY <1>1, <1>2, <1>3 DEF b, g

LEMMA StepReleases ==
  ASSUME NEW s, NEW t, HasFields(s), HistoryInv(s), StepOf(s, t), ClearedInv(s)
  PROVE  ClearedInv(t) /\ ReleaseStep(s, t)
<1>0. /\ s.delivered \subseteq Nat /\ s.published \in Nat
      /\ Version(s) \in Nat /\ Version(s) \in 1 .. Version(s)
  BY DEF HistoryInv, Version
<1>1. CASE Noted(s, t)
  BY <1>1, SameCleared DEF Noted, SameRelease, HasFields, Fields
<1>2. ASSUME NEW source \in Sources, NEW hashes, t = Scanned(s, hashes, source)
      PROVE  ClearedInv(t) /\ ReleaseStep(s, t)
  BY <1>2, SameCleared DEF Scanned, SameRelease, HasFields, Fields
<1>3. ASSUME NEW wanted, t = Reverified(s, wanted)
      PROVE  ClearedInv(t) /\ ReleaseStep(s, t)
  BY <1>3, SameCleared DEF Reverified, SameRelease, HasFields, Fields
<1>4. CASE MayCommit(s, t)
  <2>1. /\ Version(t) = Version(s) + 1 /\ SameRelease(s, t) /\ t.run = s.run
        /\ t.delivered = s.delivered /\ t.state \notin {"approved", "published"}
    BY <1>4, CommitEffect DEF SameRelease
  <2> QED BY <1>0, <2>1 DEF ClearedInv, ReleaseStep, SameRelease
<1>5. CASE CanSubmit(s) /\ t = Submitted(s)
  <2>1. /\ t.versions = s.versions /\ SameRelease(s, t) /\ t.run = s.run
        /\ t.delivered = s.delivered /\ t.state = Target(SubmitAction(s))
    BY <1>5 DEF Submitted, SameRelease, HasFields, Fields
  <2>2. t.state = "in_review"
    BY <2>1 DEF Target, SubmitAction, Transitions
  <2> QED BY <2>1, <2>2, SameCleared
<1>6. CASE ByPolicy(s, t) \/ ByRetire(s, t)
  BY <1>6, SameCleared
  DEF ByPolicy, ByRetire, SameRelease, HasFields, Fields, Target, Transitions
<1>7. CASE t = Tested(s)
  <2>1. /\ t.run.version = Version(s) /\ (t.run.passed <=> Passes(s))
        /\ t.greens = IF Passes(s) THEN s.greens \cup {Version(s)} ELSE s.greens
        /\ t.approved = s.approved /\ Version(t) = Version(s) /\ t.state = s.state
        /\ t.delivered = s.delivered /\ t.published = s.published /\ t.holds = s.holds
    BY <1>7, TestedEffect DEF Version
  <2>2. ClearedInv(t)
    BY <2>1 DEF ClearedInv
  <2>3. Cleared(t) \in {Cleared(s), Cleared(s) \cup {Version(s)}}
    BY <2>1 DEF Cleared
  <2> QED BY <2>1, <2>2, <2>3 DEF ReleaseStep
<1>8. CASE ByReview(s, t)
  <2>1. /\ \/ t.approved = s.approved \cup {Version(s)}
           \/ t.approved = s.approved /\ t.state \notin {"approved", "published"}
        /\ Version(t) = Version(s) /\ t.greens = s.greens /\ t.run = s.run
        /\ t.delivered = s.delivered /\ t.published = s.published /\ t.holds = s.holds
    BY <1>8, ReviewEffect DEF Version
  <2>2. ClearedInv(t)
    BY <1>0, <2>1 DEF ClearedInv
  <2>3. Cleared(t) \in {Cleared(s), Cleared(s) \cup {Version(s)}}
    BY <2>1 DEF Cleared
  <2> QED BY <2>1, <2>2, <2>3 DEF ReleaseStep
<1>9. CASE ByPublish(s, t)
  <2>1. PICK refusing \in SUBSET Targets : PublishGate(s) /\ t = Published(s, refusing)
    BY <1>9 DEF ByPublish
  <2>2. s.state = "approved" /\ s.run.passed /\ s.run.version = Version(s)
    BY <2>1 DEF PublishGate
  <2>3. Version(s) \in Cleared(s)
    BY <2>2 DEF ClearedInv, Cleared
  <2>4. /\ Text(t) = Text(s) /\ t.delivered \subseteq s.delivered \cup {Version(s)}
        /\ \A x \in Targets : t.holds[x] \in {s.holds[x], Version(s)}
        /\ t.state \in {s.state, "published"}
        /\ t.published \in {s.published, Version(s)}
    BY <2>1, PublishEffect
  <2>5. Held(t) \subseteq Held(s) \cup {Version(s)}
    BY <2>4 DEF Held
  <2>6. Version(t) = Version(s) /\ Cleared(t) = Cleared(s)
    BY <2>4 DEF Text, Version, Cleared
  <2>7. ClearedInv(t)
    BY <2>2, <2>3, <2>4, <2>6 DEF ClearedInv, Cleared, Text
  <2> QED BY <2>3, <2>4, <2>5, <2>6, <2>7 DEF ReleaseStep
<1>10. CASE ByRollback(s, t)
  <2>1. PICK v \in Earlier(s) :
          /\ Text(t) = Text(s) /\ t.state = s.state /\ t.delivered = s.delivered
          /\ \A x \in Targets : t.holds[x] \in {s.holds[x], v}
          /\ t.published \in {s.published, v}
    BY <1>0, <1>10, RollbackEffect DEF ByRollback
  <2>2. v \in Cleared(s) /\ v < s.published
    BY DEF Earlier, ClearedInv, Cleared
  <2>3. Held(t) \subseteq Held(s) \cup {v}
    BY <2>1 DEF Held
  <2>4. Version(t) = Version(s) /\ Cleared(t) = Cleared(s)
    BY <2>1 DEF Text, Version, Cleared
  <2>5. ClearedInv(t)
    BY <2>1, <2>4 DEF ClearedInv, Text
  <2> QED BY <2>1, <2>2, <2>3, <2>4, <2>5 DEF ReleaseStep
<1> QED BY <1>1, <1>2, <1>3, <1>4, <1>5, <1>6, <1>7, <1>8, <1>9, <1>10 DEF StepOf, ByRequest

RecordsInv == HistoriesInv /\ \A i \in DOMAIN sets : ClearedInv(sets[i])

LEMMA NewCleared ==
  ASSUME NEW i, NEW s, IsNew(i, s)
  PROVE  /\ HistoryInv(s) /\ ClearedInv(s)
         /\ Version(s) = 1 /\ Cleared(s) = {} /\ s.published = 0 /\ Held(s) = {}
<1>1. /\ Version(s) = 1 /\ s.approved = {} /\ s.greens = {} /\ s.delivered = {}
      /\ s.published = 0 /\ s.state = "draft" /\ s.run = NoRun
      /\ \A t \in Targets : s.holds[t] = 0
  BY DEF IsNew, NewSet, Version
<1>2. ~ s.run.passed
  BY <1>1 DEF NoRun
<1>3. HistoryInv(s)
  BY NewHistory DEF IsNew
<1> QED BY <1>1, <1>2, <1>3 DEF ClearedInv, Cleared, Held

LEMMA RecordsStay == Spec => []RecordsInv
<1> DEFINE I == \A i \in DOMAIN sets : ClearedInv(sets[i])
<1>1. Init => I
  BY DEF Init
<1>2. HistoriesInv /\ I /\ [Next]_vars => I'
  <2> SUFFICES ASSUME HistoriesInv, I, [Next]_vars, NEW i \in DOMAIN sets'
               PROVE  ClearedInv(sets'[i])
    OBVIOUS
  <2>1. CASE i \in DOMAIN sets
    <3>1. StepOf(sets[i], sets'[i]) /\ HasFields(sets[i]) /\ HistoryInv(sets[i])
      BY <2>1, EverySetMakesAStep DEF HistoriesInv, SetsInv
    <3> QED BY <2>1, <3>1, StepReleases
  <2>2. CASE i \notin DOMAIN sets
    <3>1. IsNew(i, sets'[i])
      BY <2>2, EverySetSteps DEF HistoriesInv
    <3> QED BY <3>1, NewCleared
  <2> QED BY <2>1, <2>2
<1>3. RecordsInv <=> HistoriesInv /\ I
  BY DEF RecordsInv
<1> QED BY <1>1, <1>2, <1>3, HistoriesStay, PTL DEF Spec

\* The first set is where Release looks.
LEMMA FirstSetReleases ==
  ASSUME RecordsInv, [Next]_vars
  PROVE  [Released!Next]_<<IF sets = <<>> THEN 1 ELSE Version(sets[1]),
                           IF sets = <<>> THEN {} ELSE sets[1].approved \cap sets[1].greens,
                           IF sets = <<>> THEN 0 ELSE sets[1].published,
                           IF sets = <<>> THEN {} ELSE {sets[1].holds[t] : t \in Targets} \ {0}>>
<1> DEFINE head == IF sets = <<>> THEN 1 ELSE Version(sets[1])
           clear == IF sets = <<>> THEN {} ELSE Cleared(sets[1])
           live == IF sets = <<>> THEN 0 ELSE sets[1].published
           held == IF sets = <<>> THEN {} ELSE Held(sets[1])
<1> SUFFICES Released!Next \/ (head' = head /\ clear' = clear /\ live' = live /\ held' = held)
  BY DEF Cleared, Held
<1>1. PICK S : sets \in Seq(S)
  BY DEF RecordsInv, HistoriesInv, SetsInv
<1>2. PICK T : sets' \in Seq(T)
  BY EverySetSteps DEF RecordsInv, HistoriesInv
<1>3. CASE sets = <<>>
  <2>1. 1 \notin DOMAIN sets
    BY <1>3
  <2>2. CASE sets' = <<>>
    BY <1>3, <2>2
  <2>3. CASE sets' # <<>>
    <3>1. 1 \in DOMAIN sets'
      BY <1>2, <2>3
    <3>2. IsNew(1, sets'[1])
      BY <2>1, <3>1, EverySetSteps DEF RecordsInv, HistoriesInv
    <3>3. Version(sets'[1]) = 1 /\ Cleared(sets'[1]) = {} /\ sets'[1].published = 0
          /\ Held(sets'[1]) = {}
      BY <3>2, NewCleared
    <3> QED BY <1>3, <2>3, <3>3 DEF Version, Cleared, Held
  <2> QED BY <2>2, <2>3
<1>4. CASE sets # <<>>
  <2> DEFINE s == sets[1]
             t == sets'[1]
  <2>1. 1 \in DOMAIN sets
    BY <1>1, <1>4
  <2>2. 1 \in DOMAIN sets' /\ StepOf(s, t)
    BY <2>1, EverySetMakesAStep DEF RecordsInv, HistoriesInv
  <2>3. sets' # <<>>
    BY <1>2, <2>2
  <2>4. HasFields(s) /\ HistoryInv(s) /\ ClearedInv(s)
    BY <2>1 DEF RecordsInv, HistoriesInv, SetsInv
  <2>5. ReleaseStep(s, t)
    BY <2>2, <2>4, StepReleases
  <2>6. Version(s) \in Nat /\ Version(s) \in 1 .. Version(s)
    BY <2>4 DEF HistoryInv, Version
  <2>7. /\ head = Version(s) /\ clear = Cleared(s) /\ live = s.published /\ held = Held(s)
        /\ head' = Version(t) /\ clear' = Cleared(t) /\ live' = t.published /\ held' = Held(t)
    BY <1>4, <2>3 DEF Version, Cleared, Held
  <2>8. /\ clear = IF sets = <<>> THEN {} ELSE sets[1].approved \cap sets[1].greens
        /\ held = IF sets = <<>> THEN {} ELSE {sets[1].holds[x] : x \in Targets} \ {0}
    BY DEF Cleared, Held
  <2>9. /\ clear' = (IF sets = <<>> THEN {} ELSE sets[1].approved \cap sets[1].greens)'
        /\ held' = (IF sets = <<>> THEN {} ELSE {sets[1].holds[x] : x \in Targets} \ {0})'
    BY DEF Cleared, Held
  <2> HIDE DEF clear, held, head, live
  <2>10. CASE Version(t) = Version(s) + 1 /\ SameRelease(s, t)
    <3>1. head' = head + 1 /\ clear' = clear /\ live' = live /\ held' = held
      BY <2>7, <2>10 DEF SameRelease, Cleared, Held
    <3>2. Released!Edit
      BY <2>8, <2>9, <3>1 DEF Released!Edit, head, live
    <3> QED BY <3>2 DEF Released!Next
  <2>11. CASE Version(t) = Version(s) /\ SameRelease(s, t)
    BY <2>7, <2>11 DEF SameRelease, Cleared, Held
  <2>12. CASE /\ Version(t) = Version(s) /\ t.published = s.published /\ t.holds = s.holds
              /\ Cleared(t) \in {Cleared(s), Cleared(s) \cup {Version(s)}}
    <3>1. head' = head /\ live' = live /\ held' = held
      BY <2>7, <2>12 DEF Held
    <3>2. CASE clear' = clear
      BY <3>1, <3>2
    <3>3. CASE clear' = clear \cup {Version(s)}
      <4>1. \E v \in 1 .. head : clear' = clear \cup {v}
        BY <2>6, <2>7, <3>3
      <4>2. Released!Clear
        BY <2>8, <2>9, <3>1, <4>1 DEF Released!Clear, head, live
      <4> QED BY <4>2 DEF Released!Next
    <3> QED BY <2>7, <2>12, <3>2, <3>3
  <2>13. CASE /\ Version(t) = Version(s) /\ Cleared(t) = Cleared(s)
              /\ \E v \in Cleared(s) :
                   /\ v = Version(s) \/ v < s.published
                   /\ Held(t) \subseteq Held(s) \cup {v}
                   /\ t.published \in {s.published, v}
    <3>1. PICK v \in clear :
            /\ v = head \/ v < live
            /\ held' \subseteq held \cup {v}
            /\ live' \in {live, v}
      BY <2>7, <2>13
    <3>2. head' = head /\ clear' = clear
      BY <2>7, <2>13
    <3>3. Released!Send(v)
      BY <2>8, <2>9, <3>1 DEF Released!Send, head, live
    <3>4. CASE live' = live
      <4>1. Released!Attempt
        BY <2>8, <2>9, <3>1, <3>2, <3>3, <3>4 DEF Released!Attempt, head, live
      <4> QED BY <4>1 DEF Released!Next
    <3>5. CASE live' = v
      <4>1. Released!GoLive
        BY <2>8, <2>9, <3>1, <3>2, <3>3, <3>5 DEF Released!GoLive, head, live
      <4> QED BY <4>1 DEF Released!Next
    <3> QED BY <3>1, <3>4, <3>5
  <2> QED BY <2>5, <2>10, <2>11, <2>12, <2>13 DEF ReleaseStep
<1> QED BY <1>3, <1>4

\* Any set of targets, any refusals, any order of runs, edits, reviews, publishes
\* and rollbacks: only cleared versions reach a target, the head goes live and the
\* live version only steps back (publishGate, publish, rollback).
THEOREM PortImplementsRelease == Spec => IsReleased
<1>1. Init => Released!Init
  BY DEF Init, Released!Init
<1>2. RecordsInv /\ [Next]_vars
        => [Released!Next]_<<IF sets = <<>> THEN 1 ELSE Version(sets[1]),
                             IF sets = <<>> THEN {} ELSE sets[1].approved \cap sets[1].greens,
                             IF sets = <<>> THEN 0 ELSE sets[1].published,
                             IF sets = <<>> THEN {} ELSE {sets[1].holds[t] : t \in Targets} \ {0}>>
  BY FirstSetReleases
<1> QED BY <1>1, <1>2, RecordsStay, PTL DEF Spec, IsReleased, Released!Spec

-----------------------------------------------------------------------------
(* Drift.                                                                  *)

FlagShape(s) == \A pair \in DOMAIN s.flags : {"current", "open"} \subseteq DOMAIN s.flags[pair]

\* Behind and PassedOver with the registry's hashes given.
BehindIn(d, hashes) == {pair \in Pairs(d) : CitedHash(d, pair) # hashes[pair[2]]}

PassedIn(s, hashes) ==
  {pair \in DOMAIN s.flags : ~s.flags[pair].open /\ s.flags[pair].current = hashes[pair[2]]}

\* An open flag is about a citation that is behind and names what the source says
\* now; a citation that is behind has a flag, open or passed over.
FlagInv(s, hashes) ==
  s.parent = 0 /\ s.state # "retired" =>
    /\ \A pair \in OpenFlags(s) :
         pair \in BehindIn(s.document, hashes) /\ s.flags[pair].current = hashes[pair[2]]
    /\ BehindIn(s.document, hashes) \subseteq OpenFlags(s) \cup PassedIn(s, hashes)

RegistryInv == registry \in [Sources -> Hashes]

FlagsInv ==
  SpacedRehashes =>
    RegistryInv /\ \A i \in DOMAIN sets : FlagShape(sets[i]) /\ FlagInv(sets[i], registry)

LEMMA ClosedFlags ==
  ASSUME NEW s, NEW t, FlagShape(s), NEW pairs \in SUBSET OpenFlags(s),
         t.flags = Closed(s.flags, pairs)
  PROVE  /\ FlagShape(t)
         /\ DOMAIN t.flags = DOMAIN s.flags
         /\ OpenFlags(t) = OpenFlags(s) \ pairs
         /\ \A pair \in DOMAIN s.flags : t.flags[pair].current = s.flags[pair].current
<1>1. DOMAIN t.flags = DOMAIN s.flags
  BY DEF Closed
<1>2. ASSUME NEW pair \in DOMAIN s.flags
      PROVE  /\ {"current", "open"} \subseteq DOMAIN t.flags[pair]
             /\ t.flags[pair].current = s.flags[pair].current
             /\ t.flags[pair].open <=> s.flags[pair].open /\ pair \notin pairs
  <2>1. t.flags[pair] = IF pair \in pairs THEN [s.flags[pair] EXCEPT !.open = FALSE]
                        ELSE s.flags[pair]
    BY DEF Closed
  <2>2. {"current", "open"} \subseteq DOMAIN s.flags[pair]
    BY DEF FlagShape
  <2> QED BY <2>1, <2>2
<1>3. FlagShape(t) /\ \A pair \in DOMAIN s.flags : t.flags[pair].current = s.flags[pair].current
  BY <1>1, <1>2 DEF FlagShape
<1>4. OpenFlags(t) = OpenFlags(s) \ pairs
  BY <1>1, <1>2 DEF OpenFlags
<1> QED BY <1>1, <1>3, <1>4

\* A set whose document, flags and parent stay is as well accounted for as before.
LEMMA SameFlags ==
  ASSUME NEW s, NEW t, FlagShape(s), FlagInv(s, registry),
         t.document = s.document, t.flags = s.flags, t.parent = s.parent,
         s.state = "retired" => t.state = "retired"
  PROVE  FlagShape(t) /\ FlagInv(t, registry)
<1>1. FlagShape(t)
  BY DEF FlagShape
<1>2. OpenFlags(t) = OpenFlags(s)
  BY DEF OpenFlags
<1>3. PassedIn(t, registry) = PassedIn(s, registry)
  BY DEF PassedIn
<1> QED BY <1>1, <1>2, <1>3 DEF FlagInv

LEMMA CommitKeepsFlags ==
  ASSUME NEW s, NEW t, HasFields(s), DocInv(s), FlagShape(s), FlagInv(s, registry), MayCommit(s, t)
  PROVE  FlagShape(t) /\ FlagInv(t, registry)
<1>1. PICK p \in Principals : \E d : IsDocument(d) /\ CanCommit(s, d) /\ t = Committed(s, p.name, d)
  BY DEF MayCommit
<1>2. PICK d : IsDocument(d) /\ CanCommit(s, d) /\ t = Committed(s, p.name, d)
  BY <1>1
<1> DEFINE e == NextDocument(s, d)
           closing == FlagsClosedByEdit(s, e)
<1>3. /\ t.document = e /\ t.flags = Closed(s.flags, closing) /\ t.parent = s.parent
  BY <1>2 DEF Committed, HasFields, Fields
<1>4. s.state # "retired"
  BY <1>2 DEF CanCommit, EditableStates
<1>5. \A pair \in Pairs(e) :
        \/ CitedHash(e, pair) = registry[pair[2]]
        \/ pair \in Pairs(s.document) /\ CitedHash(e, pair) = CitedHash(s.document, pair)
  BY <1>2, NextHead DEF DocInv
<1>6. closing \in SUBSET OpenFlags(s)
  BY DEF FlagsClosedByEdit
<1>7. \A pair \in OpenFlags(s) :
        pair \in closing <=> (pair \in Pairs(e) => CitedHash(e, pair) = s.flags[pair].current)
  BY DEF FlagsClosedByEdit
<1> HIDE DEF e, closing
<1>8. /\ FlagShape(t)
      /\ DOMAIN t.flags = DOMAIN s.flags
      /\ OpenFlags(t) = OpenFlags(s) \ closing
      /\ \A pair \in DOMAIN s.flags : t.flags[pair].current = s.flags[pair].current
  BY <1>3, <1>6, ClosedFlags
<1>9. SUFFICES ASSUME s.parent = 0
               PROVE  /\ \A pair \in OpenFlags(t) :
                           pair \in BehindIn(e, registry) /\ t.flags[pair].current = registry[pair[2]]
                      /\ BehindIn(e, registry) \subseteq OpenFlags(t) \cup PassedIn(t, registry)
  BY <1>3, <1>8 DEF FlagInv
<1>10. /\ \A pair \in OpenFlags(s) :
            pair \in BehindIn(s.document, registry) /\ s.flags[pair].current = registry[pair[2]]
       /\ BehindIn(s.document, registry) \subseteq OpenFlags(s) \cup PassedIn(s, registry)
  BY <1>4, <1>9 DEF FlagInv
<1>11. ASSUME NEW pair \in OpenFlags(t)
       PROVE  pair \in BehindIn(e, registry) /\ t.flags[pair].current = registry[pair[2]]
  <2>1. pair \in OpenFlags(s) /\ pair \in DOMAIN s.flags
    BY <1>8 DEF OpenFlags
  <2>2. pair \in Pairs(e) /\ CitedHash(e, pair) # s.flags[pair].current
    BY <1>7, <1>8, <2>1
  <2> QED BY <1>8, <1>10, <2>1, <2>2 DEF BehindIn
<1>12. ASSUME NEW pair \in BehindIn(e, registry)
       PROVE  pair \in OpenFlags(t) \cup PassedIn(t, registry)
  <2>1. pair \in Pairs(e) /\ CitedHash(e, pair) # registry[pair[2]]
    BY DEF BehindIn
  <2>2. pair \in BehindIn(s.document, registry)
    BY <1>5, <2>1 DEF BehindIn
  <2>3. CASE pair \in OpenFlags(s)
    BY <1>7, <1>8, <1>10, <2>1, <2>3
  <2>4. CASE pair \in PassedIn(s, registry) /\ pair \notin OpenFlags(s)
    <3>1. pair \in DOMAIN t.flags /\ t.flags[pair].current = registry[pair[2]]
      BY <1>8, <2>4 DEF PassedIn
    <3>2. pair \notin OpenFlags(t)
      BY <1>8, <2>4
    <3> QED BY <3>1, <3>2 DEF PassedIn, OpenFlags
  <2> QED BY <1>10, <2>2, <2>3, <2>4
<1> QED BY <1>11, <1>12

LEMMA ReverifyKeepsFlags ==
  ASSUME NEW s, NEW wanted, HasFields(s), DocInv(s), FlagShape(s), FlagInv(s, registry)
  PROVE  FlagShape(Reverified(s, wanted)) /\ FlagInv(Reverified(s, wanted), registry)
<1> DEFINE t == Reverified(s, wanted)
           done == Verified(s, wanted)
<1>1. /\ t.flags = Closed(s.flags, done) /\ t.parent = s.parent /\ t.state = s.state
      /\ Pairs(t.document) = Pairs(s.document)
      /\ \A pair \in Pairs(s.document) :
           CitedHash(t.document, pair) =
             IF pair \in done THEN s.flags[pair].current ELSE CitedHash(s.document, pair)
  BY ReverifyEffect DEF DocInv
<1>2. done \in SUBSET OpenFlags(s)
  BY DEF Verified
<1> HIDE DEF t, done
<1>3. /\ FlagShape(t)
      /\ DOMAIN t.flags = DOMAIN s.flags
      /\ OpenFlags(t) = OpenFlags(s) \ done
      /\ \A pair \in DOMAIN s.flags : t.flags[pair].current = s.flags[pair].current
  BY <1>1, <1>2, ClosedFlags
<1>4. FlagInv(t, registry)
  <2>1. SUFFICES ASSUME s.parent = 0, s.state # "retired"
                 PROVE  /\ \A pair \in OpenFlags(t) :
                             /\ pair \in BehindIn(t.document, registry)
                             /\ t.flags[pair].current = registry[pair[2]]
                        /\ BehindIn(t.document, registry) \subseteq OpenFlags(t) \cup PassedIn(t, registry)
    BY <1>1 DEF FlagInv
  <2>2. /\ \A pair \in OpenFlags(s) :
             pair \in BehindIn(s.document, registry) /\ s.flags[pair].current = registry[pair[2]]
        /\ BehindIn(s.document, registry) \subseteq OpenFlags(s) \cup PassedIn(s, registry)
    BY <2>1 DEF FlagInv
  <2>3. ASSUME NEW pair \in OpenFlags(t)
        PROVE  pair \in BehindIn(t.document, registry) /\ t.flags[pair].current = registry[pair[2]]
    <3>1. pair \in OpenFlags(s) /\ pair \notin done /\ pair \in DOMAIN s.flags
      BY <1>3 DEF OpenFlags
    <3>2. pair \in Pairs(s.document) /\ CitedHash(s.document, pair) # registry[pair[2]]
      BY <2>2, <3>1 DEF BehindIn
    <3> QED BY <1>1, <1>3, <2>2, <3>1, <3>2 DEF BehindIn
  <2>4. ASSUME NEW pair \in BehindIn(t.document, registry)
        PROVE  pair \in OpenFlags(t) \cup PassedIn(t, registry)
    <3>1. pair \in Pairs(s.document) /\ CitedHash(t.document, pair) # registry[pair[2]]
      BY <1>1 DEF BehindIn
    <3>2. pair \notin done
      BY <1>1, <1>2, <2>2, <3>1
    <3>3. pair \in BehindIn(s.document, registry)
      BY <1>1, <3>1, <3>2 DEF BehindIn
    <3>4. CASE pair \in OpenFlags(s)
      BY <1>3, <3>2, <3>4
    <3>5. CASE pair \in PassedIn(s, registry) /\ pair \notin OpenFlags(s)
      <4>1. pair \in DOMAIN t.flags /\ t.flags[pair].current = registry[pair[2]]
        BY <1>3, <3>5 DEF PassedIn
      <4>2. pair \notin OpenFlags(t)
        BY <1>3, <3>5
      <4> QED BY <4>1, <4>2 DEF PassedIn, OpenFlags
    <3> QED BY <2>2, <3>3, <3>4, <3>5
  <2> QED BY <2>3, <2>4
<1> QED BY <1>3, <1>4 DEF t

LEMMA RequestKeepsFlags ==
  ASSUME NEW s, NEW t, HasFields(s), HistoryInv(s), DocInv(s), FlagShape(s), FlagInv(s, registry),
         ByRequest(s, t)
  PROVE  FlagShape(t) /\ FlagInv(t, registry)
<1>0. s.delivered \subseteq Nat /\ s.published \in Nat
  BY DEF HistoryInv
<1>1. CASE Noted(s, t)
  BY <1>1, SameFlags DEF Noted, HasFields, Fields
<1>3. ASSUME NEW wanted, t = Reverified(s, wanted)
      PROVE  FlagShape(t) /\ FlagInv(t, registry)
  BY <1>3, ReverifyKeepsFlags
<1>4. CASE MayCommit(s, t)
  BY <1>4, CommitKeepsFlags
<1>5. CASE CanSubmit(s) /\ t = Submitted(s)
  <2>1. t.document = s.document /\ t.flags = s.flags /\ t.parent = s.parent
    BY <1>5 DEF Submitted, HasFields, Fields
  <2>2. s.state # "retired"
    BY <1>5 DEF CanSubmit, CanTransition, SubmitAction, Transitions
  <2> QED BY <2>1, <2>2, SameFlags
<1>6. CASE ByPolicy(s, t) \/ ByRetire(s, t) \/ t = Tested(s)
  BY <1>6, SameFlags DEF ByPolicy, ByRetire, Tested, HasFields, Fields, Target, Transitions
<1>7. CASE ByReview(s, t)
  <2>1. t.document = s.document /\ t.flags = s.flags /\ t.parent = s.parent
    BY <1>7 DEF ByReview, Reviewed, HasFields, Fields
  <2>2. s.state # "retired"
    BY <1>7 DEF ByReview, MayReview
  <2> QED BY <2>1, <2>2, SameFlags
<1>8. CASE ByPublish(s, t)
  <2>1. t.document = s.document /\ t.flags = s.flags /\ t.parent = s.parent
    BY <1>8, PublishEffect DEF ByPublish, Text
  <2>2. s.state # "retired"
    BY <1>8 DEF ByPublish, PublishGate
  <2> QED BY <2>1, <2>2, SameFlags
<1>9. CASE ByRollback(s, t)
  <2>1. /\ t.document = s.document /\ t.flags = s.flags /\ t.parent = s.parent
        /\ t.state = s.state
    BY <1>0, <1>9, RollbackEffect DEF ByRollback, Text
  <2> QED BY <2>1, SameFlags
<1> QED BY <1>1, <1>3, <1>4, <1>5, <1>6, <1>7, <1>8, <1>9 DEF ByRequest

\* A scan after a change of one source nobody has an open flag for.
LEMMA ScanKeepsFlags ==
  ASSUME NEW s, HasFields(s), FlagShape(s), NEW source \in Sources, NEW hash \in Hashes,
         registry \in [Sources -> Hashes], FlagInv(s, registry),
         \A pair \in OpenFlags(s) : pair[2] # source
  PROVE  LET hashes == [registry EXCEPT ![source] = hash]
             t == Scanned(s, hashes, source)
         IN  FlagShape(t) /\ FlagInv(t, hashes)
<1> DEFINE hashes == [registry EXCEPT ![source] = hash]
           fresh == ScanDocument(s, hashes, source)
           F == [pair \in fresh \cup DOMAIN s.flags |->
                   IF pair \in fresh THEN [current |-> hashes[source], open |-> TRUE]
                   ELSE s.flags[pair]]
           u == [s EXCEPT !.flags = F]
           t == Scanned(s, hashes, source)
<1>1. t = IF s.state = "retired" THEN s ELSE u
  BY DEF Scanned
<1>2. /\ hashes[source] = hash
      /\ \A other \in Sources \ {source} : hashes[other] = registry[other]
  OBVIOUS
<1>3. /\ DOMAIN F = fresh \cup DOMAIN s.flags
      /\ \A pair \in fresh :
           /\ {"current", "open"} \subseteq DOMAIN F[pair]
           /\ F[pair].open /\ F[pair].current = hashes[source]
      /\ \A pair \in DOMAIN s.flags \ fresh : F[pair] = s.flags[pair]
  OBVIOUS
<1>4. \A pair \in fresh :
        pair[2] = source /\ pair \in BehindIn(s.document, hashes)
  BY DEF ScanDocument, BehindIn
<1>5. \A pair \in BehindIn(s.document, hashes) :
        pair[2] = source /\ pair \notin fresh =>
          /\ pair \in DOMAIN s.flags
          /\ s.flags[pair].open \/ s.flags[pair].current = hashes[source]
  BY DEF ScanDocument, BehindIn
<1>6. \A pair \in Pairs(s.document) : pair[2] \in Sources
  BY DEF Pairs
<1> HIDE DEF F, fresh, hashes, t
<1>7. u.flags = F /\ u.document = s.document /\ u.parent = s.parent /\ u.state = s.state
  BY DEF HasFields, Fields
<1> HIDE DEF u
<1>8. CASE s.state = "retired"
  BY <1>1, <1>8 DEF FlagInv, t, hashes
<1>9. CASE s.state # "retired"
  <2>1. FlagShape(u)
    BY <1>3, <1>7 DEF FlagShape
  <2>2. OpenFlags(u) = fresh \cup OpenFlags(s)
    <3>1. \A pair \in OpenFlags(s) : pair \in DOMAIN s.flags /\ pair \notin fresh
      BY <1>4 DEF OpenFlags
    <3> QED BY <1>3, <1>7, <3>1 DEF OpenFlags
  <2>3. ASSUME s.parent = 0, NEW pair \in OpenFlags(u)
        PROVE  pair \in BehindIn(s.document, hashes) /\ F[pair].current = hashes[pair[2]]
    <3>1. CASE pair \in fresh
      BY <1>3, <1>4, <3>1
    <3>2. CASE pair \in OpenFlags(s)
      <4>1. /\ pair \in BehindIn(s.document, registry) /\ s.flags[pair].current = registry[pair[2]]
            /\ pair[2] # source /\ pair \in DOMAIN s.flags /\ pair \notin fresh
        BY <1>4, <1>9, <2>3, <3>2 DEF FlagInv, OpenFlags
      <4>2. hashes[pair[2]] = registry[pair[2]]
        BY <1>2, <1>6, <4>1 DEF BehindIn
      <4> QED BY <1>3, <4>1, <4>2 DEF BehindIn
    <3> QED BY <2>2, <2>3, <3>1, <3>2
  <2>4. ASSUME s.parent = 0, NEW pair \in BehindIn(s.document, hashes), pair \notin OpenFlags(u)
        PROVE  pair \in PassedIn(u, hashes)
    <3>1. pair \notin fresh /\ pair \notin OpenFlags(s)
      BY <2>2, <2>4
    <3>2. CASE pair[2] = source
      <4>1. pair \in DOMAIN s.flags /\ ~s.flags[pair].open /\ s.flags[pair].current = hashes[source]
        BY <1>5, <3>1, <3>2 DEF OpenFlags
      <4> QED BY <1>3, <1>7, <3>1, <3>2, <4>1 DEF PassedIn
    <3>3. CASE pair[2] # source
      <4>1. hashes[pair[2]] = registry[pair[2]]
        BY <1>2, <1>6, <3>3 DEF BehindIn
      <4>2. pair \in BehindIn(s.document, registry)
        BY <4>1 DEF BehindIn
      <4>3. pair \in PassedIn(s, registry)
        BY <1>9, <2>4, <3>1, <4>2 DEF FlagInv
      <4> QED BY <1>3, <1>7, <3>1, <4>1, <4>3 DEF PassedIn
    <3> QED BY <3>2, <3>3
  <2>5. FlagInv(u, hashes)
    BY <1>7, <2>3, <2>4 DEF FlagInv
  <2> QED BY <1>1, <1>9, <2>1, <2>5 DEF t, hashes
<1> QED BY <1>8, <1>9

LEMMA NewIsFlagged ==
  ASSUME NEW i, NEW s, IsNew(i, s)
  PROVE  FlagShape(s) /\ FlagInv(s, registry)
<1>1. PICK parent \in Nat, approvals \in Nat, policy \in Policies :
        \E document, base :
          /\ s = NewSet(document, approvals, policy, parent, base)
          /\ parent = 0 => \E d : IsDocument(d) /\ document = ResolveCitations(d)
  BY DEF IsNew
<1>2. s.flags = <<>> /\ s.parent = parent
  BY <1>1 DEF NewSet
<1>3. ASSUME parent = 0 PROVE BehindIn(s.document, registry) = {}
  <2>1. PICK d : IsDocument(d) /\ s.document = ResolveCitations(d)
    BY <1>1, <1>3 DEF NewSet
  <2>2. /\ DOMAIN s.document.steps = DOMAIN d.steps
        /\ \A id \in DOMAIN d.steps : s.document.steps[id].citations = Linked(d.steps[id].citations)
    BY <2>1, ResolvedDocument
  <2>3. ASSUME NEW pair \in Pairs(s.document)
        PROVE  CitedHash(s.document, pair) = registry[pair[2]]
    <3>1. /\ pair[1] \in DOMAIN d.steps
          /\ pair[2] \in DOMAIN s.document.steps[pair[1]].citations
      BY <2>2, <2>3 DEF Pairs
    <3>2. s.document.steps[pair[1]].citations = Linked(d.steps[pair[1]].citations)
      BY <2>2, <3>1
    <3> QED BY <3>1, <3>2 DEF CitedHash, Linked
  <2> QED BY <2>3 DEF BehindIn
<1>4. DOMAIN s.flags = {}
  BY <1>2
<1> QED BY <1>2, <1>3, <1>4 DEF FlagShape, FlagInv, OpenFlags, PassedIn

LEMMA FlagsStay == Spec => []FlagsInv
<1>1. Init => FlagsInv
  BY DEF Init, FlagsInv, RegistryInv
<1>2. HistoriesInv /\ FlagsInv /\ [Next]_vars => FlagsInv'
  <2> SUFFICES ASSUME HistoriesInv, FlagsInv, [Next]_vars, SpacedRehashes
               PROVE  RegistryInv' /\ \A i \in DOMAIN sets' :
                        FlagShape(sets'[i]) /\ FlagInv(sets'[i], registry')
    BY DEF FlagsInv, FlagShape, FlagInv, OpenFlags, BehindIn, PassedIn, Pairs, CitedHash
  <2>1. RegistryInv /\ SetsInv
    BY DEF FlagsInv, HistoriesInv
  <2>2. CASE registry' = registry /\ \A i \in DOMAIN sets : ByRequest(sets[i], sets'[i])
    <3>1. ASSUME NEW i \in DOMAIN sets', i \in DOMAIN sets
          PROVE  FlagShape(sets'[i]) /\ FlagInv(sets'[i], registry)
      <4>1. /\ HasFields(sets[i]) /\ HistoryInv(sets[i]) /\ DocInv(sets[i])
            /\ FlagShape(sets[i]) /\ FlagInv(sets[i], registry)
            /\ ByRequest(sets[i], sets'[i])
        BY <2>2, <3>1 DEF FlagsInv, HistoriesInv, SetsInv
      <4> QED BY <4>1, RequestKeepsFlags
    <3>2. ASSUME NEW i \in DOMAIN sets', i \notin DOMAIN sets
          PROVE  FlagShape(sets'[i]) /\ FlagInv(sets'[i], registry)
      <4>1. IsNew(i, sets'[i])
        BY <2>1, <3>2, EverySetSteps
      <4> QED BY <4>1, NewIsFlagged
    <3> QED BY <2>1, <2>2, <3>1, <3>2 DEF RegistryInv
  <2>3. ASSUME NEW source \in Sources, NEW hash \in Hashes, Rehash(source, hash)
        PROVE  RegistryInv' /\ \A i \in DOMAIN sets' :
                 FlagShape(sets'[i]) /\ FlagInv(sets'[i], registry')
    <3>1. registry' = [registry EXCEPT ![source] = hash]
      BY <2>3 DEF Rehash
    <3>2. DOMAIN sets' = DOMAIN sets
          /\ \A i \in DOMAIN sets : sets'[i] = Scanned(sets[i], registry', source)
      BY <2>1, <2>3, RehashScansAll
    <3>3. ASSUME NEW i \in DOMAIN sets
          PROVE  FlagShape(sets'[i]) /\ FlagInv(sets'[i], registry')
      <4>1. /\ HasFields(sets[i]) /\ FlagShape(sets[i]) /\ FlagInv(sets[i], registry)
            /\ \A pair \in OpenFlags(sets[i]) : pair[2] # source
        BY <2>3 DEF FlagsInv, HistoriesInv, SetsInv, Rehash
      <4> QED BY <2>1, <3>1, <3>2, <4>1, ScanKeepsFlags DEF RegistryInv
    <3> QED BY <2>1, <3>1, <3>2, <3>3 DEF RegistryInv
  <2> QED BY <2>1, <2>2, <2>3, EverySetSteps
<1> QED BY <1>1, <1>2, HistoriesStay, PTL DEF Spec

\* Receipts are written by a publish that passed the gate, and by nothing else.
LEMMA OnlyPublishDelivers ==
  ASSUME NEW s, NEW t, HasFields(s), HistoryInv(s), StepOf(s, t), t.delivered # s.delivered
  PROVE  PublishGate(s)
<1>0. s.delivered \subseteq Nat /\ s.published \in Nat
  BY DEF HistoryInv
<1> USE DEF HasFields, Fields
<1>1. CASE Noted(s, t)
  BY <1>1 DEF Noted
<1>2. ASSUME NEW source \in Sources, NEW hashes, t = Scanned(s, hashes, source)
      PROVE  t.delivered = s.delivered
  BY <1>2 DEF Scanned
<1>3. ASSUME NEW wanted, t = Reverified(s, wanted)
      PROVE  t.delivered = s.delivered
  BY <1>3 DEF Reverified
<1>4. CASE MayCommit(s, t)
  BY <1>4, CommitEffect
<1>5. CASE CanSubmit(s) /\ t = Submitted(s)
  BY <1>5 DEF Submitted
<1>6. CASE ByPolicy(s, t) \/ ByRetire(s, t) \/ t = Tested(s)
  BY <1>6 DEF ByPolicy, ByRetire, Tested
<1>7. CASE ByReview(s, t)
  BY <1>7, ReviewEffect
<1>8. CASE ByPublish(s, t)
  BY <1>8 DEF ByPublish
<1>9. CASE ByRollback(s, t)
  BY <1>0, <1>9, RollbackEffect DEF ByRollback
<1> QED BY <1>1, <1>2, <1>3, <1>4, <1>5, <1>6, <1>7, <1>8, <1>9 DEF StepOf, ByRequest

LEMMA FlagsAccountFor == FlagsInv => BehindIsFlagged
BY DEF FlagsInv, FlagInv, BehindIsFlagged, Behind, PassedOver, BehindIn, PassedIn

\* Whatever edits, merges, re-verifications, publishes and rollbacks lie between:
\* while sources are re-read before they change again, the flags of a set are about
\* citations that are behind, and each of those is flagged or passed over
\* (scanDocument, flagsClosedByEdit, keepHashesOfUnchangedSteps, reverify).
THEOREM PortDriftIsFlagged == Spec => []BehindIsFlagged
BY FlagsStay, FlagsAccountFor, PTL

\* Nothing is handed to a target that cites what a source no longer says, what is
\* passed over excepted, under the same assumption (publishGate).
THEOREM PortShipsNothingStale == Spec => NothingStaleGoesOut
<1>1. HistoriesInv /\ FlagsInv /\ [Next]_vars =>
        [SpacedRehashes =>
           \A i \in DOMAIN sets :
             sets[i].parent = 0 /\ sets'[i].delivered # sets[i].delivered =>
               Behind(sets[i].document) \subseteq PassedOver(sets[i])]_vars
  <2> SUFFICES ASSUME HistoriesInv, FlagsInv, [Next]_vars, SpacedRehashes,
                      NEW i \in DOMAIN sets, sets[i].parent = 0,
                      sets'[i].delivered # sets[i].delivered
               PROVE  Behind(sets[i].document) \subseteq PassedOver(sets[i])
    OBVIOUS
  <2>1. StepOf(sets[i], sets'[i])
    BY EverySetMakesAStep DEF HistoriesInv
  <2>2. HasFields(sets[i]) /\ HistoryInv(sets[i])
    BY DEF HistoriesInv, SetsInv
  <2>3. PublishGate(sets[i])
    BY <2>1, <2>2, OnlyPublishDelivers
  <2>4. OpenFlags(sets[i]) = {} /\ sets[i].state # "retired"
    BY <2>3 DEF PublishGate
  <2>5. BehindIsFlagged
    BY FlagsAccountFor
  <2> QED BY <2>4, <2>5 DEF BehindIsFlagged
<1> QED BY <1>1, HistoriesStay, FlagsStay, PTL DEF Spec, NothingStaleGoesOut
=============================================================================
