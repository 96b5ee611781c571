----------------------------- MODULE Documents -----------------------------
(***************************************************************************)
(* Instruction documents of the browser port, the structured comparison of *)
(* two of them and the three-way merge of a branch into its parent         *)
(* (web/src/sim/versioning.ts).                                            *)
(*                                                                         *)
(* A document has a title, steps by their id, and entries: one list stands *)
(* for the four sections, which are compared and merged alike.  Of a       *)
(* step's fields the model keeps "order", "action" and "citations"; of an  *)
(* entry its text, the rest of it, and its citations.  Citations are the   *)
(* sources cited with the hash each citation carries.  The order field     *)
(* decides where a step stands; the array is not modelled beside it.       *)
(***************************************************************************)
EXTENDS Filters, FiniteSets, SequencesExt

StepFields == {"order", "action", "citations"}

\* Two values of a field are the same when they differ in cited hashes only.
Canon(field, value) == IF field = "citations" THEN DOMAIN value ELSE value

SameField(field, s, t) == Canon(field, s[field]) = Canon(field, t[field])

SameStep(s, t) == \A field \in StepFields : SameField(field, s, t)

SameEntry(e, f) ==
  e.text = f.text /\ e.rest = f.rest /\ DOMAIN e.citations = DOMAIN f.citations

\* The documents say the same; the hashes they cite may differ.
SameDocument(d, e) ==
  /\ d.title = e.title
  /\ DOMAIN d.steps = DOMAIN e.steps
  /\ \A id \in DOMAIN d.steps : SameStep(d.steps[id], e.steps[id])
  /\ Len(d.entries) = Len(e.entries)
  /\ \A i \in DOMAIN d.entries : SameEntry(d.entries[i], e.entries[i])

-----------------------------------------------------------------------------
(* Entries by their text.                                                  *)

Texts(entries) == {entries[i].text : i \in DOMAIN entries}

\* The entries as an object keyed by text: of several with one text the last
\* one stays, in the place of the first.
EntriesOf(entries) ==
  LET First == {i \in DOMAIN entries : \A j \in 1 .. i - 1 : entries[j].text # entries[i].text}
      LastWith(text) ==
        CHOOSE i \in DOMAIN entries :
          /\ entries[i].text = text
          /\ \A j \in DOMAIN entries : j > i => entries[j].text # text
  IN  Picked([i \in DOMAIN entries |-> entries[LastWith(entries[i].text)]], First)

With(entries, texts) == {i \in DOMAIN entries : entries[i].text \in texts}

\* Variant: what one side removed comes back from the other.
KeepsRemoved(base, ours, theirs) ==
  LET there == EntriesOf(theirs)
  IN  EntriesOf(ours) \o Picked(there, With(there, Texts(theirs) \ Texts(ours)))

\* Variant: what is new on the branch is taken although it is here already.
AppendsAll(base, ours, theirs) ==
  LET here  == EntriesOf(ours)
      there == EntriesOf(theirs)
  IN  Picked(here, With(here, Texts(theirs) \cup (Texts(ours) \ Texts(base))))
      \o Picked(there, With(there, Texts(theirs) \ Texts(base)))

\* Ours that are still on the branch or are new here; then what is new there.
MergeEntries(base, ours, theirs) ==
  LET here  == EntriesOf(ours)
      there == EntriesOf(theirs)
  IN  Picked(here, With(here, Texts(theirs) \cup (Texts(ours) \ Texts(base))))
      \o Picked(there, With(there, Texts(theirs) \ (Texts(ours) \cup Texts(base))))

-----------------------------------------------------------------------------
(* The structured diff: what the versions page and the audit trail show.   *)

\* Variant: citations are compared with nothing.
TextChanges(old, new) ==
  {pair \in (DOMAIN old.steps \cap DOMAIN new.steps) \X {"order", "action"} :
     ~SameField(pair[2], old.steps[pair[1]], new.steps[pair[1]])}

ChangedFields(old, new) ==
  {pair \in (DOMAIN old.steps \cap DOMAIN new.steps) \X StepFields :
     ~SameField(pair[2], old.steps[pair[1]], new.steps[pair[1]])}

DiffDocuments(old, new) ==
  [added   |-> DOMAIN new.steps \ DOMAIN old.steps,
   removed |-> DOMAIN old.steps \ DOMAIN new.steps,
   changed |-> ChangedFields(old, new),
   entriesAdded   |-> Texts(new.entries) \ Texts(old.entries),
   entriesRemoved |-> Texts(old.entries) \ Texts(new.entries),
   title |-> old.title # new.title]

-----------------------------------------------------------------------------
(* The three-way merge.                                                    *)

\* Of a step both sides have: this side has the field as the base has it.
Untouched(base, side, id, field) ==
  id \in DOMAIN base.steps /\ SameField(field, side.steps[id], base.steps[id])

\* Variant: the branch's word goes wherever the two differ.
BranchWins(base, ours, theirs, id, field) == theirs.steps[id][field]

\* mergeValue on a field of a step.
MergedField(base, ours, theirs, id, field) ==
  IF Untouched(base, ours, id, field)
  THEN theirs.steps[id][field]
  ELSE ours.steps[id][field]

FieldConflicts(base, ours, theirs) ==
  {pair \in (DOMAIN ours.steps \cap DOMAIN theirs.steps) \X StepFields :
     /\ ~Untouched(base, ours, pair[1], pair[2])
     /\ ~Untouched(base, theirs, pair[1], pair[2])
     /\ ~SameField(pair[2], ours.steps[pair[1]], theirs.steps[pair[1]])}

\* A step of the base that one side removed and the other changed.
StepConflicts(base, ours, theirs) ==
  LET RemovedBy(gone, kept) ==
        {id \in (DOMAIN kept.steps \cap DOMAIN base.steps) \ DOMAIN gone.steps :
           ~SameStep(kept.steps[id], base.steps[id])}
  IN  RemovedBy(ours, theirs) \cup RemovedBy(theirs, ours)

TitleConflict(base, ours, theirs) ==
  ours.title # base.title /\ theirs.title # base.title /\ ours.title # theirs.title

Conflicts(base, ours, theirs) ==
  FieldConflicts(base, ours, theirs)
  \cup {<<id, "step">> : id \in StepConflicts(base, ours, theirs)}
  \cup IF TitleConflict(base, ours, theirs) THEN {<<"document", "title">>} ELSE {}

\* Steps on both sides stay, and so do those one side added.
MergedIds(base, ours, theirs) ==
  (DOMAIN ours.steps \cap DOMAIN theirs.steps)
  \cup ((DOMAIN ours.steps \cup DOMAIN theirs.steps) \ DOMAIN base.steps)

MergedStep(base, ours, theirs, id) ==
  IF id \notin DOMAIN theirs.steps THEN ours.steps[id]
  ELSE IF id \notin DOMAIN ours.steps THEN theirs.steps[id]
  ELSE [field \in StepFields |-> MergedField(base, ours, theirs, id, field)]

\* Meaningful when there are no conflicts.
Merged(base, ours, theirs) ==
  [title   |-> IF ours.title = base.title THEN theirs.title ELSE ours.title,
   steps   |-> [id \in MergedIds(base, ours, theirs) |-> MergedStep(base, ours, theirs, id)],
   entries |-> MergeEntries(base.entries, ours.entries, theirs.entries)]
=============================================================================
