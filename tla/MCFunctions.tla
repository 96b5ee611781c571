---------------------------- MODULE MCFunctions ----------------------------
(***************************************************************************)
(* The pure functions under the service on every small input, against what *)
(* they promise: the three-way merge, the structured diff, the line diff,  *)
(* and a note read into items, compiled and run.  A behaviour takes one    *)
(* input and computes once.                                                *)
(***************************************************************************)
EXTENDS Documents, LineDiff, Compiler

CONSTANTS
  Context,    \* lines of context around a change (the code has 3)
  MaxText,    \* the longest text that is compared
  MaxEntries, \* the longest list of entries that is merged
  MaxNote     \* the longest note, in lines

ASSUME FunctionsAssumption ==
  Context \in Nat \ {0} /\ MaxText \in Nat /\ MaxEntries \in Nat /\ MaxNote \in Nat

VARIABLES given, got
vars == <<given, got>>

Nothing == [kind |-> "nothing"]

Lists(S, n) == UNION {[1 .. k -> S] : k \in 0 .. n}

-----------------------------------------------------------------------------
(* The inputs.                                                             *)

\* A step of a document.
DocumentStep(action, cites) == [order |-> 1, action |-> action, citations |-> cites]

\* Step s1 in three wordings, with a source cited at one of two hashes or not
\* at all; step s2 there or not.
Wordings ==
  {DocumentStep(action, cites) :
     action \in {"a", "b", "c"}, cites \in {<<>>, "policy" :> "h1", "policy" :> "h2"}}

StepMaps ==
  UNION {{f \in [ids -> Wordings] : \A id \in ids \ {"s1"} : f[id] = DocumentStep("a", <<>>)} :
           ids \in SUBSET {"s1", "s2"}}

Entry == [text : {"x", "y"}, rest : {"goes on", "halts"}, citations : {<<>>}]

StepDocuments == {[title |-> "t", steps |-> f, entries |-> <<>>] : f \in StepMaps}
EntryDocuments ==
  {[title |-> t, steps |-> <<>>, entries |-> es] :
     t \in {"t", "u"}, es \in Lists(Entry, MaxEntries)}

\* The one condition notes speak of, and scenarios on either side of it: with
\* nothing said of the amount, at the limit, above it, and with the condition
\* itself among the flags.
LargeAmount == [field |-> "amount", op |-> ">", value |-> Number(2)]

Amount(n) == [facts |-> [fact \in {"amount"} |-> Number(n)], flags |-> {}]

Scenarios ==
  {[facts |-> <<>>, flags |-> {}], [facts |-> <<>>, flags |-> {LargeAmount}], Amount(2), Amount(3)}

Content(if, says, stops, refs) ==
  [if |-> if, says |-> says, head |-> FALSE, tail |-> FALSE, bans |-> says = "never",
   stops |-> stops, refs |-> refs]

Act      == Content(Always, "act", {}, {})
ActCites == Content(Always, "act", {}, {"policy"})
Stop     == Content(Always, "act", {"said"}, {})
IfAct    == Content(LargeAmount, "act", {}, {})
IfStop   == Content(LargeAmount, "act", {"said"}, {})

\* "Escalate and never pay twice."
Never    == [Content(Always, "never", {"before"}, {"policy"}) EXCEPT !.head = TRUE]

\* "Do not proceed until it is signed. Then stop.", and "Ask, it does not proceed
\* until it is signed".
WaitFor  == [Content(Always, "wait", {"after"}, {}) EXCEPT !.tail = TRUE, !.bans = TRUE]
Waits    == [Content(Always, "wait", {}, {}) EXCEPT !.head = TRUE]

\* "Work until you pause. File it.", and "Expected: filed".
Until    == [Content(Always, "until", {"said"}, {}) EXCEPT !.head = TRUE, !.tail = TRUE]
Expect   == Content(Always, "until", {}, {})

\* "If the amount is large, never split it."
IfNever  == Content(LargeAmount, "never", {}, {})

AsItems == {Act, IfAct, IfStop, Never, WaitFor, Until}
AsTexts == {Act, IfStop, IfNever, Waits, Expect, ActCites}
Contents == AsItems \cup AsTexts \cup {Stop}

NoteLines ==
  {Item(indent, c) : indent \in {0, 2}, c \in AsItems}
  \cup {Item(0, Stop)} \cup {Text(c) : c \in AsTexts}
  \cup {TitleLine, Blank}
  \cup {Heading(s) : s \in {"steps", "decision_rules", "forbidden", "outcomes"}}

-----------------------------------------------------------------------------
Init ==
  /\ given \in
       [kind : {"merge"}, base : StepDocuments, ours : StepDocuments, theirs : StepDocuments]
       \cup [kind : {"merge"}, base : EntryDocuments, ours : EntryDocuments, theirs : EntryDocuments]
       \cup [kind : {"lines"}, before : Lists({"p", "q"}, MaxText), after : Lists({"p", "q"}, MaxText)]
       \cup [kind : {"note"}, note : Lists(NoteLines, MaxNote)]
  /\ got = Nothing

Merge ==
  /\ given.kind = "merge"
  /\ got = Nothing
  /\ got' = [kind |-> "merge",
             conflicts |-> Conflicts(given.base, given.ours, given.theirs),
             merged    |-> Merged(given.base, given.ours, given.theirs),
             diff      |-> DiffDocuments(given.base, given.theirs)]
  /\ UNCHANGED given

Compare ==
  /\ given.kind = "lines"
  /\ got = Nothing
  /\ got' = [kind |-> "lines", ops |-> LcsOps(given.before, given.after),
             hunks |-> UnifiedDiff(given.before, given.after, Context)]
  /\ UNCHANGED given

Read ==
  /\ given.kind = "note"
  /\ got = Nothing
  /\ LET items    == ParseNote(given.note)
         document == CompileParsed(items)
     IN  got' = [kind |-> "note", items |-> items, document |-> document,
                 traces |-> [s \in Scenarios |-> Execute(document, s)]]
  /\ UNCHANGED given

Next == Merge \/ Compare \/ Read

Spec == Init /\ [][Next]_vars

-----------------------------------------------------------------------------
(* The merge against patches: what a side changed is a set of cells with   *)
(* the value it gave them, and a merge is the base under both patches.     *)

\* What a side has in a cell of a step, hashes aside: nothing without the step.
Cell(document, id, field) ==
  {Canon(field, document.steps[s][field]) : s \in {id} \cap DOMAIN document.steps}

Cells == {"s1", "s2"} \X StepFields

Patch(base, side) ==
  {<<c, Cell(side, c[1], c[2])>> : c \in {d \in Cells : Cell(side, d[1], d[2]) # Cell(base, d[1], d[2])}}

Clash(p, q) == \E x \in p, y \in q : x[1] = y[1] /\ x[2] # y[2]

Clean == ~Clash(Patch(given.base, given.ours), Patch(given.base, given.theirs))

Patched(cell) ==
  LET said == {x \in Patch(given.base, given.ours) \cup Patch(given.base, given.theirs) : x[1] = cell}
  IN  IF said = {} THEN Cell(given.base, cell[1], cell[2]) ELSE (CHOOSE x \in said : TRUE)[2]

IsMerge == got.kind = "merge"
IsLines == got.kind = "lines"

\* Without a conflict the merged steps are the base's under the changes of both
\* sides, none lost and none invented, and there is a conflict on a step
\* exactly when the two sides gave one of its cells different values
\* (mergeDocuments, the steps).
StepsTakeBothSides ==
  IsMerge =>
    /\ Clean = ({c \in got.conflicts : c[1] # "document"} = {})
    /\ Clean => \A c \in Cells : Cell(got.merged, c[1], c[2]) = Patched(c)

\* The entries that count: of several with one text, the last.
Latest(entries) ==
  {entries[i] : i \in {j \in DOMAIN entries :
     \A k \in DOMAIN entries : k > j => entries[k].text # entries[j].text}}

\* Of the texts, those that either side has and neither side removed, once each;
\* an entry comes whole and as one side has it: the parent, when the parent has
\* its text, else the branch.  So a change of the branch to the rest of an entry
\* they share (whether a rule halts, what is cited) is lost without a conflict,
\* which is not what versioning.ts:8-9 says: "takes a change made on one side only
\* ... and reports a conflict when both sides changed the same field differently".
\* And a merged branch merged once more into what came out of it has no conflict
\* and changes nothing (mergeDocuments, the sections).
EntriesTakeBothSides ==
  IsMerge =>
    LET b == Texts(given.base.entries)
        o == Texts(given.ours.entries)
        t == Texts(given.theirs.entries)
        m == got.merged.entries
    IN  /\ Texts(m) = (o \cap t) \cup ((o \cup t) \ b)
        /\ Cardinality(Texts(m)) = Len(m)
        /\ \A i \in DOMAIN m :
             m[i] \in Latest(IF m[i].text \in o THEN given.ours.entries ELSE given.theirs.entries)
        /\ got.conflicts = {} =>
             /\ Conflicts(given.base, got.merged, given.theirs) = {}
             /\ SameDocument(Merged(given.base, got.merged, given.theirs), got.merged)

\* The structured diff tells a document from another exactly as far as their
\* step fields, the texts of their entries and their titles differ
\* (diffDocuments).
DiffTellsThemApart ==
  IsMerge =>
    (got.diff = DiffDocuments(given.base, given.base)) =
      /\ given.base.title = given.theirs.title
      /\ Texts(given.base.entries) = Texts(given.theirs.entries)
      /\ \A c \in Cells : Cell(given.base, c[1], c[2]) = Cell(given.theirs, c[1], c[2])

-----------------------------------------------------------------------------
(* The line diff.                                                          *)

Replace(text, start, count, lines) ==
  SubSeq(text, 1, start - 1) \o lines \o SubSeq(text, start + count, Len(text))

LinesOf(ops, side) ==
  LET kept == Picked(ops, {k \in DOMAIN ops : ops[k][side] # 0})
  IN  [k \in DOMAIN kept |-> kept[k].line]

\* The hunks applied to the old text, last one first.
Applied(text, hunks) ==
  LET rest[n \in 0 .. Len(hunks)] ==
        IF n = 0 THEN text
        ELSE LET h == hunks[Len(hunks) + 1 - n]
             IN  Replace(rest[n - 1], h.aStart, h.aCount, LinesOf(h.ops, "b"))
  IN  rest[Len(hunks)]

Subsequences(s) == {Picked(s, K) : K \in SUBSET DOMAIN s}

\* The recorded diff leads from the old text to the new one, each hunk where its
\* header says, and it is empty only for equal texts.  It shows no line twice and
\* no more lines as changed than have changed: hunks neither overlap nor touch,
\* and the equal lines are a longest common subsequence (lcsOps, unifiedDiff;
\* commitDocument refuses an empty one).
DiffLeadsToTheNewText ==
  IsLines =>
    /\ \A n \in DOMAIN got.hunks :
         LET h == got.hunks[n] IN
         /\ h.aStart + h.aCount - 1 <= Len(given.before)
         /\ h.bStart + h.bCount - 1 <= Len(given.after)
         /\ SubSeq(given.before, h.aStart, h.aStart + h.aCount - 1) = LinesOf(h.ops, "a")
         /\ SubSeq(given.after, h.bStart, h.bStart + h.bCount - 1) = LinesOf(h.ops, "b")
         /\ n > 1 => got.hunks[n - 1].aStart + got.hunks[n - 1].aCount < h.aStart
    /\ Applied(given.before, got.hunks) = given.after
    /\ (got.hunks = <<>>) = (given.before = given.after)
    /\ \A s \in Subsequences(given.before) \cap Subsequences(given.after) :
         Len(s) <= Cardinality({k \in DOMAIN got.ops : ~IsChange(got.ops[k])})

-----------------------------------------------------------------------------
(* A note, compiled and run.                                               *)

IsNote == got.kind = "note"

note     == given.note
items    == got.items
document == got.document

Speaks(n) == note[n].type \in {"item", "text"}
ItemLines(item) == item.line_start .. item.line_end

\* Every line that says something belongs to exactly one item, no other line to
\* any, and items follow one another down the note (parseNote).
EveryLineInOneItem ==
  IsNote =>
    /\ \A n \in DOMAIN note :
         Cardinality({i \in DOMAIN items : n \in ItemLines(items[i])}) = IF Speaks(n) THEN 1 ELSE 0
    /\ \A i \in DOMAIN items :
         /\ ItemLines(items[i]) \subseteq DOMAIN note
         /\ i > 1 => items[i - 1].line_end < items[i].line_start

\* The section a line stands in: the nearest heading above it that is not the
\* title, and the steps before any.
SectionAt(n) ==
  LET titles == {m \in DOMAIN note : note[m] = TitleLine}
      titled(m) == m \in titles /\ \A k \in titles : m <= k
      heads == {m \in 1 .. n : note[m].type = "heading" /\ ~titled(m)}
  IN  IF heads = {} THEN "steps"
      ELSE note[CHOOSE m \in heads : \A k \in heads : k <= m].section

Said(n) == note[n].content
CitedLines(entry) == entry.citations.lines[1] .. entry.citations.lines[2]

StepSays(step) ==
  ToSet(step.action) \cup ToSet(step.forbidden) \cup ToSet(step.outcome)
  \cup {step.rules[i].then : i \in DOMAIN step.rules}

Leads(entry, texts, section) ==
  /\ \A t \in texts : \E n \in CitedLines(entry) :
       Speaks(n) /\ Said(n) = t.line /\ t.parts \subseteq Parts(Said(n))
  /\ \A n \in CitedLines(entry) : SectionAt(n) \in section

\* Whoever follows a citation finds what the document says there: the cited
\* lines hold every text of the entry, in a section of its kind
\* (citations, compileParsed).
CitationsLeadToTheText ==
  IsNote =>
    /\ \A s \in ToSet(document.steps) : Leads(s, StepSays(s), {"steps"})
    /\ \A r \in ToSet(document.decision_rules) :
         Leads(r, {r.then} \ {Whole(ApplyTheRule)}, {"decision_rules"})
    /\ \A f \in ToSet(document.forbidden_actions) : Leads(f, {f.text}, {"forbidden", "steps"})
    /\ \A o \in ToSet(document.outcomes) : Leads(o, {o.text}, {"outcomes"})

\* The texts repeat a part of a line.
Repeats(texts, content, part) == \E t \in texts : t.line = content /\ part \in t.parts

Conditions(step) ==
  {Always, step.condition} \cup {step.rules[i].condition : i \in DOMAIN step.rules}

\* A line with a condition is a rule, the first one apart.
IsRule(text, k) == k > 1 /\ text[k].if # Always

\* The outcome is what an earlier line said.
Expected(step, text, k) == \E j \in 1 .. k - 1 : step.outcome = <<Extract(text[j], {"said"})>>

\* What a step leaves out of a line that is no rule: what stands before a
\* prohibition, what stands after the sentence of a guard, and the guard itself
\* when an earlier line gave the outcome.
LeftOut(step, text, k) ==
  IF IsRule(text, k) THEN {}
  ELSE CASE text[k].says = "never" -> {"before"}
         [] text[k].says = "wait" ->
              {"after"} \cup IF Expected(step, text, k) THEN {"said"} ELSE {}
         [] OTHER -> {}

\* Nothing else an expert wrote in a step is left out of it, line by line and part
\* by part, conditions included; each prohibition of a step is also one of the
\* document's, and each source a step names is cited by it (splitRules,
\* compileParsed).
StepsAreComplete ==
  IsNote =>
    LET stepItems == SectionItems(items, "steps") IN
    /\ Len(document.steps) = Len(stepItems)
    /\ \A i \in DOMAIN stepItems :
         LET text == stepItems[i].text
             step == document.steps[i]
         IN  \A k \in DOMAIN text :
               /\ \A part \in Parts(text[k]) \ LeftOut(step, text, k) :
                    Repeats(StepSays(step), text[k], part)
               /\ text[k].if \in Conditions(step)
               /\ text[k].refs \subseteq step.citations.refs
               /\ text[k].says = "never" /\ ~IsRule(text, k) =>
                    \E f \in ToSet(document.forbidden_actions) :
                      f.text = ToTheEnd(text[k]) /\ f.citations = step.citations

\* Said without the executor's operators: whether a scenario makes the one
\* condition of these notes true.
Large(scenario) ==
  \/ LargeAmount \in scenario.flags
  \/ scenario.facts = Amount(3).facts

Applies(condition, scenario) == condition = LargeAmount /\ Large(scenario)

RuleStops(rules, scenario) ==
  \E r \in ToSet(rules) : r.halts /\ Applies(r.condition, scenario)

Runs(step, scenario) == step.condition = Always \/ Applies(step.condition, scenario)

\* The run goes exactly as far as the first thing that stops it: the steps
\* before it are run, or skipped by their condition, with every rule that applies
\* acted on; nothing after it leaves a trace; and the document's outcomes are
\* reached only by a run that nothing stopped (execute, applyRules).
RunFollowsTheDocument ==
  IsNote =>
    \A scenario \in Scenarios :
      LET trace  == got.traces[scenario]
          steps  == document.steps
          global == RuleStops(document.decision_rules, scenario)
          stops  == {k \in DOMAIN steps :
                       /\ Runs(steps[k], scenario)
                       /\ steps[k].halts \/ RuleStops(steps[k].rules, scenario)}
          last   == IF global THEN 0
                    ELSE IF stops = {} THEN Len(steps)
                    ELSE CHOOSE k \in stops : \A l \in stops : k <= l
          ran    == {k \in 1 .. last : Runs(steps[k], scenario)}
          cut    == {k \in ran : RuleStops(steps[k].rules, scenario)}
          Fired(rules) == {r.then : r \in {q \in ToSet(rules) : Applies(q.condition, scenario)}}
      IN  /\ trace.halted = (global \/ stops # {})
          /\ ToSet(trace.skipped) = (1 .. last) \ ran
          /\ ToSet(trace.executed) = ran \ cut
          /\ \A a \in ToSet(trace.actions) :
               \/ a \in Fired(document.decision_rules)
               \/ \E k \in ran : a \in ToSet(steps[k].action) \cup Fired(steps[k].rules)
          /\ ~global => Fired(document.decision_rules) \subseteq ToSet(trace.actions)
          /\ \A k \in ran \ cut :
               ToSet(steps[k].action) \cup Fired(steps[k].rules) \subseteq ToSet(trace.actions)
          /\ global \/ cut # {} => Halts(Last(trace.actions))
          /\ trace.halted => \A o \in ToSet(trace.outcomes) :
                               \E k \in ran : o \in ToSet(steps[k].outcome)
=============================================================================
