------------------------------ MODULE Compiler ------------------------------
(***************************************************************************)
(* From the items of a note to an instruction document, and from a         *)
(* document and a scenario to the trace of a run (web/src/sim/compile.ts,  *)
(* web/src/sim/executor.ts).                                               *)
(*                                                                         *)
(* The content of a line is what the compiler's expressions find in it:    *)
(*   if     the condition of a leading "if X, ...", or Always;             *)
(*   says   what the rest is: "act", a prohibition ("never"), a guard      *)
(*          ("wait": do not proceed until), an outcome ("until");          *)
(*   head   something stands before the prohibition, guard or outcome;     *)
(*   tail   something stands after the sentence of the guard or outcome;   *)
(*   bans   FORBIDDEN_RE finds something in it: so it does in every        *)
(*          prohibition, and in a guard unless it is worded "does not";    *)
(*   stops  which of the parts hold a stop word that is not negated;       *)
(*   refs   the sources it names.                                          *)
(* Its parts are what it "said" and what is there "before" and "after"     *)
(* that.  A text of the document is a line and the parts of it that are    *)
(* in the text.                                                            *)
(***************************************************************************)
EXTENDS NoteParser, Integers

CONSTANT Always

-----------------------------------------------------------------------------
(* Texts.                                                                  *)

Extract(content, parts) == [line |-> content, parts |-> parts]

Before(content) == IF content.head THEN {"before"} ELSE {}
After(content) == IF content.tail THEN {"after"} ELSE {}

Parts(content) == {"said"} \cup Before(content) \cup After(content)
Whole(content) == Extract(content, Parts(content))

\* The parts that there are become a line of the action.
Found(content, parts) == IF parts = {} THEN <<>> ELSE <<Extract(content, parts)>>

\* What is forbidden goes on to the end of the line.
ToTheEnd(content) == Extract(content, {"said"} \cup After(content))

\* haltsFrom
Halts(text) == text.parts \cap text.line.stops # {}

-----------------------------------------------------------------------------
(* A step: splitRules.                                                     *)

Nobody == [action |-> <<>>, condition |-> Always, rules |-> <<>>,
           forbidden |-> <<>>, outcome |-> <<>>]

Rule(content) ==
  [condition |-> content.if, then |-> Whole(content), halts |-> Halts(Whole(content))]

\* Variant: what is there to do before the guard is dropped with it.
DropsTheHead(step, content) ==
  [step EXCEPT !.outcome = IF @ = <<>> THEN <<Extract(content, {"said"})>> ELSE @]

\* What stands after the guard's sentence is dropped, and so is the guard when
\* there is an outcome.
Guarded(step, content) ==
  [step EXCEPT !.action = @ \o Found(content, Before(content)),
               !.outcome = IF @ = <<>> THEN <<Extract(content, {"said"})>> ELSE @]

\* What stands before the prohibition is dropped.
Forbidding(step, content) == [step EXCEPT !.forbidden = Append(@, ToTheEnd(content))]

Expecting(step, content) ==
  [step EXCEPT !.action = @ \o Found(content, Before(content)) \o Found(content, After(content)),
               !.outcome = <<Extract(content, {"said"})>>]

\* Variant: a later outcome replaces the one before it.
LastOutcome(step, content) ==
  CASE content.says = "wait"  -> Guarded([step EXCEPT !.outcome = <<>>], content)
    [] content.says = "never" -> Forbidding(step, content)
    [] content.says = "until" -> Expecting(step, content)
    [] OTHER -> [step EXCEPT !.action = Append(@, Whole(content))]

\* The rest of a line once its leading condition is taken off.
SplitRest(step, content) ==
  CASE content.says = "wait"  -> Guarded(step, content)
    [] content.says = "never" -> Forbidding(step, content)
    [] content.says = "until" /\ step.outcome = <<>> -> Expecting(step, content)
    [] OTHER -> [step EXCEPT !.action = Append(@, Whole(content))]

SplitLine(step, content, first) ==
  IF content.if = Always THEN SplitRest(step, content)
  ELSE IF first THEN SplitRest([step EXCEPT !.condition = content.if], content)
  ELSE [step EXCEPT !.rules = Append(@, Rule(content))]

SplitLines(step, contents) ==
  FoldLeft(LAMBDA s, content : SplitLine(s, content, FALSE), step, contents)

SplitRules(text) == SplitLines(SplitLine(Nobody, text[1], TRUE), Tail(text))

Sources(item) == UNION {c.refs : c \in ToSet(item.text)}

\* Every citation of an item has its range; it has one, and one per source.
Citations(item) == [lines |-> <<item.line_start, item.line_end>>, refs |-> Sources(item)]

FirstLine(item) == Whole(item.text[1])

\* A step with nothing to do is called by its first line.
ActionOf(split, item) == IF split.action = <<>> THEN <<FirstLine(item)>> ELSE split.action

CompiledStep(item, index) ==
  LET split == SplitRules(item.text)
      action == ActionOf(split, item)
  IN  [id |-> index, action |-> action, condition |-> split.condition,
       halts |-> \E i \in DOMAIN action : Halts(action[i]),
       rules |-> split.rules, forbidden |-> split.forbidden,
       outcome |-> split.outcome, citations |-> Citations(item)]

-----------------------------------------------------------------------------
(* The document: compileParsed.                                            *)

ApplyTheRule == [if |-> Always, says |-> "act", head |-> FALSE, tail |-> FALSE,
                 bans |-> FALSE, stops |-> {}, refs |-> {}]

\* A global rule; an item that is not of the form "if X, Y" is all condition.
GlobalRule(item) ==
  LET first == item.text[1]
      rule  == IF first.if # Always THEN Rule(first)
               ELSE [Rule(ApplyTheRule) EXCEPT !.condition = FirstLine(item)]
  IN  [condition |-> rule.condition, then |-> rule.then, halts |-> rule.halts,
       citations |-> Citations(item)]

\* What the first line that FORBIDDEN_RE matches forbids, be it a guard; the first
\* line when it matches none.
Banned(item) ==
  LET bans == Picked(item.text, {k \in DOMAIN item.text : item.text[k].bans})
  IN  IF bans = <<>> THEN FirstLine(item) ELSE ToTheEnd(bans[1])

Each(items, Op(_)) == [i \in DOMAIN items |-> Op(items[i])]
Cited(items) == Each(items, LAMBDA i : [text |-> FirstLine(i), citations |-> Citations(i)])

CompileParsed(items) ==
  LET stepItems == SectionItems(items, "steps")
      steps == [i \in DOMAIN stepItems |-> CompiledStep(stepItems[i], i)]
      ofSteps == FlattenSeq([i \in DOMAIN steps |->
        Each(steps[i].forbidden, LAMBDA c : [text |-> c, citations |-> steps[i].citations])])
  IN  [steps |-> steps,
       preconditions |-> Cited(SectionItems(items, "preconditions")),
       outcomes |-> Cited(SectionItems(items, "outcomes")),
       decision_rules |-> Each(SectionItems(items, "decision_rules"), GlobalRule),
       forbidden_actions |->
         Each(SectionItems(items, "forbidden"),
              LAMBDA i : [text |-> Banned(i), citations |-> Citations(i)]) \o ofSteps,
       sources |-> UNION {Sources(i) : i \in ToSet(items)}]

-----------------------------------------------------------------------------
(* The run: execute.  A scenario has facts, by name, and flags: conditions   *)
(* that hold because it says so.                                           *)

Number(n) == [type |-> "number", value |-> n]
Word(w) == [type |-> "text", value |-> w]

SameValue(a, b) == a.type = b.type /\ a.value = b.value

\* Variant: what is at the limit is over it.
AtTheLimit(op, a, b) ==
  IF op = ">" THEN a.type = b.type /\ a.value >= b.value ELSE SameValue(a, b) = (op = "==")

\* Only numbers have an order here: the code orders words too, by their letters.
Compares(op, a, b) ==
  LET numbers == a.type = "number" /\ b.type = "number" IN
  CASE op = ">"  -> numbers /\ a.value > b.value
    [] op = "<"  -> numbers /\ a.value < b.value
    [] op = ">=" -> numbers /\ a.value >= b.value
    [] op = "<=" -> numbers /\ a.value <= b.value
    [] op = "==" -> SameValue(a, b)
    [] op = "!=" -> ~SameValue(a, b)

\* The condition has the form of a comparison (COMPARE_RE).
IsComparison(condition) == "field" \in DOMAIN condition

\* evaluateCondition: nothing holds of a fact the scenario does not give.
Holds(condition, scenario) ==
  \/ condition \in scenario.flags
  \/ /\ IsComparison(condition)
     /\ condition.field \in DOMAIN scenario.facts
     /\ Compares(condition.op, scenario.facts[condition.field], condition.value)

Fires(rule, scenario) == Holds(rule.condition, scenario)

NoTrace == [actions |-> <<>>, executed |-> <<>>, skipped |-> <<>>,
            outcomes |-> <<>>, halted |-> FALSE]

\* Variant: the rules of a step that has halted the run still fire.
AllRules(trace, rules, scenario) ==
  FoldLeft(LAMBDA t, rule :
             IF ~Fires(rule, scenario) THEN t
             ELSE [t EXCEPT !.actions = Append(@, rule.then), !.halted = @ \/ rule.halts],
           trace, rules)

ApplyRule(trace, rule, scenario) ==
  IF trace.halted \/ ~Fires(rule, scenario) THEN trace
  ELSE [trace EXCEPT !.actions = Append(@, rule.then), !.halted = rule.halts]

ApplyRules(trace, rules, scenario) ==
  FoldLeft(LAMBDA t, rule : ApplyRule(t, rule, scenario), trace, rules)

Skips(step, scenario) == step.condition # Always /\ ~Holds(step.condition, scenario)

\* Variant: a rule that fires is acted on instead of its step.
RuleReplacesStep(trace, step, scenario) ==
  LET ruled == ApplyRules(trace, step.rules, scenario) IN
  IF trace.halted THEN trace
  ELSE IF Skips(step, scenario) THEN [trace EXCEPT !.skipped = Append(@, step.id)]
  ELSE IF ruled # trace THEN ruled
  ELSE [ruled EXCEPT !.actions = @ \o step.action,
                     !.executed = Append(@, step.id),
                     !.outcomes = @ \o step.outcome,
                     !.halted = step.halts]

ExecuteStep(trace, step, scenario) ==
  LET ruled == ApplyRules(trace, step.rules, scenario) IN
  IF trace.halted THEN trace
  ELSE IF Skips(step, scenario) THEN [trace EXCEPT !.skipped = Append(@, step.id)]
  ELSE IF ruled.halted THEN ruled
  ELSE [ruled EXCEPT !.actions = @ \o step.action,
                     !.executed = Append(@, step.id),
                     !.outcomes = @ \o step.outcome,
                     !.halted = step.halts]

ExecuteSteps(trace, steps, scenario) ==
  FoldLeft(LAMBDA t, step : ExecuteStep(t, step, scenario), trace, steps)

Execute(document, scenario) ==
  LET ruled  == ApplyRules(NoTrace, document.decision_rules, scenario)
      walked == ExecuteSteps(ruled, document.steps, scenario)
  IN  IF walked.halted THEN walked
      ELSE [walked EXCEPT !.outcomes =
              @ \o Each(document.outcomes, LAMBDA o : o.text)]
=============================================================================
