----------------------------- MODULE NoteParser -----------------------------
(***************************************************************************)
(* An expert's note and the items it is read into, with the line ranges    *)
(* every citation rests on (web/src/sim/parser.ts).                        *)
(*                                                                         *)
(* A line is what the expressions of the parser make of it: a heading with *)
(* its section, a list item with its indentation, a blank, or other text.  *)
(* What an item or a text says, and the sources it names, is its content,  *)
(* a value; the text of an item is the sequence of the contents of its     *)
(* lines.                                                                  *)
(***************************************************************************)
EXTENDS Filters, FiniteSets, SequencesExt

Sections == {"preconditions", "steps", "decision_rules", "tools", "outcomes", "forbidden"}

\* classifyHeading put the section there: an unknown heading is "steps".
Heading(section) == [type |-> "heading", level |-> 2, section |-> section]
TitleLine == [type |-> "heading", level |-> 1, section |-> "steps"]
Item(indent, content) == [type |-> "item", indent |-> indent, content |-> content]
Blank == [type |-> "blank"]
Text(content) == [type |-> "text", content |-> content]

NoItem == [open |-> FALSE]

\* What the parser carries from line to line.
Start == [number |-> 0, titled |-> FALSE, section |-> "steps", items |-> <<>>,
          open |-> NoItem, indent |-> 0]

\* close(): the open item joins the others.
Closed(p) ==
  IF p.open = NoItem THEN p
  ELSE [p EXCEPT !.items = Append(@, p.open), !.open = NoItem]

Opened(p, content, indent) ==
  [p EXCEPT !.open = [open |-> TRUE, line_start |-> p.number, line_end |-> p.number,
                      section |-> p.section, text |-> <<content>>],
            !.indent = indent]

\* Variant: a continuation keeps the range of the item's first line.
JoinedInPlace(p, content) == [p EXCEPT !.open.text = Append(@, content)]

\* The line continues the open item.
Joined(p, content) ==
  [p EXCEPT !.open.text = Append(@, content), !.open.line_end = p.number]

\* The first level-one heading is the title and leaves the section alone.
ReadHeading(p, line) ==
  LET closed == Closed(p) IN
  IF ~p.titled /\ line.level = 1
  THEN [closed EXCEPT !.titled = TRUE]
  ELSE [closed EXCEPT !.section = line.section]

\* A deeper item belongs to the one above it.
ReadItem(p, line) ==
  IF p.open # NoItem /\ line.indent > p.indent
  THEN Joined(p, line.content)
  ELSE Opened(Closed(p), line.content, line.indent)

\* Variant: other text belongs to the item above it and is dropped without one.
OnlyUnderItems(p, line) == IF p.open # NoItem THEN Joined(p, line.content) ELSE p

\* Other text continues the open item, or is one by itself.
ReadText(p, line) ==
  IF p.open # NoItem THEN Joined(p, line.content) ELSE Opened(p, line.content, 0)

ReadLine(p, line) ==
  LET here == [p EXCEPT !.number = @ + 1] IN
  CASE line.type = "heading" -> ReadHeading(here, line)
    [] line.type = "item"    -> ReadItem(here, line)
    [] line.type = "blank"   -> Closed(here)
    [] line.type = "text"    -> ReadText(here, line)

ParseNote(lines) == Closed(FoldLeft(ReadLine, Start, lines)).items

SectionItems(items, section) ==
  Picked(items, {i \in DOMAIN items : items[i].section = section})
=============================================================================
