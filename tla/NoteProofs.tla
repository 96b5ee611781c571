----------------------------- MODULE NoteProofs -----------------------------
(***************************************************************************)
(* Proofs about a note read into items, compiled and run, whatever it says *)
(* and however long it is; at the end, that every note of the runs is read,*)
(* compiled and run as the properties of MCFunctions say.                  *)
(***************************************************************************)
EXTENDS FunctionProofs

-----------------------------------------------------------------------------
(* Reading a note of any length: the fold goes line by line, and what the  *)
(* parser carries after k lines covers those lines.                        *)

\* The fold over a note goes line by line.
LEMMA NoteIsReadLineByLine ==
  ASSUME NEW S, NEW lines \in Seq(S)
  PROVE  \E run : /\ run[0] = Start
                  /\ \A k \in 1 .. Len(lines) : run[k] = ReadLine(run[k - 1], lines[k])
                  /\ FoldLeft(ReadLine, Start, lines) = run[Len(lines)]
<1> DEFINE n == Len(lines)
           Step(g, s) == IF s = {} THEN Start ELSE LET x == Max(s) IN ReadLine(g[s \ {x}], lines[x])
           Missing == {m \in Nat : ~ \E g : g = [s \in SUBSET (1 .. m) |-> Step(g, s)]}
<1>1. n \in Nat /\ DOMAIN lines = 1 .. n
  OBVIOUS
<1>2. ASSUME NEW m \in Nat, NEW s \in SUBSET (1 .. m), s # {}
      PROVE  Max(s) \in 1 .. m /\ s \ {Max(s)} \in SUBSET (1 .. m - 1)
  <2> HIDE DEF n, Step, Missing
  <2>1. Max(s) \in s /\ \A y \in s : y <= Max(s)
    BY <1>2, GreatestOfSome
  <2>a. \A y \in s : y \in 1 .. m
    OBVIOUS
  <2>b. Max(s) \in 1 .. m
    BY <2>1, <2>a, Zenon
  <2>2. Max(s) \in Nat /\ 1 <= Max(s) /\ Max(s) <= m
    BY <2>b
  <2>3. ASSUME NEW y \in s \ {Max(s)} PROVE y \in 1 .. m - 1
    <3>1. y \in Nat /\ 1 <= y /\ y <= Max(s) /\ y # Max(s)
      BY <2>1
    <3> QED BY <2>2, <3>1
  <2> QED BY <2>b, <2>3
<1>3. Missing = {}
  <2> SUFFICES ASSUME Missing # {} PROVE FALSE
    OBVIOUS
  <2>1. PICK m \in Missing : \A k \in Missing : m <= k
    BY LeastOfNaturals
  <2>2. CASE m = 0
    <3> DEFINE g == [s \in SUBSET (1 .. 0) |-> Start]
    <3>1. \A s \in SUBSET (1 .. 0) : s = {}
      OBVIOUS
    <3>2. g = [s \in SUBSET (1 .. 0) |-> Step(g, s)]
      BY <3>1
    <3> QED BY <2>1, <2>2, <3>2
  <2>3. CASE m > 0
    <3>1. m - 1 \in Nat /\ m - 1 \notin Missing
      <4>1. m \in Nat
        BY <2>1
      <4> HIDE DEF Missing
      <4>2. m - 1 \in Nat /\ ~(m <= m - 1)
        BY <4>1, <2>3
      <4> QED BY <4>2, <2>1
    <3>2. PICK g : g = [s \in SUBSET (1 .. m - 1) |-> Step(g, s)]
      BY <3>1
    <3> DEFINE h == [s \in SUBSET (1 .. m) |-> Step(g, s)]
    <3>3. ASSUME NEW s \in SUBSET (1 .. m - 1) PROVE h[s] = g[s]
      <4>1. s \in SUBSET (1 .. m)
        BY <2>3
      <4>2. g[s] = Step(g, s)
        BY <3>2
      <4> QED BY <4>1, <4>2
    <3>4. ASSUME NEW s \in SUBSET (1 .. m) PROVE Step(g, s) = Step(h, s)
      <4>1. CASE s = {}
        BY <4>1
      <4>2. CASE s # {}
        <5>1. s \ {Max(s)} \in SUBSET (1 .. m - 1)
          BY <1>2, <2>1, <4>2
        <5>2. h[s \ {Max(s)}] = g[s \ {Max(s)}]
          BY <3>3, <5>1
        <5> QED BY <5>2
      <4> QED BY <4>1, <4>2
    <3> HIDE DEF Step
    <3>5. h = [s \in SUBSET (1 .. m) |-> Step(h, s)]
      BY <3>4
    <3> QED BY <2>1, <3>5 DEF Step
  <2> QED BY <2>1, <2>2, <2>3
<1> DEFINE iter == CHOOSE it : it = [s \in SUBSET DOMAIN lines |->
                                       IF s = {} THEN Start
                                       ELSE LET x == Max(s) IN ReadLine(it[s \ {x}], lines[x])]
<1>4. FoldLeft(ReadLine, Start, lines) = iter[DOMAIN lines]
  BY DEF FoldLeft, MapThenFoldSet
<1>5. iter = [s \in SUBSET (1 .. n) |-> Step(iter, s)]
  <2>1. n \notin Missing
    BY <1>3
  <2>2. \E g : g = [s \in SUBSET (1 .. n) |-> Step(g, s)]
    BY <1>1, <2>1
  <2> QED BY <1>1, <2>2
<1> HIDE DEF iter
<1> DEFINE run == [k \in 0 .. n |-> iter[1 .. k]]
<1>6. run[0] = Start
  <2>1. 1 .. 0 = {} /\ {} \in SUBSET (1 .. n)
    OBVIOUS
  <2>2. iter[{}] = Start
    BY <1>5, <2>1
  <2> QED BY <1>1, <2>1, <2>2
<1>7. ASSUME NEW k \in 1 .. n PROVE run[k] = ReadLine(run[k - 1], lines[k])
  <2>1. Max(1 .. k) = k
    <3>a. k \in Nat /\ k \in 1 .. k
      BY <1>1
    <3>1. 1 .. k \in SUBSET (1 .. k) /\ 1 .. k # {} /\ k \in Nat
      BY <3>a
    <3>2. Max(1 .. k) \in 1 .. k /\ \A y \in 1 .. k : y <= Max(1 .. k)
      BY <3>1, GreatestOfSome
    <3> QED BY <3>1, <3>2
  <2>2. 1 .. k \in SUBSET (1 .. n) /\ 1 .. k # {} /\ (1 .. k) \ {k} = 1 .. k - 1
    <3>1. k \in Nat /\ 1 <= k /\ k <= n
      BY <1>1
    <3> HIDE DEF n, Step, Missing, run
    <3>2. 1 .. k \in SUBSET (1 .. n) /\ k \in 1 .. k
      BY <3>1, <1>1
    <3>3. ASSUME NEW y PROVE y \in (1 .. k) \ {k} <=> y \in 1 .. k - 1
      BY <3>1
    <3> QED BY <3>2, <3>3
  <2>3. iter[1 .. k] = Step(iter, 1 .. k)
    BY <1>5, <2>2
  <2>4. Step(iter, 1 .. k) = ReadLine(iter[1 .. k - 1], lines[k])
    BY <2>1, <2>2
  <2> QED BY <1>1, <2>3, <2>4
<1>8. FoldLeft(ReadLine, Start, lines) = run[n]
  BY <1>1, <1>4
<1> QED BY <1>6, <1>7, <1>8

-----------------------------------------------------------------------------
LinesAbout(contents) ==
  [type : {"heading"}, level : Nat, section : Sections]
  \cup [type : {"item"}, indent : Nat, content : contents]
  \cup [type : {"text"}, content : contents]
  \cup [type : {"blank"}]

ItemsAbout(contents) ==
  [open : {TRUE}, line_start : Nat, line_end : Nat, section : Sections, text : Seq(contents)]

ParsersAbout(contents) ==
  [number : Nat, titled : BOOLEAN, section : Sections, items : Seq(ItemsAbout(contents)),
   open : {NoItem} \cup ItemsAbout(contents), indent : Nat]

Says(line) == line.type \in {"item", "text"}

\* A heading of level one, and one that is not the title: it opens a section.
TopHeading(line) == line.type = "heading" /\ line.level = 1
Titled(lines, k) == \E m \in 1 .. k : TopHeading(lines[m])
OpensSection(lines, m) ==
  lines[m].type = "heading" /\ (TopHeading(lines[m]) => Titled(lines, m - 1))

\* The section was opened last, or it is the first one.
StandsIn(lines, n, section) ==
  \/ section = "steps" /\ \A m \in 1 .. n : ~OpensSection(lines, m)
  \/ \E m \in 1 .. n : /\ OpensSection(lines, m) /\ section = lines[m].section
                      /\ \A i \in 1 .. n : OpensSection(lines, i) => i <= m

\* The item is the lines from its first to its last, every one of which says
\* something and stands in its section, and its text is what they say.
Quotes(item, lines) ==
  /\ item.text = [j \in 1 .. item.line_end - item.line_start + 1 |->
                    lines[item.line_start + j - 1].content]
  /\ \A n \in ItemLines(item) : Says(lines[n]) /\ StandsIn(lines, n, item.section)

\* The items of the first k lines.
Covers(list, lines, k) ==
  /\ \A i \in DOMAIN list :
       /\ 1 <= list[i].line_start
       /\ list[i].line_start <= list[i].line_end
       /\ list[i].line_end <= k
       /\ Quotes(list[i], lines)
  /\ \A i, j \in DOMAIN list : i < j => list[i].line_end < list[j].line_start
  /\ \A n \in 1 .. k : Says(lines[n]) => \E i \in DOMAIN list : n \in ItemLines(list[i])

HasRead(p, lines, k) ==
  /\ p.number = k
  /\ p.open # NoItem => p.open.line_end = k /\ p.open.section = p.section
  /\ p.titled <=> Titled(lines, k)
  /\ StandsIn(lines, k, p.section)
  /\ Covers(Closed(p).items, lines, k)

LEMMA NoItemIsNotOne ==
  ASSUME NEW T, NEW item \in ItemsAbout(T) PROVE item # NoItem
  BY DEF ItemsAbout, NoItem

LEMMA ClosedIsParser ==
  ASSUME NEW T, NEW p \in ParsersAbout(T)
  PROVE  /\ Closed(p) \in ParsersAbout(T)
         /\ Closed(p).open = NoItem
         /\ Closed(p).number = p.number /\ Closed(p).section = p.section
         /\ Closed(p).titled = p.titled
         /\ Closed(p).items = IF p.open = NoItem THEN p.items ELSE Append(p.items, p.open)
<1>1. CASE p.open = NoItem
  BY <1>1 DEF Closed
<1>2. CASE p.open # NoItem
  <2>1. p.open \in ItemsAbout(T)
    BY <1>2 DEF ParsersAbout
  <2>2. Append(p.items, p.open) \in Seq(ItemsAbout(T))
    BY <2>1 DEF ParsersAbout
  <2>3. Closed(p) = [p EXCEPT !.items = Append(p.items, p.open), !.open = NoItem]
    BY <1>2 DEF Closed
  <2> QED BY <1>2, <2>2, <2>3 DEF ParsersAbout
<1> QED BY <1>1, <1>2

LEMMA OpenedIsParser ==
  ASSUME NEW T, NEW p \in ParsersAbout(T), NEW content \in T, NEW indent \in Nat
  PROVE  LET item == [open |-> TRUE, line_start |-> p.number, line_end |-> p.number,
                      section |-> p.section, text |-> <<content>>]
             q == Opened(p, content, indent)
         IN  /\ item \in ItemsAbout(T) /\ q \in ParsersAbout(T)
             /\ q.number = p.number /\ q.items = p.items /\ q.open = item
             /\ q.section = p.section /\ q.titled = p.titled
<1>1. <<content>> \in Seq(T)
  OBVIOUS
<1> QED BY <1>1 DEF Opened, ParsersAbout, ItemsAbout

LEMMA JoinedIsParser ==
  ASSUME NEW T, NEW p \in ParsersAbout(T), NEW content \in T, p.open # NoItem
  PROVE  LET q == Joined(p, content)
         IN  /\ q \in ParsersAbout(T) /\ q.open \in ItemsAbout(T)
             /\ q.number = p.number /\ q.items = p.items
             /\ q.open.line_start = p.open.line_start /\ q.open.line_end = p.number
             /\ q.open.text = Append(p.open.text, content)
             /\ q.open.section = p.open.section
             /\ q.section = p.section /\ q.titled = p.titled
<1> DEFINE item == [p.open EXCEPT !.text = Append(@, content), !.line_end = p.number]
<1>1. p.open \in ItemsAbout(T) /\ p.number \in Nat
  BY DEF ParsersAbout
<1>2. Append(p.open.text, content) \in Seq(T)
  <2>1. p.open.text \in Seq(T)
    BY <1>1 DEF ItemsAbout
  <2> QED BY <2>1
<1>3. item \in ItemsAbout(T)
  BY <1>1, <1>2 DEF ItemsAbout
<1>4. Joined(p, content) = [p EXCEPT !.open = item]
  BY <1>1 DEF Joined, ParsersAbout, ItemsAbout
<1>5. /\ item.line_start = p.open.line_start /\ item.line_end = p.number
      /\ item.text = Append(p.open.text, content) /\ item.section = p.open.section
  BY <1>1 DEF ItemsAbout
<1> HIDE DEF item
<1>6. [p EXCEPT !.open = item] \in ParsersAbout(T)
  BY <1>3 DEF ParsersAbout
<1> QED BY <1>3, <1>4, <1>5, <1>6 DEF ParsersAbout

-----------------------------------------------------------------------------
\* Where a line stands when the one before it stands there.
LEMMA NextLineStands ==
  ASSUME NEW lines, NEW k \in Nat, NEW section, StandsIn(lines, k, section)
  PROVE  /\ Titled(lines, k + 1) <=> Titled(lines, k) \/ TopHeading(lines[k + 1])
         /\ OpensSection(lines, k + 1) <=>
              lines[k + 1].type = "heading" /\ (TopHeading(lines[k + 1]) => Titled(lines, k))
         /\ OpensSection(lines, k + 1) => StandsIn(lines, k + 1, lines[k + 1].section)
         /\ ~OpensSection(lines, k + 1) => StandsIn(lines, k + 1, section)
<1>1. /\ (k + 1) - 1 = k /\ k + 1 \in 1 .. k + 1 /\ 1 .. k \subseteq 1 .. k + 1
      /\ \A m \in 1 .. k + 1 : m \in 1 .. k \/ m = k + 1
      /\ \A m \in 1 .. k + 1 : m <= k + 1
  OBVIOUS
<1>2. Titled(lines, k + 1) <=> Titled(lines, k) \/ TopHeading(lines[k + 1])
  BY <1>1 DEF Titled
<1>3. OpensSection(lines, k + 1) <=>
        lines[k + 1].type = "heading" /\ (TopHeading(lines[k + 1]) => Titled(lines, k))
  BY <1>1 DEF OpensSection
<1>4. OpensSection(lines, k + 1) => StandsIn(lines, k + 1, lines[k + 1].section)
  BY <1>1 DEF StandsIn
<1>5. ~OpensSection(lines, k + 1) => StandsIn(lines, k + 1, section)
  BY <1>1 DEF StandsIn
<1> QED BY <1>2, <1>3, <1>4, <1>5

LEMMA QuietLine ==
  ASSUME NEW list, NEW lines, NEW k \in Nat, Covers(list, lines, k), ~Says(lines[k + 1]),
         \A i \in DOMAIN list : list[i].line_end \in Nat
  PROVE  Covers(list, lines, k + 1)
<1>1. \A n \in 1 .. k + 1 : n \in 1 .. k \/ n = k + 1
  OBVIOUS
<1>2. \A i \in DOMAIN list : list[i].line_end <= k => list[i].line_end <= k + 1
  OBVIOUS
<1> QED BY <1>1, <1>2 DEF Covers

LEMMA NewItem ==
  ASSUME NEW T, NEW list \in Seq(ItemsAbout(T)), NEW lines, NEW k \in Nat, Covers(list, lines, k),
         NEW item \in ItemsAbout(T), item.line_start = k + 1, item.line_end = k + 1,
         Says(lines[k + 1]), item.text = <<lines[k + 1].content>>,
         StandsIn(lines, k + 1, item.section)
  PROVE  Covers(Append(list, item), lines, k + 1)
<1> DEFINE all == Append(list, item)
<1>1. /\ Len(list) \in Nat /\ DOMAIN list = 1 .. Len(list)
      /\ DOMAIN all = 1 .. Len(list) + 1
      /\ \A i \in 1 .. Len(list) : all[i] = list[i]
      /\ all[Len(list) + 1] = item
  OBVIOUS
<1>2. \A i \in DOMAIN list : list[i].line_start \in Nat /\ list[i].line_end \in Nat
  <2>1. \A i \in DOMAIN list : list[i] \in ItemsAbout(T)
    OBVIOUS
  <2> QED BY <2>1 DEF ItemsAbout
<1>3. Quotes(item, lines)
  <2>1. item.text = [j \in 1 .. 1 |-> lines[k + j].content]
    OBVIOUS
  <2>2. item.line_end - item.line_start + 1 = 1 /\ \A j \in 1 .. 1 : item.line_start + j - 1 = k + j
    OBVIOUS
  <2>3. ItemLines(item) = {k + 1}
    BY DEF ItemLines
  <2> QED BY <2>1, <2>2, <2>3 DEF Quotes
<1> HIDE DEF all
<1>4. \A i \in DOMAIN all : (i \in DOMAIN list /\ all[i] = list[i]) \/ (i = Len(list) + 1 /\ all[i] = item)
  BY <1>1
<1>5. \A i \in DOMAIN all : /\ 1 <= all[i].line_start /\ all[i].line_start <= all[i].line_end
                            /\ all[i].line_end <= k + 1 /\ Quotes(all[i], lines)
  BY <1>2, <1>3, <1>4 DEF Covers
<1>6. ASSUME NEW i \in DOMAIN all, NEW j \in DOMAIN all, i < j
      PROVE  all[i].line_end < all[j].line_start
  <2>1. i \in DOMAIN list /\ all[i] = list[i]
    BY <1>1, <1>4, <1>6
  <2>2. CASE j \in DOMAIN list /\ all[j] = list[j]
    BY <1>6, <2>1, <2>2 DEF Covers
  <2>3. CASE all[j] = item
    BY <1>2, <2>1, <2>3 DEF Covers
  <2> QED BY <1>4, <2>2, <2>3
<1>7. ASSUME NEW n \in 1 .. k + 1, Says(lines[n])
      PROVE  \E i \in DOMAIN all : n \in ItemLines(all[i])
  <2>1. CASE n \in 1 .. k
    <3>1. PICK i \in DOMAIN list : n \in ItemLines(list[i])
      BY <1>7, <2>1 DEF Covers
    <3> QED BY <1>1, <3>1
  <2>2. CASE n = k + 1
    <3>1. Len(list) + 1 \in DOMAIN all /\ n \in ItemLines(all[Len(list) + 1])
      BY <1>1, <2>2 DEF ItemLines
    <3> QED BY <3>1
  <2> QED BY <2>1, <2>2
<1> QED BY <1>5, <1>6, <1>7 DEF Covers, all

LEMMA LongerItem ==
  ASSUME NEW T, NEW list \in Seq(ItemsAbout(T)), NEW lines, NEW k \in Nat,
         NEW item \in ItemsAbout(T), item.line_end = k, NEW longer \in ItemsAbout(T),
         Covers(Append(list, item), lines, k), Says(lines[k + 1]),
         StandsIn(lines, k + 1, item.section), longer.section = item.section,
         longer.line_start = item.line_start, longer.line_end = k + 1,
         longer.text = Append(item.text, lines[k + 1].content)
  PROVE  Covers(Append(list, longer), lines, k + 1)
<1> DEFINE old == Append(list, item)
           all == Append(list, longer)
           m == Len(list) + 1
<1>1. /\ Len(list) \in Nat /\ DOMAIN old = 1 .. m /\ DOMAIN all = 1 .. m
      /\ m \in DOMAIN all /\ old[m] = item /\ all[m] = longer
      /\ \A i \in DOMAIN all : i # m => i < m /\ all[i] = old[i] /\ all[i] \in ItemsAbout(T)
  OBVIOUS
<1>2. \A i \in DOMAIN old : old[i] \in ItemsAbout(T)
  BY <1>1
<1> HIDE DEF old, all, m
<1>3. /\ 1 <= item.line_start /\ item.line_start <= k /\ Quotes(item, lines)
      /\ item.line_start \in Nat
  BY <1>1 DEF Covers, old, ItemsAbout
<1>4. Quotes(longer, lines)
  <2> DEFINE s == item.line_start
  <2>1. item.text = [j \in 1 .. k - s + 1 |-> lines[s + j - 1].content]
    BY <1>3 DEF Quotes
  <2>2. Len(item.text) = k - s + 1
    BY <1>3, <2>1
  <2>3. longer.text = [j \in 1 .. k + 1 - s + 1 |-> lines[s + j - 1].content]
    <3>1. item.text \in Seq(T)
      BY DEF ItemsAbout
    <3>2. /\ DOMAIN longer.text = 1 .. k - s + 2
          /\ \A j \in 1 .. k - s + 1 : longer.text[j] = item.text[j]
          /\ longer.text[k - s + 2] = lines[k + 1].content
      <4>0. k - s + 1 \in Nat /\ k - s + 1 + 1 = k - s + 2
        BY <1>3
      <4> HIDE DEF s
      <4> QED BY <2>2, <3>1, <4>0
    <3>3. ASSUME NEW j \in 1 .. k - s + 2 PROVE longer.text[j] = lines[s + j - 1].content
      <4>0. j \in 1 .. k - s + 1 \/ j = k - s + 2
        BY <1>3
      <4>1. CASE j \in 1 .. k - s + 1
        BY <2>1, <3>2, <4>1
      <4>2. CASE j = k - s + 2
        <5>1. s + j - 1 = k + 1
          BY <1>3, <4>2
        <5> QED BY <3>2, <4>2, <5>1
      <4> QED BY <4>0, <4>1, <4>2
    <3>4. k + 1 - s + 1 = k - s + 2
      BY <1>3
    <3>5. longer.text = [j \in DOMAIN longer.text |-> longer.text[j]]
      BY DEF ItemsAbout
    <3> HIDE DEF s
    <3> QED BY <3>2, <3>3, <3>4, <3>5
  <2>4. \A n \in ItemLines(longer) : n \in ItemLines(item) \/ n = k + 1
    BY <1>3 DEF ItemLines
  <2>5. \A n \in ItemLines(longer) : Says(lines[n]) /\ StandsIn(lines, n, longer.section)
    BY <1>3, <2>4 DEF Quotes
  <2>6. longer.line_end - longer.line_start + 1 = k + 1 - s + 1 /\ longer.line_start = s
    BY <1>3
  <2> HIDE DEF s
  <2> QED BY <2>3, <2>5, <2>6 DEF Quotes
<1>5. ASSUME NEW i \in DOMAIN all
      PROVE  /\ 1 <= all[i].line_start /\ all[i].line_start <= all[i].line_end
             /\ all[i].line_end <= k + 1 /\ Quotes(all[i], lines)
  <2>1. CASE i = m
    BY <1>1, <1>3, <1>4, <2>1
  <2>2. CASE i # m
    <3>1. all[i] = old[i] /\ i \in DOMAIN old /\ all[i].line_end \in Nat
      BY <1>1, <2>2 DEF ItemsAbout
    <3> QED BY <3>1 DEF Covers, old
  <2> QED BY <2>1, <2>2
<1>6. ASSUME NEW i \in DOMAIN all, NEW j \in DOMAIN all, i < j
      PROVE  all[i].line_end < all[j].line_start
  <2>1. i \in DOMAIN old /\ j \in DOMAIN old /\ i # m
    BY <1>1, <1>6
  <2>2. old[i].line_end < old[j].line_start
    BY <1>6, <2>1 DEF Covers, old
  <2>3. all[j].line_start = old[j].line_start
    BY <1>1
  <2> QED BY <1>1, <2>1, <2>2, <2>3
<1>7. ASSUME NEW n \in 1 .. k + 1, Says(lines[n])
      PROVE  \E i \in DOMAIN all : n \in ItemLines(all[i])
  <2>1. CASE n \in 1 .. k
    <3>1. PICK i \in DOMAIN old : n \in ItemLines(old[i])
      BY <1>7, <2>1 DEF Covers, old
    <3>2. CASE i = m
      BY <1>1, <3>1, <3>2, <1>3, <2>1 DEF ItemLines
    <3>3. CASE i # m
      BY <1>1, <3>1, <3>3
    <3> QED BY <3>2, <3>3
  <2>2. CASE n = k + 1
    <3>1. n \in ItemLines(all[m])
      BY <1>1, <1>3, <2>2 DEF ItemLines
    <3> QED BY <1>1, <3>1
  <2> QED BY <2>1, <2>2
<1> QED BY <1>5, <1>6, <1>7 DEF Covers, all

-----------------------------------------------------------------------------
\* However a line is read, what is read after it covers one line more.
LEMMA LineIsRead ==
  ASSUME NEW T, NEW lines \in Seq(LinesAbout(T)), NEW k \in Nat, k + 1 \in DOMAIN lines,
         NEW p \in ParsersAbout(T), HasRead(p, lines, k)
  PROVE  LET q == ReadLine(p, lines[k + 1])
         IN  q \in ParsersAbout(T) /\ HasRead(q, lines, k + 1)
<1> DEFINE line == lines[k + 1]
           here == [p EXCEPT !.number = @ + 1]
           q == ReadLine(p, line)
<1>1. line \in LinesAbout(T)
  OBVIOUS
<1>2. /\ here \in ParsersAbout(T) /\ here.number = k + 1
      /\ here.items = p.items /\ here.open = p.open
      /\ here.section = p.section /\ here.titled = p.titled
  BY DEF ParsersAbout, HasRead
<1>3. /\ Closed(p).items = IF p.open = NoItem THEN p.items ELSE Append(p.items, p.open)
      /\ Closed(p).items \in Seq(ItemsAbout(T))
  BY ClosedIsParser DEF ParsersAbout
<1>4. /\ Closed(here) \in ParsersAbout(T)
      /\ Closed(here).open = NoItem /\ Closed(here).number = k + 1
      /\ Closed(here).items = Closed(p).items
      /\ Closed(here).section = p.section /\ Closed(here).titled = p.titled
  <2>1. /\ Closed(here) \in ParsersAbout(T)
        /\ Closed(here).open = NoItem /\ Closed(here).number = here.number
        /\ Closed(here).section = here.section /\ Closed(here).titled = here.titled
        /\ Closed(here).items = IF here.open = NoItem THEN here.items
                                ELSE Append(here.items, here.open)
    BY <1>2, ClosedIsParser
  <2> HIDE DEF here
  <2> QED BY <1>2, <1>3, <2>1
<1>5. Covers(Closed(p).items, lines, k)
  BY DEF HasRead
<1>s. /\ p.titled <=> Titled(lines, k)
      /\ Titled(lines, k + 1) <=> Titled(lines, k) \/ TopHeading(line)
      /\ OpensSection(lines, k + 1) <=>
           line.type = "heading" /\ (TopHeading(line) => Titled(lines, k))
      /\ OpensSection(lines, k + 1) => StandsIn(lines, k + 1, line.section)
      /\ ~OpensSection(lines, k + 1) => StandsIn(lines, k + 1, p.section)
  BY NextLineStands DEF HasRead
<1>t. line.type # "heading" => /\ p.titled <=> Titled(lines, k + 1)
                               /\ StandsIn(lines, k + 1, p.section)
  BY <1>s DEF TopHeading
<1>6. \A i \in DOMAIN Closed(p).items : Closed(p).items[i].line_end \in Nat
  <2>1. \A i \in DOMAIN Closed(p).items : Closed(p).items[i] \in ItemsAbout(T)
    BY <1>3
  <2> QED BY <2>1 DEF ItemsAbout
<1> HIDE DEF line, here
<1>7. ASSUME NEW r \in ParsersAbout(T), r.number = k + 1, r.open = NoItem,
             r.items = Closed(p).items, ~Says(line),
             r.titled <=> Titled(lines, k + 1), StandsIn(lines, k + 1, r.section)
      PROVE  HasRead(r, lines, k + 1)
  <2>1. Closed(r).items = Closed(p).items
    BY <1>7, ClosedIsParser
  <2>2. Covers(Closed(p).items, lines, k + 1)
    BY <1>5, <1>6, <1>7, QuietLine DEF line
  <2> QED BY <1>7, <2>1, <2>2 DEF HasRead
<1>8. CASE line.type = "heading"
  <2>1. ~Says(line) /\ line.section \in Sections
    BY <1>1, <1>8 DEF Says, LinesAbout
  <2>2. q = ReadHeading(here, line)
    BY <1>8 DEF ReadLine, here
  <2> DEFINE c == Closed(here)
  <2> HIDE DEF q
  <2>4. /\ q \in ParsersAbout(T) /\ q.number = c.number
        /\ q.open = c.open /\ q.items = c.items
        /\ q.titled = (c.titled \/ (~p.titled /\ line.level = 1))
        /\ q.section = IF ~p.titled /\ line.level = 1 THEN c.section ELSE line.section
    <3>2. q = IF ~p.titled /\ line.level = 1 THEN [c EXCEPT !.titled = TRUE]
              ELSE [c EXCEPT !.section = line.section]
      BY <1>2, <2>2 DEF ReadHeading, q
    <3> HIDE DEF c
    <3>1. c \in ParsersAbout(T)
      BY <1>4 DEF c
    <3>3. CASE ~p.titled /\ line.level = 1
      BY <3>1, <3>2, <3>3 DEF ParsersAbout
    <3>4. CASE ~(~p.titled /\ line.level = 1)
      BY <3>1, <3>2, <3>4, <2>1 DEF ParsersAbout
    <3> QED BY <3>3, <3>4
  <2>5. (q.titled <=> Titled(lines, k + 1)) /\ StandsIn(lines, k + 1, q.section)
    BY <1>4, <1>8, <1>s, <2>4 DEF TopHeading
  <2> QED BY <1>4, <1>7, <2>1, <2>4, <2>5 DEF q, line
<1>9. CASE line.type = "blank"
  <2>1. ~Says(line)
    BY <1>9 DEF Says
  <2>2. q = Closed(here)
    BY <1>9 DEF ReadLine, here
  <2>3. (q.titled <=> Titled(lines, k + 1)) /\ StandsIn(lines, k + 1, q.section)
    BY <1>4, <1>9, <1>t, <2>2
  <2> QED BY <1>4, <1>7, <2>1, <2>2, <2>3 DEF line
<1>10. ASSUME NEW r \in ParsersAbout(T), r.number = k + 1, r.open = NoItem, NEW indent \in Nat,
              r.items = Closed(p).items, Says(line), line.content \in T,
              r.section = p.section, r.titled = p.titled
       PROVE  LET o == Opened(r, line.content, indent)
              IN  o \in ParsersAbout(T) /\ HasRead(o, lines, k + 1)
  <2> DEFINE o == Opened(r, line.content, indent)
             item == [open |-> TRUE, line_start |-> r.number, line_end |-> r.number,
                      section |-> r.section, text |-> <<line.content>>]
  <2>1. /\ item \in ItemsAbout(T) /\ o \in ParsersAbout(T)
        /\ o.number = r.number /\ o.items = r.items /\ o.open = item
        /\ o.section = r.section /\ o.titled = r.titled
    BY <1>10, OpenedIsParser
  <2>2. /\ item.line_start = k + 1 /\ item.line_end = k + 1 /\ item.text = <<line.content>>
        /\ item.section = p.section
    BY <1>10
  <2>t. (p.titled <=> Titled(lines, k + 1)) /\ StandsIn(lines, k + 1, p.section)
    BY <1>10, <1>t DEF Says
  <2> HIDE DEF o, item
  <2>3. Covers(Append(Closed(p).items, item), lines, k + 1)
    BY <1>3, <1>5, <1>10, <2>1, <2>2, <2>t, NewItem DEF line
  <2>4. Closed(o).items = Append(Closed(p).items, item)
    <3>1. item # NoItem
      BY <2>1, NoItemIsNotOne
    <3>2. Closed(o).items = IF o.open = NoItem THEN o.items ELSE Append(o.items, o.open)
      BY <2>1, ClosedIsParser
    <3> QED BY <1>10, <2>1, <3>1, <3>2
  <2>5. HasRead(o, lines, k + 1)
    BY <1>10, <2>1, <2>2, <2>3, <2>4, <2>t DEF HasRead
  <2> QED BY <2>1, <2>5 DEF o
<1>11. ASSUME p.open # NoItem, Says(line), line.content \in T
       PROVE  LET o == Joined(here, line.content)
              IN  o \in ParsersAbout(T) /\ HasRead(o, lines, k + 1)
  <2> DEFINE o == Joined(here, line.content)
             item == o.open
  <2>1. /\ o \in ParsersAbout(T) /\ item \in ItemsAbout(T)
        /\ o.number = here.number /\ o.items = here.items
        /\ item.line_start = here.open.line_start /\ item.line_end = here.number
        /\ item.text = Append(here.open.text, line.content)
        /\ item.section = here.open.section
        /\ o.section = here.section /\ o.titled = here.titled
    <3>1. here \in ParsersAbout(T) /\ line.content \in T /\ here.open # NoItem
      BY <1>2, <1>11
    <3>2. \A r \in ParsersAbout(T), c \in T : r.open # NoItem =>
            LET j == Joined(r, c)
            IN  /\ j \in ParsersAbout(T) /\ j.open \in ItemsAbout(T)
                /\ j.number = r.number /\ j.items = r.items
                /\ j.open.line_start = r.open.line_start /\ j.open.line_end = r.number
                /\ j.open.text = Append(r.open.text, c) /\ j.open.section = r.open.section
                /\ j.section = r.section /\ j.titled = r.titled
      BY JoinedIsParser
    <3> QED BY <3>1, <3>2
  <2>2. p.open \in ItemsAbout(T) /\ p.items \in Seq(ItemsAbout(T)) /\ p.open.line_end = k
        /\ p.open.section = p.section
    BY <1>11 DEF ParsersAbout, HasRead
  <2>t. (p.titled <=> Titled(lines, k + 1)) /\ StandsIn(lines, k + 1, p.section)
    BY <1>11, <1>t DEF Says
  <2>3. /\ item.line_start = p.open.line_start /\ item.line_end = k + 1
        /\ item.text = Append(p.open.text, line.content) /\ item.section = p.open.section
    BY <1>2, <2>1
  <2> HIDE DEF o, item
  <2>4. Covers(Append(p.items, p.open), lines, k)
    BY <1>3, <1>5, <1>11
  <2>5. Covers(Append(p.items, item), lines, k + 1)
    BY <1>11, <2>1, <2>2, <2>3, <2>4, <2>t, LongerItem DEF line
  <2>6. Closed(o).items = Append(p.items, item)
    <3>1. item # NoItem
      BY <2>1, NoItemIsNotOne
    <3>2. Closed(o).items = IF o.open = NoItem THEN o.items ELSE Append(o.items, o.open)
      BY <2>1, ClosedIsParser
    <3> QED BY <1>2, <2>1, <3>1, <3>2 DEF item
  <2>7. HasRead(o, lines, k + 1)
    BY <1>2, <2>1, <2>2, <2>3, <2>5, <2>6, <2>t DEF HasRead, item
  <2> QED BY <2>1, <2>7 DEF o
<1>12. CASE line.type = "item"
  <2>1. Says(line) /\ line.content \in T /\ line.indent \in Nat
    BY <1>1, <1>12 DEF Says, LinesAbout
  <2>2. q = ReadItem(here, line)
    BY <1>12 DEF ReadLine, here
  <2>3. CASE here.open # NoItem /\ line.indent > here.indent
    <3>1. q = Joined(here, line.content)
      BY <2>2, <2>3 DEF ReadItem
    <3> QED BY <1>2, <1>11, <2>1, <2>3, <3>1 DEF line
  <2>4. CASE ~(here.open # NoItem /\ line.indent > here.indent)
    <3>1. q = Opened(Closed(here), line.content, line.indent)
      BY <2>2, <2>4 DEF ReadItem
    <3> HIDE DEF q
    <3> QED BY <1>4, <1>10, <2>1, <3>1 DEF q, line
  <2> QED BY <2>3, <2>4
<1>13. CASE line.type = "text"
  <2>1. Says(line) /\ line.content \in T
    BY <1>1, <1>13 DEF Says, LinesAbout
  <2>2. q = ReadText(here, line)
    BY <1>13 DEF ReadLine, here
  <2>3. CASE here.open # NoItem
    <3>1. q = Joined(here, line.content)
      BY <2>2, <2>3 DEF ReadText
    <3> QED BY <1>2, <1>11, <2>1, <2>3, <3>1 DEF line
  <2>4. CASE here.open = NoItem
    <3>1. q = Opened(here, line.content, 0)
      BY <2>2, <2>4 DEF ReadText
    <3>2. here.items = Closed(p).items
      BY <1>2, <1>3, <2>4
    <3> HIDE DEF q
    <3> QED BY <1>2, <1>10, <2>1, <2>4, <3>1, <3>2 DEF q, line
  <2> QED BY <2>3, <2>4
<1>14. line.type \in {"heading", "item", "text", "blank"}
  BY <1>1 DEF LinesAbout
<1> QED BY <1>8, <1>9, <1>12, <1>13, <1>14 DEF line

\* Whatever the note says, in however many lines: the items follow one another
\* down the note, each is the lines of its range and says what they say, and a
\* line that says something is in one (parseNote).
THEOREM ItemsQuoteTheNote ==
  ASSUME NEW T, NEW lines \in Seq(LinesAbout(T))
  PROVE  ParseNote(lines) \in Seq(ItemsAbout(T)) /\ Covers(ParseNote(lines), lines, Len(lines))
<1> DEFINE n == Len(lines)
<1>1. n \in Nat /\ DOMAIN lines = 1 .. n
  OBVIOUS
<1>2. PICK run : /\ run[0] = Start
                 /\ \A k \in 1 .. n : run[k] = ReadLine(run[k - 1], lines[k])
                 /\ FoldLeft(ReadLine, Start, lines) = run[n]
  BY NoteIsReadLineByLine
<1> DEFINE Good(k) == run[k] \in ParsersAbout(T) /\ HasRead(run[k], lines, k)
           Bad == {k \in 0 .. n : ~Good(k)}
<1>3. Good(0)
  <2>1. /\ Start \in ParsersAbout(T) /\ Start.open = NoItem /\ Start.items = <<>>
        /\ Start.number = 0 /\ Start.section = "steps" /\ Start.titled = FALSE
    BY DEF Start, ParsersAbout, Sections
  <2>4. ~Titled(lines, 0) /\ StandsIn(lines, 0, "steps")
    BY DEF Titled, StandsIn
  <2>2. Closed(Start).items = <<>>
    BY <2>1, ClosedIsParser
  <2>3. Covers(<<>>, lines, 0)
    BY DEF Covers
  <2> QED BY <1>2, <2>1, <2>2, <2>3, <2>4 DEF HasRead
<1>4. ASSUME NEW k \in Nat, k + 1 \in 1 .. n, Good(k) PROVE Good(k + 1)
  <2>1. run[k + 1] = ReadLine(run[k], lines[k + 1])
    <3>1. k + 1 - 1 = k
      OBVIOUS
    <3> QED BY <1>2, <1>4, <3>1
  <2> QED BY <1>1, <1>4, <2>1, LineIsRead
<1> HIDE DEF Good
<1>5. Bad = {}
  <2> SUFFICES ASSUME Bad # {} PROVE FALSE
    OBVIOUS
  <2>1. PICK k \in Bad : \A j \in Bad : k <= j
    <3>1. Bad \in SUBSET Nat
      BY <1>1
    <3> QED BY <3>1, LeastOfNaturals
  <2>2. k \in Nat /\ k <= n /\ k # 0 /\ ~Good(k)
    BY <1>1, <1>3, <2>1
  <2>3. k - 1 \in Nat /\ k - 1 + 1 = k /\ k - 1 \in 0 .. n /\ ~(k <= k - 1) /\ k \in 1 .. n
    BY <1>1, <2>2
  <2>4. Good(k - 1)
    <3>1. k - 1 \notin Bad
      <4> HIDE DEF Bad
      <4> QED BY <2>1, <2>3
    <3> QED BY <2>3, <3>1
  <2> QED BY <1>4, <2>2, <2>3, <2>4
<1>6. Good(n)
  BY <1>1, <1>5
<1> QED BY <1>2, <1>6, ClosedIsParser DEF Good, HasRead, ParseNote, ParsersAbout

-----------------------------------------------------------------------------
(* The run of a document.                                                  *)

TracesOf(C) ==
  [actions : Seq(C), executed : Seq(Nat), skipped : Seq(Nat), outcomes : Seq(C), halted : BOOLEAN]

\* Rules that act with what is in C.
AreRules(R, C) == \A r \in R : r.then \in C /\ r.halts \in BOOLEAN

LEMMA ElementsOfAppended ==
  ASSUME NEW S, NEW s \in Seq(S), NEW x
  PROVE  /\ ToSet(Append(s, x)) = ToSet(s) \cup {x}
         /\ Append(s, x) # <<>> /\ Last(Append(s, x)) = x
<1> DEFINE n == Len(s)
           a == Append(s, x)
<1>1. /\ n \in Nat /\ DOMAIN s = 1 .. n /\ DOMAIN a = 1 .. n + 1 /\ Len(a) = n + 1
      /\ a[n + 1] = x /\ \A i \in 1 .. n : a[i] = s[i]
  OBVIOUS
<1> HIDE DEF n, a
<1>2. /\ \A i \in 1 .. n : i \in 1 .. n + 1
      /\ \A i \in 1 .. n + 1 : i \in 1 .. n \/ i = n + 1
      /\ n + 1 \in 1 .. n + 1
  BY <1>1
<1>3. ToSet(a) = ToSet(s) \cup {x}
  BY <1>1, <1>2 DEF ToSet
<1>4. a # <<>> /\ Last(a) = x
  BY <1>1 DEF Last
<1> QED BY <1>3, <1>4 DEF a

LEMMA ElementsOfJoined ==
  ASSUME NEW S, NEW s \in Seq(S), NEW t \in Seq(S)
  PROVE  ToSet(s \o t) = ToSet(s) \cup ToSet(t)
<1> DEFINE n == Len(s)
           m == Len(t)
           c == s \o t
<1>1. /\ n \in Nat /\ m \in Nat /\ DOMAIN s = 1 .. n /\ DOMAIN t = 1 .. m
      /\ DOMAIN c = 1 .. n + m
      /\ \A i \in 1 .. n + m : c[i] = IF i <= n THEN s[i] ELSE t[i - n]
  OBVIOUS
<1> HIDE DEF n, m, c
<1>2. /\ \A i \in 1 .. n : i \in 1 .. n + m /\ i <= n
      /\ \A i \in 1 .. m : n + i \in 1 .. n + m /\ ~(n + i <= n) /\ n + i - n = i
      /\ \A i \in 1 .. n + m : ~(i <= n) => i - n \in 1 .. m
      /\ \A i \in 1 .. n + m : i <= n => i \in 1 .. n
  BY <1>1
<1>3. ToSet(c) = ToSet(s) \cup ToSet(t)
  <2>1. ASSUME NEW i \in 1 .. n + m PROVE c[i] \in ToSet(s) \cup ToSet(t)
    <3>1. CASE i <= n
      <4>1. i \in DOMAIN s /\ c[i] = s[i]
        BY <1>1, <1>2, <3>1
      <4> QED BY <4>1 DEF ToSet
    <3>2. CASE ~(i <= n)
      <4>1. i - n \in DOMAIN t /\ c[i] = t[i - n]
        BY <1>1, <1>2, <3>2
      <4> QED BY <4>1 DEF ToSet
    <3> QED BY <3>1, <3>2
  <2>2. ASSUME NEW i \in 1 .. n PROVE s[i] \in ToSet(c)
    <3>1. i \in DOMAIN c /\ c[i] = s[i]
      BY <1>1, <1>2
    <3> QED BY <3>1 DEF ToSet
  <2>3. ASSUME NEW i \in 1 .. m PROVE t[i] \in ToSet(c)
    <3>1. n + i \in DOMAIN c /\ c[n + i] = t[i]
      BY <1>1, <1>2
    <3> QED BY <3>1 DEF ToSet
  <2> QED BY <1>1, <2>1, <2>2, <2>3 DEF ToSet
<1> QED BY <1>3 DEF c

LEMMA RuleKeepsTraces ==
  ASSUME NEW C, NEW rule, rule.then \in C, rule.halts \in BOOLEAN, NEW t \in TracesOf(C), NEW scenario
  PROVE  ApplyRule(t, rule, scenario) \in TracesOf(C)
<1>1. Append(t.actions, rule.then) \in Seq(C)
  BY DEF TracesOf
<1> QED BY <1>1 DEF ApplyRule, TracesOf

\* The rules are applied one by one.
LEMMA RulesOneByOne ==
  ASSUME NEW C, NEW R, AreRules(R, C), NEW rules \in Seq(R), NEW trace \in TracesOf(C), NEW scenario
  PROVE  \E run : /\ run[0] = trace
                  /\ \A k \in Nat : k < Len(rules) =>
                       run[k + 1] = ApplyRule(run[k], rules[k + 1], scenario)
                  /\ ApplyRules(trace, rules, scenario) = run[Len(rules)]
<1> DEFINE n == Len(rules)
           T == TracesOf(C)
           f == [k \in 1 .. n |-> [t \in T |-> ApplyRule(t, rules[k], scenario)]]
           iter == CHOOSE it : it = [s \in SUBSET DOMAIN rules |->
                                       IF s = {} THEN trace
                                       ELSE LET x == Max(s)
                                            IN  ApplyRule(it[s \ {x}], rules[x], scenario)]
<1>0. n \in Nat /\ DOMAIN rules = 1 .. n /\ \A k \in 1 .. n : rules[k] \in R
  OBVIOUS
<1>1. ApplyRules(trace, rules, scenario) = iter[DOMAIN rules]
  BY DEF ApplyRules, FoldLeft, MapThenFoldSet
<1>2. f \in [1 .. n -> [T -> T]]
  <2>1. ASSUME NEW k \in 1 .. n, NEW t \in T PROVE ApplyRule(t, rules[k], scenario) \in T
    <3>1. rules[k].then \in C /\ rules[k].halts \in BOOLEAN
      BY <1>0 DEF AreRules
    <3> QED BY <3>1, RuleKeepsTraces
  <2> HIDE DEF T, n
  <2> QED BY <2>1
<1>3. PICK g : /\ g \in [SUBSET (1 .. n) -> T] /\ g[{}] = trace
               /\ \A s \in SUBSET (1 .. n) : s # {} => g[s] = f[Max(s)][g[s \ {Max(s)}]]
  <2>1. trace \in T /\ Maps(f, n, T)
    BY <1>2 DEF Maps
  <2> HIDE DEF T, n, f
  <2>2. n \in Nat
    BY <1>0
  <2>3. \E g : Folded(g, f, n, T, trace)
    BY <2>1, <2>2, FoldExists
  <2> QED BY <2>3 DEF Folded
<1> HIDE DEF T
<1>4. ASSUME NEW s \in SUBSET (1 .. n), s # {}
      PROVE  f[Max(s)][g[s \ {Max(s)}]] = ApplyRule(g[s \ {Max(s)}], rules[Max(s)], scenario)
  <2>1. Max(s) \in 1 .. n /\ s \ {Max(s)} \in SUBSET (1 .. n)
    <3> HIDE DEF n, f
    <3>1. Max(s) \in 1 .. n
      BY <1>0, <1>4, GreatestOfSome
    <3> QED BY <3>1
  <2>2. g[s \ {Max(s)}] \in T
    BY <1>3, <2>1
  <2> QED BY <2>1, <2>2
<1>5. g = [s \in SUBSET DOMAIN rules |->
             IF s = {} THEN trace
             ELSE LET x == Max(s) IN ApplyRule(g[s \ {x}], rules[x], scenario)]
  <2> HIDE DEF n, f
  <2> QED BY <1>0, <1>3, <1>4
<1>6. iter = [s \in SUBSET DOMAIN rules |->
                IF s = {} THEN trace
                ELSE LET x == Max(s) IN ApplyRule(iter[s \ {x}], rules[x], scenario)]
  BY <1>5
<1> HIDE DEF iter, n, f
<1> DEFINE run == [k \in 0 .. n |-> iter[1 .. k]]
<1>7. run[0] = trace
  <2>1. 1 .. 0 = {} /\ {} \in SUBSET DOMAIN rules /\ 0 \in 0 .. n
    BY <1>0
  <2> QED BY <1>6, <2>1
<1>8. ASSUME NEW k \in Nat, k < n
      PROVE  run[k + 1] = ApplyRule(run[k], rules[k + 1], scenario)
  <2>1. k + 1 \in Nat /\ k + 1 # 0 /\ k \in 0 .. n /\ k + 1 \in 0 .. n /\ k + 1 - 1 = k
    BY <1>0, <1>8
  <2>2. Max(1 .. k + 1) = k + 1 /\ (1 .. k + 1) \ {k + 1} = 1 .. k
    BY <2>1, GreatestIsLast
  <2>3. 1 .. k + 1 \in SUBSET DOMAIN rules /\ k + 1 \in 1 .. k + 1
    BY <1>0, <1>8
  <2>4. iter[1 .. k + 1] = ApplyRule(iter[1 .. k], rules[k + 1], scenario)
    BY <1>6, <2>2, <2>3
  <2> QED BY <2>1, <2>4
<1>9. n \in 0 .. n /\ run[n] = iter[DOMAIN rules]
  BY <1>0
<1> HIDE DEF run
<1> QED BY <1>1, <1>7, <1>8, <1>9 DEF n

\* What the first k rules do, and whether one of them stops the run.
Acts(rules, k, scenario) == {rules[j].then : j \in {i \in 1 .. k : Fires(rules[i], scenario)}}

Stops(rules, k, scenario) == \E j \in 1 .. k : rules[j].halts /\ Fires(rules[j], scenario)

\* The first k rules have been followed from a trace on.
Followed(t, trace, rules, k, scenario) ==
  /\ t.executed = trace.executed /\ t.skipped = trace.skipped /\ t.outcomes = trace.outcomes
  /\ t.halted <=> Stops(rules, k, scenario)
  /\ ToSet(trace.actions) \subseteq ToSet(t.actions)
  /\ ToSet(t.actions) \subseteq ToSet(trace.actions) \cup Acts(rules, k, scenario)
  /\ ~t.halted => Acts(rules, k, scenario) \subseteq ToSet(t.actions)
  /\ t.halted => /\ t.actions # <<>>
                 /\ \E j \in 1 .. k : rules[j].halts /\ Last(t.actions) = rules[j].then

LEMMA OneRuleMore ==
  ASSUME NEW C, NEW R, AreRules(R, C), NEW rules \in Seq(R), NEW trace, NEW scenario,
         NEW k \in Nat, k < Len(rules), NEW t \in TracesOf(C), Followed(t, trace, rules, k, scenario)
  PROVE  LET u == ApplyRule(t, rules[k + 1], scenario)
         IN  u \in TracesOf(C) /\ Followed(u, trace, rules, k + 1, scenario)
<1> DEFINE rule == rules[k + 1]
           u == ApplyRule(t, rule, scenario)
<1>1. rule.then \in C /\ rule.halts \in BOOLEAN
  <2>1. rule \in R
    OBVIOUS
  <2> QED BY <2>1 DEF AreRules
<1>2. u \in TracesOf(C)
  BY <1>1, RuleKeepsTraces
<1>3. /\ 1 .. k \subseteq 1 .. k + 1 /\ k + 1 \in 1 .. k + 1
      /\ \A j \in 1 .. k + 1 : j \in 1 .. k \/ j = k + 1
  OBVIOUS
<1>4. CASE Fires(rule, scenario)
  <2>1. Acts(rules, k + 1, scenario) = Acts(rules, k, scenario) \cup {rule.then}
    BY <1>3, <1>4 DEF Acts
  <2>2. Stops(rules, k + 1, scenario) <=> Stops(rules, k, scenario) \/ rule.halts
    BY <1>3, <1>4 DEF Stops
  <2>3. CASE t.halted
    <3>1. u = t
      BY <2>3 DEF ApplyRule
    <3> QED BY <1>2, <1>3, <2>1, <2>2, <2>3, <3>1 DEF Followed
  <2>4. CASE ~t.halted
    <3>1. /\ u.actions = Append(t.actions, rule.then) /\ u.halted = rule.halts
          /\ u.executed = t.executed /\ u.skipped = t.skipped /\ u.outcomes = t.outcomes
      BY <1>4, <2>4 DEF ApplyRule, TracesOf
    <3>2. /\ ToSet(u.actions) = ToSet(t.actions) \cup {rule.then}
          /\ u.actions # <<>> /\ Last(u.actions) = rule.then
      <4>1. t.actions \in Seq(C)
        BY DEF TracesOf
      <4>2. /\ ToSet(Append(t.actions, rule.then)) = ToSet(t.actions) \cup {rule.then}
            /\ Append(t.actions, rule.then) # <<>>
            /\ Last(Append(t.actions, rule.then)) = rule.then
        BY <4>1, ElementsOfAppended
      <4> HIDE DEF u, rule
      <4> QED BY <3>1, <4>2
    <3>3. ~Stops(rules, k, scenario) /\ Acts(rules, k, scenario) \subseteq ToSet(t.actions)
      BY <2>4 DEF Followed
    <3>4. u.halted <=> Stops(rules, k + 1, scenario)
      BY <1>1, <2>2, <3>1, <3>3
    <3>5. u.halted => \E j \in 1 .. k + 1 : rules[j].halts /\ Last(u.actions) = rules[j].then
      BY <1>1, <1>3, <3>1, <3>2
    <3>6. /\ ToSet(trace.actions) \subseteq ToSet(u.actions)
          /\ ToSet(u.actions) \subseteq ToSet(trace.actions) \cup Acts(rules, k + 1, scenario)
          /\ Acts(rules, k + 1, scenario) \subseteq ToSet(u.actions)
      BY <2>1, <3>2, <3>3 DEF Followed
    <3>7. u.executed = trace.executed /\ u.skipped = trace.skipped /\ u.outcomes = trace.outcomes
      BY <3>1 DEF Followed
    <3> HIDE DEF u
    <3> QED BY <1>2, <3>2, <3>4, <3>5, <3>6, <3>7 DEF Followed, u
  <2> QED BY <2>3, <2>4
<1>5. CASE ~Fires(rule, scenario)
  <2>1. Acts(rules, k + 1, scenario) = Acts(rules, k, scenario)
    BY <1>3, <1>5 DEF Acts
  <2>2. Stops(rules, k + 1, scenario) <=> Stops(rules, k, scenario)
    BY <1>3, <1>5 DEF Stops
  <2>3. u = t
    BY <1>5 DEF ApplyRule
  <2> QED BY <1>2, <1>3, <2>1, <2>2, <2>3 DEF Followed
<1> QED BY <1>4, <1>5

\* Rules are followed in order, up to the first that stops the run (applyRules).
LEMMA RulesAreFollowed ==
  ASSUME NEW C, NEW R, AreRules(R, C), NEW rules \in Seq(R), NEW scenario,
         NEW trace \in TracesOf(C), ~trace.halted
  PROVE  LET t == ApplyRules(trace, rules, scenario)
         IN  t \in TracesOf(C) /\ Followed(t, trace, rules, Len(rules), scenario)
<1> DEFINE n == Len(rules)
<1>0. n \in Nat
  OBVIOUS
<1>1. PICK run : /\ run[0] = trace
                 /\ \A k \in Nat : k < n => run[k + 1] = ApplyRule(run[k], rules[k + 1], scenario)
                 /\ ApplyRules(trace, rules, scenario) = run[n]
  BY RulesOneByOne
<1> DEFINE good == {k \in Nat : k <= n => /\ run[k] \in TracesOf(C)
                                          /\ Followed(run[k], trace, rules, k, scenario)}
<1>2. 0 \in good
  <2>1. ~Stops(rules, 0, scenario) /\ Acts(rules, 0, scenario) = {}
    BY DEF Stops, Acts
  <2>2. Followed(trace, trace, rules, 0, scenario)
    BY <2>1 DEF Followed
  <2> QED BY <1>1, <2>2
<1>3. ASSUME NEW k \in Nat, k < n, k \in good PROVE k + 1 \in good
  <2>1. run[k + 1] = ApplyRule(run[k], rules[k + 1], scenario)
    BY <1>1, <1>3
  <2>2. run[k] \in TracesOf(C) /\ Followed(run[k], trace, rules, k, scenario)
    BY <1>3
  <2> QED BY <1>3, <2>1, <2>2, OneRuleMore
<1>4. n \in good
  <2> HIDE DEF good
  <2>1. \A k \in 0 .. n : k \in good
    BY <1>0, <1>2, <1>3, UpTo
  <2> QED BY <1>0, <2>1
<1> QED BY <1>1, <1>4

\* Steps that act with what is in C and have rules of R.
AreSteps(P, R, C) ==
  \A p \in P : /\ p.action \in Seq(C) /\ p.outcome \in Seq(C) /\ p.rules \in Seq(R)
              /\ p.halts \in BOOLEAN /\ p.id \in Nat

\* What a step that is reached makes of a trace, when its rules make this of it.
Executed(u, ruled, t, step, scenario) ==
  /\ Followed(ruled, t, step.rules, Len(step.rules), scenario)
  /\ Skips(step, scenario) =>
       /\ u.skipped = Append(t.skipped, step.id)
       /\ u.actions = t.actions /\ u.executed = t.executed
       /\ u.outcomes = t.outcomes /\ u.halted = t.halted
  /\ ~Skips(step, scenario) /\ ruled.halted => u = ruled
  /\ ~Skips(step, scenario) /\ ~ruled.halted =>
       /\ u.actions = ruled.actions \o step.action
       /\ u.executed = Append(ruled.executed, step.id)
       /\ u.outcomes = ruled.outcomes \o step.outcome
       /\ u.halted = step.halts /\ u.skipped = ruled.skipped

LEMMA StepIsExecuted ==
  ASSUME NEW C, NEW R, AreRules(R, C), NEW P, AreSteps(P, R, C), NEW step \in P,
         NEW t \in TracesOf(C), ~t.halted, NEW scenario
  PROVE  LET u == ExecuteStep(t, step, scenario)
             ruled == ApplyRules(t, step.rules, scenario)
         IN  u \in TracesOf(C) /\ ruled \in TracesOf(C) /\ Executed(u, ruled, t, step, scenario)
<1> DEFINE u == ExecuteStep(t, step, scenario)
           ruled == ApplyRules(t, step.rules, scenario)
<1>1. /\ step.action \in Seq(C) /\ step.outcome \in Seq(C) /\ step.rules \in Seq(R)
      /\ step.halts \in BOOLEAN /\ step.id \in Nat
  BY DEF AreSteps
<1>2. ruled \in TracesOf(C) /\ Followed(ruled, t, step.rules, Len(step.rules), scenario)
  BY <1>1, RulesAreFollowed
<1> HIDE DEF ruled
<1>3. u = IF Skips(step, scenario) THEN [t EXCEPT !.skipped = Append(t.skipped, step.id)]
          ELSE IF ruled.halted THEN ruled
          ELSE [ruled EXCEPT !.actions = ruled.actions \o step.action,
                             !.executed = Append(ruled.executed, step.id),
                             !.outcomes = ruled.outcomes \o step.outcome,
                             !.halted = step.halts]
  BY DEF ExecuteStep, ruled
<1> HIDE DEF u
<1>4. /\ Append(t.skipped, step.id) \in Seq(Nat) /\ Append(ruled.executed, step.id) \in Seq(Nat)
      /\ ruled.actions \o step.action \in Seq(C) /\ ruled.outcomes \o step.outcome \in Seq(C)
  BY <1>1, <1>2 DEF TracesOf
<1>5. u \in TracesOf(C)
  BY <1>1, <1>2, <1>3, <1>4 DEF TracesOf
<1>6. Skips(step, scenario) =>
        /\ u.skipped = Append(t.skipped, step.id)
        /\ u.actions = t.actions /\ u.executed = t.executed
        /\ u.outcomes = t.outcomes /\ u.halted = t.halted
  BY <1>3 DEF TracesOf
<1>7. ~Skips(step, scenario) /\ ~ruled.halted =>
        /\ u.actions = ruled.actions \o step.action
        /\ u.executed = Append(ruled.executed, step.id)
        /\ u.outcomes = ruled.outcomes \o step.outcome
        /\ u.halted = step.halts /\ u.skipped = ruled.skipped
  BY <1>2, <1>3 DEF TracesOf
<1>8. ~Skips(step, scenario) /\ ruled.halted => u = ruled
  BY <1>3
<1>9. Executed(u, ruled, t, step, scenario)
  BY <1>2, <1>6, <1>7, <1>8 DEF Executed
<1> QED BY <1>2, <1>5, <1>9 DEF u, ruled

LEMMA StepKeepsTraces ==
  ASSUME NEW C, NEW R, AreRules(R, C), NEW P, AreSteps(P, R, C), NEW step \in P,
         NEW t \in TracesOf(C), NEW scenario
  PROVE  ExecuteStep(t, step, scenario) \in TracesOf(C)
<1>1. CASE t.halted
  BY <1>1 DEF ExecuteStep
<1>2. CASE ~t.halted
  BY <1>2, StepIsExecuted
<1> QED BY <1>1, <1>2

\* The steps are executed one by one.
LEMMA StepsOneByOne ==
  ASSUME NEW C, NEW R, AreRules(R, C), NEW P, AreSteps(P, R, C), NEW steps \in Seq(P),
         NEW trace \in TracesOf(C), NEW scenario
  PROVE  \E run : /\ run[0] = trace
                  /\ \A k \in Nat : k < Len(steps) =>
                       run[k + 1] = ExecuteStep(run[k], steps[k + 1], scenario)
                  /\ ExecuteSteps(trace, steps, scenario) = run[Len(steps)]
<1> DEFINE n == Len(steps)
           T == TracesOf(C)
           f == [k \in 1 .. n |-> [t \in T |-> ExecuteStep(t, steps[k], scenario)]]
           iter == CHOOSE it : it = [s \in SUBSET DOMAIN steps |->
                                       IF s = {} THEN trace
                                       ELSE LET x == Max(s)
                                            IN  ExecuteStep(it[s \ {x}], steps[x], scenario)]
<1>0. n \in Nat /\ DOMAIN steps = 1 .. n /\ \A k \in 1 .. n : steps[k] \in P
  OBVIOUS
<1>1. ExecuteSteps(trace, steps, scenario) = iter[DOMAIN steps]
  BY DEF ExecuteSteps, FoldLeft, MapThenFoldSet
<1>2. f \in [1 .. n -> [T -> T]]
  <2>1. ASSUME NEW k \in 1 .. n, NEW t \in T PROVE ExecuteStep(t, steps[k], scenario) \in T
    <3>1. steps[k] \in P
      BY <1>0
    <3> QED BY <3>1, StepKeepsTraces
  <2> HIDE DEF T, n
  <2> QED BY <2>1
<1>3. PICK g : /\ g \in [SUBSET (1 .. n) -> T] /\ g[{}] = trace
               /\ \A s \in SUBSET (1 .. n) : s # {} => g[s] = f[Max(s)][g[s \ {Max(s)}]]
  <2>1. trace \in T /\ Maps(f, n, T)
    BY <1>2 DEF Maps
  <2> HIDE DEF T, n, f
  <2>2. n \in Nat
    BY <1>0
  <2>3. \E g : Folded(g, f, n, T, trace)
    BY <2>1, <2>2, FoldExists
  <2> QED BY <2>3 DEF Folded
<1> HIDE DEF T
<1>4. ASSUME NEW s \in SUBSET (1 .. n), s # {}
      PROVE  f[Max(s)][g[s \ {Max(s)}]] = ExecuteStep(g[s \ {Max(s)}], steps[Max(s)], scenario)
  <2>1. Max(s) \in 1 .. n /\ s \ {Max(s)} \in SUBSET (1 .. n)
    <3> HIDE DEF n, f
    <3>1. Max(s) \in 1 .. n
      BY <1>0, <1>4, GreatestOfSome
    <3> QED BY <3>1
  <2>2. g[s \ {Max(s)}] \in T
    BY <1>3, <2>1
  <2> QED BY <2>1, <2>2
<1>5. g = [s \in SUBSET DOMAIN steps |->
             IF s = {} THEN trace
             ELSE LET x == Max(s) IN ExecuteStep(g[s \ {x}], steps[x], scenario)]
  <2> HIDE DEF n, f
  <2> QED BY <1>0, <1>3, <1>4
<1>6. iter = [s \in SUBSET DOMAIN steps |->
                IF s = {} THEN trace
                ELSE LET x == Max(s) IN ExecuteStep(iter[s \ {x}], steps[x], scenario)]
  BY <1>5
<1> HIDE DEF iter, n, f
<1> DEFINE run == [k \in 0 .. n |-> iter[1 .. k]]
<1>7. run[0] = trace
  <2>1. 1 .. 0 = {} /\ {} \in SUBSET DOMAIN steps /\ 0 \in 0 .. n
    BY <1>0
  <2> QED BY <1>6, <2>1
<1>8. ASSUME NEW k \in Nat, k < n
      PROVE  run[k + 1] = ExecuteStep(run[k], steps[k + 1], scenario)
  <2>1. k + 1 \in Nat /\ k + 1 # 0 /\ k \in 0 .. n /\ k + 1 \in 0 .. n /\ k + 1 - 1 = k
    BY <1>0, <1>8
  <2>2. Max(1 .. k + 1) = k + 1 /\ (1 .. k + 1) \ {k + 1} = 1 .. k
    BY <2>1, GreatestIsLast
  <2>3. 1 .. k + 1 \in SUBSET DOMAIN steps /\ k + 1 \in 1 .. k + 1
    BY <1>0, <1>8
  <2>4. iter[1 .. k + 1] = ExecuteStep(iter[1 .. k], steps[k + 1], scenario)
    BY <1>6, <2>2, <2>3
  <2> QED BY <2>1, <2>4
<1>9. n \in 0 .. n /\ run[n] = iter[DOMAIN steps]
  BY <1>0
<1> HIDE DEF run
<1> QED BY <1>1, <1>7, <1>8, <1>9 DEF n

\* A run that comes to the step ends there.
EndsAt(step, scenario) ==
  /\ ~Skips(step, scenario)
  /\ step.halts \/ Stops(step.rules, Len(step.rules), scenario)

\* A run that goes on after the document's rules comes to step k.
Reached(before, steps, k, scenario) ==
  /\ ~before.halted
  /\ \A i \in 1 .. k - 1 : ~EndsAt(steps[i], scenario)

\* Of the first k steps, those that are run, skipped, and cut short by a rule.
Ran(before, steps, k, scenario) ==
  {j \in 1 .. k : Reached(before, steps, j, scenario) /\ ~Skips(steps[j], scenario)}
Skipped(before, steps, k, scenario) ==
  {j \in 1 .. k : Reached(before, steps, j, scenario) /\ Skips(steps[j], scenario)}
Cut(before, steps, k, scenario) ==
  {j \in Ran(before, steps, k, scenario) : Stops(steps[j].rules, Len(steps[j].rules), scenario)}

StepActs(step, scenario) == ToSet(step.action) \cup Acts(step.rules, Len(step.rules), scenario)

\* The run has gone through the first k steps as it must.
Walked(t, before, steps, k, scenario) ==
  LET ran == Ran(before, steps, k, scenario)
      cut == Cut(before, steps, k, scenario)
  IN  /\ t.halted <=> ~Reached(before, steps, k + 1, scenario)
      /\ ToSet(t.skipped) = Skipped(before, steps, k, scenario)
      /\ ToSet(t.executed) = ran \ cut
      /\ \A a \in ToSet(t.actions) :
           a \in ToSet(before.actions) \/ \E j \in ran : a \in StepActs(steps[j], scenario)
      /\ ToSet(before.actions) \subseteq ToSet(t.actions)
      /\ \A j \in ran \ cut : StepActs(steps[j], scenario) \subseteq ToSet(t.actions)
      /\ before.halted \/ cut # {} => t.actions # <<>> /\ Halts(Last(t.actions))
      /\ \A o \in ToSet(t.outcomes) : \E j \in ran : o \in ToSet(steps[j].outcome)

\* One step more is reached or not, and is run or skipped.
LEMMA ReachedFurther ==
  ASSUME NEW before, NEW steps, NEW k \in Nat, NEW scenario
  PROVE  LET here == Reached(before, steps, k + 1, scenario)
             step == steps[k + 1]
         IN  /\ Reached(before, steps, k + 1 + 1, scenario) <=> here /\ ~EndsAt(step, scenario)
             /\ Ran(before, steps, k + 1, scenario)
                  = Ran(before, steps, k, scenario)
                    \cup IF here /\ ~Skips(step, scenario) THEN {k + 1} ELSE {}
             /\ Skipped(before, steps, k + 1, scenario)
                  = Skipped(before, steps, k, scenario)
                    \cup IF here /\ Skips(step, scenario) THEN {k + 1} ELSE {}
             /\ here => Cut(before, steps, k, scenario) = {}
             /\ k + 1 \notin Ran(before, steps, k, scenario)
<1>1. /\ k + 1 + 1 - 1 = k + 1 /\ k + 1 - 1 = k
      /\ \A j \in 1 .. k + 1 : j \in 1 .. k \/ j = k + 1
      /\ 1 .. k \subseteq 1 .. k + 1 /\ k + 1 \in 1 .. k + 1 /\ k + 1 \notin 1 .. k
  OBVIOUS
<1>2. Reached(before, steps, k + 1 + 1, scenario)
        <=> Reached(before, steps, k + 1, scenario) /\ ~EndsAt(steps[k + 1], scenario)
  BY <1>1 DEF Reached
<1>3. ASSUME Reached(before, steps, k + 1, scenario), NEW j \in Cut(before, steps, k, scenario)
      PROVE  FALSE
  <2>1. j \in 1 .. k /\ EndsAt(steps[j], scenario)
    BY DEF Cut, Ran, EndsAt
  <2> QED BY <1>1, <1>3, <2>1 DEF Reached
<1> QED BY <1>1, <1>2, <1>3 DEF Ran, Skipped

LEMMA OneStepMore ==
  ASSUME NEW C, NEW R, AreRules(R, C), \A r \in R : r.halts => Halts(r.then),
         NEW P, AreSteps(P, R, C), NEW steps \in Seq(P),
         NEW k \in Nat, k < Len(steps), steps[k + 1].id = k + 1,
         NEW scenario, NEW before, NEW t \in TracesOf(C), Walked(t, before, steps, k, scenario)
  PROVE  LET u == ExecuteStep(t, steps[k + 1], scenario)
         IN  u \in TracesOf(C) /\ Walked(u, before, steps, k + 1, scenario)
<1> DEFINE step == steps[k + 1]
           u == ExecuteStep(t, step, scenario)
           ran == Ran(before, steps, k, scenario)
           cut == Cut(before, steps, k, scenario)
           skipped == Skipped(before, steps, k, scenario)
           here == Reached(before, steps, k + 1, scenario)
           stops == Stops(step.rules, Len(step.rules), scenario)
           ruled == ApplyRules(t, step.rules, scenario)
<1>1. step \in P /\ step = steps[k + 1] /\ step.id = k + 1
  OBVIOUS
<1>2. /\ step.action \in Seq(C) /\ step.outcome \in Seq(C) /\ step.rules \in Seq(R)
      /\ step.halts \in BOOLEAN
  BY <1>1 DEF AreSteps
<1>3. u \in TracesOf(C)
  BY <1>1, StepKeepsTraces
<1>a. ~t.halted => ruled \in TracesOf(C) /\ Executed(u, ruled, t, step, scenario)
  BY <1>1, StepIsExecuted
<1>4. /\ Reached(before, steps, k + 1 + 1, scenario) <=> here /\ ~EndsAt(step, scenario)
      /\ Ran(before, steps, k + 1, scenario)
           = ran \cup IF here /\ ~Skips(step, scenario) THEN {k + 1} ELSE {}
      /\ Skipped(before, steps, k + 1, scenario)
           = skipped \cup IF here /\ Skips(step, scenario) THEN {k + 1} ELSE {}
      /\ here => cut = {}
      /\ k + 1 \notin ran
  BY ReachedFurther
<1>5. Cut(before, steps, k + 1, scenario)
        = cut \cup IF here /\ ~Skips(step, scenario) /\ stops THEN {k + 1} ELSE {}
  BY <1>4 DEF Cut
<1>6. cut \subseteq ran
  BY DEF Cut
<1>7. /\ t.halted <=> ~here
      /\ ToSet(t.skipped) = skipped /\ ToSet(t.executed) = ran \ cut
      /\ \A a \in ToSet(t.actions) :
           a \in ToSet(before.actions) \/ \E j \in ran : a \in StepActs(steps[j], scenario)
      /\ ToSet(before.actions) \subseteq ToSet(t.actions)
      /\ \A j \in ran \ cut : StepActs(steps[j], scenario) \subseteq ToSet(t.actions)
      /\ before.halted \/ cut # {} => t.actions # <<>> /\ Halts(Last(t.actions))
      /\ \A o \in ToSet(t.outcomes) : \E j \in ran : o \in ToSet(steps[j].outcome)
  BY DEF Walked
<1> HIDE DEF step, u, ruled, ran, cut, skipped, here, stops
<1>8. CASE t.halted
  <2>1. u = t
    BY <1>8 DEF ExecuteStep, u
  <2>2. /\ Ran(before, steps, k + 1, scenario) = ran
        /\ Cut(before, steps, k + 1, scenario) = cut
        /\ Skipped(before, steps, k + 1, scenario) = skipped
        /\ ~Reached(before, steps, k + 1 + 1, scenario)
    BY <1>4, <1>5, <1>7, <1>8
  <2>3. Walked(u, before, steps, k + 1, scenario)
    BY <1>7, <1>8, <2>1, <2>2 DEF Walked
  <2> QED BY <1>3, <2>3 DEF u, step
<1>9. CASE ~t.halted /\ Skips(step, scenario)
  <2>2. /\ u.skipped = Append(t.skipped, k + 1) /\ u.executed = t.executed
        /\ u.actions = t.actions /\ u.outcomes = t.outcomes /\ u.halted = t.halted
    BY <1>1, <1>9, <1>a DEF Executed
  <2>3. ToSet(u.skipped) = skipped \cup {k + 1}
    <3>1. t.skipped \in Seq(Nat) /\ k + 1 \in Nat
      BY DEF TracesOf
    <3> QED BY <1>7, <2>2, <3>1, ElementsOfAppended
  <2>4. /\ Ran(before, steps, k + 1, scenario) = ran
        /\ Cut(before, steps, k + 1, scenario) = cut
        /\ Skipped(before, steps, k + 1, scenario) = skipped \cup {k + 1}
        /\ Reached(before, steps, k + 1 + 1, scenario)
    BY <1>4, <1>5, <1>7, <1>9 DEF EndsAt
  <2>5. Walked(u, before, steps, k + 1, scenario)
    BY <1>7, <1>9, <2>2, <2>3, <2>4 DEF Walked
  <2> QED BY <1>3, <2>5 DEF u, step
<1>10. CASE ~t.halted /\ ~Skips(step, scenario)
  <2>1. /\ ruled \in TracesOf(C) /\ Followed(ruled, t, step.rules, Len(step.rules), scenario)
        /\ ruled.halted => u = ruled
        /\ ~ruled.halted =>
             /\ u.actions = ruled.actions \o step.action
             /\ u.executed = Append(ruled.executed, step.id)
             /\ u.outcomes = ruled.outcomes \o step.outcome
             /\ u.halted = step.halts /\ u.skipped = ruled.skipped
    BY <1>10, <1>a DEF Executed
  <2>2. /\ ruled.executed = t.executed /\ ruled.skipped = t.skipped /\ ruled.outcomes = t.outcomes
        /\ ruled.halted <=> stops
        /\ ToSet(t.actions) \subseteq ToSet(ruled.actions)
        /\ ToSet(ruled.actions) \subseteq ToSet(t.actions) \cup StepActs(step, scenario)
        /\ ~ruled.halted => Acts(step.rules, Len(step.rules), scenario) \subseteq ToSet(ruled.actions)
        /\ ruled.halted => ruled.actions # <<>> /\ Halts(Last(ruled.actions))
    <3>1. \A j \in 1 .. Len(step.rules) : step.rules[j] \in R
      BY <1>2
    <3> QED BY <2>1, <3>1 DEF Followed, stops, StepActs
  <2>3. here /\ cut = {}
    BY <1>4, <1>7, <1>10
  <2>4. /\ Ran(before, steps, k + 1, scenario) = ran \cup {k + 1}
        /\ Skipped(before, steps, k + 1, scenario) = skipped
        /\ Cut(before, steps, k + 1, scenario) = IF stops THEN {k + 1} ELSE {}
        /\ Reached(before, steps, k + 1 + 1, scenario) <=> ~(step.halts \/ stops)
    BY <1>4, <1>5, <1>10, <2>3 DEF EndsAt, stops
  <2>5. ~before.halted
    BY <2>3 DEF here, Reached
  <2>6. CASE ruled.halted
    <3>1. u = ruled /\ stops
      BY <2>1, <2>2, <2>6
    <3>2. (ran \cup {k + 1}) \ {k + 1} = ran
      BY <1>4
    <3>3. \A a \in ToSet(u.actions) :
            \/ a \in ToSet(before.actions)
            \/ \E j \in ran \cup {k + 1} : a \in StepActs(steps[j], scenario)
      BY <1>1, <1>7, <2>2, <3>1
    <3>4. \A j \in ran : StepActs(steps[j], scenario) \subseteq ToSet(u.actions)
      BY <1>7, <2>2, <2>3, <3>1
    <3>5. \A o \in ToSet(u.outcomes) : \E j \in ran \cup {k + 1} : o \in ToSet(steps[j].outcome)
      BY <1>7, <2>2, <3>1
    <3>6. ToSet(u.skipped) = skipped /\ ToSet(u.executed) = ran
      BY <1>7, <2>2, <2>3, <3>1
    <3>7. ToSet(before.actions) \subseteq ToSet(u.actions) /\ u.actions # <<>> /\ Halts(Last(u.actions))
      BY <1>7, <2>2, <2>6, <3>1
    <3>8. Walked(u, before, steps, k + 1, scenario)
      BY <2>4, <2>6, <3>1, <3>2, <3>3, <3>4, <3>5, <3>6, <3>7 DEF Walked
    <3> QED BY <1>3, <3>8 DEF u, step
  <2>7. CASE ~ruled.halted
    <3>1. /\ u.actions = ruled.actions \o step.action
          /\ u.executed = Append(ruled.executed, k + 1) /\ u.skipped = ruled.skipped
          /\ u.outcomes = ruled.outcomes \o step.outcome /\ u.halted = step.halts
          /\ ~stops
      BY <1>1, <2>1, <2>2, <2>7
    <3>2. /\ ToSet(u.actions) = ToSet(ruled.actions) \cup ToSet(step.action)
          /\ ToSet(u.outcomes) = ToSet(ruled.outcomes) \cup ToSet(step.outcome)
          /\ ToSet(u.executed) = ToSet(ruled.executed) \cup {k + 1}
      <4>1. /\ ruled.actions \in Seq(C) /\ ruled.outcomes \in Seq(C) /\ ruled.executed \in Seq(Nat)
            /\ k + 1 \in Nat
        BY <2>1 DEF TracesOf
      <4>2. ToSet(u.executed) = ToSet(ruled.executed) \cup {k + 1}
        BY <3>1, <4>1, ElementsOfAppended
      <4> QED BY <1>2, <3>1, <4>1, <4>2, ElementsOfJoined
    <3>3. /\ StepActs(step, scenario) \subseteq ToSet(u.actions)
          /\ ToSet(u.actions) \subseteq ToSet(t.actions) \cup StepActs(step, scenario)
          /\ ToSet(t.actions) \subseteq ToSet(u.actions)
      BY <2>2, <2>7, <3>2 DEF StepActs
    <3>4. \A a \in ToSet(u.actions) :
            \/ a \in ToSet(before.actions)
            \/ \E j \in ran \cup {k + 1} : a \in StepActs(steps[j], scenario)
      BY <1>1, <1>7, <3>3
    <3>5. \A j \in ran \cup {k + 1} : StepActs(steps[j], scenario) \subseteq ToSet(u.actions)
      BY <1>1, <1>7, <2>3, <3>3
    <3>6. \A o \in ToSet(u.outcomes) : \E j \in ran \cup {k + 1} : o \in ToSet(steps[j].outcome)
      BY <1>1, <1>7, <2>2, <3>2
    <3>7. ToSet(u.skipped) = skipped /\ ToSet(u.executed) = ran \cup {k + 1}
      BY <1>7, <2>2, <2>3, <3>1, <3>2
    <3>8. ToSet(before.actions) \subseteq ToSet(u.actions)
      BY <1>7, <3>3
    <3>9. Walked(u, before, steps, k + 1, scenario)
      BY <1>2, <2>4, <2>5, <3>1, <3>4, <3>5, <3>6, <3>7, <3>8 DEF Walked
    <3> QED BY <1>3, <3>9 DEF u, step
  <2> QED BY <2>6, <2>7
<1> QED BY <1>8, <1>9, <1>10

-----------------------------------------------------------------------------
(* A step split into what it does, its rules, prohibitions and guard.      *)

\* Texts that quote lines, whatever parts of them.
Quoting(C) == {Extract(c, parts) : c \in C, parts \in SUBSET {"before", "said", "after"}}

OfLine(text, c) == text.line = c /\ text.parts \subseteq Parts(c)

\* The rules that lines with a condition make.
RulesFrom(C) == {Rule(c) : c \in {d \in C : d.if # Always}}

SplitsOf(C) ==
  [action : Seq(Quoting(C)), condition : {Always} \cup {c.if : c \in C},
   rules : Seq(RulesFrom(C)), forbidden : Seq(Quoting(C)), outcome : Seq(Quoting(C))]

\* What a step that has an outcome already, or none, leaves out of a line.
Missed(step, c, first) ==
  IF ~first /\ c.if # Always THEN {}
  ELSE CASE c.says = "never" -> {"before"}
         [] c.says = "wait" -> {"after"} \cup IF step.outcome = <<>> THEN {} ELSE {"said"}
         [] OTHER -> {}

\* A step that takes a line up: it keeps what it says, and says the parts of the
\* line too that it does not miss; a prohibition is among its prohibitions.
TakesUp(u, step, c, first) ==
  /\ StepSays(step) \subseteq StepSays(u)
  /\ \A t \in StepSays(u) : t \in StepSays(step) \/ OfLine(t, c)
  /\ ToSet(step.forbidden) \subseteq ToSet(u.forbidden)
  /\ step.outcome # <<>> => u.outcome = step.outcome
  /\ u.outcome \in {step.outcome, <<Extract(c, {"said"})>>}
  /\ \A part \in Parts(c) \ Missed(step, c, first) : Repeats(StepSays(u), c, part)
  /\ ~first => Conditions(step) \subseteq Conditions(u)
  /\ c.says = "never" /\ (first \/ c.if = Always) => ToTheEnd(c) \in ToSet(u.forbidden)

\* The step with other actions, prohibitions and guard.
Resaid(step, action, forbidden, outcome) ==
  [step EXCEPT !.action = action, !.forbidden = forbidden, !.outcome = outcome]

LEMMA PartsAreKnown ==
  ASSUME NEW c
  PROVE  /\ Before(c) \subseteq {"before"} /\ After(c) \subseteq {"after"}
         /\ Parts(c) = {"said"} \cup Before(c) \cup After(c)
         /\ Parts(c) \subseteq {"before", "said", "after"}
BY DEF Before, After, Parts

\* Some parts of a line as a text.
LEMMA ExtractQuotes ==
  ASSUME NEW C, NEW c \in C, NEW P \in SUBSET Parts(c)
  PROVE  /\ Extract(c, P) \in Quoting(C) /\ OfLine(Extract(c, P), c)
         /\ \A part \in P : Repeats({Extract(c, P)}, c, part)
<1>1. P \in SUBSET {"before", "said", "after"}
  BY PartsAreKnown
<1>2. Extract(c, P).line = c /\ Extract(c, P).parts = P
  BY DEF Extract
<1>3. Extract(c, P) \in Quoting(C)
  BY <1>1 DEF Quoting
<1> QED BY <1>2, <1>3 DEF OfLine, Repeats

LEMMA FoundQuotes ==
  ASSUME NEW C, NEW c \in C, NEW P \in SUBSET Parts(c)
  PROVE  /\ Found(c, P) \in Seq(Quoting(C))
         /\ \A t \in ToSet(Found(c, P)) : OfLine(t, c)
         /\ \A part \in P : Repeats(ToSet(Found(c, P)), c, part)
<1>1. CASE P = {}
  <2>1. Found(c, P) = <<>> /\ ToSet(<<>>) = {} /\ <<>> \in Seq(Quoting(C))
    BY <1>1 DEF Found, ToSet
  <2> QED BY <1>1, <2>1
<1>2. CASE P # {}
  <2> DEFINE t == Extract(c, P)
  <2>1. t \in Quoting(C) /\ OfLine(t, c) /\ \A part \in P : Repeats({t}, c, part)
    BY ExtractQuotes
  <2>2. Found(c, P) = <<t>>
    BY <1>2 DEF Found
  <2> HIDE DEF t
  <2>3. <<t>> \in Seq(Quoting(C)) /\ ToSet(<<t>>) = {t}
    BY <2>1 DEF ToSet
  <2> QED BY <2>1, <2>2, <2>3
<1> QED BY <1>1, <1>2

LEMMA RepeatsMore ==
  ASSUME NEW A, NEW B, A \subseteq B, NEW c, NEW part, Repeats(A, c, part)
  PROVE  Repeats(B, c, part)
BY DEF Repeats

LEMMA RestIsSplit ==
  ASSUME NEW C, NEW c \in C, NEW step \in SplitsOf(C)
  PROVE  LET u == SplitRest(step, c)
         IN  u \in SplitsOf(C) /\ TakesUp(u, step, c, TRUE) /\ Conditions(u) = Conditions(step)
<1> DEFINE u == SplitRest(step, c)
           Q == Quoting(C)
           rules == {step.rules[i].then : i \in DOMAIN step.rules}
           said == Extract(c, {"said"})
           before == Found(c, Before(c))
           after == Found(c, After(c))
           \* The step says just this more.
           Adds(w, a, f, o) ==
             /\ w = Resaid(step, a, f, o)
             /\ a \in Seq(Q) /\ f \in Seq(Q) /\ o \in Seq(Q)
             /\ ToSet(step.action) \subseteq ToSet(a) /\ ToSet(step.forbidden) \subseteq ToSet(f)
             /\ \A t \in ToSet(a) : t \in ToSet(step.action) \/ OfLine(t, c)
             /\ \A t \in ToSet(f) : t \in ToSet(step.forbidden) \/ OfLine(t, c)
             /\ o \in {step.outcome, <<said>>} /\ (step.outcome # <<>> => o = step.outcome)
           \* It repeats the part of the line.
           Part(w, a, f, o, part) ==
             \E texts \in {ToSet(a), ToSet(f), ToSet(o), ToSet(before), ToSet(after)} :
               texts \subseteq StepSays(w) /\ Repeats(texts, c, part)
           NoneMissed(w, a, f, o) ==
             \A part \in Parts(c) \ Missed(step, c, TRUE) : Part(w, a, f, o, part)
<1>1. /\ step.action \in Seq(Q) /\ step.outcome \in Seq(Q) /\ step.forbidden \in Seq(Q)
      /\ step.rules \in Seq(RulesFrom(C)) /\ step.condition \in {Always} \cup {d.if : d \in C}
  BY DEF SplitsOf
<1>2. /\ said \in Q /\ OfLine(said, c) /\ Repeats({said}, c, "said")
      /\ Whole(c) \in Q /\ OfLine(Whole(c), c) /\ \A part \in Parts(c) : Repeats({Whole(c)}, c, part)
      /\ ToTheEnd(c) \in Q /\ OfLine(ToTheEnd(c), c)
      /\ \A part \in {"said"} \cup After(c) : Repeats({ToTheEnd(c)}, c, part)
  <2>1. /\ {"said"} \in SUBSET Parts(c) /\ Parts(c) \in SUBSET Parts(c)
        /\ {"said"} \cup After(c) \in SUBSET Parts(c)
    BY PartsAreKnown
  <2>2. /\ Extract(c, {"said"}) \in Q /\ OfLine(Extract(c, {"said"}), c)
        /\ \A part \in {"said"} : Repeats({Extract(c, {"said"})}, c, part)
    BY <2>1, ExtractQuotes
  <2>3. /\ Whole(c) \in Q /\ OfLine(Whole(c), c)
        /\ \A part \in Parts(c) : Repeats({Whole(c)}, c, part)
    BY <2>1, ExtractQuotes DEF Whole
  <2>4. /\ ToTheEnd(c) \in Q /\ OfLine(ToTheEnd(c), c)
        /\ \A part \in {"said"} \cup After(c) : Repeats({ToTheEnd(c)}, c, part)
    BY <2>1, ExtractQuotes DEF ToTheEnd
  <2> QED BY <2>2, <2>3, <2>4
<1>3. /\ before \in Seq(Q) /\ after \in Seq(Q)
      /\ \A t \in ToSet(before) \cup ToSet(after) : OfLine(t, c)
      /\ \A part \in Before(c) : Repeats(ToSet(before), c, part)
      /\ \A part \in After(c) : Repeats(ToSet(after), c, part)
  <2>1. Before(c) \in SUBSET Parts(c) /\ After(c) \in SUBSET Parts(c)
    BY PartsAreKnown
  <2>2. /\ before \in Seq(Q) /\ \A t \in ToSet(before) : OfLine(t, c)
        /\ \A part \in Before(c) : Repeats(ToSet(before), c, part)
    BY <2>1, FoundQuotes
  <2>3. /\ after \in Seq(Q) /\ \A t \in ToSet(after) : OfLine(t, c)
        /\ \A part \in After(c) : Repeats(ToSet(after), c, part)
    BY <2>1, FoundQuotes
  <2> QED BY <2>2, <2>3
<1>4. <<said>> \in Seq(Q) /\ ToSet(<<said>>) = {said} /\ <<said>> # <<>>
  BY <1>2 DEF ToSet
<1>5. StepSays(step) = ToSet(step.action) \cup ToSet(step.forbidden) \cup ToSet(step.outcome) \cup rules
  BY DEF StepSays
<1> HIDE DEF rules, Q, said, before, after
<1>6. ASSUME NEW w, NEW a, NEW f, NEW o, Adds(w, a, f, o)
      PROVE  /\ w \in SplitsOf(C) /\ Conditions(w) = Conditions(step)
             /\ w.forbidden = f /\ w.outcome = o
             /\ StepSays(w) = ToSet(a) \cup ToSet(f) \cup ToSet(o) \cup rules
             /\ StepSays(step) \subseteq StepSays(w)
             /\ \A t \in StepSays(w) : t \in StepSays(step) \/ OfLine(t, c)
  <2>1. /\ w \in SplitsOf(C) /\ w.action = a /\ w.forbidden = f /\ w.outcome = o
        /\ w.rules = step.rules /\ w.condition = step.condition
    BY <1>1, <1>6 DEF SplitsOf, Resaid, Q
  <2>2. StepSays(w) = ToSet(a) \cup ToSet(f) \cup ToSet(o) \cup rules
    BY <2>1 DEF StepSays, rules
  <2>3. Conditions(w) = Conditions(step)
    BY <2>1 DEF Conditions
  <2>4. ToSet(step.outcome) \subseteq ToSet(o) /\ \A t \in ToSet(o) : t \in ToSet(step.outcome) \/ OfLine(t, c)
    <3>1. CASE step.outcome = <<>>
      <4>1. ToSet(<<>>) = {}
        BY DEF ToSet
      <4> QED BY <1>2, <1>4, <1>6, <3>1, <4>1
    <3>2. CASE step.outcome # <<>>
      BY <1>6, <3>2
    <3> QED BY <3>1, <3>2
  <2>5. StepSays(step) \subseteq StepSays(w)
    BY <1>5, <1>6, <2>2, <2>4
  <2>6. ASSUME NEW t \in StepSays(w) PROVE t \in StepSays(step) \/ OfLine(t, c)
    BY <1>5, <1>6, <2>2, <2>4
  <2> QED BY <2>1, <2>2, <2>3, <2>5, <2>6
<1>7. \A s \in Seq(Q), x \in Q : Append(s, x) \in Seq(Q) /\ ToSet(Append(s, x)) = ToSet(s) \cup {x}
  BY ElementsOfAppended
<1>8. \A s, t \in Seq(Q) : s \o t \in Seq(Q) /\ ToSet(s \o t) = ToSet(s) \cup ToSet(t)
  BY ElementsOfJoined
<1>9. ASSUME NEW w, NEW a, NEW f, NEW o, Adds(w, a, f, o), NoneMissed(w, a, f, o),
             c.says = "never" => ToTheEnd(c) \in ToSet(f)
      PROVE  w \in SplitsOf(C) /\ TakesUp(w, step, c, TRUE) /\ Conditions(w) = Conditions(step)
  <2>1. \A part \in Parts(c) \ Missed(step, c, TRUE) : Repeats(StepSays(w), c, part)
    BY <1>9, RepeatsMore
  <2>2. /\ w \in SplitsOf(C) /\ Conditions(w) = Conditions(step)
        /\ w.forbidden = f /\ w.outcome = o
        /\ StepSays(step) \subseteq StepSays(w)
        /\ \A t \in StepSays(w) : t \in StepSays(step) \/ OfLine(t, c)
    BY <1>6, <1>9
  <2>3. /\ ToSet(step.forbidden) \subseteq ToSet(f)
        /\ o \in {step.outcome, <<said>>} /\ (step.outcome # <<>> => o = step.outcome)
    BY <1>9
  <2> HIDE DEF Adds
  <2> QED BY <1>9, <2>1, <2>2, <2>3 DEF TakesUp, said
<1>10. CASE c.says = "wait"
  <2> DEFINE a == step.action \o before
             o == IF step.outcome = <<>> THEN <<said>> ELSE step.outcome
  <2>1. u = Resaid(step, a, step.forbidden, o)
    BY <1>1, <1>10 DEF SplitRest, Guarded, Resaid, before, said, SplitsOf
  <2>2. a \in Seq(Q) /\ ToSet(a) = ToSet(step.action) \cup ToSet(before)
    BY <1>1, <1>3, <1>8
  <2>3. o \in Seq(Q) /\ o \in {step.outcome, <<said>>} /\ (step.outcome # <<>> => o = step.outcome)
    BY <1>1, <1>4
  <2> HIDE DEF u, a
  <2>4. Adds(u, a, step.forbidden, o)
    <3> HIDE DEF o
    <3> QED BY <1>1, <1>3, <2>1, <2>2, <2>3
  <2>5. ASSUME NEW part \in Parts(c) \ Missed(step, c, TRUE)
        PROVE  Part(u, a, step.forbidden, o, part)
    <3>1. StepSays(u) = ToSet(a) \cup ToSet(step.forbidden) \cup ToSet(o) \cup rules
      <4> HIDE DEF o
      <4> QED BY <1>6, <2>4
    <3>2. Missed(step, c, TRUE) = {"after"} \cup IF step.outcome = <<>> THEN {} ELSE {"said"}
      BY <1>10 DEF Missed
    <3>3. CASE part \in Before(c)
      <4>1. ToSet(before) \subseteq StepSays(u) /\ Repeats(ToSet(before), c, part)
        BY <1>3, <2>2, <3>1, <3>3
      <4> QED BY <4>1
    <3>4. CASE part \notin Before(c)
      <4>1. part = "said" /\ step.outcome = <<>>
        BY <3>2, <3>4, PartsAreKnown
      <4>2. ToSet(o) = {said}
        BY <1>4, <4>1
      <4>3. ToSet(o) \subseteq StepSays(u) /\ Repeats(ToSet(o), c, part)
        BY <1>2, <3>1, <4>1, <4>2
      <4> QED BY <4>3
    <3> QED BY <3>3, <3>4
  <2>9. NoneMissed(u, a, step.forbidden, o)
    BY <2>5
  <2> HIDE DEF o, Adds, NoneMissed
  <2> QED BY <1>9, <1>10, <2>4, <2>9 DEF u
<1>11. CASE c.says = "never"
  <2> DEFINE f == Append(step.forbidden, ToTheEnd(c))
  <2>1. u = Resaid(step, step.action, f, step.outcome)
    BY <1>11 DEF SplitRest, Forbidding, Resaid, SplitsOf
  <2>2. f \in Seq(Q) /\ ToSet(f) = ToSet(step.forbidden) \cup {ToTheEnd(c)}
    BY <1>1, <1>2, <1>7
  <2> HIDE DEF u, f
  <2>4. Adds(u, step.action, f, step.outcome)
    BY <1>1, <1>2, <2>1, <2>2
  <2>5. ASSUME NEW part \in Parts(c) \ Missed(step, c, TRUE)
        PROVE  Part(u, step.action, f, step.outcome, part)
    <3>1. StepSays(u) = ToSet(step.action) \cup ToSet(f) \cup ToSet(step.outcome) \cup rules
      BY <1>6, <2>4
    <3>2. Missed(step, c, TRUE) = {"before"}
      BY <1>11 DEF Missed
    <3>3. part \in {"said"} \cup After(c)
      BY <3>2, PartsAreKnown
    <3>4. Repeats({ToTheEnd(c)}, c, part)
      BY <1>2, <3>3
    <3>5. {ToTheEnd(c)} \subseteq ToSet(f)
      BY <2>2
    <3>6. ToSet(f) \subseteq StepSays(u) /\ Repeats(ToSet(f), c, part)
      BY <3>1, <3>4, <3>5, RepeatsMore
    <3> QED BY <3>6
  <2>6. ToTheEnd(c) \in ToSet(f)
    BY <2>2
  <2>9. NoneMissed(u, step.action, f, step.outcome)
    BY <2>5
  <2> HIDE DEF Adds, NoneMissed
  <2> QED BY <1>9, <2>4, <2>9, <2>6 DEF u
<1>12. CASE c.says = "until" /\ step.outcome = <<>>
  <2> DEFINE b == step.action \o before
             a == b \o after
             o == <<said>>
  <2>1. u = Resaid(step, a, step.forbidden, o)
    BY <1>12 DEF SplitRest, Expecting, Resaid, before, after, said, SplitsOf
  <2>2. b \in Seq(Q) /\ ToSet(b) = ToSet(step.action) \cup ToSet(before)
    BY <1>1, <1>3, <1>8
  <2> HIDE DEF b
  <2>3. a \in Seq(Q) /\ ToSet(a) = ToSet(step.action) \cup ToSet(before) \cup ToSet(after)
    BY <1>3, <1>8, <2>2
  <2>o. /\ o \in Seq(Q) /\ ToSet(o) = {said} /\ o \in {step.outcome, <<said>>}
        /\ \A part \in {"said"} : Repeats(ToSet(o), c, part)
    BY <1>2, <1>4
  <2> HIDE DEF u, a, o
  <2>4. Adds(u, a, step.forbidden, o)
    BY <1>1, <1>3, <1>12, <2>1, <2>3, <2>o
  <2>5. ASSUME NEW part \in Parts(c) \ Missed(step, c, TRUE)
        PROVE  Part(u, a, step.forbidden, o, part)
    <3>1. StepSays(u) = ToSet(a) \cup ToSet(step.forbidden) \cup ToSet(o) \cup rules
      BY <1>6, <2>4
    <3>2. /\ ToSet(before) \subseteq StepSays(u) /\ ToSet(after) \subseteq StepSays(u)
          /\ ToSet(o) \subseteq StepSays(u)
      BY <2>3, <3>1
    <3>3. part = "said" \/ part \in Before(c) \/ part \in After(c)
      BY PartsAreKnown
    <3>4. \/ Repeats(ToSet(o), c, part)
          \/ Repeats(ToSet(before), c, part)
          \/ Repeats(ToSet(after), c, part)
      BY <1>3, <2>o, <3>3
    <3> QED BY <3>2, <3>4
  <2>9. NoneMissed(u, a, step.forbidden, o)
    BY <2>5
  <2> HIDE DEF Adds, NoneMissed
  <2> QED BY <1>9, <1>12, <2>4, <2>9 DEF u
<1>13. CASE c.says \notin {"wait", "never"} /\ ~(c.says = "until" /\ step.outcome = <<>>)
  <2> DEFINE a == Append(step.action, Whole(c))
  <2>1. u = Resaid(step, a, step.forbidden, step.outcome)
    BY <1>13 DEF SplitRest, Resaid, SplitsOf
  <2>2. a \in Seq(Q) /\ ToSet(a) = ToSet(step.action) \cup {Whole(c)}
    BY <1>1, <1>2, <1>7
  <2> HIDE DEF u, a
  <2>4. Adds(u, a, step.forbidden, step.outcome)
    BY <1>1, <1>2, <2>1, <2>2
  <2>5. ASSUME NEW part \in Parts(c) \ Missed(step, c, TRUE)
        PROVE  Part(u, a, step.forbidden, step.outcome, part)
    <3>1. StepSays(u) = ToSet(a) \cup ToSet(step.forbidden) \cup ToSet(step.outcome) \cup rules
      BY <1>6, <2>4
    <3>2. Repeats({Whole(c)}, c, part)
      BY <1>2
    <3>3. ToSet(a) \subseteq StepSays(u) /\ {Whole(c)} \subseteq ToSet(a)
      BY <2>2, <3>1
    <3>4. Repeats(ToSet(a), c, part)
      BY <3>2, <3>3, RepeatsMore
    <3> QED BY <3>3, <3>4
  <2>9. NoneMissed(u, a, step.forbidden, step.outcome)
    BY <2>5
  <2> HIDE DEF Adds, NoneMissed
  <2> QED BY <1>9, <1>13, <2>4, <2>9 DEF u
<1> QED BY <1>10, <1>11, <1>12, <1>13

LEMMA LineIsTakenUp ==
  ASSUME NEW C, NEW c \in C, NEW step \in SplitsOf(C), NEW first \in BOOLEAN
  PROVE  LET u == SplitLine(step, c, first)
         IN  u \in SplitsOf(C) /\ TakesUp(u, step, c, first) /\ c.if \in Conditions(u)
<1> DEFINE u == SplitLine(step, c, first)
<1>1. CASE c.if = Always
  <2>1. u = SplitRest(step, c)
    BY <1>1 DEF SplitLine
  <2> HIDE DEF u
  <2>2. u \in SplitsOf(C) /\ TakesUp(u, step, c, TRUE) /\ Conditions(u) = Conditions(step)
    BY <2>1, RestIsSplit
  <2>3. Missed(step, c, TRUE) = Missed(step, c, first)
    BY <1>1 DEF Missed
  <2>4. TakesUp(u, step, c, first)
    BY <1>1, <2>2, <2>3 DEF TakesUp
  <2>5. c.if \in Conditions(u)
    BY <1>1 DEF Conditions
  <2> QED BY <2>2, <2>4, <2>5 DEF u
<1>2. CASE c.if # Always /\ first
  <2> DEFINE held == [step EXCEPT !.condition = c.if]
  <2>1. u = SplitRest(held, c)
    BY <1>2 DEF SplitLine
  <2>2. held \in SplitsOf(C)
    BY DEF SplitsOf
  <2>3. /\ held.action = step.action /\ held.forbidden = step.forbidden
        /\ held.outcome = step.outcome /\ held.rules = step.rules /\ held.condition = c.if
    BY DEF SplitsOf
  <2> HIDE DEF held, u
  <2>4. u \in SplitsOf(C) /\ TakesUp(u, held, c, TRUE) /\ Conditions(u) = Conditions(held)
    BY <2>1, <2>2, RestIsSplit
  <2>5. StepSays(held) = StepSays(step)
    BY <2>3 DEF StepSays
  <2>6. Missed(held, c, TRUE) = Missed(step, c, TRUE)
    BY <2>3 DEF Missed
  <2>7. TakesUp(u, step, c, TRUE)
    BY <2>3, <2>4, <2>5, <2>6 DEF TakesUp
  <2>8. c.if \in Conditions(u)
    BY <2>3, <2>4 DEF Conditions
  <2> QED BY <1>2, <2>4, <2>7, <2>8 DEF u
<1>3. CASE c.if # Always /\ ~first
  <2>1. u = [step EXCEPT !.rules = Append(step.rules, Rule(c))]
    BY <1>3 DEF SplitLine
  <2> HIDE DEF u
  <2>a. Rule(c) \in RulesFrom(C)
    BY <1>3 DEF RulesFrom
  <2>2. step.rules \in Seq(RulesFrom(C)) /\ Append(step.rules, Rule(c)) \in Seq(RulesFrom(C))
    BY <2>a DEF SplitsOf
  <2>3. /\ u \in SplitsOf(C) /\ u.action = step.action /\ u.forbidden = step.forbidden
        /\ u.outcome = step.outcome /\ u.rules = Append(step.rules, Rule(c))
        /\ u.condition = step.condition
    BY <2>1, <2>2 DEF SplitsOf
  <2> DEFINE n == Len(step.rules)
  <2>b. /\ n \in Nat /\ DOMAIN step.rules = 1 .. n /\ DOMAIN u.rules = 1 .. n + 1
        /\ u.rules[n + 1] = Rule(c) /\ \A i \in 1 .. n : u.rules[i] = step.rules[i]
    BY <2>2, <2>3
  <2>c. /\ \A i \in 1 .. n : i \in 1 .. n + 1
        /\ \A i \in 1 .. n + 1 : i \in 1 .. n \/ i = n + 1
        /\ n + 1 \in 1 .. n + 1
    BY <2>b
  <2> HIDE DEF n
  <2>4. {u.rules[i].then : i \in DOMAIN u.rules}
          = {step.rules[i].then : i \in DOMAIN step.rules} \cup {Whole(c)}
    <3>1. Rule(c).then = Whole(c)
      BY DEF Rule
    <3> QED BY <2>b, <2>c, <3>1
  <2>5. StepSays(u) = StepSays(step) \cup {Whole(c)}
    BY <2>3, <2>4 DEF StepSays
  <2>6. Conditions(step) \subseteq Conditions(u) /\ c.if \in Conditions(u)
    <3>1. Rule(c).condition = c.if
      BY DEF Rule
    <3> QED BY <2>3, <2>b, <2>c, <3>1 DEF Conditions
  <2>7. OfLine(Whole(c), c) /\ \A part \in Parts(c) : Repeats({Whole(c)}, c, part)
    <3>1. Parts(c) \in SUBSET Parts(c)
      OBVIOUS
    <3> QED BY <3>1, ExtractQuotes DEF Whole
  <2>8. \A part \in Parts(c) : Repeats(StepSays(u), c, part)
    <3>1. {Whole(c)} \subseteq StepSays(u)
      BY <2>5
    <3> QED BY <2>7, <3>1, RepeatsMore
  <2>9. TakesUp(u, step, c, first)
    BY <1>3, <2>3, <2>5, <2>6, <2>7, <2>8 DEF TakesUp
  <2> QED BY <2>3, <2>6, <2>9 DEF u
<1> QED BY <1>1, <1>2, <1>3

LEMMA LineIsSplit ==
  ASSUME NEW C, NEW c \in C, NEW step \in SplitsOf(C)
  PROVE  SplitLine(step, c, FALSE) \in SplitsOf(C)
BY LineIsTakenUp

SplitInTurn(run, step, text) ==
  /\ run[0] = step
  /\ \A k \in Nat : k < Len(text) => run[k + 1] = SplitLine(run[k], text[k + 1], FALSE)
  /\ SplitLines(step, text) = run[Len(text)]

\* A step is split line by line.
LEMMA LinesOneByOne ==
  ASSUME NEW C, NEW text \in Seq(C), NEW step \in SplitsOf(C)
  PROVE  \E run : SplitInTurn(run, step, text)
<1> DEFINE n == Len(text)
           T == SplitsOf(C)
           f == [k \in 1 .. n |-> [t \in T |-> SplitLine(t, text[k], FALSE)]]
           iter == CHOOSE it : it = [s \in SUBSET DOMAIN text |->
                                       IF s = {} THEN step
                                       ELSE LET x == Max(s)
                                            IN  SplitLine(it[s \ {x}], text[x], FALSE)]
<1>0. n \in Nat /\ DOMAIN text = 1 .. n /\ \A k \in 1 .. n : text[k] \in C
  OBVIOUS
<1>1. SplitLines(step, text) = iter[DOMAIN text]
  BY DEF SplitLines, FoldLeft, MapThenFoldSet
<1>2. f \in [1 .. n -> [T -> T]]
  <2>1. ASSUME NEW k \in 1 .. n, NEW t \in T PROVE SplitLine(t, text[k], FALSE) \in T
    <3>1. text[k] \in C
      BY <1>0
    <3> QED BY <3>1, LineIsSplit
  <2> HIDE DEF T, n
  <2> QED BY <2>1
<1>3. PICK g : /\ g \in [SUBSET (1 .. n) -> T] /\ g[{}] = step
               /\ \A s \in SUBSET (1 .. n) : s # {} => g[s] = f[Max(s)][g[s \ {Max(s)}]]
  <2>1. step \in T /\ Maps(f, n, T)
    BY <1>2 DEF Maps
  <2> HIDE DEF T, n, f
  <2>2. n \in Nat
    BY <1>0
  <2>3. \E g : Folded(g, f, n, T, step)
    BY <2>1, <2>2, FoldExists
  <2> QED BY <2>3 DEF Folded
<1> HIDE DEF T
<1>4. ASSUME NEW s \in SUBSET (1 .. n), s # {}
      PROVE  f[Max(s)][g[s \ {Max(s)}]] = SplitLine(g[s \ {Max(s)}], text[Max(s)], FALSE)
  <2>1. Max(s) \in 1 .. n /\ s \ {Max(s)} \in SUBSET (1 .. n)
    <3> HIDE DEF n, f
    <3>1. Max(s) \in 1 .. n
      BY <1>0, <1>4, GreatestOfSome
    <3> QED BY <3>1
  <2>2. g[s \ {Max(s)}] \in T
    BY <1>3, <2>1
  <2> QED BY <2>1, <2>2
<1>5. g = [s \in SUBSET DOMAIN text |->
             IF s = {} THEN step
             ELSE LET x == Max(s) IN SplitLine(g[s \ {x}], text[x], FALSE)]
  <2> HIDE DEF n, f
  <2> QED BY <1>0, <1>3, <1>4
<1>6. iter = [s \in SUBSET DOMAIN text |->
                IF s = {} THEN step
                ELSE LET x == Max(s) IN SplitLine(iter[s \ {x}], text[x], FALSE)]
  BY <1>5
<1> HIDE DEF iter, n, f
<1> DEFINE run == [k \in 0 .. n |-> iter[1 .. k]]
<1>7. run[0] = step
  <2>1. 1 .. 0 = {} /\ {} \in SUBSET DOMAIN text /\ 0 \in 0 .. n
    BY <1>0
  <2> QED BY <1>6, <2>1
<1>8. ASSUME NEW k \in Nat, k < n
      PROVE  run[k + 1] = SplitLine(run[k], text[k + 1], FALSE)
  <2>1. k + 1 \in Nat /\ k + 1 # 0 /\ k \in 0 .. n /\ k + 1 \in 0 .. n /\ k + 1 - 1 = k
    BY <1>0, <1>8
  <2>2. Max(1 .. k + 1) = k + 1 /\ (1 .. k + 1) \ {k + 1} = 1 .. k
    BY <2>1, GreatestIsLast
  <2>3. 1 .. k + 1 \in SUBSET DOMAIN text /\ k + 1 \in 1 .. k + 1
    BY <1>0, <1>8
  <2>4. iter[1 .. k + 1] = SplitLine(iter[1 .. k], text[k + 1], FALSE)
    BY <1>6, <2>2, <2>3
  <2> QED BY <2>1, <2>4
<1>9. n \in 0 .. n /\ run[n] = iter[DOMAIN text]
  BY <1>0
<1> HIDE DEF run
<1>10. SplitInTurn(run, step, text)
  BY <1>1, <1>7, <1>8, <1>9 DEF n, SplitInTurn
<1> QED BY <1>10

\* The step says what the first k lines say, the parts that the code leaves out
\* excepted, and nothing else, under their conditions, and their prohibitions
\* are its own.
SaysAll(step, text, k) ==
  /\ \A t \in StepSays(step) : \E j \in 1 .. k : OfLine(t, text[j])
  /\ step.outcome # <<>> => Expected(step, text, k + 1)
  /\ \A j \in 1 .. k :
       /\ \A part \in Parts(text[j]) \ LeftOut(step, text, j) : Repeats(StepSays(step), text[j], part)
       /\ text[j].if \in Conditions(step)
       /\ text[j].says = "never" /\ ~IsRule(text, j) => ToTheEnd(text[j]) \in ToSet(step.forbidden)

LEMMA OneLineMore ==
  ASSUME NEW k \in Nat, NEW text, NEW step, SaysAll(step, text, k),
         NEW u, TakesUp(u, step, text[k + 1], k = 0), text[k + 1].if \in Conditions(u)
  PROVE  SaysAll(u, text, k + 1)
<1> DEFINE c == text[k + 1]
<1>1. /\ 1 .. k \subseteq 1 .. k + 1 /\ k + 1 \in 1 .. k + 1
      /\ \A j \in 1 .. k + 1 : j \in 1 .. k \/ j = k + 1
      /\ (k + 1 = 1 <=> k = 0) /\ (k + 1 > 1 <=> k # 0)
      /\ (k + 1) - 1 = k /\ (k + 1 + 1) - 1 = k + 1
      /\ \A j \in 1 .. k : 1 .. j - 1 \subseteq 1 .. k
  OBVIOUS
<1>2. \A t \in StepSays(u) : \E j \in 1 .. k + 1 : OfLine(t, text[j])
  BY <1>1 DEF SaysAll, TakesUp
<1>3. u.outcome # <<>> => Expected(u, text, k + 1 + 1)
  <2>1. CASE u.outcome = step.outcome
    <3>1. u.outcome # <<>> => \E j \in 1 .. k : step.outcome = <<Extract(text[j], {"said"})>>
      BY <1>1, <2>1 DEF SaysAll, Expected
    <3> QED BY <1>1, <2>1, <3>1 DEF Expected
  <2>2. CASE u.outcome = <<Extract(c, {"said"})>>
    BY <1>1, <2>2 DEF Expected
  <2> QED BY <2>1, <2>2 DEF TakesUp
<1>4. step.outcome # <<>> => u.outcome = step.outcome
  BY DEF TakesUp
<1>5. ASSUME NEW j \in 1 .. k PROVE LeftOut(step, text, j) \subseteq LeftOut(u, text, j)
  <2>1. Expected(step, text, j) => Expected(u, text, j)
    <3>1. \A i \in 1 .. j - 1 : <<Extract(text[i], {"said"})>> # <<>>
      OBVIOUS
    <3> QED BY <1>4, <3>1 DEF Expected
  <2> QED BY <2>1 DEF LeftOut
<1>6. Missed(step, c, k = 0) \subseteq LeftOut(u, text, k + 1)
  <2>1. ~(k = 0) /\ c.if # Always <=> IsRule(text, k + 1)
    BY <1>1 DEF IsRule
  <2>2. step.outcome # <<>> => Expected(u, text, k + 1)
    BY <1>4 DEF SaysAll, Expected
  <2> HIDE DEF c
  <2> QED BY <2>1, <2>2 DEF Missed, LeftOut, c
<1>7. StepSays(step) \subseteq StepSays(u) /\ ToSet(step.forbidden) \subseteq ToSet(u.forbidden)
  BY DEF TakesUp
<1>8. ASSUME NEW j \in 1 .. k + 1
      PROVE  /\ \A part \in Parts(text[j]) \ LeftOut(u, text, j) : Repeats(StepSays(u), text[j], part)
             /\ text[j].if \in Conditions(u)
             /\ text[j].says = "never" /\ ~IsRule(text, j) => ToTheEnd(text[j]) \in ToSet(u.forbidden)
  <2>1. CASE j \in 1 .. k
    <3>1. \A part \in Parts(text[j]) \ LeftOut(step, text, j) : Repeats(StepSays(step), text[j], part)
      BY <2>1 DEF SaysAll
    <3>2. \A part \in Parts(text[j]) \ LeftOut(u, text, j) : Repeats(StepSays(step), text[j], part)
      BY <1>5, <2>1, <3>1
    <3>3. \A part \in Parts(text[j]) \ LeftOut(u, text, j) : Repeats(StepSays(u), text[j], part)
      BY <1>7, <3>2, RepeatsMore
    <3>4. ~(k = 0)
      BY <2>1
    <3>5. Conditions(step) \subseteq Conditions(u)
      BY <3>4 DEF TakesUp
    <3> QED BY <1>7, <2>1, <3>3, <3>5 DEF SaysAll
  <2>2. CASE j = k + 1
    <3>1. \A part \in Parts(c) \ LeftOut(u, text, k + 1) : Repeats(StepSays(u), c, part)
      BY <1>6 DEF TakesUp
    <3>2. c.says = "never" /\ ~IsRule(text, k + 1) => ToTheEnd(c) \in ToSet(u.forbidden)
      BY <1>1 DEF TakesUp, IsRule
    <3> QED BY <2>2, <3>1, <3>2
  <2> QED BY <1>1, <2>1, <2>2
<1> HIDE DEF c
<1> QED BY <1>2, <1>3, <1>8 DEF SaysAll

\* Whatever the lines of a step say, the step says it, part by part, and nothing
\* else; what it leaves out is what LeftOut names (splitRules).
LEMMA NothingIsLeftOut ==
  ASSUME NEW C, NEW text \in Seq(C), text # <<>>
  PROVE  SplitRules(text) \in SplitsOf(C) /\ SaysAll(SplitRules(text), text, Len(text))
<1> DEFINE n == Len(text)
           rest == Tail(text)
           base == SplitLine(Nobody, text[1], TRUE)
<1>1. /\ n \in Nat /\ n # 0 /\ text[1] \in C /\ \A j \in 1 .. n : text[j] \in C
      /\ rest \in Seq(C) /\ Len(rest) = n - 1
      /\ \A k \in Nat : k < n - 1 => rest[k + 1] = text[k + 2]
  OBVIOUS
<1>2. Nobody \in SplitsOf(C) /\ SaysAll(Nobody, text, 0)
  <2>1. <<>> \in Seq(Quoting(C)) /\ <<>> \in Seq(RulesFrom(C)) /\ DOMAIN <<>> = {}
    OBVIOUS
  <2>2. Nobody \in SplitsOf(C)
    BY <2>1 DEF Nobody, SplitsOf
  <2>3. StepSays(Nobody) = {}
    BY <2>1 DEF StepSays, Nobody, ToSet
  <2>4. Nobody.outcome = <<>> /\ 1 .. 0 = {}
    BY DEF Nobody
  <2> QED BY <2>2, <2>3, <2>4 DEF SaysAll
<1>3. base \in SplitsOf(C) /\ SaysAll(base, text, 1)
  <2>1. /\ base \in SplitsOf(C) /\ TakesUp(base, Nobody, text[1], TRUE)
        /\ text[1].if \in Conditions(base)
    BY <1>1, <1>2, LineIsTakenUp
  <2> HIDE DEF base
  <2>2. 0 + 1 = 1 /\ 0 \in Nat
    OBVIOUS
  <2>a. TakesUp(base, Nobody, text[0 + 1], 0 = 0) /\ text[0 + 1].if \in Conditions(base)
    <3>1. (0 = 0) = TRUE
      OBVIOUS
    <3> QED BY <2>1, <2>2, <3>1
  <2>3. SaysAll(base, text, 0 + 1)
    BY <1>2, <2>2, <2>a, OneLineMore
  <2> QED BY <2>1, <2>2, <2>3
<1>4. SplitRules(text) = SplitLines(base, rest)
  BY DEF SplitRules
<1> HIDE DEF base, rest, n
<1>a. PICK run : SplitInTurn(run, base, rest)
  BY <1>1, <1>3, LinesOneByOne
<1>5. /\ run[0] = base
      /\ \A k \in Nat : k < Len(rest) => run[k + 1] = SplitLine(run[k], rest[k + 1], FALSE)
      /\ SplitLines(base, rest) = run[Len(rest)]
  BY <1>a DEF SplitInTurn
<1> DEFINE good == {k \in Nat : k < n => run[k] \in SplitsOf(C) /\ SaysAll(run[k], text, k + 1)}
<1>6. 0 \in good
  <2>1. run[0] \in SplitsOf(C) /\ SaysAll(run[0], text, 1)
    BY <1>3, <1>5
  <2>2. 0 + 1 = 1 /\ 0 \in Nat
    OBVIOUS
  <2> QED BY <2>1, <2>2
<1>7. ASSUME NEW k \in Nat, k < n - 1, k \in good PROVE k + 1 \in good
  <2>1. /\ k < n /\ k < Len(rest) /\ k + 1 \in Nat /\ k + 1 + 1 = k + 2 /\ ~(k + 1 = 0)
        /\ k + 2 \in 1 .. n
    BY <1>1, <1>7
  <2>2. run[k + 1] = SplitLine(run[k], text[k + 2], FALSE)
    BY <1>1, <1>5, <1>7, <2>1
  <2>3. run[k] \in SplitsOf(C) /\ SaysAll(run[k], text, k + 1)
    BY <1>7, <2>1
  <2>4. /\ run[k + 1] \in SplitsOf(C) /\ TakesUp(run[k + 1], run[k], text[k + 2], FALSE)
        /\ text[k + 2].if \in Conditions(run[k + 1])
    BY <1>1, <2>1, <2>2, <2>3, LineIsTakenUp
  <2>5. /\ TakesUp(run[k + 1], run[k], text[k + 1 + 1], k + 1 = 0)
        /\ text[k + 1 + 1].if \in Conditions(run[k + 1])
    <3>1. (k + 1 = 0) = FALSE
      BY <2>1
    <3> QED BY <2>1, <2>4, <3>1
  <2>6. SaysAll(run[k + 1], text, k + 1 + 1)
    BY <2>1, <2>3, <2>5, OneLineMore
  <2> QED BY <2>4, <2>6
<1>8. n - 1 \in good
  <2> HIDE DEF good
  <2>0. n - 1 \in Nat
    BY <1>1
  <2>1. \A k \in 0 .. n - 1 : k \in good
    BY <1>6, <1>7, <2>0, UpTo
  <2> QED BY <2>0, <2>1
<1>9. n - 1 < n /\ n - 1 + 1 = n
  BY <1>1
<1>10. run[n - 1] \in SplitsOf(C) /\ SaysAll(run[n - 1], text, n)
  BY <1>8, <1>9
<1> QED BY <1>1, <1>4, <1>5, <1>10 DEF n

\* Items that say something, and what is compiled of them.
Spoken(C) == {item \in ItemsAbout(C) : item.text # <<>>}

\* A step is compiled of an item.
StepFrom(p, item, k, C) ==
  /\ p.action \in Seq(Quoting(C)) /\ p.outcome \in Seq(Quoting(C)) /\ p.rules \in Seq(RulesFrom(C))
  /\ p.forbidden \in Seq(Quoting(C)) /\ p.condition \in {Always} \cup {c.if : c \in C}
  /\ p.halts = \E i \in DOMAIN p.action : Halts(p.action[i])
  /\ p.id = k /\ p.citations = Citations(item)
  /\ SaysAll(p, item.text, Len(item.text))

LEMMA FirstLineQuotes ==
  ASSUME NEW C, NEW item, item.text \in Seq(C), item.text # <<>>
  PROVE  /\ Len(item.text) \in Nat /\ 1 \in 1 .. Len(item.text) /\ item.text[1] \in C
         /\ FirstLine(item) \in Quoting(C) /\ OfLine(FirstLine(item), item.text[1])
<1>1. Len(item.text) \in Nat /\ 1 \in 1 .. Len(item.text) /\ item.text[1] \in C
  OBVIOUS
<1>2. Parts(item.text[1]) \in SUBSET Parts(item.text[1])
  OBVIOUS
<1> QED BY <1>1, <1>2, ExtractQuotes DEF FirstLine, Whole

LEMMA StepIsCompiled ==
  ASSUME NEW C, NEW item, item.text \in Seq(C), item.text # <<>>, NEW k
  PROVE  StepFrom(CompiledStep(item, k), item, k, C)
<1> DEFINE text == item.text
           n == Len(text)
           split == SplitRules(text)
           first == FirstLine(item)
           p == CompiledStep(item, k)
<1>1. split \in SplitsOf(C) /\ SaysAll(split, text, n)
  BY NothingIsLeftOut
<1>2. n \in Nat /\ 1 \in 1 .. n /\ first \in Quoting(C) /\ OfLine(first, text[1])
  BY FirstLineQuotes
<1>a. ActionOf(split, item) = IF split.action = <<>> THEN <<first>> ELSE split.action
  BY DEF ActionOf
<1> HIDE DEF split, first
<1>3. /\ p.action = IF split.action = <<>> THEN <<first>> ELSE split.action
      /\ p.outcome = split.outcome /\ p.rules = split.rules /\ p.forbidden = split.forbidden
      /\ p.condition = split.condition /\ p.id = k /\ p.citations = Citations(item)
      /\ p.halts = \E i \in DOMAIN p.action : Halts(p.action[i])
  BY <1>a DEF CompiledStep, split
<1> HIDE DEF p, n
<1>b. <<first>> \in Seq(Quoting(C))
  BY <1>2
<1>4. /\ p.action \in Seq(Quoting(C)) /\ p.outcome \in Seq(Quoting(C)) /\ p.rules \in Seq(RulesFrom(C))
      /\ p.forbidden \in Seq(Quoting(C)) /\ p.condition \in {Always} \cup {c.if : c \in C}
  BY <1>1, <1>b, <1>3 DEF SplitsOf
<1>5. StepSays(split) \subseteq StepSays(p) /\ StepSays(p) \subseteq StepSays(split) \cup {first}
  <2>1. /\ ToSet(split.action) \subseteq ToSet(p.action)
        /\ ToSet(p.action) \subseteq ToSet(split.action) \cup {first}
    <3>1. ToSet(<<>>) = {} /\ ToSet(<<first>>) = {first}
      BY DEF ToSet
    <3> QED BY <1>3, <3>1
  <2> QED BY <1>3, <2>1 DEF StepSays
<1>6. SaysAll(p, text, n)
  <2>1. Conditions(p) = Conditions(split)
    BY <1>3 DEF Conditions
  <2>2. \A j : LeftOut(p, text, j) = LeftOut(split, text, j)
    BY <1>3 DEF LeftOut, Expected
  <2>3. p.outcome # <<>> => Expected(p, text, n + 1)
    BY <1>1, <1>3 DEF SaysAll, Expected
  <2>4. \A t \in StepSays(p) : \E j \in 1 .. n : OfLine(t, text[j])
    BY <1>1, <1>2, <1>5 DEF SaysAll
  <2>5. ASSUME NEW j \in 1 .. n
        PROVE  \A part \in Parts(text[j]) \ LeftOut(p, text, j) : Repeats(StepSays(p), text[j], part)
    BY <1>1, <1>5, <2>2, RepeatsMore DEF SaysAll
  <2> QED BY <1>1, <1>3, <2>1, <2>3, <2>4, <2>5 DEF SaysAll
<1> QED BY <1>3, <1>4, <1>6 DEF StepFrom, p, n

LEMMA SeqOfMore ==
  ASSUME NEW S, NEW T, S \subseteq T, NEW s \in Seq(S) PROVE s \in Seq(T)
<1>1. \A i \in 1 .. Len(s) : s[i] \in T
  OBVIOUS
<1>2. Len(s) \in Nat /\ s = [i \in 1 .. Len(s) |-> s[i]]
  OBVIOUS
<1>3. s \in [1 .. Len(s) -> T]
  BY <1>1, <1>2
<1> QED BY <1>2, <1>3

-----------------------------------------------------------------------------
(* The run of any document.                                                *)

\* A run goes through the document as it must: its rules, then its steps one
\* after another, each run or skipped, until one of them stops it; the
\* outcomes of the document are for a run that nothing stopped.
RunsThrough(trace, d, scenario) ==
  \E before, walked :
    /\ Followed(before, NoTrace, d.decision_rules, Len(d.decision_rules), scenario)
    /\ Walked(walked, before, d.steps, Len(d.steps), scenario)
    /\ walked.halted \in BOOLEAN
    /\ trace.halted = walked.halted /\ trace.skipped = walked.skipped
    /\ trace.executed = walked.executed /\ trace.actions = walked.actions
    /\ trace.halted => trace.outcomes = walked.outcomes

\* Whatever the document says, its steps and rules and the scenario
\* (execute, applyRules).
THEOREM RunGoesThrough ==
  ASSUME NEW C, NEW R, AreRules(R, C), \A r \in R : r.halts => Halts(r.then),
         NEW P, AreSteps(P, R, C), NEW scenario,
         NEW d, d.decision_rules \in Seq(R), d.steps \in Seq(P),
         \A k \in DOMAIN d.steps : d.steps[k].id = k
  PROVE  RunsThrough(Execute(d, scenario), d, scenario)
<1> DEFINE rules == d.decision_rules
           steps == d.steps
           n == Len(steps)
           before == ApplyRules(NoTrace, rules, scenario)
           walked == ExecuteSteps(before, steps, scenario)
           trace == Execute(d, scenario)
<1>0. n \in Nat /\ DOMAIN steps = 1 .. n
  OBVIOUS
<1>1. NoTrace \in TracesOf(C) /\ ~NoTrace.halted
  BY DEF NoTrace, TracesOf
<1>2. before \in TracesOf(C) /\ Followed(before, NoTrace, rules, Len(rules), scenario)
  BY <1>1, RulesAreFollowed
<1> HIDE DEF before
<1>3. Walked(before, before, steps, 0, scenario)
  <2>1. /\ Ran(before, steps, 0, scenario) = {} /\ Skipped(before, steps, 0, scenario) = {}
        /\ Cut(before, steps, 0, scenario) = {}
    BY DEF Ran, Skipped, Cut
  <2>2. Reached(before, steps, 0 + 1, scenario) <=> ~before.halted
    BY DEF Reached
  <2>3. before.executed = <<>> /\ before.skipped = <<>> /\ before.outcomes = <<>>
    BY <1>2 DEF Followed, NoTrace
  <2>4. ToSet(<<>>) = {}
    BY DEF ToSet
  <2>5. before.halted => before.actions # <<>> /\ Halts(Last(before.actions))
    <3>1. \A j \in 1 .. Len(rules) : rules[j] \in R
      OBVIOUS
    <3> QED BY <1>2, <3>1 DEF Followed
  <2> QED BY <2>1, <2>2, <2>3, <2>4, <2>5 DEF Walked
<1>4. PICK run : /\ run[0] = before
                 /\ \A k \in Nat : k < n => run[k + 1] = ExecuteStep(run[k], steps[k + 1], scenario)
                 /\ walked = run[n]
  <2>1. steps \in Seq(P)
    OBVIOUS
  <2> HIDE DEF steps
  <2> QED BY <1>2, <2>1, StepsOneByOne
<1> DEFINE good == {k \in Nat : k <= n => /\ run[k] \in TracesOf(C)
                                          /\ Walked(run[k], before, steps, k, scenario)}
<1>5. 0 \in good
  BY <1>2, <1>3, <1>4
<1>6. ASSUME NEW k \in Nat, k < n, k \in good PROVE k + 1 \in good
  <2>1. run[k + 1] = ExecuteStep(run[k], steps[k + 1], scenario)
    BY <1>4, <1>6
  <2>2. run[k] \in TracesOf(C) /\ Walked(run[k], before, steps, k, scenario)
    BY <1>6
  <2>3. steps[k + 1].id = k + 1
    BY <1>0, <1>6
  <2> QED BY <1>6, <2>1, <2>2, <2>3, OneStepMore
<1>7. n \in good
  <2> HIDE DEF good
  <2>1. \A k \in 0 .. n : k \in good
    BY <1>0, <1>5, <1>6, UpTo
  <2> QED BY <1>0, <2>1
<1>8. walked \in TracesOf(C) /\ Walked(walked, before, steps, n, scenario)
  BY <1>0, <1>4, <1>7
<1>9. trace = IF walked.halted THEN walked
              ELSE [walked EXCEPT !.outcomes = @ \o Each(d.outcomes, LAMBDA o : o.text)]
  BY DEF Execute, before
<1> HIDE DEF walked, trace
<1>10. /\ walked.halted \in BOOLEAN
       /\ trace.halted = walked.halted /\ trace.skipped = walked.skipped
       /\ trace.executed = walked.executed /\ trace.actions = walked.actions
       /\ trace.halted => trace.outcomes = walked.outcomes
  BY <1>8, <1>9 DEF TracesOf
<1>11. RunsThrough(trace, d, scenario)
  BY <1>2, <1>8, <1>10 DEF RunsThrough
<1> QED BY <1>11 DEF trace

-----------------------------------------------------------------------------
(* The document compiled of any note.                                      *)

GlobalRulesFrom(C) == {GlobalRule(item) : item \in Spoken(C)}

\* What an item says, in whole or in part.
OfItem(text, item) == \E j \in DOMAIN item.text : OfLine(text, item.text[j])

LEMMA RulesAreRules ==
  ASSUME NEW C
  PROVE  LET R == RulesFrom(C) \cup GlobalRulesFrom(C)
         IN  /\ AreRules(R, Quoting(C) \cup {Whole(ApplyTheRule)})
             /\ \A r \in R : /\ r.halts => Halts(r.then)
                             /\ r.condition \in ({c.if : c \in C} \ {Always}) \cup Quoting(C)
<1>0. ASSUME NEW c \in C PROVE Whole(c) \in Quoting(C)
  <2>1. Parts(c) \in SUBSET Parts(c)
    OBVIOUS
  <2> QED BY <2>1, ExtractQuotes DEF Whole
<1>a. \A c : Halts(Whole(c)) \in BOOLEAN
  BY DEF Halts
<1>1. ASSUME NEW r \in RulesFrom(C)
      PROVE  /\ r.then \in Quoting(C) /\ r.halts \in BOOLEAN /\ (r.halts => Halts(r.then))
             /\ r.condition \in {c.if : c \in C} \ {Always}
  <2>1. PICK c \in C : c.if # Always /\ r = Rule(c)
    BY DEF RulesFrom
  <2>2. r.condition = c.if /\ r.then = Whole(c) /\ r.halts = Halts(Whole(c))
    BY <2>1 DEF Rule
  <2> QED BY <1>0, <1>a, <2>1, <2>2
<1>2. ASSUME NEW item \in Spoken(C)
      PROVE  LET r == GlobalRule(item)
             IN  /\ r.then \in Quoting(C) \cup {Whole(ApplyTheRule)} /\ r.halts \in BOOLEAN
                 /\ (r.halts => Halts(r.then))
                 /\ r.condition \in ({c.if : c \in C} \ {Always}) \cup Quoting(C)
  <2> DEFINE first == item.text[1]
             r == GlobalRule(item)
  <2>1. first \in C /\ FirstLine(item) \in Quoting(C)
    <3>1. item.text \in Seq(C) /\ item.text # <<>>
      BY DEF Spoken, ItemsAbout
    <3> QED BY <3>1, FirstLineQuotes
  <2>2. CASE first.if # Always
    <3>1. r.condition = first.if /\ r.then = Whole(first) /\ r.halts = Halts(Whole(first))
      BY <2>2 DEF GlobalRule, Rule
    <3> QED BY <1>0, <1>a, <2>1, <2>2, <3>1
  <2>3. CASE first.if = Always
    <3>1. /\ r.condition = FirstLine(item) /\ r.then = Whole(ApplyTheRule)
          /\ r.halts = Halts(Whole(ApplyTheRule))
      BY <2>3 DEF GlobalRule, Rule
    <3> QED BY <1>a, <2>1, <3>1
  <2> QED BY <2>2, <2>3
<1> QED BY <1>1, <1>2 DEF AreRules, GlobalRulesFrom

\* The items of a section, in their order.
LEMMA ItemsOfSection ==
  ASSUME NEW C, NEW list \in Seq(Spoken(C)), NEW section
  PROVE  /\ SectionItems(list, section) \in Seq(Spoken(C))
         /\ \A i \in DOMAIN SectionItems(list, section) :
              /\ SectionItems(list, section)[i].section = section
              /\ \E k \in DOMAIN list : SectionItems(list, section)[i] = list[k]
<1> DEFINE K == {i \in DOMAIN list : list[i].section = section}
           picked == Picked(list, K)
<1>1. picked \in Seq(Spoken(C)) /\ InPlaces(picked, list, K, Len(list))
  <2> HIDE DEF K
  <2> QED BY PickedInOrder
<1>2. SectionItems(list, section) = picked
  BY DEF SectionItems
<1> HIDE DEF picked
<1>3. PICK at \in [DOMAIN picked -> K \cap (1 .. Len(list))] :
        \A j \in DOMAIN picked : picked[j] = list[at[j]]
  <2> HIDE DEF K
  <2> QED BY <1>1 DEF InPlaces
<1>4. \A j \in DOMAIN picked : at[j] \in DOMAIN list /\ list[at[j]].section = section
  BY <1>3
<1> QED BY <1>1, <1>2, <1>3, <1>4

\* The steps and rules of the document (compileParsed).
LEMMA DocumentIsCompiled ==
  ASSUME NEW C, NEW list \in Seq(Spoken(C))
  PROVE  LET d == CompileParsed(list)
             stepItems == SectionItems(list, "steps")
         IN  /\ DOMAIN d.steps = DOMAIN stepItems /\ d.steps \in Seq(ToSet(d.steps))
             /\ Len(d.steps) = Len(stepItems)
             /\ \A k \in DOMAIN d.steps : StepFrom(d.steps[k], stepItems[k], k, C)
             /\ d.decision_rules \in Seq(GlobalRulesFrom(C))
<1> DEFINE d == CompileParsed(list)
           stepItems == SectionItems(list, "steps")
           ruleItems == SectionItems(list, "decision_rules")
<1>1. stepItems \in Seq(Spoken(C)) /\ ruleItems \in Seq(Spoken(C))
  BY ItemsOfSection
<1>2. /\ d.steps = [i \in DOMAIN stepItems |-> CompiledStep(stepItems[i], i)]
      /\ d.decision_rules = [i \in DOMAIN ruleItems |-> GlobalRule(ruleItems[i])]
  BY DEF CompileParsed, Each
<1> HIDE DEF d, stepItems, ruleItems
<1>3. DOMAIN d.steps = DOMAIN stepItems /\ Len(d.steps) = Len(stepItems)
  BY <1>1, <1>2
<1>4. ASSUME NEW k \in DOMAIN d.steps PROVE StepFrom(d.steps[k], stepItems[k], k, C)
  <2>1. stepItems[k] \in Spoken(C)
    BY <1>1, <1>3
  <2>2. stepItems[k].text \in Seq(C) /\ stepItems[k].text # <<>>
    BY <2>1 DEF Spoken, ItemsAbout
  <2> QED BY <1>2, <1>3, <2>2, StepIsCompiled
<1>5. d.steps \in Seq(ToSet(d.steps))
  <2>1. Len(stepItems) \in Nat /\ d.steps \in [1 .. Len(stepItems) -> ToSet(d.steps)]
    BY <1>1, <1>2 DEF ToSet
  <2> QED BY <2>1
<1>6. d.decision_rules \in Seq(GlobalRulesFrom(C))
  <2>1. \A i \in DOMAIN ruleItems : ruleItems[i] \in Spoken(C)
    BY <1>1
  <2>2. \A i \in DOMAIN ruleItems : GlobalRule(ruleItems[i]) \in GlobalRulesFrom(C)
    BY <2>1 DEF GlobalRulesFrom
  <2>3. Len(ruleItems) \in Nat /\ d.decision_rules \in [1 .. Len(ruleItems) -> GlobalRulesFrom(C)]
    BY <1>1, <1>2, <2>2
  <2> QED BY <2>3
<1> QED BY <1>3, <1>4, <1>5, <1>6 DEF d, stepItems

\* A run of what was compiled of a note goes through it.
LEMMA CompiledDocumentRuns ==
  ASSUME NEW C, NEW list \in Seq(Spoken(C)), NEW scenario
  PROVE  RunsThrough(Execute(CompileParsed(list), scenario), CompileParsed(list), scenario)
<1> DEFINE d == CompileParsed(list)
           R == RulesFrom(C) \cup GlobalRulesFrom(C)
           D == Quoting(C) \cup {Whole(ApplyTheRule)}
           P == ToSet(d.steps)
<1>1. /\ d.steps \in Seq(P) /\ d.decision_rules \in Seq(GlobalRulesFrom(C))
      /\ \A k \in DOMAIN d.steps : \E item : StepFrom(d.steps[k], item, k, C)
  BY DocumentIsCompiled
<1>2. AreRules(R, D) /\ \A r \in R : r.halts => Halts(r.then)
  BY RulesAreRules
<1> HIDE DEF d, R, D
<1>3. RulesFrom(C) \subseteq R /\ GlobalRulesFrom(C) \subseteq R /\ Quoting(C) \subseteq D
  BY DEF R, D
<1>4. d.decision_rules \in Seq(R)
  BY <1>1, <1>3, SeqOfMore
<1>5. AreSteps(P, R, D)
  <2>1. ASSUME NEW k \in DOMAIN d.steps
        PROVE  /\ d.steps[k].action \in Seq(D) /\ d.steps[k].outcome \in Seq(D)
               /\ d.steps[k].rules \in Seq(R) /\ d.steps[k].halts \in BOOLEAN
               /\ d.steps[k].id \in Nat
    <3>1. PICK item : StepFrom(d.steps[k], item, k, C)
      BY <1>1
    <3>2. /\ d.steps[k].action \in Seq(Quoting(C)) /\ d.steps[k].outcome \in Seq(Quoting(C))
          /\ d.steps[k].rules \in Seq(RulesFrom(C))
          /\ d.steps[k].halts = (\E i \in DOMAIN d.steps[k].action : Halts(d.steps[k].action[i]))
          /\ d.steps[k].id = k
      BY <3>1 DEF StepFrom
    <3>3. /\ d.steps[k].action \in Seq(D) /\ d.steps[k].outcome \in Seq(D)
          /\ d.steps[k].rules \in Seq(R)
      BY <1>3, <3>2, SeqOfMore
    <3>4. k \in Nat
      BY <1>1
    <3>5. d.steps[k].halts \in BOOLEAN
      BY <3>2
    <3> QED BY <3>2, <3>3, <3>4, <3>5
  <2> QED BY <2>1 DEF AreSteps, ToSet
<1>6. \A k \in DOMAIN d.steps : d.steps[k].id = k
  BY <1>1 DEF StepFrom
<1> HIDE DEF P
<1> QED BY <1>1, <1>2, <1>4, <1>5, <1>6, RunGoesThrough DEF d

-----------------------------------------------------------------------------
(* The runs of every note against the document.                            *)

\* The executor and the reference agree on the conditions of these notes.
LEMMA ConditionsHold ==
  ASSUME NEW s \in Scenarios, NEW c \in {LargeAmount} \cup Quoting(Contents)
  PROVE  Holds(c, s) <=> Applies(c, s)
<1>1. /\ Amount(2).facts = [fact \in {"amount"} |-> Number(2)] /\ Amount(2).flags = {}
      /\ Amount(3).facts = [fact \in {"amount"} |-> Number(3)] /\ Amount(3).flags = {}
  BY DEF Amount
<1>2. /\ DOMAIN Amount(2).facts = {"amount"} /\ Amount(2).facts["amount"] = Number(2)
      /\ DOMAIN Amount(3).facts = {"amount"} /\ Amount(3).facts["amount"] = Number(3)
      /\ Amount(2).facts # Amount(3).facts
  <2>1. Number(2) # Number(3)
    BY DEF Number
  <2> QED BY <1>1, <2>1
<1>3. DOMAIN <<>> = {}
  OBVIOUS
<1>4. <<>> # Amount(3).facts
  BY <1>2, <1>3
<1>5. CASE c \in Quoting(Contents)
  <2>1. DOMAIN c = {"line", "parts"}
    BY <1>5 DEF Quoting, Extract
  <2>2. DOMAIN LargeAmount = {"field", "op", "value"}
    BY DEF LargeAmount
  <2>3. c # LargeAmount /\ "field" \notin DOMAIN c
    BY <2>1, <2>2
  <2>4. c \notin s.flags
    BY <1>1, <2>3 DEF Scenarios
  <2> QED BY <2>3, <2>4 DEF Holds, Applies, IsComparison
<1>6. CASE c = LargeAmount
  <2>1. IsComparison(LargeAmount) /\ LargeAmount.field = "amount" /\ LargeAmount.op = ">"
        /\ LargeAmount.value = Number(2)
    BY DEF LargeAmount, IsComparison
  <2>2. ~Compares(">", Number(2), Number(2)) /\ Compares(">", Number(3), Number(2))
    BY DEF Compares, Number
  <2>3. CASE s = [facts |-> <<>>, flags |-> {}] \/ s = [facts |-> <<>>, flags |-> {LargeAmount}]
    <3>1. s.facts = <<>> /\ s.flags \in {{}, {LargeAmount}}
      BY <2>3
    <3> QED BY <1>3, <1>4, <1>6, <2>1, <3>1 DEF Holds, Applies, Large
  <2>4. CASE s = Amount(2)
    BY <1>1, <1>2, <1>6, <2>1, <2>2, <2>4 DEF Holds, Applies, Large
  <2>5. CASE s = Amount(3)
    BY <1>1, <1>2, <1>6, <2>1, <2>2, <2>5 DEF Holds, Applies, Large
  <2> QED BY <2>3, <2>4, <2>5 DEF Scenarios
<1> QED BY <1>5, <1>6

\* Rules with conditions of these notes fire where the reference says so.
Conditional(rules) == \A i \in DOMAIN rules : rules[i].condition \in {LargeAmount} \cup Quoting(Contents)

Fired(rules, scenario) == {r.then : r \in {q \in ToSet(rules) : Applies(q.condition, scenario)}}

LEMMA RulesFire ==
  ASSUME NEW s \in Scenarios, NEW R, NEW rules \in Seq(R), Conditional(rules)
  PROVE  /\ Stops(rules, Len(rules), s) <=> RuleStops(rules, s)
         /\ Acts(rules, Len(rules), s) = Fired(rules, s)
<1>1. DOMAIN rules = 1 .. Len(rules)
  OBVIOUS
<1>2. \A i \in DOMAIN rules : Fires(rules[i], s) <=> Applies(rules[i].condition, s)
  BY ConditionsHold DEF Conditional, Fires
<1> QED BY <1>1, <1>2 DEF Stops, RuleStops, Acts, Fired, ToSet

LEMMA ConditionsOfNotes == {c.if : c \in Contents} \subseteq {Always, LargeAmount}
<1>1. /\ Act.if = Always /\ ActCites.if = Always /\ Stop.if = Always /\ Expect.if = Always
      /\ IfAct.if = LargeAmount /\ IfStop.if = LargeAmount /\ IfNever.if = LargeAmount
  BY DEF Act, ActCites, Stop, Expect, IfAct, IfStop, IfNever, Content
<1>2. Never.if = Always /\ WaitFor.if = Always /\ Waits.if = Always /\ Until.if = Always
  BY DEF Never, WaitFor, Waits, Until, Content
<1>3. \A c \in Contents : c.if \in {Always, LargeAmount}
  BY <1>1, <1>2 DEF Contents, AsItems, AsTexts
<1> QED BY <1>3

\* A run that goes through a document of these notes follows it.
\* (trace, steps, decision_rules of the document.)
Follows(trace, d, scenario) ==
  LET steps  == d.steps
      global == RuleStops(d.decision_rules, scenario)
      stops  == {k \in DOMAIN steps :
                   /\ Runs(steps[k], scenario)
                   /\ steps[k].halts \/ RuleStops(steps[k].rules, scenario)}
      last   == IF global THEN 0
                ELSE IF stops = {} THEN Len(steps)
                ELSE CHOOSE k \in stops : \A l \in stops : k <= l
      ran    == {k \in 1 .. last : Runs(steps[k], scenario)}
      cut    == {k \in ran : RuleStops(steps[k].rules, scenario)}
  IN  /\ trace.halted = (global \/ stops # {})
      /\ ToSet(trace.skipped) = (1 .. last) \ ran
      /\ ToSet(trace.executed) = ran \ cut
      /\ \A a \in ToSet(trace.actions) :
           \/ a \in Fired(d.decision_rules, scenario)
           \/ \E k \in ran : a \in ToSet(steps[k].action) \cup Fired(steps[k].rules, scenario)
      /\ ~global => Fired(d.decision_rules, scenario) \subseteq ToSet(trace.actions)
      /\ \A k \in ran \ cut :
           ToSet(steps[k].action) \cup Fired(steps[k].rules, scenario) \subseteq ToSet(trace.actions)
      /\ global \/ cut # {} => Halts(Last(trace.actions))
      /\ trace.halted => \A o \in ToSet(trace.outcomes) :
                           \E k \in ran : o \in ToSet(steps[k].outcome)

\* The document's conditions are those of these notes.
Plain(d, R) ==
  /\ d.decision_rules \in Seq(R) /\ Conditional(d.decision_rules)
  /\ Len(d.steps) \in Nat /\ DOMAIN d.steps = 1 .. Len(d.steps)
  /\ \A k \in DOMAIN d.steps :
       /\ d.steps[k].rules \in Seq(R) /\ Conditional(d.steps[k].rules)
       /\ d.steps[k].condition \in {Always, LargeAmount}
       /\ d.steps[k].halts \in BOOLEAN

LEMMA RunsThroughFollows ==
  ASSUME NEW R, NEW d, Plain(d, R), NEW s \in Scenarios, NEW trace, RunsThrough(trace, d, s)
  PROVE  Follows(trace, d, s)
<1> DEFINE steps == d.steps
           n == Len(steps)
           global == RuleStops(d.decision_rules, s)
           stops  == {k \in DOMAIN steps :
                        /\ Runs(steps[k], s)
                        /\ steps[k].halts \/ RuleStops(steps[k].rules, s)}
           last   == IF global THEN 0
                     ELSE IF stops = {} THEN n
                     ELSE CHOOSE k \in stops : \A l \in stops : k <= l
           ran    == {k \in 1 .. last : Runs(steps[k], s)}
           cut    == {k \in ran : RuleStops(steps[k].rules, s)}
<1>1. PICK before, walked :
        /\ Followed(before, NoTrace, d.decision_rules, Len(d.decision_rules), s)
        /\ Walked(walked, before, steps, n, s)
        /\ walked.halted \in BOOLEAN
        /\ trace.halted = walked.halted /\ trace.skipped = walked.skipped
        /\ trace.executed = walked.executed /\ trace.actions = walked.actions
        /\ trace.halted => trace.outcomes = walked.outcomes
  BY DEF RunsThrough
<1>2. n \in Nat /\ DOMAIN steps = 1 .. n
  BY DEF Plain
<1>3. /\ before.halted <=> global
      /\ ToSet(before.actions) \subseteq Fired(d.decision_rules, s)
      /\ ~global => Fired(d.decision_rules, s) \subseteq ToSet(before.actions)
  <2>1. /\ Stops(d.decision_rules, Len(d.decision_rules), s) <=> global
        /\ Acts(d.decision_rules, Len(d.decision_rules), s) = Fired(d.decision_rules, s)
    BY RulesFire DEF Plain
  <2>2. ToSet(NoTrace.actions) = {}
    BY DEF NoTrace, ToSet
  <2> HIDE DEF global
  <2> QED BY <1>1, <2>1, <2>2 DEF Followed
<1>4. ASSUME NEW k \in 1 .. n
      PROVE  /\ Skips(steps[k], s) <=> ~Runs(steps[k], s)
             /\ Stops(steps[k].rules, Len(steps[k].rules), s) <=> RuleStops(steps[k].rules, s)
             /\ StepActs(steps[k], s) = ToSet(steps[k].action) \cup Fired(steps[k].rules, s)
             /\ EndsAt(steps[k], s) <=> k \in stops
  <2>1. steps[k].condition \in {Always, LargeAmount}
    BY <1>2 DEF Plain
  <2>2. Holds(LargeAmount, s) <=> Applies(LargeAmount, s)
    BY ConditionsHold
  <2>3. Skips(steps[k], s) <=> ~Runs(steps[k], s)
    BY <2>1, <2>2 DEF Skips, Runs
  <2>4. /\ Stops(steps[k].rules, Len(steps[k].rules), s) <=> RuleStops(steps[k].rules, s)
        /\ Acts(steps[k].rules, Len(steps[k].rules), s) = Fired(steps[k].rules, s)
    <3>1. steps[k].rules \in Seq(R) /\ Conditional(steps[k].rules)
      BY <1>2 DEF Plain
    <3> QED BY <3>1, RulesFire
  <2>5. EndsAt(steps[k], s) <=> k \in stops
    BY <1>2, <2>3, <2>4 DEF EndsAt
  <2> QED BY <2>3, <2>4, <2>5 DEF StepActs
<1>5. stops \subseteq 1 .. n
  BY <1>2
<1> HIDE DEF steps, n, global, stops
<1>6. /\ last \in 0 .. n
      /\ \A k \in 1 .. n : Reached(before, steps, k, s) <=> k \in 1 .. last
      /\ Reached(before, steps, n + 1, s) <=> ~global /\ stops = {}
  <2>0. Reached(before, steps, n + 1, s)
          <=> ~before.halted /\ \A i \in 1 .. n : ~EndsAt(steps[i], s)
    <3>1. 1 .. (n + 1) - 1 = 1 .. n
      BY <1>2
    <3>2. Reached(before, steps, n + 1, s)
            <=> ~before.halted /\ \A i \in 1 .. (n + 1) - 1 : ~EndsAt(steps[i], s)
      BY DEF Reached
    <3> QED BY <3>1, <3>2, Zenon
  <2>1. CASE global
    BY <1>2, <1>3, <2>1 DEF Reached
  <2>2. CASE ~global /\ stops = {}
    <3>1. last = n
      BY <2>2
    <3>2. \A i \in 1 .. n : ~EndsAt(steps[i], s)
      BY <1>4, <2>2
    <3>3. \A k \in 1 .. n : \A i \in 1 .. k - 1 : i \in 1 .. n
      BY <1>2
    <3>4. \A k \in 1 .. n : Reached(before, steps, k, s)
      BY <1>3, <2>2, <3>2, <3>3 DEF Reached
    <3>5. Reached(before, steps, n + 1, s)
      BY <1>3, <2>0, <2>2, <3>2
    <3> QED BY <1>2, <2>2, <3>1, <3>4, <3>5
  <2>3. CASE ~global /\ stops # {}
    <3>1. \E k \in stops : \A l \in stops : k <= l
      <4>1. stops \in SUBSET Nat
        BY <1>2, <1>5
      <4> QED BY <2>3, <4>1, LeastOfNaturals
    <3>2. last \in stops /\ \A l \in stops : last <= l
      <4>1. last = CHOOSE k \in stops : \A l \in stops : k <= l
        BY <2>3
      <4> HIDE DEF last
      <4> QED BY <3>1, <4>1
    <3> HIDE DEF last
    <3>3. last \in 1 .. n
      BY <1>5, <3>2
    <3>4. ASSUME NEW k \in 1 .. n PROVE Reached(before, steps, k, s) <=> k \in 1 .. last
      <4>1. CASE k <= last
        <5>1. \A i \in 1 .. k - 1 : i \in 1 .. n /\ ~(last <= i)
          BY <1>2, <3>3, <4>1
        <5>2. \A i \in 1 .. k - 1 : ~EndsAt(steps[i], s)
          BY <1>4, <3>2, <5>1
        <5>3. k \in 1 .. last
          BY <1>2, <3>3, <4>1
        <5> QED BY <1>3, <2>3, <5>2, <5>3 DEF Reached
      <4>2. CASE ~(k <= last)
        <5>1. last \in 1 .. k - 1 /\ k \notin 1 .. last
          BY <1>2, <3>3, <4>2
        <5>2. EndsAt(steps[last], s)
          BY <1>4, <3>2, <3>3
        <5> QED BY <5>1, <5>2 DEF Reached
      <4> QED BY <4>1, <4>2
    <3>5. ~Reached(before, steps, n + 1, s)
      <4>1. EndsAt(steps[last], s)
        BY <1>4, <3>2, <3>3
      <4> QED BY <2>0, <3>3, <4>1
    <3>6. last \in 0 .. n
      BY <1>2, <3>3
    <3> QED BY <2>3, <3>4, <3>5, <3>6
  <2> QED BY <2>1, <2>2, <2>3
<1> HIDE DEF last
<1>7. 1 .. last \subseteq 1 .. n
  BY <1>2, <1>6
<1>8. /\ Ran(before, steps, n, s) = ran
      /\ Skipped(before, steps, n, s) = (1 .. last) \ ran
      /\ Cut(before, steps, n, s) = cut
  BY <1>4, <1>6, <1>7 DEF Ran, Skipped, Cut
<1>9. ran \subseteq 1 .. n
  BY <1>7
<1> HIDE DEF ran, cut
<1>10. /\ walked.halted <=> global \/ stops # {}
       /\ ToSet(walked.skipped) = (1 .. last) \ ran
       /\ ToSet(walked.executed) = ran \ cut
       /\ \A a \in ToSet(walked.actions) :
            a \in ToSet(before.actions) \/ \E j \in ran : a \in StepActs(steps[j], s)
       /\ ToSet(before.actions) \subseteq ToSet(walked.actions)
       /\ \A j \in ran \ cut : StepActs(steps[j], s) \subseteq ToSet(walked.actions)
       /\ global \/ cut # {} => Halts(Last(walked.actions))
       /\ \A o \in ToSet(walked.outcomes) : \E j \in ran : o \in ToSet(steps[j].outcome)
  BY <1>1, <1>3, <1>6, <1>8 DEF Walked
<1>11. /\ \A a \in ToSet(trace.actions) :
            \/ a \in Fired(d.decision_rules, s)
            \/ \E k \in ran : a \in ToSet(steps[k].action) \cup Fired(steps[k].rules, s)
       /\ \A k \in ran \ cut :
            ToSet(steps[k].action) \cup Fired(steps[k].rules, s) \subseteq ToSet(trace.actions)
  <2>1. \A k \in ran : StepActs(steps[k], s) = ToSet(steps[k].action) \cup Fired(steps[k].rules, s)
    BY <1>4, <1>9
  <2>2. trace.actions = walked.actions
    BY <1>1
  <2>3. \A a \in ToSet(trace.actions) :
          \/ a \in Fired(d.decision_rules, s)
          \/ \E k \in ran : a \in ToSet(steps[k].action) \cup Fired(steps[k].rules, s)
    BY <1>3, <1>10, <2>1, <2>2
  <2>4. \A k \in ran \ cut :
          ToSet(steps[k].action) \cup Fired(steps[k].rules, s) \subseteq ToSet(trace.actions)
    BY <1>10, <2>1, <2>2
  <2> QED BY <2>3, <2>4
<1>12. trace.halted = (global \/ stops # {})
  BY <1>1, <1>10 DEF global
<1> QED BY <1>1, <1>3, <1>10, <1>11, <1>12 DEF Follows, steps, n, global, stops, last, ran, cut

-----------------------------------------------------------------------------
(* Every note of the runs is read, compiled and run once.                  *)

NotesInv ==
  /\ given.kind = "note" => given.note \in Lists(NoteLines, MaxNote)
  /\ IsNote => /\ given.kind = "note"
               /\ got.items = ParseNote(given.note)
               /\ got.document = CompileParsed(got.items)
               /\ got.traces = [s \in Scenarios |-> Execute(got.document, s)]

LEMMA NotesStay == Spec => []NotesInv
<1>1. Init => NotesInv
  BY DEF Init, NotesInv, IsNote, Nothing
<1>2. NotesInv /\ [Next]_vars => NotesInv'
  <2> SUFFICES ASSUME NotesInv, [Next]_vars PROVE NotesInv'
    OBVIOUS
  <2>1. CASE Merge \/ Compare
    BY <2>1 DEF Merge, Compare, NotesInv, IsNote
  <2>2. CASE Read
    <3> DEFINE read == ParseNote(given.note)
               compiled == CompileParsed(read)
               ran == [s \in Scenarios |-> Execute(compiled, s)]
    <3>1. /\ got'.items = read /\ got'.document = compiled /\ got'.traces = ran
          /\ given.kind = "note" /\ given' = given
      BY <2>2 DEF Read
    <3> QED BY <3>1 DEF NotesInv
  <2>3. CASE UNCHANGED vars
    BY <2>3 DEF vars, NotesInv, IsNote
  <2> QED BY <2>1, <2>2, <2>3 DEF Next
<1> QED BY <1>1, <1>2, PTL DEF Spec

LEMMA NoteIsRead ==
  ASSUME NotesInv, IsNote
  PROVE  /\ Len(note) \in Nat /\ DOMAIN note = 1 .. Len(note)
         /\ \A n \in DOMAIN note : note[n] \in NoteLines
         /\ items \in Seq(ItemsAbout(Contents)) /\ items \in Seq(Spoken(Contents))
         /\ Covers(items, note, Len(note))
         /\ document = CompileParsed(items)
         /\ \A s \in Scenarios : got.traces[s] = Execute(document, s)
<1>1. NoteLines \subseteq LinesAbout(Contents)
  BY DEF NoteLines, LinesAbout, Item, Text, Heading, TitleLine, Blank, Contents, Sections
<1>2. PICK k \in Nat : note \in [1 .. k -> NoteLines]
  BY FunctionsAssumption DEF NotesInv, Lists, note
<1>3. note \in Seq(LinesAbout(Contents)) /\ Len(note) = k
  <2>1. note \in [1 .. k -> LinesAbout(Contents)]
    BY <1>1, <1>2
  <2> QED BY <2>1
<1>4. items = ParseNote(note)
  BY DEF NotesInv, items, note
<1>5. items \in Seq(ItemsAbout(Contents)) /\ Covers(items, note, Len(note))
  BY <1>3, <1>4, ItemsQuoteTheNote
<1>6. items \in Seq(Spoken(Contents))
  <2>1. ASSUME NEW i \in DOMAIN items PROVE items[i] \in Spoken(Contents)
    <3>1. items[i] \in ItemsAbout(Contents) /\ Quotes(items[i], note)
          /\ items[i].line_start <= items[i].line_end
      BY <1>5 DEF Covers
    <3>2. items[i].line_start \in Nat /\ items[i].line_end \in Nat
      BY <3>1 DEF ItemsAbout
    <3>3. 1 \in DOMAIN items[i].text
      BY <3>1, <3>2 DEF Quotes
    <3>4. items[i].text # <<>>
      BY <3>3
    <3> QED BY <3>1, <3>4 DEF Spoken
  <2>2. Len(items) \in Nat /\ DOMAIN items = 1 .. Len(items)
        /\ items = [i \in 1 .. Len(items) |-> items[i]]
    BY <1>5
  <2>3. items \in [1 .. Len(items) -> Spoken(Contents)]
    BY <2>1, <2>2
  <2> QED BY <2>2, <2>3
<1>7. document = CompileParsed(items) /\ \A s \in Scenarios : got.traces[s] = Execute(document, s)
  BY DEF NotesInv, document, items
<1> QED BY <1>2, <1>3, <1>5, <1>6, <1>7

\* Of the notes of the runs: every line that says something belongs to exactly
\* one item, no other line to any, and items follow one another (parseNote).
THEOREM ItemsCoverTheNote == Spec => []EveryLineInOneItem
<1>1. ASSUME NotesInv, IsNote PROVE EveryLineInOneItem
  <2> DEFINE n == Len(note)
  <2>3. n \in Nat /\ DOMAIN note = 1 .. n
    BY <1>1, NoteIsRead
  <2>5. Covers(items, note, n) /\ items \in Seq(ItemsAbout(Contents))
    BY <1>1, NoteIsRead
  <2> HIDE DEF n
  <2>6. \A i \in DOMAIN items : items[i].line_start \in Nat /\ items[i].line_end \in Nat /\ i \in Nat
    <3>1. \A i \in DOMAIN items : items[i] \in ItemsAbout(Contents) /\ i \in Nat
      BY <2>5
    <3> QED BY <3>1 DEF ItemsAbout
  <2>7. ASSUME NEW m \in DOMAIN note
        PROVE  Cardinality({i \in DOMAIN items : m \in ItemLines(items[i])}) = IF Speaks(m) THEN 1 ELSE 0
    <3> DEFINE around == {i \in DOMAIN items : m \in ItemLines(items[i])}
    <3>1. CASE Speaks(m)
      <4>1. PICK i \in DOMAIN items : m \in ItemLines(items[i])
        BY <2>3, <2>5, <3>1 DEF Covers, Says, Speaks
      <4>2. ASSUME NEW j \in around PROVE j = i
        <5>1. /\ items[i].line_start <= m /\ m <= items[i].line_end
              /\ items[j].line_start <= m /\ m <= items[j].line_end /\ m \in Nat
          BY <2>3, <4>1 DEF ItemLines
        <5>2. ~(items[i].line_end < items[j].line_start) /\ ~(items[j].line_end < items[i].line_start)
          BY <2>6, <5>1
        <5>3. ~(i < j) /\ ~(j < i)
          BY <2>5, <5>2 DEF Covers
        <5> QED BY <2>6, <5>3
      <4>3. around = {i}
        BY <4>1, <4>2
      <4>4. Cardinality(around) = 1
        BY <4>3, FS_Singleton
      <4> QED BY <3>1, <4>4
    <3>2. CASE ~Speaks(m)
      <4>1. \A i \in DOMAIN items : m \notin ItemLines(items[i])
        BY <2>5, <3>2 DEF Covers, Quotes, Says, Speaks
      <4>2. around = {}
        BY <4>1
      <4>3. Cardinality(around) = 0
        BY <4>2, FS_EmptySet
      <4> QED BY <3>2, <4>3
    <3> QED BY <3>1, <3>2
  <2>8. ASSUME NEW i \in DOMAIN items
        PROVE  /\ ItemLines(items[i]) \subseteq DOMAIN note
               /\ i > 1 => items[i - 1].line_end < items[i].line_start
    <3>1. 1 <= items[i].line_start /\ items[i].line_end <= n
      BY <2>5 DEF Covers
    <3>2. ItemLines(items[i]) \subseteq 1 .. n
      BY <2>3, <2>6, <3>1 DEF ItemLines
    <3>3. i > 1 => i - 1 \in DOMAIN items /\ i - 1 < i
      BY <2>5
    <3> QED BY <2>3, <2>5, <3>2, <3>3 DEF Covers
  <2> QED BY <2>7, <2>8 DEF EveryLineInOneItem
<1>2. NotesInv => EveryLineInOneItem
  BY <1>1 DEF EveryLineInOneItem
<1> QED BY <1>2, NotesStay, PTL

\* Of the notes of the runs: every run goes exactly as far as the first thing
\* that stops it, with every rule that applies acted on (execute, applyRules).
THEOREM RunsFollow == Spec => []RunFollowsTheDocument
<1>1. ASSUME NotesInv, IsNote, NEW s \in Scenarios PROVE Follows(got.traces[s], document, s)
  <2> DEFINE R == RulesFrom(Contents) \cup GlobalRulesFrom(Contents)
             d == CompileParsed(items)
             stepItems == SectionItems(items, "steps")
  <2>1. items \in Seq(Spoken(Contents)) /\ document = d /\ got.traces[s] = Execute(d, s)
    BY <1>1, NoteIsRead
  <2>3. RunsThrough(Execute(d, s), d, s)
    BY <2>1, CompiledDocumentRuns
  <2>4. /\ \A k \in DOMAIN d.steps : StepFrom(d.steps[k], stepItems[k], k, Contents)
        /\ d.steps \in Seq(ToSet(d.steps)) /\ d.decision_rules \in Seq(GlobalRulesFrom(Contents))
    BY <2>1, DocumentIsCompiled
  <2> HIDE DEF d, stepItems
  <2>5. \A r \in R : r.condition \in {LargeAmount} \cup Quoting(Contents)
    BY RulesAreRules, ConditionsOfNotes
  <2>6. RulesFrom(Contents) \subseteq R /\ GlobalRulesFrom(Contents) \subseteq R
    OBVIOUS
  <2> HIDE DEF R
  <2>7. d.decision_rules \in Seq(R) /\ Conditional(d.decision_rules)
    <3>1. d.decision_rules \in Seq(R)
      BY <2>4, <2>6, SeqOfMore
    <3>2. \A i \in DOMAIN d.decision_rules : d.decision_rules[i] \in R
      BY <3>1
    <3> QED BY <2>5, <3>1, <3>2 DEF Conditional
  <2>8. ASSUME NEW k \in DOMAIN d.steps
        PROVE  /\ d.steps[k].rules \in Seq(R) /\ Conditional(d.steps[k].rules)
               /\ d.steps[k].condition \in {Always, LargeAmount}
               /\ d.steps[k].halts \in BOOLEAN
    <3>1. /\ d.steps[k].rules \in Seq(RulesFrom(Contents))
          /\ d.steps[k].condition \in {Always} \cup {c.if : c \in Contents}
          /\ d.steps[k].halts \in BOOLEAN
      BY <2>4 DEF StepFrom
    <3>2. d.steps[k].rules \in Seq(R)
      BY <2>6, <3>1, SeqOfMore
    <3>3. \A i \in DOMAIN d.steps[k].rules : d.steps[k].rules[i] \in R
      BY <3>2
    <3>4. Conditional(d.steps[k].rules)
      BY <2>5, <3>3 DEF Conditional
    <3> QED BY <3>1, <3>2, <3>4, ConditionsOfNotes
  <2>9. Len(d.steps) \in Nat /\ DOMAIN d.steps = 1 .. Len(d.steps)
    BY <2>4
  <2>10. Plain(d, R)
    BY <2>7, <2>8, <2>9 DEF Plain
  <2> QED BY <2>1, <2>3, <2>10, RunsThroughFollows
<1>2. NotesInv => RunFollowsTheDocument
  BY <1>1 DEF RunFollowsTheDocument, Follows, Fired
<1> QED BY <1>2, NotesStay, PTL

\* What is in the lists is in the one they are joined to.
LEMMA FlattenedHasAll ==
  ASSUME NEW S, NEW seqs \in Seq(Seq(S))
  PROVE  /\ FlattenSeq(seqs) \in Seq(S)
         /\ ToSet(FlattenSeq(seqs)) = UNION {ToSet(seqs[i]) : i \in DOMAIN seqs}
<1> DEFINE n == Len(seqs)
           Step(g, i) == IF i = 1 THEN seqs[i] ELSE g[i - 1] \o seqs[i]
           Upto(m, g) == g = [i \in 1 .. m |-> Step(g, i)]
           some == {m \in Nat : \E g : Upto(m, g)}
           flatten == CHOOSE g : Upto(n, g)
           All(m) == UNION {ToSet(seqs[i]) : i \in 1 .. m}
<1>0. n \in Nat /\ DOMAIN seqs = 1 .. n /\ \A i \in 1 .. n : seqs[i] \in Seq(S)
  OBVIOUS
<1>1. 0 \in some
  <2> DEFINE g == [i \in 1 .. 0 |-> <<>>]
  <2>1. \A i \in 1 .. 0 : FALSE
    OBVIOUS
  <2>2. Upto(0, g)
    <3> HIDE DEF Step
    <3> QED BY <2>1
  <2> QED BY <2>2
<1>2. ASSUME NEW m \in Nat, m \in some PROVE m + 1 \in some
  <2>1. PICK g : Upto(m, g)
    BY <1>2
  <2> DEFINE h == [i \in 1 .. m + 1 |-> Step(g, i)]
  <2>2. ASSUME NEW i \in 1 .. m PROVE h[i] = g[i]
    <3>1. i \in 1 .. m + 1
      OBVIOUS
    <3>2. g[i] = Step(g, i)
      BY <2>1
    <3> HIDE DEF Step
    <3> QED BY <3>1, <3>2
  <2>3. ASSUME NEW i \in 1 .. m + 1 PROVE Step(g, i) = Step(h, i)
    <3>1. CASE i = 1
      BY <3>1
    <3>2. CASE i # 1
      <4>1. i - 1 \in 1 .. m
        BY <3>2
      <4>2. h[i - 1] = g[i - 1]
        BY <2>2, <4>1
      <4> QED BY <4>2
    <3> QED BY <3>1, <3>2
  <2>4. Upto(m + 1, h)
    <3> HIDE DEF Step
    <3> QED BY <2>3
  <2> HIDE DEF Upto
  <2> QED BY <2>4
<1>3. \E g : Upto(n, g)
  <2> HIDE DEF some
  <2>1. \A k \in 0 .. n : k \in some
    BY <1>0, <1>1, <1>2, UpTo
  <2>2. n \in some
    BY <1>0, <2>1
  <2> QED BY <2>2 DEF some
<1>4. Upto(n, flatten)
  <2> HIDE DEF Upto
  <2> QED BY <1>3
<1>5. \A i \in 1 .. n : flatten[i] = IF i = 1 THEN seqs[i] ELSE flatten[i - 1] \o seqs[i]
  <2> HIDE DEF flatten
  <2> QED BY <1>4
<1>6. FlattenSeq(seqs) = IF n = 0 THEN seqs ELSE flatten[n]
  BY DEF FlattenSeq
<1> HIDE DEF n, flatten, All
<1>7. CASE n = 0
  <2>1. seqs = <<>> /\ FlattenSeq(seqs) = <<>>
    BY <1>6, <1>7 DEF n
  <2>2. ToSet(<<>>) = {} /\ <<>> \in Seq(S)
    BY DEF ToSet
  <2>3. DOMAIN seqs = {}
    BY <1>0, <1>7
  <2>4. UNION {ToSet(seqs[i]) : i \in DOMAIN seqs} = {}
    BY <2>3
  <2> QED BY <2>1, <2>2, <2>4
<1>8. CASE n # 0
  <2> DEFINE good == {k \in Nat : k + 1 <= n => /\ flatten[k + 1] \in Seq(S)
                                                /\ ToSet(flatten[k + 1]) = All(k + 1)}
  <2>1. 0 \in good
    <3>1. 0 + 1 = 1 /\ 1 \in 1 .. n /\ 1 .. 1 = {1}
      BY <1>0, <1>8
    <3>2. flatten[1] = seqs[1]
      BY <1>5, <3>1
    <3>3. All(1) = ToSet(seqs[1])
      BY <3>1 DEF All
    <3> QED BY <1>0, <3>1, <3>2, <3>3
  <2>2. ASSUME NEW k \in Nat, k < n - 1, k \in good PROVE k + 1 \in good
    <3>1. /\ k + 1 \in Nat /\ k + 1 <= n /\ k + 1 + 1 \in 1 .. n /\ k + 1 + 1 # 1
          /\ (k + 1 + 1) - 1 = k + 1
      BY <1>0, <2>2
    <3>2. flatten[k + 1] \in Seq(S) /\ ToSet(flatten[k + 1]) = All(k + 1)
      BY <2>2, <3>1
    <3>3. flatten[k + 1 + 1] = flatten[k + 1] \o seqs[k + 1 + 1]
      BY <1>5, <3>1
    <3>4. seqs[k + 1 + 1] \in Seq(S)
      BY <1>0, <3>1
    <3>5. ToSet(flatten[k + 1 + 1]) = All(k + 1) \cup ToSet(seqs[k + 1 + 1])
      BY <3>2, <3>3, <3>4, ElementsOfJoined
    <3>6. flatten[k + 1 + 1] \in Seq(S)
      BY <3>2, <3>3, <3>4
    <3>7. 1 .. k + 1 + 1 = (1 .. k + 1) \cup {k + 1 + 1}
      BY <3>1
    <3>8. All(k + 1 + 1) = All(k + 1) \cup ToSet(seqs[k + 1 + 1])
      BY <3>7 DEF All
    <3> QED BY <3>1, <3>5, <3>6, <3>8
  <2>3. n - 1 \in good
    <3> HIDE DEF good
    <3>1. n - 1 \in Nat
      BY <1>0, <1>8
    <3>2. \A k \in 0 .. n - 1 : k \in good
      BY <2>1, <2>2, <3>1, UpTo
    <3> QED BY <3>1, <3>2
  <2>4. (n - 1) + 1 = n /\ n <= n
    BY <1>0
  <2>5. flatten[n] \in Seq(S) /\ ToSet(flatten[n]) = All(n)
    BY <2>3, <2>4
  <2> QED BY <1>0, <1>6, <1>8, <2>5 DEF All
<1> QED BY <1>7, <1>8

-----------------------------------------------------------------------------
\* What the document forbids, says that it must come to and decides by.
LEMMA BannedIsSaid ==
  ASSUME NEW C, NEW item \in Spoken(C)
  PROVE  Banned(item) \in Quoting(C) /\ OfItem(Banned(item), item)
<1> DEFINE K == {k \in DOMAIN item.text : item.text[k].bans}
           bans == Picked(item.text, K)
<1>1. item.text \in Seq(C) /\ item.text # <<>>
  BY DEF Spoken, ItemsAbout
<1>2. Banned(item) = IF bans = <<>> THEN FirstLine(item) ELSE ToTheEnd(bans[1])
  BY DEF Banned
<1>3. /\ 1 \in DOMAIN item.text /\ FirstLine(item) \in Quoting(C)
      /\ OfLine(FirstLine(item), item.text[1])
  <2>1. 1 \in DOMAIN item.text
    BY <1>1
  <2> QED BY <1>1, <2>1, FirstLineQuotes
<1>4. bans \in Seq(C) /\ InPlaces(bans, item.text, K, Len(item.text))
  <2> HIDE DEF K
  <2> QED BY <1>1, PickedInOrder
<1> HIDE DEF bans
<1>5. CASE bans # <<>>
  <2>1. 1 \in DOMAIN bans
    BY <1>4, <1>5
  <2>2. PICK at \in [DOMAIN bans -> K \cap (1 .. Len(item.text))] :
          \A j \in DOMAIN bans : bans[j] = item.text[at[j]]
    <3> HIDE DEF K
    <3> QED BY <1>4 DEF InPlaces
  <2>3. at[1] \in DOMAIN item.text /\ bans[1] = item.text[at[1]]
    BY <2>1, <2>2
  <2> DEFINE c == bans[1]
  <2>4. c \in C
    BY <1>4, <2>1
  <2> HIDE DEF c
  <2>5. {"said"} \cup After(c) \in SUBSET Parts(c)
    BY PartsAreKnown
  <2>6. ToTheEnd(c) \in Quoting(C) /\ OfLine(ToTheEnd(c), c)
    BY <2>4, <2>5, ExtractQuotes DEF ToTheEnd
  <2> QED BY <1>2, <1>5, <2>3, <2>6 DEF OfItem, c
<1>6. CASE bans = <<>>
  BY <1>2, <1>3, <1>6 DEF OfItem
<1> QED BY <1>5, <1>6

Ban(text, citations) == [text |-> text, citations |-> citations]

BansOfItems(list) == {Ban(Banned(list[i]), Citations(list[i])) : i \in DOMAIN list}
BansOfSteps(steps) ==
  UNION {{Ban(c, steps[k].citations) : c \in ToSet(steps[k].forbidden)} : k \in DOMAIN steps}

LEMMA DocumentBans ==
  ASSUME NEW C, NEW list \in Seq(Spoken(C))
  PROVE  LET d == CompileParsed(list)
             banItems == SectionItems(list, "forbidden")
         IN  ToSet(d.forbidden_actions) = BansOfItems(banItems) \cup BansOfSteps(d.steps)
<1> DEFINE d == CompileParsed(list)
           banItems == SectionItems(list, "forbidden")
           banned == [i \in DOMAIN banItems |-> Ban(Banned(banItems[i]), Citations(banItems[i]))]
           OfStep(p) == [j \in DOMAIN p.forbidden |-> Ban(p.forbidden[j], p.citations)]
           lists == [k \in DOMAIN d.steps |-> OfStep(d.steps[k])]
           B == {Ban(x, y) : x \in Quoting(C), y \in {d.steps[k].citations : k \in DOMAIN d.steps}
                                             \cup {Citations(item) : item \in Spoken(C)}}
<1>1. d.forbidden_actions = banned \o FlattenSeq(lists)
  BY DEF CompileParsed, Each, Ban
<1>2. /\ d.steps \in Seq(ToSet(d.steps))
      /\ \A k \in DOMAIN d.steps : StepFrom(d.steps[k], SectionItems(list, "steps")[k], k, C)
  BY DocumentIsCompiled
<1>3. banItems \in Seq(Spoken(C))
  BY ItemsOfSection
<1> HIDE DEF d, banItems
<1>4. banned \in Seq(B) /\ ToSet(banned) = {banned[i] : i \in DOMAIN banItems}
  <2>1. ASSUME NEW i \in DOMAIN banItems PROVE banned[i] \in B
    <3>1. banItems[i] \in Spoken(C)
      BY <1>3
    <3>2. Banned(banItems[i]) \in Quoting(C)
      BY <3>1, BannedIsSaid
    <3> QED BY <3>1, <3>2
  <2>2. Len(banItems) \in Nat /\ DOMAIN banItems = 1 .. Len(banItems)
    BY <1>3
  <2>3. DOMAIN banned = DOMAIN banItems /\ banned = [i \in 1 .. Len(banItems) |-> banned[i]]
    BY <2>2
  <2> HIDE DEF banned, B
  <2>4. banned \in [1 .. Len(banItems) -> B]
    BY <2>1, <2>2, <2>3
  <2> QED BY <2>2, <2>3, <2>4 DEF ToSet
<1>5. ASSUME NEW k \in DOMAIN d.steps
      PROVE  /\ lists[k] \in Seq(B)
             /\ ToSet(lists[k]) = {Ban(c, d.steps[k].citations) : c \in ToSet(d.steps[k].forbidden)}
  <2> DEFINE p == d.steps[k]
             m == Len(p.forbidden)
  <2>1. p.forbidden \in Seq(Quoting(C))
    BY <1>2 DEF StepFrom
  <2>2. m \in Nat /\ DOMAIN p.forbidden = 1 .. m
    BY <2>1
  <2>3. \A j \in 1 .. m : Ban(p.forbidden[j], p.citations) \in B
    <3> DEFINE Y == {d.steps[i].citations : i \in DOMAIN d.steps}
                    \cup {Citations(item) : item \in Spoken(C)}
    <3>1. p.citations \in Y
      OBVIOUS
    <3>2. \A j \in 1 .. m : p.forbidden[j] \in Quoting(C)
      BY <2>1, <2>2
    <3> HIDE DEF Y, p, m, B
    <3>3. \A x \in Quoting(C), y \in Y : Ban(x, y) \in {Ban(v, w) : v \in Quoting(C), w \in Y}
      OBVIOUS
    <3>4. B = {Ban(v, w) : v \in Quoting(C), w \in Y}
      BY DEF B, Y
    <3> QED BY <3>1, <3>2, <3>3, <3>4
  <2>4. lists[k] = OfStep(p)
    OBVIOUS
  <2> HIDE DEF lists, p, B, m
  <2>5. OfStep(p) \in [1 .. m -> B]
    BY <2>2, <2>3
  <2>6. OfStep(p) \in Seq(B)
    BY <2>2, <2>5
  <2>7. ToSet(OfStep(p)) = {Ban(c, p.citations) : c \in ToSet(p.forbidden)}
    BY DEF ToSet
  <2> QED BY <2>4, <2>6, <2>7 DEF p
<1>6. lists \in Seq(Seq(B)) /\ DOMAIN lists = DOMAIN d.steps
  <2>1. Len(d.steps) \in Nat /\ DOMAIN d.steps = 1 .. Len(d.steps)
    BY <1>2
  <2>2. DOMAIN lists = 1 .. Len(d.steps) /\ lists = [k \in 1 .. Len(d.steps) |-> lists[k]]
    BY <2>1
  <2> HIDE DEF lists, B
  <2>3. lists \in [1 .. Len(d.steps) -> Seq(B)]
    BY <1>5, <2>1, <2>2
  <2> QED BY <2>1, <2>2, <2>3
<1>7. \A i \in DOMAIN banItems : banned[i] = Ban(Banned(banItems[i]), Citations(banItems[i]))
  OBVIOUS
<1> HIDE DEF banned, lists, B
<1>8. /\ FlattenSeq(lists) \in Seq(B)
      /\ ToSet(FlattenSeq(lists)) = UNION {ToSet(lists[k]) : k \in DOMAIN lists}
  BY <1>6, FlattenedHasAll
<1>9. ToSet(d.forbidden_actions) = ToSet(banned) \cup ToSet(FlattenSeq(lists))
  BY <1>1, <1>4, <1>8, ElementsOfJoined
<1>10. ToSet(d.forbidden_actions)
         = {Ban(Banned(banItems[i]), Citations(banItems[i])) : i \in DOMAIN banItems}
           \cup UNION {{Ban(c, d.steps[k].citations) : c \in ToSet(d.steps[k].forbidden)} :
                         k \in DOMAIN d.steps}
  <2>1. ToSet(banned) = {Ban(Banned(banItems[i]), Citations(banItems[i])) : i \in DOMAIN banItems}
    BY <1>4, <1>7
  <2>2. UNION {ToSet(lists[k]) : k \in DOMAIN lists}
          = UNION {{Ban(c, d.steps[k].citations) : c \in ToSet(d.steps[k].forbidden)} :
                     k \in DOMAIN d.steps}
    <3> DEFINE bans(k) == {Ban(c, d.steps[k].citations) : c \in ToSet(d.steps[k].forbidden)}
    <3>1. \A k \in DOMAIN d.steps : ToSet(lists[k]) = bans(k)
      BY <1>5
    <3> HIDE DEF bans
    <3>2. UNION {ToSet(lists[k]) : k \in DOMAIN lists} = UNION {bans(k) : k \in DOMAIN d.steps}
      BY <1>6, <3>1
    <3> QED BY <3>2 DEF bans
  <2> QED BY <1>8, <1>9, <2>1, <2>2
<1> QED BY <1>10 DEF d, banItems, BansOfItems, BansOfSteps

-----------------------------------------------------------------------------
\* Of the notes of the runs: nothing an expert wrote in a step is left out of it,
\* part by part and conditions included, but what LeftOut names; its prohibitions
\* are the document's and its sources are cited (splitRules, compileParsed).
THEOREM StepsSayAll == Spec => []StepsAreComplete
<1>1. ASSUME NotesInv, IsNote PROVE StepsAreComplete
  <2> DEFINE stepItems == SectionItems(items, "steps")
             d == CompileParsed(items)
  <2>1. items \in Seq(Spoken(Contents)) /\ document = d
    BY <1>1, NoteIsRead
  <2>2. /\ Len(d.steps) = Len(stepItems) /\ DOMAIN d.steps = DOMAIN stepItems
        /\ \A k \in DOMAIN d.steps : StepFrom(d.steps[k], stepItems[k], k, Contents)
    BY <2>1, DocumentIsCompiled
  <2>a. BansOfSteps(d.steps) \subseteq ToSet(d.forbidden_actions)
    BY <2>1, DocumentBans
  <2>4. stepItems \in Seq(Spoken(Contents))
    BY <2>1, ItemsOfSection
  <2> HIDE DEF stepItems, d
  <2>3. \A k \in DOMAIN d.steps : \A c \in ToSet(d.steps[k].forbidden) :
          Ban(c, d.steps[k].citations) \in ToSet(d.forbidden_actions)
    BY <2>a DEF BansOfSteps
  <2>5. ASSUME NEW i \in DOMAIN stepItems, NEW k \in DOMAIN stepItems[i].text
        PROVE  LET text == stepItems[i].text
                   step == d.steps[i]
               IN  /\ \A part \in Parts(text[k]) \ LeftOut(step, text, k) :
                        Repeats(StepSays(step), text[k], part)
                   /\ text[k].if \in Conditions(step)
                   /\ text[k].refs \subseteq step.citations.refs
                   /\ text[k].says = "never" /\ ~IsRule(text, k) =>
                        \E f \in ToSet(d.forbidden_actions) :
                          f.text = ToTheEnd(text[k]) /\ f.citations = step.citations
    <3> DEFINE text == stepItems[i].text
               step == d.steps[i]
    <3>1. text \in Seq(Contents)
      <4>1. stepItems[i] \in Spoken(Contents)
        BY <2>4
      <4> QED BY <4>1 DEF Spoken, ItemsAbout
    <3>2. k \in 1 .. Len(text) /\ text[k] \in ToSet(text)
      BY <3>1 DEF ToSet
    <3>3. step.citations = Citations(stepItems[i]) /\ SaysAll(step, text, Len(text))
      BY <2>2 DEF StepFrom
    <3>4. text[k].refs \subseteq step.citations.refs
      BY <3>2, <3>3 DEF Citations, Sources
    <3> HIDE DEF text
    <3>5. /\ \A part \in Parts(text[k]) \ LeftOut(step, text, k) : Repeats(StepSays(step), text[k], part)
          /\ text[k].if \in Conditions(step)
          /\ text[k].says = "never" /\ ~IsRule(text, k) => ToTheEnd(text[k]) \in ToSet(step.forbidden)
      <4> HIDE DEF step
      <4> QED BY <3>2, <3>3 DEF SaysAll
    <3>6. ASSUME text[k].says = "never", ~IsRule(text, k)
          PROVE  \E f \in ToSet(d.forbidden_actions) :
                   f.text = ToTheEnd(text[k]) /\ f.citations = step.citations
      <4>1. ToTheEnd(text[k]) \in ToSet(step.forbidden)
        BY <3>5, <3>6
      <4>2. Ban(ToTheEnd(text[k]), step.citations) \in ToSet(d.forbidden_actions)
        BY <2>2, <2>3, <4>1
      <4> QED BY <4>2 DEF Ban
    <3> QED BY <3>4, <3>5, <3>6 DEF text
  <2> QED BY <2>1, <2>2, <2>5 DEF StepsAreComplete, stepItems
<1>2. NotesInv => StepsAreComplete
  BY <1>1 DEF StepsAreComplete
<1> QED BY <1>2, NotesStay, PTL

-----------------------------------------------------------------------------
(* Citations.                                                              *)

\* The section the parser was in is the section the line stands in.
LEMMA SectionStands ==
  ASSUME NotesInv, IsNote, NEW n \in DOMAIN note, NEW section, StandsIn(note, n, section)
  PROVE  SectionAt(n) = section
<1> DEFINE titles == {m \in DOMAIN note : note[m] = TitleLine}
           titled(m) == m \in titles /\ \A k \in titles : m <= k
           heads == {m \in 1 .. n : note[m].type = "heading" /\ ~titled(m)}
<1>1. DOMAIN note = 1 .. Len(note) /\ Len(note) \in Nat /\ \A m \in DOMAIN note : note[m] \in NoteLines
  BY NoteIsRead
<1>2. \A m \in DOMAIN note : TopHeading(note[m]) <=> m \in titles
  <2>1. \A line \in NoteLines : TopHeading(line) <=> line = TitleLine
    BY DEF NoteLines, TopHeading, TitleLine, Heading, Item, Text, Blank
  <2> QED BY <1>1, <2>1
<1>3. titles \subseteq 1 .. Len(note)
  BY <1>1
<1> HIDE DEF titles
<1>4. ASSUME NEW m \in 1 .. n PROVE OpensSection(note, m) <=> m \in heads
  <2>1. m \in DOMAIN note /\ m \in Nat
    BY <1>1
  <2>2. Titled(note, m - 1) <=> \E k \in titles : ~(m <= k)
    <3>1. \A k \in 1 .. m - 1 : k \in DOMAIN note /\ ~(m <= k)
      BY <1>1
    <3>2. \A k \in titles : ~(m <= k) => k \in 1 .. m - 1
      BY <1>1, <1>3
    <3>3. titles \subseteq DOMAIN note
      BY <1>1, <1>3
    <3> QED BY <1>2, <3>1, <3>2, <3>3 DEF Titled
  <2>3. titled(m) <=> m \in titles /\ ~Titled(note, m - 1)
    BY <2>2
  <2> HIDE DEF titled
  <2> QED BY <1>2, <2>1, <2>3 DEF OpensSection
<1>5. SectionAt(n) = IF heads = {} THEN "steps"
                     ELSE note[CHOOSE m \in heads : \A k \in heads : k <= m].section
  BY DEF SectionAt, titles
<1>6. heads \subseteq 1 .. n
  OBVIOUS
<1> HIDE DEF heads
<1>7. CASE section = "steps" /\ \A m \in 1 .. n : ~OpensSection(note, m)
  <2>1. heads = {}
    BY <1>4, <1>6, <1>7
  <2> QED BY <1>5, <1>7, <2>1
<1>8. CASE ~(section = "steps" /\ \A m \in 1 .. n : ~OpensSection(note, m))
  <2>1. PICK m \in 1 .. n : /\ OpensSection(note, m) /\ section = note[m].section
                            /\ \A i \in 1 .. n : OpensSection(note, i) => i <= m
    BY <1>8 DEF StandsIn
  <2>2. m \in heads /\ \A k \in heads : k <= m
    BY <1>4, <1>6, <2>1
  <2>3. ASSUME NEW l \in heads, \A k \in heads : k <= l PROVE l = m
    <3>1. l <= m /\ m <= l /\ l \in Nat /\ m \in Nat
      BY <1>1, <1>6, <2>2, <2>3
    <3> QED BY <3>1
  <2>4. (CHOOSE l \in heads : \A k \in heads : k <= l) = m
    BY <2>2, <2>3
  <2>5. heads # {}
    BY <2>2
  <2> QED BY <1>5, <2>1, <2>4, <2>5
<1> QED BY <1>7, <1>8

\* Whatever is said in an item is found where the item is cited.
LEMMA ItemLeads ==
  ASSUME NotesInv, IsNote, NEW i \in DOMAIN items,
         NEW entry, entry.citations = Citations(items[i]),
         NEW texts, \A t \in texts : OfItem(t, items[i]), NEW sections, items[i].section \in sections
  PROVE  Leads(entry, texts, sections)
<1> DEFINE item == items[i]
<1>1. /\ DOMAIN note = 1 .. Len(note) /\ Len(note) \in Nat
      /\ item.line_start \in Nat /\ item.line_end \in Nat
      /\ 1 <= item.line_start /\ item.line_start <= item.line_end /\ item.line_end <= Len(note)
      /\ Quotes(item, note)
  <2>1. items \in Seq(ItemsAbout(Contents)) /\ Covers(items, note, Len(note))
        /\ DOMAIN note = 1 .. Len(note) /\ Len(note) \in Nat
    BY NoteIsRead
  <2>2. item \in ItemsAbout(Contents)
    BY <2>1
  <2> QED BY <2>1, <2>2 DEF Covers, ItemsAbout
<1>2. CitedLines(entry) = ItemLines(item)
  BY DEF CitedLines, Citations, ItemLines
<1>3. \A n \in ItemLines(item) : n \in DOMAIN note /\ Says(note[n]) /\ StandsIn(note, n, item.section)
  BY <1>1 DEF Quotes, ItemLines
<1>4. ASSUME NEW t \in texts
      PROVE  \E n \in CitedLines(entry) :
               Speaks(n) /\ Said(n) = t.line /\ t.parts \subseteq Parts(Said(n))
  <2> DEFINE m == item.line_end - item.line_start + 1
  <2>1. item.text = [j \in 1 .. m |-> note[item.line_start + j - 1].content]
    BY <1>1 DEF Quotes
  <2>2. PICK j \in DOMAIN item.text : OfLine(t, item.text[j])
    BY DEF OfItem
  <2> DEFINE at == item.line_start + j - 1
  <2>3. j \in 1 .. m /\ OfLine(t, note[at].content)
    BY <2>1, <2>2
  <2>4. at \in ItemLines(item)
    BY <1>1, <2>3 DEF ItemLines
  <2> HIDE DEF at, m
  <2>5. Speaks(at)
    BY <1>3, <2>4 DEF Speaks, Says
  <2>6. Said(at) = t.line /\ t.parts \subseteq Parts(Said(at))
    BY <2>3 DEF Said, OfLine
  <2> QED BY <1>2, <2>4, <2>5, <2>6
<1>5. ASSUME NEW n \in CitedLines(entry) PROVE SectionAt(n) \in sections
  BY <1>2, <1>3, <1>5, SectionStands
<1> QED BY <1>4, <1>5 DEF Leads

\* Of the notes of the runs: whoever follows a citation finds what the document
\* says there, in a section of its kind (citations, compileParsed).
THEOREM CitationsLead == Spec => []CitationsLeadToTheText
<1>1. ASSUME NotesInv, IsNote PROVE CitationsLeadToTheText
  <2> DEFINE d == CompileParsed(items)
             stepItems == SectionItems(items, "steps")
             ruleItems == SectionItems(items, "decision_rules")
             banItems == SectionItems(items, "forbidden")
             outItems == SectionItems(items, "outcomes")
  <2>1. items \in Seq(Spoken(Contents)) /\ document = d
    BY <1>1, NoteIsRead
  <2>2. ASSUME NEW section, NEW j \in DOMAIN SectionItems(items, section)
        PROVE  LET item == SectionItems(items, section)[j]
               IN  /\ item \in Spoken(Contents) /\ item.text \in Seq(Contents) /\ FirstLine(item) \in Quoting(Contents)
                   /\ OfItem(FirstLine(item), item)
                   /\ \A entry, texts, sections :
                        /\ entry.citations = Citations(item)
                        /\ (\A t \in texts : OfItem(t, item)) /\ section \in sections
                        => Leads(entry, texts, sections)
    <3> DEFINE item == SectionItems(items, section)[j]
    <3>1. item \in Spoken(Contents) /\ item.section = section /\ \E k \in DOMAIN items : item = items[k]
      BY <2>1, ItemsOfSection
    <3>2. item.text \in Seq(Contents) /\ item.text # <<>>
      BY <3>1 DEF Spoken, ItemsAbout
    <3>3. FirstLine(item) \in Quoting(Contents) /\ OfItem(FirstLine(item), item)
      <4> HIDE DEF item
      <4>1. 1 \in DOMAIN item.text
        BY <3>2
      <4> QED BY <3>2, <4>1, FirstLineQuotes DEF OfItem
    <3> HIDE DEF item
    <3>4. \A entry, texts, sections :
            /\ entry.citations = Citations(item)
            /\ (\A t \in texts : OfItem(t, item)) /\ section \in sections
            => Leads(entry, texts, sections)
      BY <1>1, <3>1, ItemLeads
    <3> QED BY <3>1, <3>2, <3>3, <3>4 DEF item
  <2>3. /\ DOMAIN d.steps = DOMAIN stepItems
        /\ \A k \in DOMAIN d.steps : StepFrom(d.steps[k], stepItems[k], k, Contents)
    BY <2>1, DocumentIsCompiled
  <2>4. ToSet(d.forbidden_actions) = BansOfItems(banItems) \cup BansOfSteps(d.steps)
    BY <2>1, DocumentBans
  <2>5. /\ d.decision_rules = [i \in DOMAIN ruleItems |-> GlobalRule(ruleItems[i])]
        /\ d.outcomes = [i \in DOMAIN outItems |->
                           [text |-> FirstLine(outItems[i]), citations |-> Citations(outItems[i])]]
    BY DEF CompileParsed, Each, Cited
  <2> HIDE DEF d
  <2>6. ASSUME NEW k \in DOMAIN d.steps
        PROVE  /\ Leads(d.steps[k], StepSays(d.steps[k]), {"steps"})
               /\ \A c \in ToSet(d.steps[k].forbidden) :
                    Leads(Ban(c, d.steps[k].citations), {c}, {"forbidden", "steps"})
    <3> DEFINE p == d.steps[k]
               item == stepItems[k]
    <3>1. p.citations = Citations(item) /\ SaysAll(p, item.text, Len(item.text)) /\ item.text \in Seq(Contents)
      BY <2>2, <2>3 DEF StepFrom
    <3>2. \A t \in StepSays(p) : OfItem(t, item)
      <4>1. DOMAIN item.text = 1 .. Len(item.text)
        BY <3>1
      <4> HIDE DEF p, item
      <4> QED BY <3>1, <4>1 DEF SaysAll, OfItem
    <3>3. ToSet(p.forbidden) \subseteq StepSays(p)
      BY DEF StepSays
    <3>4. \A entry, texts, sections :
            /\ entry.citations = Citations(item)
            /\ (\A t \in texts : OfItem(t, item)) /\ "steps" \in sections
            => Leads(entry, texts, sections)
      BY <2>2, <2>3
    <3> HIDE DEF p, item
    <3>5. Leads(p, StepSays(p), {"steps"})
      BY <3>1, <3>2, <3>4
    <3>6. ASSUME NEW c \in ToSet(p.forbidden) PROVE Leads(Ban(c, p.citations), {c}, {"forbidden", "steps"})
      <4>1. Ban(c, p.citations).citations = Citations(item) /\ \A t \in {c} : OfItem(t, item)
        BY <3>1, <3>2, <3>3 DEF Ban
      <4> QED BY <3>4, <4>1
    <3> QED BY <3>5, <3>6 DEF p
  <2>7. ASSUME NEW i \in DOMAIN ruleItems
        PROVE  LET r == GlobalRule(ruleItems[i]) IN Leads(r, {r.then} \ {Whole(ApplyTheRule)}, {"decision_rules"})
    <3> DEFINE r == GlobalRule(ruleItems[i])
               texts == {r.then} \ {Whole(ApplyTheRule)}
    <3>1. r.citations = Citations(ruleItems[i]) /\ r.then \in {FirstLine(ruleItems[i]), Whole(ApplyTheRule)}
      BY DEF GlobalRule, Rule, FirstLine
    <3>2. OfItem(FirstLine(ruleItems[i]), ruleItems[i])
      BY <2>2
    <3> HIDE DEF r
    <3>3. \A t \in texts : OfItem(t, ruleItems[i])
      BY <3>1, <3>2
    <3> HIDE DEF texts
    <3>4. Leads(r, texts, {"decision_rules"})
      BY <2>2, <3>1, <3>3
    <3> QED BY <3>4 DEF r, texts
  <2>8. ASSUME NEW f \in ToSet(d.forbidden_actions)
        PROVE  Leads(f, {f.text}, {"forbidden", "steps"})
    <3>1. CASE \E i \in DOMAIN banItems : f = Ban(Banned(banItems[i]), Citations(banItems[i]))
      <4>1. PICK i \in DOMAIN banItems : f = Ban(Banned(banItems[i]), Citations(banItems[i]))
        BY <3>1
      <4>2. f.text = Banned(banItems[i]) /\ f.citations = Citations(banItems[i])
        BY <4>1 DEF Ban
      <4>3. \A t \in {f.text} : OfItem(t, banItems[i])
        <5>1. banItems[i] \in Spoken(Contents)
          BY <2>2
        <5> QED BY <4>2, <5>1, BannedIsSaid
      <4> QED BY <2>2, <4>2, <4>3
    <3>2. CASE \E k \in DOMAIN d.steps : \E c \in ToSet(d.steps[k].forbidden) :
                 f = Ban(c, d.steps[k].citations)
      <4>a. PICK k \in DOMAIN d.steps :
              \E c \in ToSet(d.steps[k].forbidden) : f = Ban(c, d.steps[k].citations)
        BY <3>2
      <4>1. PICK c \in ToSet(d.steps[k].forbidden) : f = Ban(c, d.steps[k].citations)
        BY <4>a
      <4>2. f.text = c
        BY <4>1 DEF Ban
      <4> QED BY <2>6, <4>1, <4>2
    <3> QED BY <2>4, <3>1, <3>2 DEF BansOfItems, BansOfSteps
  <2>9. ASSUME NEW i \in DOMAIN outItems
        PROVE  Leads(d.outcomes[i], {d.outcomes[i].text}, {"outcomes"})
    <3>1. d.outcomes[i].text = FirstLine(outItems[i]) /\ d.outcomes[i].citations = Citations(outItems[i])
      BY <2>5
    <3>2. \A t \in {d.outcomes[i].text} : OfItem(t, outItems[i])
      BY <2>2, <3>1
    <3> QED BY <2>2, <3>1, <3>2
  <2> HIDE DEF stepItems, ruleItems, banItems, outItems
  <2>10. \A s \in ToSet(d.steps) : Leads(s, StepSays(s), {"steps"})
    BY <2>6 DEF ToSet
  <2>11. \A r \in ToSet(d.decision_rules) : Leads(r, {r.then} \ {Whole(ApplyTheRule)}, {"decision_rules"})
    BY <2>5, <2>7 DEF ToSet
  <2>12. \A o \in ToSet(d.outcomes) : Leads(o, {o.text}, {"outcomes"})
    BY <2>5, <2>9 DEF ToSet
  <2> QED BY <2>1, <2>8, <2>10, <2>11, <2>12 DEF CitationsLeadToTheText
<1>2. NotesInv => CitationsLeadToTheText
  BY <1>1 DEF CitationsLeadToTheText
<1> QED BY <1>2, NotesStay, PTL
=============================================================================
