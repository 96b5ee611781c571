------------------------------ MODULE LineDiff ------------------------------
(***************************************************************************)
(* The unified diff an edit is recorded with: the longest common           *)
(* subsequence of the two texts' lines and the hunks cut from it           *)
(* (web/src/sim/diff.ts).  Lines are values; the "---" and "+++" lines and *)
(* the marks before each line are layout and are left out.                 *)
(***************************************************************************)
EXTENDS Filters, FiniteSets, SequencesExt

-----------------------------------------------------------------------------
(* lcsOps.                                                                 *)

\* A place in each text, the end of it included.
Places(before, after) == (1 .. Len(before) + 1) \X (1 .. Len(after) + 1)

\* Variant: the greedy table, which scores the next equal line only.
NextEqualOnly(before, after) ==
  [p \in Places(before, after) |->
     IF p[1] <= Len(before) /\ p[2] <= Len(after) /\ before[p[1]] = after[p[2]] THEN 1 ELSE 0]

\* table[i][j]: the longest common subsequence of what follows i and j.  A
\* length is a natural number; in the code it has 16 bits, more than a note needs.
Table(before, after) ==
  LET larger(m, n) == IF m > n THEN m ELSE n
      length[p \in Places(before, after)] ==
        LET i == p[1]
            j == p[2]
        IN  IF i > Len(before) \/ j > Len(after) THEN 0
            ELSE IF before[i] = after[j] THEN 1 + length[<<i + 1, j + 1>>]
            ELSE larger(length[<<i + 1, j>>], length[<<i, j + 1>>])
  IN  length

Equal(i, j, line) == [type |-> "equal", a |-> i, b |-> j, line |-> line]
Delete(i, line) == [type |-> "delete", a |-> i, b |-> 0, line |-> line]
Insert(j, line) == [type |-> "insert", a |-> 0, b |-> j, line |-> line]

LcsOps(before, after) ==
  LET table == Table(before, after)
      ops[p \in Places(before, after)] ==
        LET i == p[1]
            j == p[2]
            equal  == <<Equal(i, j, before[i])>> \o ops[<<i + 1, j + 1>>]
            delete == <<Delete(i, before[i])>> \o ops[<<i + 1, j>>]
            insert == <<Insert(j, after[j])>> \o ops[<<i, j + 1>>]
        IN  IF i > Len(before) THEN IF j > Len(after) THEN <<>> ELSE insert
            ELSE IF j > Len(after) THEN delete
            ELSE IF before[i] = after[j] THEN equal
            ELSE IF table[<<i + 1, j>>] >= table[<<i, j + 1>>] THEN delete ELSE insert
  IN  ops[<<1, 1>>]

-----------------------------------------------------------------------------
(* unifiedDiff.                                                            *)

IsChange(op) == op.type # "equal"

\* Variant: a hunk ends at the first line that is the same.
AtFirstEqual(ops, index, context) ==
  CHOOSE end \in index .. Len(ops) + 1 :
    /\ end > Len(ops) \/ ~IsChange(ops[end])
    /\ \A k \in index .. end - 1 : IsChange(ops[k])

\* Where the hunk's changes end: nothing changes in the next 2 * context + 1.
ChangesEnd(ops, index, context) ==
  LET quiet(end) ==
        \A k \in end .. end + 2 * context : k \in DOMAIN ops => ~IsChange(ops[k])
  IN  CHOOSE end \in index .. Len(ops) + 1 :
        /\ quiet(end)
        /\ \A e \in index .. end - 1 : ~quiet(e)

\* The first line number of a side in a slice, and 1 when it has none.
FirstOf(slice, side) ==
  IF \E k \in DOMAIN slice : slice[k][side] # 0
  THEN slice[CHOOSE k \in DOMAIN slice :
               /\ slice[k][side] # 0
               /\ \A l \in 1 .. k - 1 : slice[l][side] = 0][side]
  ELSE 1

\* Variant: the header counts the lines of the slice.
AllLines(slice, side) == Len(slice)

CountOf(slice, side) == Cardinality({k \in DOMAIN slice : slice[k][side] # 0})

Hunk(slice) ==
  [aStart |-> FirstOf(slice, "a"), aCount |-> CountOf(slice, "a"),
   bStart |-> FirstOf(slice, "b"), bCount |-> CountOf(slice, "b"), ops |-> slice]

\* The hunks, front to back; none when the texts are equal.
UnifiedDiff(before, after, context) ==
  LET ops == LcsOps(before, after)
      hunks[index \in 1 .. Len(ops) + 1] ==
        IF index > Len(ops) THEN <<>>
        ELSE IF ~IsChange(ops[index]) THEN hunks[index + 1]
        ELSE LET start == IF index > context THEN index - context ELSE 1
                 end   == ChangesEnd(ops, index, context)
                 stop  == IF end + context > Len(ops) + 1 THEN Len(ops) + 1 ELSE end + context
             IN  <<Hunk(SubSeq(ops, start, stop - 1))>> \o hunks[stop]
  IN  hunks[1]
=============================================================================
