------------------------------ MODULE EditorText ------------------------------
(***************************************************************************)
(* Positions, changes and selections of the SQL editor (CodeMirror).       *)
(* A text is a sequence of lines, a line a sequence of characters.  As in  *)
(* the code, lines and characters of a position count from 0, and a change *)
(* says what replaces the part of the text from one position to another.   *)
(***************************************************************************)
EXTENDS Integers, Sequences, SequencesExt

Pos(line, ch) == <<line, ch>>
LineNo(pos) == pos[1]
Ch(pos) == pos[2]

Before(a, b) == LineNo(a) < LineNo(b) \/ (LineNo(a) = LineNo(b) /\ Ch(a) < Ch(b))
NotAfter(a, b) == ~Before(b, a)
MinPos(a, b) == IF Before(b, a) THEN b ELSE a
MaxPos(a, b) == IF Before(a, b) THEN b ELSE a

LastLine(text) == Len(text) - 1
LengthAt(text, line) == Len(text[line + 1])
EndOf(text) == Pos(LastLine(text), LengthAt(text, LastLine(text)))
Positions(text) == UNION {{Pos(l, c) : c \in 0..LengthAt(text, l)} : l \in 0..LastLine(text)}

ClipPos(text, pos) ==
  IF LineNo(pos) < 0 THEN Pos(0, 0)
  ELSE IF LineNo(pos) > LastLine(text) THEN EndOf(text)
  ELSE Pos(LineNo(pos), IF Ch(pos) > LengthAt(text, LineNo(pos)) THEN LengthAt(text, LineNo(pos))
                        ELSE IF Ch(pos) < 0 THEN 0 ELSE Ch(pos))

-----------------------------------------------------------------------------
Change(from, to, text) == [from |-> from, to |-> to, text |-> text]

\* The lines between two positions.
GetBetween(text, from, to) ==
  [i \in 1..LineNo(to) - LineNo(from) + 1 |->
     LET l == LineNo(from) + i - 1
     IN  SubSeq(text[l + 1], IF i = 1 THEN Ch(from) + 1 ELSE 1,
                IF l = LineNo(to) THEN Ch(to) ELSE LengthAt(text, l))]

\* What a change means: the text before, then what it puts in, then the text after.
Joined(a, b) == Front(a) \o <<Last(a) \o Head(b)>> \o Tail(b)
Changed(text, c) ==
  Joined(Joined(GetBetween(text, Pos(0, 0), c.from), c.text), GetBetween(text, c.to, EndOf(text)))

\* Where a change ends in the text after it.
ChangeEnd(c) ==
  Pos(LineNo(c.from) + Len(c.text) - 1,
      Len(Last(c.text)) + IF Len(c.text) = 1 THEN Ch(c.from) ELSE 0)

\* Where a position is after a change: at its end, if the change covers it.
AdjustForChange(pos, c) ==
  IF Before(pos, c.from) THEN pos
  ELSE IF NotAfter(pos, c.to) THEN ChangeEnd(c)
  ELSE Pos(LineNo(pos) + Len(c.text) - (LineNo(c.to) - LineNo(c.from)) - 1,
           Ch(pos) + IF LineNo(pos) = LineNo(c.to) THEN Ch(ChangeEnd(c)) - Ch(c.to) ELSE 0)

-----------------------------------------------------------------------------
\* A selection: its ranges in order, and which of them is the primary one.
Span(anchor, head) == [anchor |-> anchor, head |-> head]
From(r) == MinPos(r.anchor, r.head)
To(r) == MaxPos(r.anchor, r.head)
EmptyRange(r) == r.anchor = r.head
Selection(ranges, primary) == [ranges |-> ranges, prim |-> primary]
SimpleSelection(anchor, head) == Selection(<<Span(anchor, head)>>, 1)
Primary(sel) == sel.ranges[sel.prim]
SomethingSelected(sel) == \E i \in DOMAIN sel.ranges : ~EmptyRange(sel.ranges[i])

\* normalizeSelection: sorted, and ranges that touch are merged.
Merge(prev, cur) ==
  LET from == MinPos(From(prev), From(cur))
      to == MaxPos(To(prev), To(cur))
      inv == IF EmptyRange(prev) THEN From(cur) = cur.head ELSE From(prev) = prev.head
  IN  IF inv THEN Span(to, from) ELSE Span(from, to)

Sooner(ranges, i, j) ==
  \/ Before(From(ranges[i]), From(ranges[j]))
  \/ From(ranges[i]) = From(ranges[j]) /\ i < j

\* The range that n - 1 others come sooner than.
InOrder(ranges, n) ==
  CHOOSE i \in DOMAIN ranges : Cardinality({j \in DOMAIN ranges : Sooner(ranges, j, i)}) = n - 1

AddRange(acc, cur, isPrimary) ==
  IF acc.ranges # <<>> /\ NotAfter(From(cur), To(Last(acc.ranges)))
    THEN Selection(Append(Front(acc.ranges), Merge(Last(acc.ranges), cur)),
                   IF isPrimary THEN Len(acc.ranges) ELSE acc.prim)
    ELSE Selection(Append(acc.ranges, cur), IF isPrimary THEN Len(acc.ranges) + 1 ELSE acc.prim)

NormalizeSelection(ranges, primary) ==
  FoldLeft(LAMBDA acc, i : AddRange(acc, ranges[i], i = primary), Selection(<<>>, 0),
           [n \in DOMAIN ranges |-> InOrder(ranges, n)])

SelAfterChange(sel, c) ==
  NormalizeSelection([i \in DOMAIN sel.ranges |->
                        Span(AdjustForChange(sel.ranges[i].anchor, c),
                              AdjustForChange(sel.ranges[i].head, c))], sel.prim)

\* The cursor one character further (findPosH).
MoveH(text, pos, dir) ==
  IF Ch(pos) + dir \in 0..LengthAt(text, LineNo(pos)) THEN Pos(LineNo(pos), Ch(pos) + dir)
  ELSE IF LineNo(pos) + dir \notin 0..LastLine(text) THEN pos
  ELSE Pos(LineNo(pos) + dir, IF dir < 0 THEN LengthAt(text, LineNo(pos) - 1) ELSE 0)

=============================================================================
