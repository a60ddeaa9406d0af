------------------------------- MODULE LineTree -------------------------------
(***************************************************************************)
(* How CodeMirror keeps the lines of a text: in a tree of chunks with the  *)
(* numbers and heights of the lines below them.  updateDoc turns a change  *)
(* into lines that are updated, removed and inserted.                      *)
(***************************************************************************)
EXTENDS EditorText, FiniteSetsExt

CONSTANTS
  ChunkLines,    \* 25: a full leaf is split into leaves of so many lines
  ChunkNodes,    \* 5: a full branch into branches with so many children
  Inserted,      \* bounds of the model: what changes put in,
  MaxLines,      \* how many lines a text may have,
  MaxChars       \* and how many characters in all

ASSUME LineTreeAssumption ==
  /\ {ChunkLines, ChunkNodes, MaxLines} \subseteq Nat \ {0} /\ MaxChars \in Nat
  /\ \A t \in Inserted : Len(t) > 0

VARIABLES
  doc,      \* the tree
  said      \* history: what the text should be

treeOfLinesVars == <<doc, said>>

TreeLine(chars) == [text |-> chars, height |-> 1]
HeightOf(nodes) == FoldLeft(LAMBDA h, n : h + n.height, 0, nodes)

IsLeaf(node) == "lines" \in DOMAIN node
ChunkSize(node) == IF IsLeaf(node) THEN Len(node.lines) ELSE node.size

LeafChunk(lines) == [lines |-> lines, height |-> HeightOf(lines)]
BranchChunk(children) ==
  [children |-> children, height |-> HeightOf(children),
   size |-> FoldLeft(LAMBDA n, c : n + ChunkSize(c), 0, children)]

RECURSIVE Lines(_)
Lines(node) ==
  IF IsLeaf(node) THEN node.lines ELSE FlattenSeq([i \in DOMAIN node.children |-> Lines(node.children[i])])

Texts(lines) == [i \in DOMAIN lines |-> lines[i].text]

\* How many lines are in the children before the i-th.
SizeBefore(children, i) == FoldLeft(LAMBDA n, c : n + ChunkSize(c), 0, SubSeq(children, 1, i - 1))

-----------------------------------------------------------------------------
\* A leaf that has grown over twice its size keeps what does not fill a leaf, and more.
SplitLeaf(leaf) ==
  IF Len(leaf.lines) <= 2 * ChunkLines THEN <<leaf>>
  ELSE LET remaining == (Len(leaf.lines) % ChunkLines) + ChunkLines
           count == (Len(leaf.lines) - remaining) \div ChunkLines
           new == [i \in 1..count |->
                     LeafChunk(SubSeq(leaf.lines, remaining + (i - 1) * ChunkLines + 1,
                                      remaining + i * ChunkLines))]
       IN  <<[lines |-> SubSeq(leaf.lines, 1, remaining), height |-> leaf.height - HeightOf(new)]>>
             \o new

\* maybeSpill: branches with the last children become siblings.
RECURSIVE Spill(_)
Spill(node) ==
  IF Len(node.children) <= 2 * ChunkNodes THEN <<node>>
  ELSE LET keep == Len(node.children) - ChunkNodes
           sibling == BranchChunk(SubSeq(node.children, keep + 1, Len(node.children)))
       IN  Spill([children |-> SubSeq(node.children, 1, keep), size |-> node.size - sibling.size,
                  height |-> node.height - sibling.height]) \o <<sibling>>

\* The root becomes the parent of what it is split into.
RECURSIVE SpillRoot(_)
SpillRoot(node) ==
  LET pieces == Spill(node)
  IN  IF Len(pieces) = 1 THEN node ELSE SpillRoot([node EXCEPT !.children = pieces])

Pieces(node) == IF IsLeaf(node) THEN SplitLeaf(node) ELSE Spill(node)

\* insertInner: a node with the lines put in below it, before it is split itself.
RECURSIVE Grown(_, _, _)
Grown(node, at, lines) ==
  IF IsLeaf(node)
    THEN [lines |-> SubSeq(node.lines, 1, at) \o lines
                      \o SubSeq(node.lines, at + 1, Len(node.lines)),
          height |-> node.height + HeightOf(lines)]
    ELSE LET children == node.children
             i == Min({k \in DOMAIN children : at <= SizeBefore(children, k + 1)})
         IN  [children |-> SubSeq(children, 1, i - 1)
                             \o Pieces(Grown(children[i], at - SizeBefore(children, i), lines))
                             \o SubSeq(children, i + 1, Len(children)),
              size |-> node.size + Len(lines), height |-> node.height + HeightOf(lines)]

Insert(node, at, lines) == SpillRoot(Grown(node, at, lines))

\* Mutant: a branch that has become small stays one.
CollapseMutant(node) == node

\* A branch with few lines has them in one leaf.
Collapse(node) ==
  IF node.size < ChunkLines
       /\ (Len(node.children) # 1 \/ ~IsLeaf(node.children[1]))
    THEN [node EXCEPT !.children = <<LeafChunk(Lines(node))>>]
    ELSE node

\* removeInner: a child that loses all its lines goes.
RECURSIVE RemoveInner(_, _, _)
RemoveInner(node, at, n) ==
  IF IsLeaf(node)
    THEN LET gone == SubSeq(node.lines, at + 1, at + n)
         IN  [lines |-> SubSeq(node.lines, 1, at) \o SubSeq(node.lines, at + n + 1, Len(node.lines)),
              height |-> node.height - HeightOf(gone)]
    ELSE LET first(i) == Max({at - SizeBefore(node.children, i), 0})
             count(i) == Min({at + n, SizeBefore(node.children, i + 1)})
                           - Max({at, SizeBefore(node.children, i)})
             after == [i \in DOMAIN node.children |->
                         IF count(i) <= 0 THEN <<node.children[i]>>
                         ELSE IF count(i) = ChunkSize(node.children[i]) THEN <<>>
                         ELSE <<RemoveInner(node.children[i], first(i), count(i))>>]
             lost == HeightOf(node.children) - HeightOf(FlattenSeq(after))
         IN  Collapse([children |-> FlattenSeq(after), size |-> node.size - n,
                       height |-> node.height - lost])

\* updateLine, with updateLineHeight up to the root.
RECURSIVE SetLine(_, _, _)
SetLine(node, n, line) ==
  IF IsLeaf(node)
    THEN [lines |-> [node.lines EXCEPT ![n + 1] = line],
          height |-> node.height + line.height - node.lines[n + 1].height]
    ELSE LET i == Min({k \in DOMAIN node.children : n < SizeBefore(node.children, k + 1)})
             child == SetLine(node.children[i], n - SizeBefore(node.children, i), line)
         IN  [node EXCEPT !.children[i] = child,
                          !.height = @ + child.height - node.children[i].height]

RECURSIVE GetLine(_, _)
GetLine(node, n) ==
  IF IsLeaf(node) THEN node.lines[n + 1]
  ELSE LET i == Min({k \in DOMAIN node.children : n < SizeBefore(node.children, k + 1)})
       IN  GetLine(node.children[i], n - SizeBefore(node.children, i))

\* The line at a height, and the height above a line.
RECURSIVE LineAtHeight(_, _)
LineAtHeight(node, h) ==
  LET parts == IF IsLeaf(node) THEN node.lines ELSE node.children
      Above(i) == HeightOf(SubSeq(parts, 1, i - 1))
      hit == {i \in DOMAIN parts : h < Above(i + 1)}
  IN  IF IsLeaf(node) THEN IF hit = {} THEN Len(parts) ELSE Min(hit) - 1
      ELSE IF hit = {} THEN node.size
      ELSE SizeBefore(parts, Min(hit)) + LineAtHeight(parts[Min(hit)], h - Above(Min(hit)))

RECURSIVE HeightAtLine(_, _)
HeightAtLine(node, n) ==
  IF IsLeaf(node) THEN HeightOf(SubSeq(node.lines, 1, n))
  ELSE LET i == Min({k \in DOMAIN node.children : n < SizeBefore(node.children, k + 1)})
       IN  HeightOf(SubSeq(node.children, 1, i - 1))
             + HeightAtLine(node.children[i], n - SizeBefore(node.children, i))

-----------------------------------------------------------------------------
IsWholeLineUpdate(c) == Ch(c.from) = 0 /\ Ch(c.to) = 0 /\ Last(c.text) = <<>>

LinesFor(texts) == [i \in DOMAIN texts |-> TreeLine(texts[i])]

UpdateTree(tree, c) ==
  LET from == LineNo(c.from)
      to == LineNo(c.to)
      before == SubSeq(GetLine(tree, from).text, 1, Ch(c.from))
      rest == GetLine(tree, to).text
      after == SubSeq(rest, Ch(c.to) + 1, Len(rest))
      Drop(node, at, n) == IF n = 0 THEN node ELSE RemoveInner(node, at, n)
      inner == SubSeq(c.text, 2, Len(c.text) - 1)
  IN  IF IsWholeLineUpdate(c)
        THEN LET same == SetLine(tree, to, TreeLine(rest))
                 added == LinesFor(Front(c.text))
                 fewer == Drop(same, from, to - from)
             IN  IF added = <<>> THEN fewer ELSE Insert(fewer, from, added)
      ELSE IF Len(c.text) = 1
        THEN Drop(SetLine(tree, from, TreeLine(before \o c.text[1] \o after)), from + 1, to - from)
      ELSE IF from = to
        THEN Insert(SetLine(tree, from, TreeLine(before \o c.text[1])), from + 1,
                    LinesFor(Append(inner, Last(c.text) \o after)))
        ELSE LET first == SetLine(tree, from, TreeLine(before \o c.text[1]))
                 last == SetLine(first, to, TreeLine(Last(c.text) \o after))
             IN  Insert(Drop(last, from + 1, to - from - 1), from + 1, LinesFor(inner))

\* setValue changes the text in full: its lines go in before the old ones go.
SetFull(tree, text) ==
  RemoveInner(Insert(tree, 0, LinesFor(text)), Len(text), tree.size)

-----------------------------------------------------------------------------
TreeOfLinesInit ==
  /\ doc = BranchChunk(<<LeafChunk(<<TreeLine(<<>>)>>)>>)
  /\ said = << <<>> >>

Chars(text) == FoldLeft(LAMBDA n, l : n + Len(l), 0, text)
Bounded(text) == Len(text) <= MaxLines /\ Chars(text) <= MaxChars

ReplaceRange(from, to, text) ==
  /\ NotAfter(from, to)
  /\ said' = Changed(said, Change(from, to, text))
  /\ Bounded(said')
  /\ doc' = UpdateTree(doc, Change(from, to, text))

SetTree(text) ==
  /\ said' = text
  /\ doc' = SetFull(doc, text)

\* updateHeightsInViewport: a line with characters turns out to be taller.
Measure(n) ==
  /\ said[n + 1] # <<>>
  /\ doc' = SetLine(doc, n, [GetLine(doc, n) EXCEPT !.height = 2])
  /\ UNCHANGED said

TreeOfLinesNext ==
  \/ \E from, to \in Positions(said), text \in Inserted : ReplaceRange(from, to, text)
  \/ \E text \in Inserted : SetTree(text)
  \/ \E n \in 0..Len(said) - 1 : Measure(n)

-----------------------------------------------------------------------------
RECURSIVE WellFormed(_)
WellFormed(node) ==
  IF IsLeaf(node) THEN node.height = HeightOf(node.lines) /\ Len(node.lines) <= 2 * ChunkLines
  ELSE /\ node.size = Len(Lines(node)) /\ node.height = HeightOf(Lines(node))
       /\ Len(node.children) \in 1..2 * ChunkNodes
       /\ \A i \in DOMAIN node.children :
            ChunkSize(node.children[i]) > 0 /\ WellFormed(node.children[i])
       /\ node.size < ChunkLines => Len(node.children) = 1 /\ IsLeaf(node.children[1])

\* However changes split, spill and collapse the chunks: the lines are those of the
\* text, found by number and by height, and no chunk is empty or over its size.
TreeIsTheText ==
  LET lines == Lines(doc)
  IN  /\ Texts(lines) = said /\ WellFormed(doc)
      /\ \A n \in 0..Len(said) - 1 :
           /\ GetLine(doc, n) = lines[n + 1]
           /\ HeightAtLine(doc, n) = HeightOf(SubSeq(lines, 1, n))
           /\ LineAtHeight(doc, HeightAtLine(doc, n)) = n

=============================================================================
