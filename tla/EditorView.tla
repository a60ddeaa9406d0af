------------------------------ MODULE EditorView ------------------------------
(***************************************************************************)
(* What the SQL editor shows (CodeMirror): display.view tracks the lines   *)
(* around the window through every change, an operation ends by bringing   *)
(* the DOM up to date with it, and a worker highlights in the background,  *)
(* from the frontier on, as the mode's state goes on from line to line.    *)
(* All lines have the same height; positions in pixels count lines.        *)
(***************************************************************************)
EXTENDS EditorText, SqlMode

CONSTANTS
  FirstTexts,       \* what an editor begins with
  ViewTexts,        \* what is put in
  Window,           \* the height of the editor
  Margin, Keep,     \* viewportMargin (10), and how much more may stay drawn (20)
  Ahead,            \* lines below the view that the worker highlights too (500)
  SaveEvery,        \* a state is kept after each so manieth line (5),
  Lookback,         \* and looked for in so many lines (100)
  WidthAt,          \* from so many lines on the line numbers are wider (10)
  MaxLinesShown,    \* bounds of the model: lines,
  MaxChanges        \* and changes

ASSUME EditorViewAssumption ==
  /\ {Window, Margin, SaveEvery, Lookback} \subseteq Nat \ {0}
  /\ {Keep, Ahead, WidthAt, MaxLinesShown, MaxChanges} \subseteq Nat

VARIABLES
  cm,         \* the editor: its lines, display and worker
  changes     \* changes so far
viewVars == <<cm, changes>>

NotDrawn == 0
NoLine == -1                       \* null, for a line number
Size(v) == Len(v.lines)
LineTexts(v) == [i \in DOMAIN v.lines |-> v.lines[i].text]

\* A line caches the state of the mode after it and its styles: <<>> for null.
\* skipped is history: the worker passed the line out of view and left its styles.
Line(id, text) == [id |-> id, text |-> text, after |-> <<>>, styles |-> <<>>, skipped |-> FALSE]
ReText(line, text) == Line(line.id, text)

LineView(line) == [line |-> line.id, node |-> NotDrawn, changed |-> FALSE]
BuildViewArray(v, from, to) == [i \in 1..to - from |-> LineView(v.lines[from + i])]

FreshIds(used, n) == SubSeq(SetToSortSeq(1..Cardinality(used) + n \ used, <), 1, n)

-----------------------------------------------------------------------------
\* updateDoc: which line objects stay when the text changes.
UpdateDoc(v, c, full) ==
  LET used == {l.id : l \in ToSet(v.lines)} \cup {e.line : e \in ToSet(v.view)} \cup {v.maxLine}
      ids == FreshIds(used, Len(c.text))
      New(a, b) == [i \in 1..b - a |-> Line(ids[a + i], c.text[a + i])]
      first == v.lines[LineNo(c.from) + 1]
      last == v.lines[LineNo(c.to) + 1]
      n == Len(c.text)
      head == SubSeq(first.text, 1, Ch(c.from))
      tail == SubSeq(last.text, Ch(c.to) + 1, Len(last.text))
      above == SubSeq(v.lines, 1, LineNo(c.from))
      below == SubSeq(v.lines, LineNo(c.to) + 2, Len(v.lines))
      wholeLine == Ch(c.from) = 0 /\ Ch(c.to) = 0 /\ Last(c.text) = <<>>
      middle ==
        CASE full -> New(0, n)
          [] ~full /\ wholeLine -> New(0, n - 1) \o <<ReText(last, last.text)>>
          [] ~full /\ ~wholeLine /\ n = 1 -> <<ReText(first, head \o c.text[1] \o tail)>>
          [] ~full /\ ~wholeLine /\ n > 1 /\ LineNo(c.from) = LineNo(c.to) ->
               <<ReText(first, head \o c.text[1])>> \o New(1, n - 1)
                 \o <<Line(ids[n], c.text[n] \o tail)>>
          [] OTHER -> <<ReText(first, head \o c.text[1])>> \o New(1, n - 1)
                        \o <<ReText(last, c.text[n] \o tail)>>
  IN  [v EXCEPT !.lines = above \o middle \o below]

ResetView(v) == [v EXCEPT !.viewFrom = 0, !.viewTo = 0, !.view = <<>>, !.rendered = FALSE]

\* regChange: lines from..to-1 of the text before are lendiff more now.
RegChange(v, from, to, lendiff) ==
  LET numbered == IF lendiff # 0 /\ to < v.viewTo /\ (v.numbersFrom = NoLine \/ v.numbersFrom > from)
                    THEN [v EXCEPT !.numbersFrom = from] ELSE v
      d == [numbered EXCEPT !.viewChanged = TRUE]
      n == Len(d.view)
  IN  IF from >= d.viewTo THEN d
      ELSE IF to <= d.viewFrom
        THEN [d EXCEPT !.viewFrom = @ + lendiff, !.viewTo = @ + lendiff]
      ELSE IF from <= d.viewFrom /\ to >= d.viewTo THEN ResetView(d)
      ELSE IF from <= d.viewFrom
        THEN [d EXCEPT !.view = SubSeq(@, to - d.viewFrom + 1, n), !.viewFrom = to + lendiff,
                       !.viewTo = @ + lendiff, !.rendered = FALSE]
      ELSE IF to >= d.viewTo
        THEN [d EXCEPT !.view = SubSeq(@, 1, from - d.viewFrom), !.viewTo = from, !.rendered = FALSE]
      ELSE [d EXCEPT !.view = SubSeq(@, 1, from - d.viewFrom)
                                \o BuildViewArray(d, from, to + lendiff)
                                \o SubSeq(@, to - d.viewFrom + 1, n),
                     !.viewTo = @ + lendiff, !.rendered = FALSE]

\* regLineChange: the text of a drawn line is to be drawn anew.
RegLineChange(v, line) ==
  LET i == line - v.viewFrom + 1
  IN  IF line < v.viewFrom \/ line >= v.viewTo \/ v.view[i].node = NotDrawn
        THEN [v EXCEPT !.viewChanged = TRUE]
      ELSE [v EXCEPT !.viewChanged = TRUE, !.view[i].changed = TRUE]

StartWorker(v) == [v EXCEPT !.armed = @ \/ v.frontier < v.viewTo]

Longest(v, indexes, acc) ==
  FoldLeft(LAMBDA a, i : IF Len(v.lines[i].text) > a.maxLength
                           THEN [a EXCEPT !.maxLine = v.lines[i].id, !.maxLength = Len(v.lines[i].text)]
                           ELSE a, acc, indexes)
FindMaxLine(v) ==
  Longest(v, [i \in DOMAIN v.lines |-> i],
          [v EXCEPT !.maxLine = v.lines[1].id, !.maxLength = Len(v.lines[1].text)])

\* Mutant: what is highlighted already is taken to be right still.
HighlightedToMutant(v, line) == v.frontier
HighlightedTo(v, line) == Min({v.frontier, line})

\* makeChangeSingleDocInEditor.
ChangeInEditor(v, c, full) ==
  LET hadLongest == \E i \in LineNo(c.from) + 1..LineNo(c.to) + 1 : v.lines[i].id = v.maxLine
      Measured(d) == Longest(d, [i \in 1..Len(c.text) |-> LineNo(c.from) + i], d)
      Worked(d) == StartWorker(
        [d EXCEPT !.frontier = HighlightedTo(v, LineNo(c.from)),
                  !.updateMax = @ \/ (hadLongest /\ d.maxLength <= v.maxLength)])
      lendiff == Len(c.text) - (LineNo(c.to) - LineNo(c.from)) - 1
      oneLine == LineNo(c.from) = LineNo(c.to) /\ Len(c.text) = 1
                 /\ ~(Ch(c.from) = 0 /\ Ch(c.to) = 0 /\ Last(c.text) = <<>>)
      Registered(d) == IF full THEN RegChange(d, 0, Size(d), 0)
                       ELSE IF oneLine THEN RegLineChange(d, LineNo(c.from))
                       ELSE RegChange(d, LineNo(c.from), LineNo(c.to) + 1, lendiff)
  IN  Registered(Worked(Measured(UpdateDoc(v, c, full))))

-----------------------------------------------------------------------------
\* findStartLine: below a line whose state is kept, or at the least indented one.
FindStartLine(v, n) ==
  LET searched == {s \in 0..n : s > n - Lookback}
      found == {s \in searched : s = 0 \/ v.lines[s].after # <<>>}
      indented(s) == EatWhile(v.lines[s].text, 1, {" "})
      least == {s \in searched : \A r \in searched : indented(s) <= indented(r)}
  IN  IF found # {} THEN Max(found) ELSE Max(least) - 1

\* getStateBefore: the mode's state before line n, keeping some on the way.
Passed(v, acc, p, n, state) ==
  LET save == p = n - 1 \/ p % SaveEvery = 0 \/ p \in v.viewFrom..v.viewTo - 1
  IN  [lines |-> [acc.lines EXCEPT ![p + 1].after = IF save THEN <<state>> ELSE <<>>],
       state |-> state]
RECURSIVE PassLines(_, _, _, _)
PassLines(v, acc, p, n) ==
  IF p >= n THEN acc
  ELSE PassLines(v, Passed(v, acc, p, n, HighlightLine(acc.lines[p + 1].text, acc.state).state), p + 1, n)
GetStateBefore(v, n) ==
  LET pos == FindStartLine(v, n)
      start == IF pos > 0 /\ v.lines[pos].after # <<>> THEN v.lines[pos].after[1] ELSE StartState
  IN  PassLines(v, [lines |-> v.lines, state |-> start], pos, n)

\* getLineStyles: cached, or from whatever state is found before the line.
StylesKept(v, n, lines, h) ==
  [v EXCEPT !.lines = [lines EXCEPT ![n + 1].after = <<h.state>>,
                                    ![n + 1].styles = <<h.styles>>,
                                    ![n + 1].skipped = FALSE],
            !.frontier = IF @ = n THEN @ + 1 ELSE @]
StylesAfter(v, n, before) ==
  StylesKept(v, n, before.lines, HighlightLine(v.lines[n + 1].text, before.state))
GetLineStyles(v, n) ==
  IF v.lines[n + 1].styles # <<>> THEN v ELSE StylesAfter(v, n, GetStateBefore(v, n))

\* patchDisplay: nodes of lines that left the view go, those of new ones come in, and
\* what has changed is drawn anew.  It throws if a node is not where the view has it.
PlaceNode(v, acc, i, styled) ==
  LET n == v.viewFrom + i - 1
      e == acc.view[i]
      fresh == FreshIds({x.node : x \in ToSet(acc.dom)} \cup {x.node : x \in ToSet(acc.done)}, 1)[1]
      Node(id, number) == [node |-> id, text |-> styled.lines[n + 1].text,
                           styles |-> styled.lines[n + 1].styles[1], number |-> number]
      at == {j \in DOMAIN acc.dom : acc.dom[j].node = e.node}
      old == acc.dom[Max(at)]
      number == IF v.numbersFrom # NoLine /\ v.numbersFrom <= n THEN n + 1 ELSE old.number
  IN  IF e.node = NotDrawn
        THEN [styled EXCEPT !.done = Append(@, Node(fresh, n + 1)), !.view[i].node = fresh]
      ELSE IF at = {} THEN [acc EXCEPT !.threw = TRUE]
      ELSE [styled EXCEPT !.done = Append(@, IF e.changed THEN Node(e.node, number)
                                             ELSE [old EXCEPT !.number = number]),
                          !.dom = SubSeq(@, Max(at) + 1, Len(@)), !.view[i].changed = FALSE]
RECURSIVE DrawLines(_, _, _)
DrawLines(v, acc, i) ==
  IF i > Len(v.view) THEN [acc EXCEPT !.dom = acc.done, !.done = <<>>]
  ELSE DrawLines(v, PlaceNode(v, acc, i, IF acc.view[i].node = NotDrawn \/ acc.view[i].changed
                                      THEN GetLineStyles(acc, v.viewFrom + i - 1) ELSE acc), i + 1)
PatchDisplay(v) == DrawLines(v, v, 1)

-----------------------------------------------------------------------------
Digit(n) == IF n < WidthAt THEN 1 ELSE 2
AtHeight(v, h) == IF h < 0 THEN 0 ELSE IF h > Size(v) THEN Size(v) ELSE h

\* visibleLines, with the line an operation ensures (or none).
VisibleLines(v, ensure) ==
  LET from == AtHeight(v, v.top)
      to == AtHeight(v, v.top + Window)
      last == IF ensure < Size(v) - 1 THEN ensure ELSE Size(v) - 1
      seen == IF ensure # NoLine /\ ensure < from THEN [from |-> ensure, to |-> AtHeight(v, ensure + Window)]
              ELSE IF ensure # NoLine /\ last >= to THEN [from |-> AtHeight(v, ensure - Window), to |-> ensure]
              ELSE [from |-> from, to |-> to]
  IN  [seen EXCEPT !.to = IF @ > seen.from THEN @ ELSE seen.from + 1]

Covered(v, seen) == seen.from >= v.viewFrom /\ seen.to <= v.viewTo
Numbered(v) == v.numbersFrom = NoLine \/ v.numbersFrom >= v.viewTo
\* Mutant: lines that are drawn, with their old text, are not counted.
CountDirtyViewMutant(v) == Cardinality({i \in DOMAIN v.view : v.view[i].node = NotDrawn})
CountDirtyView(v) == Cardinality({i \in DOMAIN v.view : v.view[i].node = NotDrawn \/ v.view[i].changed})

AdjustView(v, from, to) ==
  IF v.view = <<>> \/ from >= v.viewTo \/ to <= v.viewFrom
    THEN [v EXCEPT !.view = BuildViewArray(v, from, to), !.viewFrom = from, !.viewTo = to,
                   !.rendered = FALSE]
  ELSE LET top == IF v.viewFrom > from THEN BuildViewArray(v, from, v.viewFrom) \o v.view
                  ELSE SubSeq(v.view, from - v.viewFrom + 1, Len(v.view))
           all == IF v.viewTo < to THEN top \o BuildViewArray(v, v.viewTo, to)
                  ELSE SubSeq(top, 1, to - from)
       IN  [v EXCEPT !.view = all, !.viewFrom = from, !.viewTo = to,
                     !.rendered = @ /\ from = v.viewFrom /\ to = v.viewTo]

\* updateDisplayIfNeeded, with whether it updated (updated).
Patched(v, different) ==
  [(IF different THEN StartWorker(v) ELSE v)
     EXCEPT !.rendered = TRUE, !.numbersFrom = NoLine, !.updated = TRUE]
Adjusted(v, different) ==
  IF ~different /\ CountDirtyView(v) = 0 /\ v.rendered /\ Numbered(v)
    THEN [v EXCEPT !.updated = FALSE] ELSE Patched(PatchDisplay(v), different)
UpdateDisplay(v0, seen) ==
  IF v0.hidden THEN [ResetView(v0) EXCEPT !.updated = FALSE]
  ELSE IF Covered(v0, seen) /\ Numbered(v0) /\ v0.rendered /\ CountDirtyView(v0) = 0
    THEN [v0 EXCEPT !.updated = FALSE]
  ELSE LET v == IF v0.digits # Digit(Size(v0)) THEN [ResetView(v0) EXCEPT !.digits = Digit(Size(v0))] ELSE v0
           from0 == IF seen.from > Margin THEN seen.from - Margin ELSE 0
           to0 == IF seen.to + Margin < Size(v) THEN seen.to + Margin ELSE Size(v)
           from == IF v.viewFrom < from0 /\ from0 - v.viewFrom < Keep THEN v.viewFrom ELSE from0
           to == IF v.viewTo > to0 /\ v.viewTo - to0 < Keep
                   THEN (IF v.viewTo < Size(v) THEN v.viewTo ELSE Size(v)) ELSE to0
           different == from # v.viewFrom \/ to # v.viewTo
       IN  Adjusted(AdjustView(v, from, to), different)

\* postUpdateDisplay: until the drawn lines cover what is to be seen.
RECURSIVE UpdateAgain(_, _, _)
UpdateAgain(v, ensure, n) ==
  LET seen == VisibleLines(v, ensure)
  IN  IF n > 3 \/ Covered(v, seen) \/ (n > 1 /\ ~v.updated) THEN [v EXCEPT !.updated = FALSE]
      ELSE UpdateAgain(UpdateDisplay(v, seen), ensure, n + 1)
PostUpdate(v, ensure) == UpdateAgain(v, ensure, 1)

\* The browser keeps the scroll position within the height it is told of.
ClipTop(v) == [v EXCEPT !.top = IF @ + Window <= Size(v) THEN @
                                ELSE IF Size(v) > Window THEN Size(v) - Window ELSE 0]

\* setScrollTop, in the browsers that draw before they scroll.
Scrolled(v) == StartWorker(IF v.updated THEN PostUpdate(v, NoLine) ELSE v)
SetScrollTop(v, top) ==
  LET d == [v EXCEPT !.top = top]
  IN  IF v.top = top \/ v.hidden THEN v ELSE Scrolled(UpdateDisplay(d, VisibleLines(d, NoLine)))

\* scrollPosIntoView: as far as it takes to show a line.
ScrollIntoView(v, line) ==
  SetScrollTop(v, IF line < v.top THEN line
                  ELSE IF line + 1 > v.top + Window THEN line + 1 - Window ELSE v.top)

\* endOperation: updates what is drawn, if need be, and shows the line it is to show.
Posted(v, ensure) == IF v.updated THEN PostUpdate(ClipTop(v), ensure) ELSE v
Shown(v, ensure) ==
  [(IF ensure = NoLine THEN v ELSE ScrollIntoView(v, ensure)) EXCEPT !.viewChanged = FALSE]
EndOperation(v, ensure) ==
  LET d == IF v.updateMax THEN [FindMaxLine(v) EXCEPT !.updateMax = FALSE] ELSE v
      mustUpdate == d.viewChanged \/ (ensure # NoLine /\ (ensure < d.viewFrom \/ ensure >= d.viewTo))
      w == IF mustUpdate THEN UpdateDisplay(d, VisibleLines(d, ensure)) ELSE [d EXCEPT !.updated = FALSE]
  IN  Shown(Posted(w, ensure), ensure)

\* highlightWorker: count lines from the frontier on, if that many fit in its time.
Worked(v, acc, n, h) ==
  LET line == acc.lines[n + 1]
      visible == n >= v.viewFrom
  IN  [lines |-> [acc.lines EXCEPT ![n + 1] =
         IF visible THEN [line EXCEPT !.styles = <<h.styles>>, !.after = <<h.state>>, !.skipped = FALSE]
         ELSE [line EXCEPT !.after = IF n % SaveEvery = 0 THEN <<h.state>> ELSE <<>>,
                           !.skipped = @ \/ line.styles # <<>>]],
       state |-> h.state,
       changed |-> IF visible /\ line.styles # <<h.styles>> THEN Append(acc.changed, n) ELSE acc.changed]
RECURSIVE WorkOn(_, _, _, _)
WorkOn(v, acc, n, stop) ==
  IF n >= stop THEN acc
  ELSE WorkOn(v, Worked(v, acc, n, HighlightLine(acc.lines[n + 1].text, acc.state)), n + 1, stop)
WorkDone(v, worked, stop, end) ==
  LET d == [v EXCEPT !.lines = worked.lines, !.frontier = stop]
      again == IF stop < end THEN StartWorker(d) ELSE d
  IN  IF worked.changed = <<>> THEN again
      ELSE EndOperation(FoldLeft(RegLineChange, again, worked.changed), NoLine)
HighlightWorker(v0, count) ==
  LET v == [v0 EXCEPT !.armed = FALSE]
      end == IF v.viewTo + Ahead < Size(v) THEN v.viewTo + Ahead ELSE Size(v)
      stop == IF v.frontier + count < end THEN v.frontier + count ELSE end
      Begun(start) == WorkOn(v, [lines |-> start.lines, state |-> start.state, changed |-> <<>>],
                             v.frontier, stop)
  IN  IF v.frontier >= v.viewTo THEN v
      ELSE WorkDone(v, Begun(GetStateBefore(v, v.frontier)), stop, end)

-----------------------------------------------------------------------------
NewEditor(text) ==
  LET lines == [i \in DOMAIN text |-> Line(i, text[i])]
      v == [lines |-> lines, frontier |-> 0, viewFrom |-> 0, viewTo |-> 0, view |-> <<>>,
            rendered |-> FALSE, dom |-> <<>>, done |-> <<>>, numbersFrom |-> NoLine, digits |-> 0,
            maxLine |-> 1, maxLength |-> 0, updateMax |-> TRUE, viewChanged |-> TRUE, updated |-> FALSE,
            top |-> 0, armed |-> FALSE, hidden |-> FALSE, threw |-> FALSE]
  IN  EndOperation(v, NoLine)

ViewInit == /\ \E text \in FirstTexts : cm = NewEditor(text)
            /\ changes = 0

\* The positions where the model changes a text: the starts of its lines and its end.
Places(v) == {p \in Positions(LineTexts(v)) : Ch(p) = 0 \/ p = EndOf(LineTexts(v))}
ChangesOf(v) == {c \in [from : Places(v), to : Places(v), text : ViewTexts] :
                   /\ NotAfter(c.from, c.to)
                   /\ Len(c.text) > 1 \/ c.text[1] # <<>> \/ c.from # c.to
                   /\ Size(v) + Len(c.text) - (LineNo(c.to) - LineNo(c.from)) - 1 <= MaxLinesShown}

\* An operation of one change, or of one at each of two cursors, the lower one first.
Change1 == \E c \in ChangesOf(cm) :
  cm' = EndOperation(ChangeInEditor(cm, c, FALSE), LineNo(ChangeEnd(c)))
Change2 == \E low \in ChangesOf(cm) :
  LET d == ChangeInEditor(cm, low, FALSE)
  IN  \E c \in ChangesOf(d) :
        /\ c.from = c.to /\ c.text = low.text /\ low.from = low.to /\ Before(c.to, low.from)
        /\ cm' = EndOperation(ChangeInEditor(d, c, FALSE), LineNo(ChangeEnd(c)))

\* setValue: all lines are new ones, and the cursor is at the top.
SetValue == \E text \in ViewTexts :
  LET all == Change(Pos(0, 0), EndOf(LineTexts(cm)), text)
  IN  cm' = EndOperation(ChangeInEditor(cm, all, TRUE), 0)

Edit == /\ changes < MaxChanges /\ changes' = changes + 1
        /\ Change1 \/ Change2 \/ SetValue

ScrollTo == /\ \E top \in 0..Size(cm) - Window : cm' = SetScrollTop(cm, top)
            /\ UNCHANGED changes

\* The timer of the worker; count is how far it gets in its time: all of it, or one line.
Work == /\ cm.armed
        /\ \E count \in {1, Size(cm)} : cm' = HighlightWorker(cm, count)
        /\ UNCHANGED changes

\* The tab with the editor (the log's) is left, or comes back: nothing else happens.
SwitchTab == /\ cm' = [cm EXCEPT !.hidden = ~@]
             /\ UNCHANGED changes

ViewNext == Edit \/ ScrollTo \/ Work \/ SwitchTab

-----------------------------------------------------------------------------
RightBefore(v, n) ==
  FoldLeft(LAMBDA state, i : HighlightLine(v.lines[i].text, state).state, StartState, [i \in 1..n |-> i])

\* After every operation the view has the lines of the document at their places, what is
\* drawn is the view with the right texts and line numbers and covers the window, and the
\* longest line is known, unless the text changed while the editor was hidden.
EditorShowsTheText ==
  /\ ~cm.threw
  /\ cm.view # <<>> =>
       /\ Len(cm.view) = cm.viewTo - cm.viewFrom /\ cm.viewTo <= Size(cm)
       /\ Len(cm.dom) = Len(cm.view)
       /\ \A i \in DOMAIN cm.view :
            LET line == cm.lines[cm.viewFrom + i]
            IN  /\ cm.view[i].line = line.id /\ cm.view[i].node = cm.dom[i].node
                /\ cm.dom[i].text = line.text /\ cm.dom[i].number = cm.viewFrom + i
       /\ ~cm.hidden => Covered(cm, VisibleLines(cm, NoLine))
  /\ cm.maxLength = Max({Len(l.text) : l \in ToSet(cm.lines)})

\* States kept above the frontier are right, the worker rests only when it has reached the
\* end of the view, and what is drawn then is highlighted as from the top of the text -
\* but for lines it passed out of view, whose old styles the code keeps.
HighlightSettles ==
  /\ cm.frontier <= Size(cm)
  /\ \A i \in 1..cm.frontier : cm.lines[i].after # <<>> => cm.lines[i].after[1] = RightBefore(cm, i)
  /\ ~cm.armed =>
       /\ cm.frontier >= cm.viewTo
       /\ \A i \in DOMAIN cm.view :
            LET n == cm.viewFrom + i
            IN  cm.lines[n].skipped
                \/ cm.dom[i].styles = HighlightLine(cm.lines[n].text, RightBefore(cm, n - 1)).styles

=============================================================================
