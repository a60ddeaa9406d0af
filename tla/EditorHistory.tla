---------------------------- MODULE EditorHistory ----------------------------
(***************************************************************************)
(* The SQL editor's text, selection and history of changes (CodeMirror).   *)
(* An event is a selection or a list of changes that undo it, merged while *)
(* the user types without pause; every change event has the selection from *)
(* before it below it.  Undoing moves events from done to undone.          *)
(***************************************************************************)
EXTENDS EditorText, FiniteSetsExt

CONSTANTS
  Typed,         \* what may be typed, pasted or set
  MaxText,       \* bounds of the model: characters and lines of the text,
  MaxSteps       \* and operations

ASSUME EditorHistoryAssumption == Typed \subseteq Seq(Seq(STRING)) \ {<<>>}

NoOrigin == "none"
Plus(origin) == origin \in {"+input", "+delete", "+move"}
Star(origin) == origin = "*mouse"

VARIABLES
  ed,        \* the text, its selection and its history
  steps,     \* operations so far
  first,     \* history: the text the editor began with
  newest,    \* history: the text after the last change that was not undone or redone
  textAt     \* history: the text of each generation

historyVars == <<ed, steps, first, newest, textAt>>

IsSel(event) == "ranges" \in DOMAIN event
Top(events) == Last(events)
HasSelOnTop(events) == events # <<>> /\ IsSel(Top(events))

ClearSelectionEvents(events) ==
  SubSeq(events, 1, Max({0} \cup {i \in DOMAIN events : ~IsSel(events[i])}))

PushSelection(sel, events) ==
  IF HasSelOnTop(events) /\ Top(events) = sel THEN events ELSE Append(events, sel)

\* A new editor: op and selOp say whether the last change and the last selection belong
\* to the operation that runs, the other two whether they are not long ago.
NewHistory(text) ==
  LET top == SimpleSelection(Pos(0, 0), Pos(0, 0))
  IN  [text |-> text, sel |-> top, done |-> <<top>>, undone |-> <<>>,
       op |-> FALSE, selOp |-> FALSE, origin |-> NoOrigin, selOrigin |-> NoOrigin,
       modRecent |-> FALSE, selRecent |-> FALSE, sameTime |-> TRUE,
       generation |-> 1, maxGeneration |-> 1]

HistoryInit ==
  \E text \in Typed \cup {<< <<>> >>} :
    /\ ed = NewHistory(text) /\ steps = 0
    /\ first = text /\ newest = text /\ textAt = <<text>>

-----------------------------------------------------------------------------
\* historyChangeFromChange: the change that undoes a change.
AntiChange(text, c) == Change(c.from, ChangeEnd(c), GetBetween(text, c.from, c.to))

\* lastChangeEvent: done without what is above the change event to merge with, or <<>>.
LastChangeEvent(d) ==
  IF d.op THEN ClearSelectionEvents(d.done)
  ELSE IF ~HasSelOnTop(d.done) THEN d.done
  ELSE IF Len(d.done) > 1 /\ ~IsSel(d.done[Len(d.done) - 1]) THEN Front(d.done)
  ELSE <<>>

\* Mutant: what is typed elsewhere is taken for what goes on.
MergedMutant(event, text, c) ==
  [event EXCEPT !.changes =
     IF c.from = c.to THEN Front(@) \o <<[Last(@) EXCEPT !.to = ChangeEnd(c)]>>
                      ELSE Append(@, AntiChange(text, c))]

\* Typing on only moves the end of the last change.
Merged(event, text, c) ==
  [event EXCEPT !.changes =
     IF c.from = c.to /\ c.from = Last(@).to
       THEN Front(@) \o <<[Last(@) EXCEPT !.to = ChangeEnd(c)]>>
       ELSE Append(@, AntiChange(text, c))]

AddChangeToHistory(d, c, origin, selAfter) ==
  LET may == d.op \/ (origin # NoOrigin /\ d.origin = origin
                      /\ ((Plus(origin) /\ d.modRecent) \/ Star(origin)))
      onto == IF may THEN LastChangeEvent(d) ELSE <<>>
      done == IF onto # <<>> THEN Front(onto) \o <<Merged(Top(onto), d.text, c)>>
              ELSE (IF HasSelOnTop(d.done) THEN d.done ELSE PushSelection(d.sel, d.done))
                     \o <<[changes |-> <<AntiChange(d.text, c)>>, generation |-> d.generation]>>
  IN  [d EXCEPT !.undone = <<>>, !.done = Append(done, selAfter),
                !.generation = d.maxGeneration + 1, !.maxGeneration = @ + 1,
                !.modRecent = TRUE, !.selRecent = TRUE, !.sameTime = TRUE,
                !.op = TRUE, !.selOp = TRUE, !.origin = origin, !.selOrigin = origin]

MakeChange(d, c, origin) ==
  IF c.text = << <<>> >> /\ c.from = c.to THEN d
  ELSE LET selAfter == SelAfterChange(d.sel, c)
       IN  [AddChangeToHistory(d, c, origin, selAfter)
              EXCEPT !.text = Changed(@, c), !.sel = selAfter]

\* Changes of one operation, from the last in the text to the first.
MakeChanges(d, changes, origin) ==
  FoldRight(LAMBDA c, e : MakeChange(e, c, origin), changes, d)

AddSelectionToHistory(d, origin, clearRedo) ==
  LET canMerge == \/ Star(origin)
                  \/ /\ Plus(origin) /\ d.selRecent
                     /\ Len(Top(d.done).ranges) = Len(d.sel.ranges)
                     /\ SomethingSelected(Top(d.done)) = SomethingSelected(d.sel)
      replace == d.selOp \/ (origin # NoOrigin /\ d.selOrigin = origin
                             /\ ((d.sameTime /\ d.origin = origin) \/ canMerge))
  IN  [d EXCEPT !.done = IF replace THEN Append(Front(@), d.sel) ELSE PushSelection(d.sel, @),
                !.undone = IF clearRedo THEN ClearSelectionEvents(@) ELSE @,
                !.selRecent = TRUE, !.sameTime = FALSE, !.selOp = TRUE, !.selOrigin = origin]

\* setSelection with options, which have an origin and do not keep what can be redone.
SetSelection(d, sel, origin) == AddSelectionToHistory([d EXCEPT !.sel = sel], origin, TRUE)

-----------------------------------------------------------------------------
\* makeChangeFromHistory, from source to dest, which are done and undone: selections
\* above the event go along, the event is undone and the change that brings it back kept.
Usable(d, source, selectionOnly) ==
  \E i \in DOMAIN d[source] :
    IF selectionOnly THEN IsSel(d[source][i]) /\ d[source][i] # d.sel ELSE ~IsSel(d[source][i])

Undo(c, acc) ==
  [text |-> Changed(acc.text, c), anti |-> Append(acc.anti, AntiChange(acc.text, c))]

MakeChangeFromHistory(d, source, dest, selectionOnly) ==
  LET events == d[source]
      stop == Max({i \in DOMAIN events : ~IsSel(events[i]) \/ (selectionOnly /\ events[i] # d.sel)})
      event == events[stop]
      above == SubSeq(events, stop + 1, Len(events))
      passed == FoldRight(PushSelection, above, d[dest])
      left == [d EXCEPT !.origin = NoOrigin, !.selOrigin = NoOrigin,
                        ![source] = SubSeq(events, 1, stop - 1)]
      all == FoldRight(Undo, event.changes, [text |-> d.text, anti |-> <<>>])
  IN  IF IsSel(event)
        THEN AddSelectionToHistory([left EXCEPT !.sel = event, ![dest] = PushSelection(event, passed)],
                                   NoOrigin, FALSE)
        ELSE [left EXCEPT !.text = all.text, !.sel = Top(left[source]),
                          !.generation = event.generation,
                          ![dest] = Append(PushSelection(IF above = <<>> THEN d.sel ELSE Head(above),
                                                         passed),
                                           [changes |-> all.anti, generation |-> d.generation])]

-----------------------------------------------------------------------------
\* An operation, quick if it comes within historyEventDelay of the one before.
Begin(quick) ==
  [ed EXCEPT !.op = FALSE, !.selOp = FALSE, !.modRecent = @ /\ quick, !.selRecent = @ /\ quick]

Becomes(d) ==
  /\ steps < MaxSteps /\ steps' = steps + 1
  /\ Len(d.text) + FoldLeft(LAMBDA n, l : n + Len(l), 0, d.text) <= MaxText + 1
  /\ ed' = d
  /\ newest' = IF d.maxGeneration = ed.maxGeneration THEN newest ELSE d.text
  /\ textAt' = textAt \o [i \in 1..d.maxGeneration - ed.maxGeneration |-> d.text]
  /\ UNCHANGED first

Replaced(sel, text) ==
  [i \in DOMAIN sel.ranges |-> Change(From(sel.ranges[i]), To(sel.ranges[i]), text)]

\* applyTextInput: what is typed or pasted comes in place of every range, or a line of it
\* in place of each, if as many lines are pasted.
ApplyTextInput(text, origin, quick) ==
  LET d == Begin(quick)
      each == origin = "paste" /\ Len(d.sel.ranges) = Len(text)
      Input(i) == IF each THEN <<text[i]>> ELSE text
  IN  Becomes(MakeChanges(d, [i \in DOMAIN d.sel.ranges |->
                                Change(From(d.sel.ranges[i]), To(d.sel.ranges[i]), Input(i))], origin))

\* The ranges to kill, with those that overlap made one.
Kill(acc, c) ==
  LET overlap == acc # <<>> /\ NotAfter(c.from, Last(acc).to)
  IN  IF overlap THEN Append(Front(acc), Change(MinPos(Last(acc).from, c.from), c.to, c.text))
      ELSE Append(acc, c)

DeleteH(dir, quick) ==
  LET d == Begin(quick)
      Near(r) == LET other == MoveH(d.text, r.head, dir)
                 IN  Change(MinPos(other, r.head), MaxPos(other, r.head), << <<>> >>)
      near == [i \in DOMAIN d.sel.ranges |-> Near(d.sel.ranges[i])]
  IN  Becomes(MakeChanges(d, IF SomethingSelected(d.sel) THEN Replaced(d.sel, << <<>> >>)
                             ELSE FoldLeft(Kill, <<>>, near), "+delete"))

\* extendRange: with shift the anchor stays.
ExtendRange(r, head, shift) == IF shift THEN Span(r.anchor, head) ELSE Span(head, head)

MoveCursor(dir, shift, quick) ==
  LET d == Begin(quick)
      Head1(r) == IF shift \/ EmptyRange(r) THEN MoveH(d.text, r.head, dir)
                  ELSE IF dir < 0 THEN From(r) ELSE To(r)
      moved == [i \in DOMAIN d.sel.ranges |->
                  ExtendRange(d.sel.ranges[i], Head1(d.sel.ranges[i]), shift)]
  IN  Becomes(SetSelection(d, NormalizeSelection(moved, d.sel.prim), "+move"))

\* leftButtonSelect: a click; with shift it extends the primary range, with Ctrl it adds
\* a range or takes away the one it hits.
LeftButtonSelect(pos, key, quick) ==
  LET d == Begin(quick)
      ranges == d.sel.ranges
      hit == {i \in DOMAIN ranges : NotAfter(From(ranges[i]), pos) /\ NotAfter(pos, To(ranges[i]))}
      i == Min(hit)
      sel == IF key # "ctrl" THEN Selection(<<ExtendRange(Primary(d.sel), pos, key = "shift")>>, 1)
             ELSE IF hit = {} THEN NormalizeSelection(Append(ranges, Span(pos, pos)), Len(ranges) + 1)
             ELSE IF Len(ranges) > 1 /\ EmptyRange(ranges[i])
               THEN NormalizeSelection(SubSeq(ranges, 1, i - 1) \o SubSeq(ranges, i + 1, Len(ranges)), 1)
             ELSE NormalizeSelection([ranges EXCEPT ![i] = Span(pos, pos)], d.sel.prim)
  IN  Becomes(SetSelection(d, sel, "*mouse"))

\* setValue: a change of all, then the cursor goes to the top.
SetAll(text, quick) ==
  LET d == Begin(quick)
      top == SimpleSelection(Pos(0, 0), Pos(0, 0))
      changed == MakeChange(d, Change(Pos(0, 0), EndOf(d.text), text), "setValue")
  IN  Becomes(AddSelectionToHistory([changed EXCEPT !.sel = top], NoOrigin, FALSE))

History(source, dest, selectionOnly, quick) ==
  LET d == Begin(quick)
  IN  /\ Usable(d, source, selectionOnly)
      /\ Becomes(MakeChangeFromHistory(d, source, dest, selectionOnly))

\* The page is loaded again; the model does that only when it has seen enough.
Reload ==
  /\ steps = MaxSteps
  /\ \E text \in Typed :
       /\ ed' = NewHistory(text) /\ steps' = 0
       /\ first' = text /\ newest' = text /\ textAt' = <<text>>

HistoryNext == Reload \/
  \E quick \in BOOLEAN :
    \/ \E text \in Typed, origin \in {"+input", "paste"} : ApplyTextInput(text, origin, quick)
    \/ \E dir \in {-1, 1} : DeleteH(dir, quick)
    \/ \E dir \in {-1, 1}, shift \in BOOLEAN : MoveCursor(dir, shift, quick)
    \/ \E pos \in Positions(ed.text), key \in {"none", "shift", "ctrl"} :
         LeftButtonSelect(pos, key, quick)
    \/ \E text \in Typed : SetAll(text, quick)
    \/ \E selectionOnly \in BOOLEAN :
         \/ History("done", "undone", selectionOnly, quick)
         \/ History("undone", "done", selectionOnly, quick)

-----------------------------------------------------------------------------
\* The text when all events have been undone.
Undone(event, text) ==
  IF IsSel(event) THEN text ELSE FoldRight(LAMBDA c, t : Changed(t, c), event.changes, text)
Unwind(text, events) == FoldRight(Undone, events, text)

\* Whatever is merged into an event, with several cursors too: undoing all leads back to
\* the first text, redoing all to the newest, every step has a selection to go back to,
\* the selection is in the text, and a generation names the text it was given to.
UndoRestores ==
  /\ Unwind(ed.text, ed.done) = first
  /\ Unwind(ed.text, ed.undone) = newest
  /\ \A events \in {ed.done, ed.undone} : \A i \in DOMAIN events :
       IsSel(events[i]) \/ (i > 1 /\ IsSel(events[i - 1]))
  /\ \A i \in DOMAIN ed.sel.ranges :
       /\ {ed.sel.ranges[i].anchor, ed.sel.ranges[i].head} \subseteq Positions(ed.text)
       /\ i > 1 => Before(To(ed.sel.ranges[i - 1]), From(ed.sel.ranges[i]))
  /\ textAt[ed.generation] = ed.text

=============================================================================
