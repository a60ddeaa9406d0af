------------------------------ MODULE EditorInput ------------------------------
(***************************************************************************)
(* How keys, mouse and clipboard reach the SQL editor (CodeMirror): the    *)
(* browser writes into a hidden textarea, which input events and timers    *)
(* read.  With a selection the textarea holds its text, selected; without  *)
(* one it holds what was typed since it was last emptied, which is kept in *)
(* prev to see what is new.  A text is one sequence with its line ends,    *)
(* a position the number of characters before it, and there is one range.  *)
(***************************************************************************)
EXTENDS Integers, Sequences, SequencesExt, TLC

CONSTANTS
  FirstText,     \* what the editor begins with
  Keys,          \* what is typed
  MaxInput,      \* the longest text that is left in the textarea (1000)
  MaxEvents      \* bound of the model: what the user does

ASSUME EditorInputAssumption == MaxInput \in Nat \ {0} /\ MaxEvents \in Nat

LineEnd == "\n"
ZeroWidth == "zero width"      \* \u200b
UndoMark == "undo mark"        \* \u21da
Spot == <<" ">>
Dash == <<"-">>

VARIABLES
  inp,       \* the editor and its textarea
  user,      \* history: text, selection and clipboard as the user has them in mind
  due,       \* history: a choice in the context menu that is not read yet: cut or all
  spoilt,    \* history: the textarea had what the editor will misread (see Does, Choice, Come)
  events     \* what the user has done so far

inputVars == <<inp, user, due, spoilt, events>>

-----------------------------------------------------------------------------
\* Texts and selections, of the editor as of the user.
Lo(d) == Min({d.anchor, d.head})
Hi(d) == Max({d.anchor, d.head})
SomeChosen(d) == d.anchor # d.head
Chosen(d) == SubSeq(d.text, Lo(d) + 1, Hi(d))

LineFrom(d) == Max({0} \cup {i \in 1..d.head : d.text[i] = LineEnd})
LineTo(d) == Min({Len(d.text)} \cup {i \in d.head + 1..Len(d.text) : d.text[i] = LineEnd})
LineOf(d) == SubSeq(d.text, LineFrom(d) + 1, LineTo(d))

\* One change can be undone; EditorHistory has the rest.
\* What is put in place of a part of the text; both ends of the selection move along.
Moved(p, from, to, with) ==
  IF p < from THEN p ELSE IF p <= to THEN from + Len(with) ELSE p + Len(with) - (to - from)
PutAt(d, from, to, with) ==
  [d EXCEPT !.text = SubSeq(@, 1, from) \o with \o SubSeq(@, to + 1, Len(@)),
            !.anchor = Moved(@, from, to, with), !.head = Moved(@, from, to, with),
            !.past = [text |-> d.text, anchor |-> d.anchor, head |-> d.head]]

\* copyableRanges: without a selection the line of the cursor is copied or cut.
CopyableRange(d) == IF SomeChosen(d) THEN Chosen(d) ELSE LineOf(d)

\* What is typed or pasted takes the place of the selection; what equals a line that was
\* copied without a selection goes to the beginning of the line.
Put(d, with) ==
  IF ~SomeChosen(d) /\ d.copied = [lineWise |-> TRUE, text |-> with]
    THEN PutAt(d, LineFrom(d), LineFrom(d), with)
    ELSE PutAt(d, Lo(d), Hi(d), with)

Chooses(d, a, h) == [d EXCEPT !.anchor = a, !.head = h]
Undone(d) == [d EXCEPT !.text = d.past.text, !.anchor = d.past.anchor, !.head = d.past.head]

\* The commands of the keys that move, delete and choose.
Command(d, k) ==
  LET left == IF SomeChosen(d) THEN Lo(d) ELSE Max({0, d.head - 1})
      back == Max({0, d.head - 1})
  IN  CASE k = "left" -> Chooses(d, left, left)
        [] k = "shift-left" -> Chooses(d, d.anchor, back)
        [] k = "backspace" -> IF SomeChosen(d) THEN PutAt(d, Lo(d), Hi(d), <<>>)
                              ELSE IF d.head = 0 THEN d ELSE PutAt(d, back, d.head, <<>>)
        [] k = "enter" -> PutAt(d, Lo(d), Hi(d), <<LineEnd>>)
        [] k = "all" -> Chooses(d, 0, Len(d.text))
        [] k = "undo" -> Undone(d)
Commands == {"left", "shift-left", "backspace", "enter", "all", "undo"}

-----------------------------------------------------------------------------
\* Setting the value of the textarea puts its cursor at the end and ends a composition.
SetValue(s, value) ==
  IF s.te = value THEN s
  ELSE [s EXCEPT !.te = value, !.from = Len(value), !.to = Len(value), !.comp = <<>>]
SelectInput(s) == [s EXCEPT !.from = 0, !.to = Len(s.te)]
HasSelection(s) == s.from # s.to
\* The browser puts something in place of what is selected in the textarea.
Written(s, with) ==
  [s EXCEPT !.te = SubSeq(@, 1, s.from) \o with \o SubSeq(@, s.to + 1, Len(@)),
            !.from = @ + Len(with), !.to = s.from + Len(with)]

\* reset: the textarea gets the selection, or is emptied unless the user types.
ResetInput(s, typing) ==
  LET huge == Len(Chosen(s)) > MaxInput
      shown == SetValue([s EXCEPT !.prev = <<>>, !.inaccurate = huge], IF huge THEN Dash ELSE Chosen(s))
  IN  IF s.pending THEN s
      ELSE IF SomeChosen(s) THEN IF s.focused THEN SelectInput(shown) ELSE shown
      ELSE IF typing THEN [s EXCEPT !.inaccurate = FALSE]
      ELSE SetValue([s EXCEPT !.prev = <<>>, !.inaccurate = FALSE], <<>>)

\* The end of an operation: a changed selection resets the textarea while it has the focus.
EndOperation(s, updateInput, typing) ==
  IF s.focused /\ updateInput THEN ResetInput(s, typing) ELSE s

\* A selection that does not change leaves everything as it is; the selection of the
\* context menu is no longer that of the editor after any change.
Selects(old, new) == new.anchor # old.anchor \/ new.head # old.head
Operate(s, d, typing) ==
  LET e == IF Selects(s, d) \/ s.text # d.text THEN [d EXCEPT !.menuSel = FALSE] ELSE d
  IN  EndOperation(e, Selects(s, d), typing)

\* applyTextInput: what was read changes the text, and the textarea stays as it is.
ApplyInput(s, inserted, deleted) ==
  LET d == IF ~SomeChosen(s) /\ deleted > 0 THEN PutAt(s, s.head - deleted, s.head, inserted)
           ELSE Put(s, inserted)
  IN  [d EXCEPT !.menuSel = FALSE]

\* slowPoll: nothing while it is polled fast.
SlowPoll(s) == IF s.fast THEN s ELSE [s EXCEPT !.timer = "slow"]
FastPoll(s) == [s EXCEPT !.fast = TRUE, !.timer = "fast"]

\* poll: whether there is something to read.
Unread(s) ==
  /\ ~s.pending /\ s.focused /\ ~(HasSelection(s) /\ s.prev = <<>> /\ s.comp = <<>>)
  /\ s.te # s.prev \/ SomeChosen(s)
Starts(s, c) == s.te # <<>> /\ Head(s.te) = c
Same(a, b) == Max({n \in 0..Min({Len(a), Len(b)}) : SubSeq(a, 1, n) = SubSeq(b, 1, n)})

\* Mutant: what was seen is not forgotten with what is in the textarea.
ShortenInputMutant(s) ==
  IF Len(s.te) > MaxInput \/ LineEnd \in Range(s.te) THEN SetValue(s, <<>>) ELSE [s EXCEPT !.prev = s.te]

\* What was read stays in the textarea, unless it is long or of several lines.
ShortenInput(s) ==
  IF Len(s.te) > MaxInput \/ LineEnd \in Range(s.te) THEN SetValue([s EXCEPT !.prev = <<>>], <<>>)
  ELSE [s EXCEPT !.prev = s.te]

\* poll: what the textarea has beyond what was seen is read.
PollInput(s) ==
  LET prev == IF s.menuSel /\ Starts(s, ZeroWidth) /\ s.prev = <<>> THEN <<ZeroWidth>> ELSE s.prev
      same == Same(prev, s.te)
      read == ApplyInput(s, SubSeq(s.te, same + 1, Len(s.te)), Len(prev) - same)
  IN  IF ~Unread(s) THEN s
      ELSE IF s.menuSel /\ Starts(s, UndoMark)
        THEN LET r == ResetInput(s, FALSE) IN Operate(r, Undone(r), FALSE)
      ELSE ShortenInput(read)

\* ensurePolled, before a command runs.
EnsurePolled(s) == IF s.fast /\ Unread(s) THEN [PollInput(s) EXCEPT !.fast = FALSE] ELSE s

\* onFocus: the textarea is reset, but not when the focus comes back from its context menu.
OnFocus(s, inOperation) ==
  LET f == [s EXCEPT !.delaying = FALSE, !.focused = TRUE]
  IN  IF s.focused THEN f
      ELSE SlowPoll(IF inOperation \/ s.menuSel THEN f ELSE [ResetInput(f, FALSE) EXCEPT !.late = TRUE])
OnBlur(s) == IF s.delaying THEN s ELSE [s EXCEPT !.focused = FALSE]

FocusTextarea(s, inOperation) ==
  IF s.dom THEN s ELSE OnFocus([s EXCEPT !.dom = TRUE], inOperation)
EnsureFocus(s) == IF s.focused THEN s ELSE OnFocus(FocusTextarea(s, FALSE), FALSE)
BlurTextarea(s) == IF s.dom THEN OnBlur([s EXCEPT !.dom = FALSE]) ELSE s

-----------------------------------------------------------------------------
InputInit ==
  LET d == [text |-> FirstText, anchor |-> 0, head |-> 0,
            past |-> [text |-> FirstText, anchor |-> 0, head |-> 0],
            copied |-> [lineWise |-> FALSE, text |-> <<>>], clip |-> Spot]
  IN  /\ user = d
      /\ inp = d @@ [te |-> <<>>, from |-> 0, to |-> 0, prev |-> <<>>, inaccurate |-> FALSE,
                     comp |-> <<>>, pending |-> FALSE, menuSel |-> FALSE, detect |-> FALSE,
                     open |-> FALSE, down |-> FALSE, dom |-> FALSE, focused |-> FALSE,
                     delaying |-> FALSE, blurs |-> FALSE, late |-> FALSE,
                     timer |-> "none", fast |-> FALSE]
      /\ due = "no" /\ spoilt = FALSE /\ events = 0

\* What the user does: not with the right button down, nor within the tenths of a second
\* that the context menu takes to open and to have a choice read.  After a paste over a
\* selection the mark of a context menu is still there, and would be read as typed; and
\* an undo that chooses what was chosen before does not reset the textarea.
UndoneInPlace(s) ==
  SomeChosen(s) /\ s.anchor = inp.anchor /\ s.head = inp.head /\ s.text # inp.text
MarkIsLeft == Starts(inp, ZeroWidth) /\ inp.prev = <<>> /\ ~inp.menuSel
Does(s, u) ==
  /\ events < MaxEvents /\ events' = events + 1
  /\ ~inp.down /\ ~inp.pending /\ due = "no" /\ ~spoilt
  /\ inp' = [s EXCEPT !.open = FALSE] /\ user' = u
  /\ spoilt' = (MarkIsLeft \/ UndoneInPlace(s))
  /\ UNCHANGED due
Between == inp.comp = <<>>
HasKeys == inp.dom /\ Between

\* A key that no command is bound to: keydown, keypress, then the browser's input event.
TypeInput(c) ==
  /\ HasKeys
  /\ Does(PollInput(Written(FastPoll(EnsureFocus(inp)), <<c>>)), Put(user, <<c>>))

\* doHandleBinding: what is in the textarea is read before the command runs.
HandleBinding(s, k) ==
  LET read == EnsurePolled(s) IN Operate(read, Command(read, k), read # s)

\* A key with a command, all in the operation of keydown; the browser does nothing.
PressKey(k) == HasKeys /\ Does(EnsureFocus(HandleBinding(inp, k)), Command(user, k))

\* An input method begins, changes or ends a composition.
Compose(c) ==
  /\ inp.dom /\ c # inp.comp
  /\ LET n == Len(inp.comp)
         s == [inp EXCEPT !.from = @ - n]
     IN  Does(PollInput([Written(s, c) EXCEPT !.comp = c]),
              IF n = 0 THEN Put(user, c) ELSE PutAt(user, user.head - n, user.head, c))
EndComposition == ~Between /\ Does([PollInput(inp) EXCEPT !.comp = <<>>], user)

\* The mouse puts the cursor somewhere, and dragged chooses from there; a finger that taps
\* once more chooses a word or a line.  Extending by a click is as by a key.
ClickText(a, h) ==
  /\ Between
  /\ LET s == EnsureFocus(Operate(inp, Chooses(inp, a, a), FALSE))
     IN  Does(Operate(s, Chooses(s, a, h), FALSE), Chooses(user, a, h))
Tap(a, h) ==
  /\ Between /\ (a = h \/ ~SomeChosen(inp))
  /\ Does(FocusTextarea(Operate(inp, Chooses(inp, a, h), FALSE), FALSE), Chooses(user, a, h))

\* onDrop: the selection or something from elsewhere is dropped outside the selection.
Dropped(d, p, removes, with) ==
  LET at == Chooses(d, p, p)
      e == IF removes THEN PutAt(at, Lo(d), Hi(d), <<>>) ELSE at
  IN  Chooses(PutAt(e, e.head, e.head, with), e.head, e.head + Len(with))
Drop(s, p, removes, with) ==
  Does(EndOperation(FocusTextarea([Dropped(s, p, removes, with) EXCEPT !.menuSel = FALSE], TRUE), TRUE, FALSE),
       Dropped(user, p, removes, with))
DropChosen(p, copy) ==
  Between /\ SomeChosen(inp) /\ p \notin Lo(inp)..Hi(inp) /\ Drop(EnsureFocus(inp), p, ~copy, Chosen(inp))
DropText(p, c) == Between /\ Drop(inp, p, FALSE, <<c>>)

-----------------------------------------------------------------------------
\* prepareCopyCut: what the browser is to copy is selected in the textarea.
Copied(d) == [d EXCEPT !.copied = [lineWise |-> ~SomeChosen(d), text |-> CopyableRange(d)]]
PrepareCopyCut(s, cut) ==
  LET c == Copied(s)
  IN  IF ~SomeChosen(s) /\ cut THEN Operate(c, Chooses(c, LineFrom(c), LineTo(c)), FALSE)
      ELSE IF SomeChosen(s) /\ ~s.inaccurate THEN c
      ELSE SelectInput(SetValue([c EXCEPT !.prev = <<>>, !.inaccurate = FALSE], CopyableRange(s)))

\* The browser copies what is selected, and removes it if it is cut; then comes input.
Clipped(s) == IF HasSelection(s) THEN [s EXCEPT !.clip = SubSeq(s.te, s.from + 1, s.to)] ELSE s

\* What the user means: an empty line changes nothing; of a line that is cut without a
\* selection and is too long for the textarea, the clipboard only gets the dash.
UserCopies ==
  LET u == Copied(user)
  IN  [u EXCEPT !.clip = IF u.copied.text = <<>> THEN Clipped(PrepareCopyCut(inp, FALSE)).clip
                         ELSE u.copied.text]
UserCuts ==
  LET u == Copied(user)
      c == IF SomeChosen(u) THEN u ELSE Chooses(u, LineFrom(u), LineTo(u))
      long == ~SomeChosen(user) /\ Len(u.copied.text) > MaxInput
  IN  IF ~SomeChosen(c) THEN [c EXCEPT !.clip = Clipped(PrepareCopyCut(inp, TRUE)).clip]
      ELSE [PutAt(c, Lo(c), Hi(c), <<>>) EXCEPT !.clip = IF long THEN Dash ELSE u.copied.text]
CutOut(s) == PollInput(Written(Clipped(PrepareCopyCut(s, TRUE)), <<>>))

Copy == HasKeys /\ Does(Clipped(PrepareCopyCut(inp, FALSE)), UserCopies)
Cut == HasKeys /\ Does(CutOut(inp), UserCuts)

\* handlePaste: applied at once, whatever the textarea has.
Paste == HasKeys /\ Does(ApplyInput(inp, inp.clip, 0), Put(user, inp.clip))

-----------------------------------------------------------------------------
\* The right button takes the focus away, which the editor does not take to be a blur.
RightButton ==
  Between /\ Does([BlurTextarea([inp EXCEPT !.delaying = TRUE]) EXCEPT !.blurs = TRUE, !.down = TRUE], user)

\* onContextMenu: the textarea is brought under the mouse, for the menu to be its own.
ContextMenu(p) ==
  LET outside == p \notin Lo(inp)..Hi(inp)
      s == IF outside THEN Operate(inp, Chooses(inp, p, p), FALSE) ELSE inp
      r == ResetInput(FocusTextarea(s, FALSE), FALSE)
      t == IF SomeChosen(r) THEN r ELSE SetValue([r EXCEPT !.prev = Spot], Spot)
  IN  /\ inp.down
      /\ inp' = [t EXCEPT !.pending = TRUE, !.menuSel = TRUE, !.detect = FALSE, !.open = TRUE, !.down = FALSE]
      /\ user' = IF outside THEN Chooses(user, p, p) ELSE user
      /\ UNCHANGED <<due, spoilt, events>>

\* prepareSelectAllHack: marks that show whether all is selected or undone by the menu.
PrepareSelectAllHack(s) ==
  LET value == <<ZeroWidth>> \o IF SomeChosen(s) THEN s.te ELSE <<>>
  IN  [SetValue(SetValue(s, <<UndoMark>>), value) EXCEPT
         !.prev = IF SomeChosen(s) THEN <<>> ELSE <<ZeroWidth>>, !.from = 1, !.menuSel = TRUE]

\* rehide, 50 milliseconds after the menu has opened.
Rehide ==
  /\ inp.pending /\ ~inp.late
  /\ inp' = PrepareSelectAllHack([inp EXCEPT !.pending = FALSE, !.detect = TRUE])
  /\ UNCHANGED <<user, due, spoilt, events>>

\* Whether all was selected is looked at for five seconds.
Detect ==
  LET s == [inp EXCEPT !.detect = FALSE]
      all == inp.menuSel /\ inp.from = 0 /\ inp.to > 0 /\ inp.prev = <<ZeroWidth>>
  IN  /\ inp.detect /\ due # "cut"
      /\ inp' = IF all THEN Operate(s, Chooses(s, 0, Len(s.text)), FALSE) ELSE ResetInput(s, FALSE)
      /\ due' = "no"
      /\ UNCHANGED <<user, spoilt, events>>

\* A choice in the menu: it acts on the textarea, also while the editor does not read it.
\* To choose all of an empty text changes no selection, and the mark stays selected.
Choice(s, u, unread) ==
  /\ inp.open /\ due = "no" /\ ~spoilt
  /\ inp' = [s EXCEPT !.open = FALSE] /\ user' = u /\ due' = unread
  /\ spoilt' = (UndoneInPlace(s) \/ (unread = "all" /\ u.text = <<>>)) /\ UNCHANGED events
MenuPaste == Choice(ApplyInput(inp, inp.clip, 0), Put(user, inp.clip), "no")
MenuCopy == HasSelection(inp) /\ Choice(Clipped(PrepareCopyCut(inp, FALSE)), UserCopies, "no")
MenuCut == HasSelection(inp) /\ Choice(CutOut(inp), UserCuts, IF inp.pending THEN "cut" ELSE "no")
MenuSelectAll ==
  /\ inp.detect /\ Starts(inp, ZeroWidth)
  /\ IF SomeChosen(inp) THEN Choice(SelectInput(inp), user, "no")
     ELSE Choice(SelectInput(inp), Chooses(user, 0, Len(user.text)), "all")
MenuUndo ==
  /\ inp.detect /\ Starts(inp, ZeroWidth) /\ inp.menuSel
  /\ Choice(PollInput(SetValue(inp, <<UndoMark>>)), Undone(user), "no")

-----------------------------------------------------------------------------
Timer(s) == inp' = s /\ UNCHANGED <<user, spoilt, events>>

\* The timer of the poller: slow while there is focus, or twice after a key.
Tick ==
  LET s == PollInput(inp)
  IN  /\ inp.timer # "none"
      /\ Timer(CASE inp.timer = "slow" -> [s EXCEPT !.timer = IF s.focused THEN "slow" ELSE "none"]
                 [] inp.timer = "fast" /\ ~Unread(inp) -> [s EXCEPT !.timer = "again"]
                 [] OTHER -> SlowPoll([s EXCEPT !.fast = FALSE]))
      /\ due' = IF due = "cut" /\ Unread(inp) THEN "no" ELSE due

\* Webkit's second reset, 20 milliseconds after the focus has come.
LateReset == inp.late /\ Timer(ResetInput([inp EXCEPT !.late = FALSE], TRUE)) /\ UNCHANGED due

\* delayBlurEvent: a blur 100 milliseconds later, if no focus has come in between.
BlurTimerEnds ==
  /\ inp.blurs
  /\ Timer(IF inp.delaying THEN OnBlur([inp EXCEPT !.blurs = FALSE, !.delaying = FALSE])
           ELSE [inp EXCEPT !.blurs = FALSE])
  /\ UNCHANGED due

\* The focus goes elsewhere.  When it comes back from there without a click and nothing
\* was typed since a context menu, the textarea is not reset: if the look for a choice had
\* ended in between, the selection is in it but not selected, and will be read as typed.
Leave == HasKeys /\ Does(BlurTextarea(inp), user)
Come ==
  LET s == FocusTextarea(inp, FALSE)
  IN  /\ ~inp.dom /\ ~inp.down /\ events < MaxEvents
      /\ inp' = s /\ events' = events + 1
      /\ spoilt' = (SomeChosen(s) /\ ~HasSelection(s))
      /\ UNCHANGED <<user, due>>

InputNext ==
  \/ \E c \in Keys : TypeInput(c) \/ Compose(<<c>>) \/ Compose(<<c, c>>)
  \/ \E k \in Commands : PressKey(k)
  \/ EndComposition
  \/ \E p \in 0..Len(inp.text) :
       \/ \E h \in 0..Len(inp.text) : ClickText(p, h) \/ Tap(p, h)
       \/ ContextMenu(p)
       \/ \E copy \in BOOLEAN : DropChosen(p, copy)
       \/ \E c \in Keys : DropText(p, c)
  \/ Copy \/ Cut \/ Paste \/ RightButton \/ Rehide \/ Detect
  \/ MenuPaste \/ MenuCopy \/ MenuCut \/ MenuSelectAll \/ MenuUndo
  \/ Tick \/ LateReset \/ BlurTimerEnds \/ Leave \/ Come

InputSpec == InputInit /\ [][InputNext]_inputVars

-----------------------------------------------------------------------------
\* The zero-width mark of the menu is copied with a selection, if all is selected by it.
Unmarked(value) == SelectSeq(value, LAMBDA c : c # ZeroWidth)

InputTypeOK ==
  /\ {inp.anchor, inp.head} \subseteq 0..Len(inp.text)
  /\ inp.from \in 0..inp.to /\ inp.to \in 0..Len(inp.te)
  /\ inp.timer \in {"none", "slow", "fast", "again"} /\ due \in {"no", "cut", "all"}

\* The text, the selection and the clipboard are what the user has typed, chosen, cut,
\* copied and pasted, whatever the textarea went through: nothing is lost, read twice or
\* put elsewhere.  Between events nothing in the textarea is left to read, a selection is
\* selected in it, and while it has the focus it is polled and the editor knows of it.
TypedIsRead ==
  /\ due = "no" => inp.text = user.text /\ inp.anchor = user.anchor /\ inp.head = user.head
  /\ Unmarked(inp.clip) = Unmarked(user.clip)
SelectionIsHeld ==
  inp.focused /\ ~inp.pending /\ due = "no" =>
    /\ ~Unread(inp)
    /\ SomeChosen(inp) => /\ HasSelection(inp) /\ inp.to = Len(inp.te)
                          /\ Unmarked(inp.te) = IF inp.inaccurate THEN Dash ELSE Unmarked(Chosen(inp))
IsPolled == (inp.focused => inp.timer # "none") /\ (inp.dom => inp.focused)
InputIsRight == spoilt \/ (TypedIsRead /\ SelectionIsHeld /\ IsPolled)

=============================================================================
