------------------------------- MODULE SqlHints -------------------------------
(***************************************************************************)
(* Completion in the SQL editor (show-hint.js, sql-hint.js): Alt-/ starts  *)
(* it at the cursor, every move of the cursor puts it off to the next      *)
(* frame or ends it, and a widget with the hints takes over some keys.     *)
(* The page has one cursor and no tables to complete, only the keywords.   *)
(***************************************************************************)
EXTENDS EditorText, SqlMode

CONSTANTS
  Keywords,      \* sequence of the mode's keywords; the case of letters is left out
  KeyChars,      \* bounds of the model: what is typed,
  MaxLength      \* and the longest text

ASSUME SqlHintsAssumption == MaxLength \in Nat

VARIABLES
  text,       \* the lines
  cur,        \* the cursor
  comp,       \* the completion: active, where it started, the last hints, frame requested
  widget,     \* the hints that are shown: hidden, or with which is selected
  keyMap,     \* the keys of the widget: none, full, or only Enter while a frame is awaited
  focused,    \* the editor has the focus
  timers      \* a timer that closes after a blur, of this widget or of one before it

hintVars == <<text, cur, comp, widget, keyMap, focused, timers>>

\* Data for which there are no hints; the list is <<>>.
NoHints == [list |-> <<>>, from |-> 0, to |-> 0]
NoWidget == [shown |-> FALSE, data |-> NoHints, selected |-> 1, picked |-> FALSE]
Inactive == [active |-> FALSE, start |-> Pos(0, 0), startLen |-> 0, data |-> NoHints, frame |-> FALSE]
CloseCharacters == Brackets \cup {" ", "{", "}", ":", ">"}

\* What an event changes, as one record.
Now == [text |-> text, cur |-> cur, comp |-> comp, widget |-> widget, keyMap |-> keyMap, timers |-> timers]
Becomes(e) ==
  /\ FoldLeft(LAMBDA n, l : n + Len(l), Len(e.text) - 1, e.text) <= MaxLength
  /\ text' = e.text /\ cur' = e.cur /\ comp' = e.comp /\ widget' = e.widget /\ keyMap' = e.keyMap
  /\ timers' = e.timers

LineAt(e, pos) == e.text[LineNo(pos) + 1]

-----------------------------------------------------------------------------
\* getTokenAt: the token that ends at or after the position.
TokenAt(lines, pos) ==
  LET before == FoldLeft(LAMBDA state, l : HighlightLine(l, state).state, StartState,
                         SubSeq(lines, 1, LineNo(pos)))
      Around(tokens) == LET i == Min({k \in DOMAIN tokens : tokens[k][2] >= Ch(pos)})
                        IN  [start |-> tokens[i][1] - 1, end |-> tokens[i][2]]
  IN  IF Ch(pos) = 0 THEN [start |-> 0, end |-> 0]
      ELSE Around(HighlightLine(lines[LineNo(pos) + 1], before).styles)

\* addMatches: what begins with the search.
AddMatches(search, words) == SelectSeq(words, LAMBDA w : IsPrefix(search, w))

\* The hint helper of the mode; names after . or ` are those of tables, which there are not.
HintsOf(lines, pos, token) ==
  LET end == IF token.end > Ch(pos) THEN Ch(pos) ELSE token.end
      string == SubSeq(lines[LineNo(pos) + 1], token.start + 1, end)
      word == /\ string # <<>> /\ Head(string) \in WordChars \cup {".", "@", Backtick}
              /\ ToSet(Tail(string)) \subseteq WordChars
      list == IF word /\ Head(string) \in {".", Backtick} THEN <<>>
              ELSE AddMatches(IF word THEN string ELSE <<>>, Keywords)
  IN  IF list = <<>> THEN NoHints
      ELSE IF word THEN [list |-> list, from |-> token.start, to |-> end]
      ELSE [list |-> list, from |-> Ch(pos), to |-> Ch(pos)]
Hints(lines, pos) == HintsOf(lines, pos, TokenAt(lines, pos))

-----------------------------------------------------------------------------
\* Widget.close: a timer of the widget is forgotten by its handlers, but runs on.
CloseWidget(e) ==
  IF ~e.widget.shown THEN e
  ELSE [e EXCEPT !.widget = NoWidget, !.keyMap = "none",
                 !.timers = IF @ = {} THEN {} ELSE {"earlier"}]

\* Completion.close: nothing that comes later finds it active.
CloseCompletion(e) ==
  IF e.comp.active THEN [CloseWidget(e) EXCEPT !.comp = Inactive, !.timers = {}] ELSE e

\* Mutant: the widget keeps its keys until it is replaced.
DisableMutant(e) == e

\* Widget.disable: until the frame comes, only Enter is taken.
Disable(e) == IF e.widget.shown THEN [e EXCEPT !.keyMap = "enter"] ELSE e

\* Completion.cursorActivity, when the cursor or the text before it has changed.
CursorActivity(e) ==
  LET c == e.comp
      ch == Ch(e.cur)
      line == LineAt(e, e.cur)
      ends == \/ LineNo(e.cur) # LineNo(c.start) \/ ch < Ch(c.start)
              \/ Len(line) - ch # c.startLen - Ch(c.start)
              \/ (ch > 0 /\ line[ch] \in CloseCharacters)
  IN  IF ~c.active THEN e
      ELSE IF ends THEN CloseCompletion(e)
      ELSE Disable([e EXCEPT !.comp.frame = TRUE])

Replace(e, from, to, with) ==
  LET c == Change(from, to, with)
  IN  [e EXCEPT !.text = Changed(@, c), !.cur = AdjustForChange(@, c)]

\* Completion.pick: the replacement, of what is left of the range, moves the cursor, and
\* the completion ends.
PickHint(e, data, i) ==
  LET At(ch) == ClipPos(e.text, Pos(LineNo(e.cur), ch))
  IN  CloseCompletion(CursorActivity(Replace(e, At(data.from), At(data.to), <<data.list[i]>>)))

\* isNewCompletion: what is to be completed begins later now, and has another length.
IsNewCompletion(old, new) == new.from > old.from /\ old.to - old.from # new.to - new.from

\* Completion.update and finishUpdate.
FinishUpdate(e, first, data) ==
  LET picked == first \/ e.widget.picked
      closed == [CloseWidget(e) EXCEPT !.comp.frame = FALSE]
      found == data # NoHints
  IN  IF found /\ e.comp.data # NoHints /\ IsNewCompletion(e.comp.data, data) THEN closed
      ELSE LET d == [closed EXCEPT !.comp.data = data]
           IN  IF ~found THEN d
               ELSE IF picked /\ Len(data.list) = 1 THEN PickHint(d, data, 1)
               ELSE [d EXCEPT !.widget = [shown |-> TRUE, data |-> data, selected |-> 1, picked |-> FALSE],
                              !.keyMap = "full"]
Update(e, first) == FinishUpdate(e, first, Hints(e.text, e.cur))

-----------------------------------------------------------------------------
HintsInit ==
  /\ text = << <<>> >> /\ cur = Pos(0, 0) /\ comp = Inactive /\ widget = NoWidget
  /\ keyMap = "none" /\ focused = TRUE /\ timers = {}

Key(e) == focused /\ Becomes(e) /\ UNCHANGED focused

\* showHint: one that is active ends first.
ShowHint ==
  LET e == CloseCompletion(Now)
  IN  Key(Update([e EXCEPT !.comp = [active |-> TRUE, start |-> cur, startLen |-> Len(LineAt(Now, cur)),
                                     data |-> NoHints, frame |-> FALSE]], TRUE))

TypeKey(ch) == Key(CursorActivity(Replace(Now, cur, cur, << <<ch>> >>)))
DeleteBefore ==
  /\ cur # Pos(0, 0)
  /\ Key(CursorActivity(Replace(Now, MoveH(text, cur, -1), cur, << <<>> >>)))
MoveKey(dir) ==
  /\ MoveH(text, cur, dir) # cur
  /\ Key(CursorActivity([Now EXCEPT !.cur = MoveH(text, @, dir)]))

\* Enter picks, is remembered until the frame, or begins a new line; Tab picks.
PickEnter == keyMap = "full" /\ Key(PickHint(Now, widget.data, widget.selected))
RememberEnter == keyMap = "enter" /\ Key([Now EXCEPT !.widget.picked = TRUE])
NewLine == keyMap = "none" /\ Key(CursorActivity(Replace(Now, cur, cur, << <<>>, <<>> >>)))
Esc == keyMap = "full" /\ Key(CloseCompletion(Now))

\* changeActive: up and down wrap around.
MoveFocus(n) ==
  /\ keyMap = "full"
  /\ LET to == widget.selected + n
         count == Len(widget.data.list)
     IN  Key([Now EXCEPT !.widget.selected = IF to > count THEN 1 ELSE IF to < 1 THEN count ELSE to])

\* A hint is clicked, whether or not a frame is awaited; the editor gets the focus back.
ClickHint ==
  /\ widget.shown /\ \E i \in DOMAIN widget.data.list : Becomes(PickHint(Now, widget.data, i))
  /\ focused' = TRUE

AnimationFrame == comp.frame /\ Becomes(Update(Now, FALSE)) /\ UNCHANGED focused

Blur ==
  /\ focused /\ focused' = FALSE
  /\ timers' = IF widget.shown THEN timers \cup {"own"} ELSE timers
  /\ UNCHANGED <<text, cur, comp, widget, keyMap>>
Focus ==
  /\ ~focused /\ focused' = TRUE
  /\ timers' = timers \ {"own"}
  /\ UNCHANGED <<text, cur, comp, widget, keyMap>>
BlurTimer ==
  /\ timers # {}
  /\ Becomes(CloseCompletion(Now)) /\ UNCHANGED focused

HintsNext ==
  \/ ShowHint \/ PickEnter \/ RememberEnter \/ NewLine \/ Esc
  \/ \E ch \in KeyChars : TypeKey(ch)
  \/ DeleteBefore \/ \E dir \in {-1, 1} : MoveKey(dir) \/ MoveFocus(dir)
  \/ ClickHint \/ AnimationFrame \/ Blur \/ Focus \/ BlurTimer

HintsSpec == HintsInit /\ [][HintsNext]_hintVars

-----------------------------------------------------------------------------
HintsTypeOK ==
  /\ cur \in Positions(text) /\ focused \in BOOLEAN /\ timers \subseteq {"own", "earlier"}
  /\ keyMap \in {"none", "enter", "full"}
  /\ widget.shown => widget.selected \in DOMAIN widget.data.list

\* While a key can pick a hint, the hints are those of the word at the cursor, which is
\* what the hint will replace; without a completion there are no hints, keys or timers.
HintsFit ==
  /\ keyMap = "full" => /\ comp.active /\ widget.shown /\ widget.data = comp.data
                        /\ widget.data = Hints(text, cur)
  /\ ~comp.active => ~widget.shown /\ keyMap = "none" /\ timers = {} /\ ~comp.frame
  /\ widget.shown <=> keyMap # "none"

=============================================================================
