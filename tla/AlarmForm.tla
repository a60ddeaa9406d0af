------------------------------- MODULE AlarmForm -------------------------------
(***************************************************************************)
(* The fields of a new alarm's group and topic (add.js), two magicsuggest  *)
(* boxes of one choice each: a list below the input offers what fits it,   *)
(* and when a group is chosen, the topics of the other box become its own. *)
(* A key is pressed and released in one step, but for Ctrl.                *)
(***************************************************************************)
EXTENDS Positions, SequencesExt

CONSTANTS
  Server,      \* what the server knows: a sequence of [group, topics]
  Inputs,      \* what may be typed, each as the set of the names that contain it
  NoInput,     \* the input is empty
  NoField,     \* the browser's focus is elsewhere
  CtrlFields   \* bound of the model: the fields in which Ctrl is pressed

ASSUME FormAssumption ==
  /\ Server \in Seq(ToSet(Server))
  /\ \A g \in ToSet(Server) : g.topics \in Seq(ToSet(g.topics))

Fields == {"group", "topic"}
Other(f) == IF f = "group" THEN "topic" ELSE "group"

VARIABLES
  ms,           \* ms[f]: a box
  at,           \* the field whose input has the browser's focus
  chosenLast    \* history: the topic was chosen after the last change of the group

formVars == <<ms, at, chosenLast>>

Items(names) == [i \in DOMAIN names |-> [id |-> i, name |-> names[i]]]
GroupNames == [i \in DOMAIN Server |-> Server[i].group]
TopicsOf(group) == Server[CHOOSE i \in DOMAIN Server : Server[i].group = group].topics

\* known: cfg.data is not null.  listed, active and shown are of the list of suggestions,
\* which is in the page while the box is expanded.  tags are the selection as rendered.
Box == [known |-> FALSE, data |-> <<>>, selection |-> <<>>, tags |-> <<>>, input |-> NoInput,
        listed |-> <<>>, active |-> 0, shown |-> FALSE, expanded |-> FALSE,
        focus |-> FALSE, ctrl |-> FALSE, timer |-> FALSE]

\* What an event changes, as one record: the boxes by name, at and chosenLast.
Form == [group |-> ms["group"], topic |-> ms["topic"], at |-> at, chosenLast |-> chosenLast]
Becomes(e) == /\ ms' = [f \in Fields |-> e[f]]
              /\ at' = e.at /\ chosenLast' = e.chosenLast

-----------------------------------------------------------------------------
\* _sortAndTrim: the data that fit the input and whose ids are not selected, in their order.
Fitting(m) ==
  {i \in DOMAIN m.data : /\ m.input = NoInput \/ m.data[i].name \in m.input
                         /\ \A s \in ToSet(m.selection) : s.id # m.data[i].id}
SortAndTrim(m) == ElementsAt(m.data, Fitting(m))

\* _displaySuggestions: a single suggestion is active at once; none close the box.
DisplaySuggestions(m, list) ==
  [m EXCEPT !.listed = list, !.active = IF Len(list) = 1 THEN 1 ELSE 0, !.shown = list # <<>>,
            !.expanded = @ /\ (list # <<>> \/ m.input = NoInput)]
ProcessSuggestions(m) == IF m.known THEN DisplaySuggestions(m, SortAndTrim(m)) ELSE m

Expand(m) == IF m.expanded THEN m ELSE [ProcessSuggestions(m) EXCEPT !.expanded = TRUE]
Collapse(m) == [m EXCEPT !.expanded = FALSE]

\* Mutant: the new data show when the list is opened the next time.
SetDataMutant(m, names) == [m EXCEPT !.data = Items(names), !.known = TRUE]
SetData(m, names) == ProcessSuggestions([m EXCEPT !.data = Items(names), !.known = TRUE])

\* _renderSelection: the tags anew.
RenderSelection(m) == [m EXCEPT !.tags = m.selection]

\* The page's handler of selectionchange; a group that is cleared makes it throw.
SelectionChange(e, f) ==
  LET group == e["group"].selection
  IN  IF f = "topic" THEN e
      ELSE IF group = <<>> THEN [e EXCEPT !.chosenLast = FALSE]
      ELSE [e EXCEPT !.chosenLast = FALSE, !.topic = SetData(@, TopicsOf(group[1].name))]

\* addToSelection, for the one item there is room for.
AddToSelection(e, f, item) ==
  SelectionChange([e EXCEPT ![f] = [RenderSelection([@ EXCEPT !.selection = <<item>>]) EXCEPT !.input = NoInput],
                            !.chosenLast = IF f = "topic" THEN TRUE ELSE @], f)

\* removeFromSelection: what throws keeps the suggestions as they are.
RemoveFromSelection(e, f) ==
  LET d == SelectionChange([e EXCEPT ![f] = RenderSelection([@ EXCEPT !.selection = <<>>])], f)
  IN  IF f = "topic" /\ d[f].expanded THEN [d EXCEPT ![f] = ProcessSuggestions(@)] ELSE d

-----------------------------------------------------------------------------
\* _onInputFocus, when the input gets the focus; _onBlur is not the browser's: it comes
\* with Tab and with clicks elsewhere.
InputFocus(e, f) ==
  [e EXCEPT !.at = f, ![f] = IF @.focus THEN @ ELSE RenderSelection([@ EXCEPT !.focus = TRUE])]
OnBlur(m) == [RenderSelection(Collapse(m)) EXCEPT !.focus = FALSE, !.input = NoInput]

\* The handler of clicks in the page's body, for boxes that have not been clicked into.
BodyClick(e, fields) ==
  [e EXCEPT !.group = IF "group" \in fields /\ @.focus THEN OnBlur(@) ELSE @,
            !.topic = IF "topic" \in fields /\ @.focus THEN OnBlur(@) ELSE @]

\* _selectItem: in place of what was selected.
SelectItem(e, f, item) ==
  LET d == AddToSelection([e EXCEPT ![f].selection = <<>>], f, item)
      done == [d EXCEPT ![f] = Collapse([@ EXCEPT !.active = 0])]
  IN  IF ~done[f].focus THEN InputFocus(done, f)
      ELSE IF done[f].ctrl THEN [done EXCEPT ![f] = Expand(ProcessSuggestions(@))]
      ELSE done

-----------------------------------------------------------------------------
FormInit == /\ ms = [f \in Fields |-> Box]
            /\ at = NoField /\ chosenLast = FALSE

\* The answer with the groups.
Load == ~ms["group"].known /\ Becomes([Form EXCEPT !.group = SetData(@, GroupNames)])

ClickInput(f) == Becomes(BodyClick(InputFocus(Form, f), {Other(f)}))
ClickElsewhere == Becomes(BodyClick([Form EXCEPT !.at = NoField], Fields))

\* _onTriggerClick.
TriggerClick(f) ==
  LET e == [Form EXCEPT !.at = NoField]
      d == IF e[f].expanded THEN [e EXCEPT ![f] = Collapse(@)]
           ELSE LET g == InputFocus(e, f) IN [g EXCEPT ![f] = Expand(@)]
  IN  Becomes(BodyClick(d, {Other(f)}))

\* _onComboItemMouseOver and _onComboItemSelected.  A click at the part of an item that is
\* highlighted, as the input occurs there, counts as one elsewhere too.
Offers(f) == ms[f].expanded /\ ms[f].shown
MouseOver(f, i) == Offers(f) /\ Becomes([Form EXCEPT ![f].active = i])
ItemClick(f, i) ==
  /\ Offers(f)
  /\ LET d == SelectItem([Form EXCEPT !.at = NoField], f, ms[f].listed[i])
     IN  Becomes(d) \/ (ms[f].input # NoInput /\ Becomes(BodyClick(d, Fields)))

\* _onTagTriggerClick; the click goes on to the box, which takes the focus.
CloseTag(f) ==
  /\ ms[f].tags # <<>>
  /\ Becomes(InputFocus(RemoveFromSelection([Form EXCEPT !.at = NoField], f), f))

\* The keys, in the input at the focus: each clears the timer when it is released.
Key(f, e) == at = f /\ Becomes([e EXCEPT ![f].timer = FALSE])
Timed(f, e) == at = f /\ Becomes([e EXCEPT ![f].timer = e[f].selection = <<>>])

Tab(f, to) ==
  LET left == [Form EXCEPT ![f] = OnBlur(@), !.at = NoField]
  IN  /\ at = f
      /\ IF to = NoField THEN Becomes(left) ELSE Becomes([InputFocus(left, to) EXCEPT ![to].timer = FALSE])

Type(f) ==
  IF ms[f].selection # <<>> THEN Timed(f, Form)
  ELSE \E input \in Inputs : Timed(f, [Form EXCEPT ![f].input = input])
Paste(f) == at = f /\ \E input \in Inputs : Becomes([Form EXCEPT ![f].input = input])

\* In an empty input it takes the selection away.
Backspace(f) ==
  IF ms[f].input # NoInput
    THEN \E input \in Inputs \cup {NoInput} : Timed(f, [Form EXCEPT ![f].input = input])
  ELSE IF ms[f].selection = <<>> THEN Timed(f, Form)
  ELSE Timed(f, SelectionChange([Form EXCEPT ![f] = RenderSelection([@ EXCEPT !.selection = <<>>])], f))

\* The list is hidden, but the box stays expanded.
Esc(f) == Key(f, IF ms[f].expanded THEN [Form EXCEPT ![f].shown = FALSE] ELSE Form)

\* Enter and the comma: the active suggestion, seen or not.
Enter(f) ==
  LET m == ms[f]
  IN  Key(f, IF m.expanded /\ m.active # 0 THEN SelectItem(Form, f, m.listed[m.active]) ELSE Form)

\* _moveSelectedRow: around the ends.
Arrow(f, dir) ==
  LET m == Expand(ms[f])
      n == Len(m.listed)
      to == IF m.active = 0 THEN (IF dir = 1 THEN 1 ELSE n) ELSE m.active + dir
  IN  Key(f, [Form EXCEPT ![f] = [m EXCEPT !.active = IF n = 0 THEN 0 ELSE IF to > n THEN 1
                                                      ELSE IF to < 1 THEN n ELSE to]])

CtrlDown(f) == f \in CtrlFields /\ at = f /\ Becomes([Form EXCEPT ![f].ctrl = TRUE])
CtrlUp(f) == ms[f].ctrl /\ Key(f, [Form EXCEPT ![f].ctrl = FALSE])

\* The timer of a key, typeDelay after it.
TypeTimer(f) ==
  /\ ms[f].timer
  /\ LET e == [Form EXCEPT ![f].timer = FALSE]
     IN  Becomes([e EXCEPT ![f] = IF @.expanded THEN ProcessSuggestions(@) ELSE Expand(@)])

FormNext ==
  \/ Load \/ ClickElsewhere
  \/ \E f \in Fields :
       \/ ClickInput(f) \/ TriggerClick(f) \/ CloseTag(f) \/ TypeTimer(f)
       \/ \E i \in DOMAIN ms[f].listed : MouseOver(f, i) \/ ItemClick(f, i)
       \/ \E to \in {Other(f), NoField} : Tab(f, to)
       \/ Type(f) \/ Paste(f) \/ Backspace(f) \/ Esc(f) \/ Enter(f)
       \/ \E dir \in {-1, 1} : Arrow(f, dir)
       \/ CtrlDown(f) \/ CtrlUp(f)

FormSpec == FormInit /\ [][FormNext]_formVars

-----------------------------------------------------------------------------
\* The tags show the selection, one choice at most, and a topic that was chosen since the
\* group was last changed is one of the group's, whatever the lists were opened for: by
\* keys, by clicks, or by timers that come after both.
FormFits ==
  LET group == ms["group"].selection
      topic == ms["topic"].selection
  IN  /\ \A f \in Fields : ms[f].tags = ms[f].selection /\ Len(ms[f].selection) <= 1
      /\ (chosenLast /\ group # <<>> /\ topic # <<>>) =>
           topic[1].name \in ToSet(TopicsOf(group[1].name))

=============================================================================
