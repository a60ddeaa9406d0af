------------------------------- MODULE TokenField -------------------------------
(***************************************************************************)
(* The owners of a new alarm (add.js, bootstrap-tokenfield.js): addresses  *)
(* become tokens around an input, a token that is edited changes places    *)
(* with the input, and the form submits the value of the field behind it.  *)
(* A key is pressed and released in one step.                              *)
(***************************************************************************)
EXTENDS Positions, FiniteSetsExt, SequencesExt

CONSTANTS
  Blank,         \* what is typed between delimiters may be blank,
  TypedPieces,   \* what may be typed: sequences of at most one piece,
  PastedPieces,  \* and pasted: sequences of pieces
  NoToken,
  MaxTokens      \* bound of the model

ASSUME TokenFieldAssumption ==
  /\ MaxTokens \in Nat
  /\ \A pieces \in TypedPieces \cup PastedPieces : pieces \in Seq(ToSet(pieces))

VARIABLES
  field,         \* the field: see Field
  blursMoved     \* the browser blurs an input that is moved in the page

tokenVars == <<field, blursMoved>>

\* The tokens in order, and how many of them are before the input; value is $element.val().
\* taken is history: a token has gone into the input since the value was made.
Field == [tokens |-> <<>>, slot |-> 0, typed |-> <<>>, edit |-> FALSE, value |-> <<>>,
          at |-> "away", focused |-> FALSE, active |-> {}, first |-> NoToken,
          keepActive |-> FALSE,          \* preventDeactivation
          keepInput |-> FALSE,           \* preventCreateTokens
          pasteTimer |-> FALSE, focusTimer |-> FALSE, taken |-> FALSE]

Ids(e) == [i \in DOMAIN e.tokens |-> e.tokens[i].id]
Place(e, id) == CHOOSE i \in DOMAIN e.tokens : e.tokens[i].id = id
Before(e, id) == LET i == Place(e, id) IN IF i = 1 THEN NoToken ELSE Ids(e)[i - 1]
After(e, id) == LET i == Place(e, id) IN IF i = Len(e.tokens) THEN NoToken ELSE Ids(e)[i + 1]
ActivePlaces(e) == {i \in DOMAIN e.tokens : e.tokens[i].id \in e.active}
FirstActive(e) == ElementsAt(Ids(e), ActivePlaces(e))[1]
LastActive(e) == Last(ElementsAt(Ids(e), ActivePlaces(e)))

\* index() - 2: the input counts too, and a token that has been removed is at -1.
IndexOf(e, id) ==
  IF id \notin ToSet(Ids(e)) THEN -3
  ELSE Place(e, id) - 1 + (IF e.slot < Place(e, id) THEN 1 ELSE 0)

-----------------------------------------------------------------------------
TokensList(e) == [i \in DOMAIN e.tokens |-> e.tokens[i].value]

\* What createToken and remove set the element's value to.
SetValue(e) == [e EXCEPT !.value = TokensList(e), !.taken = FALSE]

\* createToken of each value, unless it is blank; setTokens, with all of them before the input.
Created(e, pieces) ==
  LET values == ElementsAt(pieces, {i \in DOMAIN pieces : pieces[i] # Blank})
      free == (1..Len(e.tokens) + Len(values) + 1) \ (ToSet(Ids(e)) \cup {e.first})
  IN  [n \in DOMAIN values |-> [id |-> Nth(free, n), value |-> values[n]]]
SetTokens(e, pieces) ==
  LET new == Created(e, pieces)
  IN  IF new = <<>> THEN e
      ELSE SetValue([e EXCEPT !.tokens = Inserted(@, e.slot, new), !.slot = @ + Len(new)])

Deactivate(e) == IF e.keepActive THEN e ELSE [e EXCEPT !.active = {}, !.first = NoToken]

\* unedit: the input goes to the end, and loses the focus by that.
Unedit(e, refocus) ==
  LET moved == [e EXCEPT !.slot = Len(e.tokens), !.edit = FALSE,
                         !.at = IF @ = "input" THEN "away" ELSE @,
                         !.focusTimer = @ \/ refocus]
  IN  IF e.at = "input" /\ blursMoved
        THEN [Deactivate(moved) EXCEPT !.focused = FALSE, !.keepActive = FALSE, !.keepInput = FALSE]
      ELSE moved

CreateTokensFromInput(e, refocus) ==
  LET Ended(d) == IF e.typed # <<>> /\ TokensList(d) = TokensList(e) THEN e
                  ELSE IF e.edit THEN Unedit([d EXCEPT !.typed = <<>>], refocus)
                  ELSE [d EXCEPT !.typed = <<>>]
  IN  Ended(SetTokens(e, e.typed))

\* The handlers of blur and focus; what is edited becomes a token again.
Blur(e) ==
  LET d == [Deactivate(e) EXCEPT !.focused = FALSE]
      done == IF d.edit /\ ~d.keepInput THEN CreateTokensFromInput(d, FALSE) ELSE d
  IN  [done EXCEPT !.keepActive = FALSE, !.keepInput = FALSE]

MoveFocus(e, to) ==
  LET left == IF e.at \in {"away", to} THEN e ELSE Blur([e EXCEPT !.at = "away"])
      Focused(d) == IF e.at = to \/ to = "away" THEN d
                    ELSE IF to = "input" THEN [d EXCEPT !.focused = TRUE, !.active = {}, !.first = NoToken]
                    ELSE [d EXCEPT !.focused = TRUE]
  IN  Focused([left EXCEPT !.at = to])

-----------------------------------------------------------------------------
\* activate: alone, with others, or with all between it and the first.
Between(e, ends) ==
  LET from == IF Min(ends) + 1 < 0 THEN Len(e.tokens) + Min(ends) + 1 ELSE Min(ends) + 1
  IN  {Ids(e)[i] : i \in {i \in DOMAIN e.tokens : i - 1 >= from /\ i - 1 < Max(ends)}}
Activate(e, id, add, multi) ==
  LET Alone(d) == IF add THEN d ELSE [d EXCEPT !.active = {}, !.first = id]
      Activated(d) ==
        IF id = NoToken THEN d
        ELSE [d EXCEPT !.active = {id} \cup @ \cup
                IF multi /\ d.first # NoToken
                  THEN Between(d, {IndexOf(d, d.first), IndexOf(d, id)}) ELSE {}]
  IN  Activated(Alone(MoveFocus(e, "helper")))

ActivateOne(e, id) == Activate(e, id, FALSE, FALSE)
ActivateAll(e) ==
  IF e.tokens = <<>> THEN e
  ELSE [MoveFocus(e, "helper") EXCEPT !.active = ToSet(Ids(e)), !.first = NoToken]

\* deactivate and toggle select the copy helper's text, which focuses it.
Deactivated(e, ids) == MoveFocus([e EXCEPT !.active = @ \ ids], "helper")
Toggle(e, id) ==
  MoveFocus([e EXCEPT !.active = IF id \in @ THEN @ \ {id} ELSE @ \cup {id}], "helper")

\* next and prev: with add they take one back that is beyond the first; so does next if none
\* is active and the first is still there, and then takes nothing back.
Next_(e, add) ==
  LET beyond == IF e.active = {} THEN IndexOf(e, e.first) # -3
                ELSE IndexOf(e, FirstActive(e)) < IndexOf(e, e.first)
  IN  IF add /\ e.first # NoToken /\ beyond
        THEN Deactivated(e, IF e.active = {} THEN {} ELSE {FirstActive(e)})
      ELSE IF e.active = {} \/ After(e, LastActive(e)) = NoToken THEN MoveFocus(e, "input")
      ELSE Activate(e, After(e, LastActive(e)), add, FALSE)

Prev(e, add) ==
  LET before == IF e.active = {} THEN NoToken ELSE Before(e, FirstActive(e))
      to == IF before # NoToken THEN before ELSE IF e.tokens = <<>> THEN NoToken ELSE Ids(e)[1]
  IN  IF add /\ e.active # {} /\ e.first # NoToken /\ IndexOf(e, LastActive(e)) > IndexOf(e, e.first)
        THEN Deactivated(e, {LastActive(e)})
      ELSE IF to = NoToken /\ ~add THEN MoveFocus(e, "input")
      ELSE Activate(e, to, add, FALSE)

\* edit: the input takes the place of the token, and its text.
Edit(e, id) ==
  LET i == Place(e, id)
      d == [e EXCEPT !.tokens = RemoveAt(@, i), !.slot = i - 1, !.active = @ \ {id},
                     !.typed = <<e.tokens[i].value>>, !.keepInput = TRUE, !.taken = TRUE]
  IN  [MoveFocus(d, "input") EXCEPT !.edit = TRUE]

\* Mutant: the value is only made anew when tokens are created.
RemoveTokensMutant(e, ids) ==
  LET kept == {i \in DOMAIN e.tokens : e.tokens[i].id \notin ids}
  IN  [e EXCEPT !.tokens = ElementsAt(@, kept), !.slot = Cardinality({i \in kept : i <= @}),
                !.active = @ \ ids]

\* remove, after the next or the previous token has become active, by key, or by its cross.
RemoveTokens(e, ids) ==
  LET kept == {i \in DOMAIN e.tokens : e.tokens[i].id \notin ids}
  IN  SetValue([e EXCEPT !.tokens = ElementsAt(@, kept), !.slot = Cardinality({i \in kept : i <= @}),
                         !.active = @ \ ids])
RemoveActive(e, dir) ==
  LET wasFirst == dir = "prev" /\ (e.active = {} \/ Before(e, FirstActive(e)) = NoToken)
      Left(d) == IF d.tokens = <<>> \/ wasFirst THEN MoveFocus(d, "input") ELSE d
  IN  Left(RemoveTokens(IF dir = "prev" THEN Prev(e, FALSE) ELSE Next_(e, FALSE), e.active))

-----------------------------------------------------------------------------
TokenFieldInit == field = Field /\ blursMoved \in BOOLEAN

\* Ids count from the first token on after each event; that of a removed one is 0.
Renumbered(e) ==
  LET New(id) == IF id \in ToSet(Ids(e)) THEN Place(e, id) ELSE 0
  IN  [e EXCEPT !.tokens = [i \in DOMAIN @ |-> [id |-> i, value |-> @[i].value]],
                !.active = {New(id) : id \in @},
                !.first = IF @ = NoToken THEN NoToken ELSE New(@)]

FieldBecomes(e) == /\ Len(e.tokens) <= MaxTokens
                   /\ field' = Renumbered(e) /\ UNCHANGED blursMoved

NearestBefore(e) == IF e.slot = 0 THEN NoToken ELSE Ids(e)[e.slot]
NearestAfter(e) == IF e.slot = Len(e.tokens) THEN NoToken ELSE Ids(e)[e.slot + 1]

AtInput == field.at = "input"
AtHelper == field.at = "helper"

\* Typing, also what leaves less in the input than before.
TypeIn ==
  /\ AtInput
  /\ \E pieces \in TypedPieces \cup {<<>>} :
       pieces # field.typed /\ FieldBecomes([field EXCEPT !.typed = pieces])
PasteAddresses ==
  /\ AtInput
  /\ \E pieces \in PastedPieces :
       FieldBecomes([field EXCEPT !.typed = pieces, !.pasteTimer = TRUE])
PasteTimer == field.pasteTimer /\ FieldBecomes(CreateTokensFromInput([field EXCEPT !.pasteTimer = FALSE], FALSE))
FocusTimer == field.focusTimer /\ FieldBecomes(MoveFocus([field EXCEPT !.focusTimer = FALSE], "input"))

\* Backspace in the empty input; in the copy helper it removes, as Delete does.
BackspaceToToken ==
  /\ AtInput /\ field.typed = <<>>
  /\ LET d == [field EXCEPT !.keepActive = TRUE]
         id == NearestBefore(field)
     IN  FieldBecomes(IF id = NoToken THEN d ELSE ActivateOne(d, id))
RemoveKey(dir) == AtHelper /\ FieldBecomes(RemoveActive(field, dir))

\* A comma, a tab or Enter ends an address; Enter edits the one token that is active.
Comma == AtInput /\ field.typed # <<>> /\ FieldBecomes(CreateTokensFromInput(field, FALSE))
EndKey ==
  /\ (AtInput /\ field.typed # <<>>) \/ (field.edit /\ field.at # "away")
  /\ FieldBecomes(CreateTokensFromInput(field, field.edit))
EnterEdits ==
  /\ AtHelper /\ ~field.edit /\ Cardinality(field.active) = 1
  /\ \E id \in field.active : FieldBecomes(Edit(field, id))
TabAway ==
  /\ (AtInput /\ field.typed = <<>>) \/ AtHelper
  /\ ~field.edit
  /\ \E to \in {"input", "away"} \ {field.at} : FieldBecomes(MoveFocus(field, to))

\* Left and right; up and down with shift.
LeftRight(dir, shift) ==
  \/ /\ AtInput /\ field.typed = <<>>
     /\ LET id == IF dir = "prev" THEN NearestBefore(field) ELSE NearestAfter(field)
        IN  id # NoToken /\ FieldBecomes(ActivateOne([field EXCEPT !.keepActive = TRUE], id))
  \/ AtHelper /\ FieldBecomes(IF dir = "prev" THEN Prev(field, shift) ELSE Next_(field, shift))

\* In the copy helper it throws if no token has been remembered as the first.
UpDown(dir) ==
  LET id == IF dir = "prev" THEN NearestBefore(field) ELSE NearestAfter(field)
      Opposite(d, x) == d.first \in ToSet(Ids(d)) /\ (IF dir = "prev" THEN Place(d, x) > Place(d, d.first)
                                                       ELSE Place(d, x) < Place(d, d.first))
      Far(d) == IF d.tokens = <<>> THEN NoToken ELSE IF dir = "prev" THEN Ids(d)[1] ELSE Last(Ids(d))
  IN  /\ AtHelper \/ (AtInput /\ field.typed = <<>> /\ id # NoToken)
      /\ \E d \in {IF AtInput THEN ActivateOne(field, id) ELSE field} :
           /\ d.first # NoToken
           /\ FieldBecomes(Activate([d EXCEPT !.active = {x \in @ : ~Opposite(d, x)}], Far(d), TRUE, TRUE))

SelectAll == field.at # "away" /\ field.typed = <<>> /\ FieldBecomes(ActivateAll(field))

\* The mouse is pressed on a token, which takes the focus from the field but leaves what is
\* active, and released.
Pressed(e) == MoveFocus([e EXCEPT !.keepActive = TRUE], "away")
Clicked(id, how) ==
  LET d == [Pressed(field) EXCEPT !.keepActive = FALSE]
  IN  CASE how = "ctrl" -> Toggle(d, id)
        [] how = "shift" -> Activate(d, id, TRUE, TRUE)
        [] how = "plain" -> ActivateOne(d, id)
ClickToken(id) == \E how \in {"plain", "ctrl", "shift"} : FieldBecomes(Clicked(id, how))
DoubleClick(id) == FieldBecomes(Edit(Clicked(id, "plain"), id))
ClickCross(id) == FieldBecomes(MoveFocus(RemoveTokens(Pressed(field), {id}), "input"))

ClickIntoInput == ~AtInput /\ FieldBecomes(MoveFocus(field, "input"))
ClickBeside == FieldBecomes([MoveFocus(field, "away") EXCEPT !.focusTimer = TRUE])
ClickAway == field.at # "away" /\ FieldBecomes(MoveFocus(field, "away"))

TokenFieldNext ==
  \/ TypeIn \/ PasteAddresses \/ PasteTimer \/ FocusTimer
  \/ BackspaceToToken \/ Comma \/ EndKey \/ EnterEdits \/ TabAway \/ SelectAll
  \/ \E dir \in {"prev", "next"} :
       RemoveKey(dir) \/ UpDown(dir) \/ \E shift \in BOOLEAN : LeftRight(dir, shift)
  \/ \E i \in DOMAIN field.tokens : LET id == field.tokens[i].id
                                    IN  ClickToken(id) \/ DoubleClick(id) \/ ClickCross(id)
  \/ ClickIntoInput \/ ClickBeside \/ ClickAway

TokenFieldSpec == TokenFieldInit /\ [][TokenFieldNext]_tokenVars

-----------------------------------------------------------------------------
\* What the form submits are the tokens that are shown, unless one has gone into the
\* input to be edited since; the input is behind all tokens unless one is edited, and no
\* token is active - to be removed by the next key - while the input has the focus.
OwnersAreTheTokens ==
  /\ field.value = TokensList(field) \/ field.taken
  /\ field.edit \/ field.slot = Len(field.tokens)
  /\ AtInput => field.active = {}
  /\ field.active \subseteq ToSet(Ids(field))

=============================================================================
