--------------------------- MODULE DateRangePicker ---------------------------
(***************************************************************************)
(* The widget daterangepicker.js, with which the pages of the metrics      *)
(* choose their days, without time of day (timePicker is off).  Days are   *)
(* numbers; a calendar shows the days of a month and one day around it.    *)
(*                                                                         *)
(* A method calls others that change the same object: each is an operator  *)
(* on the record of the picker, and each event of the browser an action.   *)
(***************************************************************************)
EXTENDS Integers, FiniteSets

CONSTANTS
  Days,         \* 1..n
  MonthLength,  \* bound of the model
  Options       \* the options a picker may be made with

NoDate == 0
NoMonth == -9

ASSUME PickerAssumption ==
  /\ IsFiniteSet(Days) /\ Days = 1..Cardinality(Days) /\ MonthLength \in Nat \ {0}
  /\ \A o \in Options :
       /\ {o.minDate, o.maxDate} \subseteq Days \cup {NoDate}
       /\ o.minDate # NoDate /\ o.maxDate # NoDate => o.minDate <= o.maxDate
       /\ o.limit \in Nat     \* dateLimit in days, 0 without
       /\ {o.single, o.linked, o.autoApply, o.always, o.custom, o.dropdowns} \subseteq BOOLEAN
       /\ \A r \in o.ranges : r \in Days \X Days /\ r[1] <= r[2]

VARIABLES
  options,
  picker,    \* the object
  label      \* what the callback of the page wrote last: the range it was given

pickerVars == <<options, picker, label>>

Month(d) == (d - 1) \div MonthLength
FirstDay(m) == m * MonthLength + 1
LastDay(m) == (m + 1) * MonthLength
Later(a, b) == IF a >= b THEN a ELSE b
Earlier(a, b) == IF a <= b THEN a ELSE b
AtLeast(d, bound) == IF bound = NoDate THEN d ELSE Later(d, bound)
AtMost(d, bound) == IF bound = NoDate THEN d ELSE Earlier(d, bound)

\* The constructor trims the ranges, and leaves out those nothing remains of.
Ranges ==
  {r \in {<<AtLeast(r[1], options.minDate), AtMost(r[2], options.maxDate)>>
            : r \in options.ranges} : r[1] <= r[2]}

Customized == (options.ranges = {} /\ ~options.single) \/ options.always

\* The buttons are hidden where a range is applied without them.
Buttons == ~options.single /\ ~options.autoApply

\* The dates a page gives are trimmed too.
Construct(start, end) ==
  LET s == AtLeast(start, options.minDate)
  IN  [startDate |-> s, endDate |-> IF options.single THEN s ELSE AtMost(end, options.maxDate),
       isShowing |-> FALSE, old |-> <<NoDate, NoDate>>,
       left |-> NoMonth, right |-> NoMonth,    \* the months of the calendars
       calendars |-> Customized,               \* class show-calendar
       from |-> NoDate, to |-> NoDate,         \* the inputs above the calendars
       focus |-> "none",                       \* the one that has the focus
       applyBtn |-> FALSE]

-----------------------------------------------------------------------------
\* The months follow the dates, unless both are to be seen already; the right one
\* does not go beyond maxDate.
UpdateMonthsInView(p) ==
  LET s == Month(p.startDate)
      e == IF p.endDate = NoDate THEN s ELSE Month(p.endDate)
      inView == {s, e} \subseteq {p.left, p.right}
      q == IF inView /\ (p.endDate = NoDate \/ ~options.single) THEN p
           ELSE [p EXCEPT !.left = s,
                          !.right = IF ~options.linked /\ e # s THEN e ELSE s + 1]
      beyond == options.maxDate # NoDate /\ options.linked /\ ~options.single
                  /\ FirstDay(q.right) + 1 > options.maxDate
      last == Month(options.maxDate)
  IN  IF ~beyond \/ (inView /\ p.endDate # NoDate) THEN q
      ELSE [q EXCEPT !.right = last, !.left = last - 1]

\* Mutant: a start before minDate is taken as it is.
SetStartDateMutant(p, d) ==
  UpdateMonthsInView([p EXCEPT !.startDate = AtMost(d, options.maxDate)])

SetStartDate(p, d) ==
  UpdateMonthsInView(
    [p EXCEPT !.startDate = AtMost(AtLeast(d, options.minDate), options.maxDate)])

SetEndDate(p, d) ==
  LET e == AtMost(Later(d, p.startDate), options.maxDate)
      limit == IF options.limit = 0 THEN NoDate ELSE p.startDate + options.limit
  IN  UpdateMonthsInView([p EXCEPT !.endDate = AtMost(e, limit)])

\* The calendars open for dates that no named range has.
CalculateChosenLabel(p) ==
  [p EXCEPT !.calendars = @ \/ <<p.startDate, p.endDate>> \notin Ranges]

UpdateCalendars(p) == IF p.endDate = NoDate THEN p ELSE CalculateChosenLabel(p)

UpdateFormInputs(p) ==
  IF p.focus # "none" THEN p
  ELSE [p EXCEPT !.from = p.startDate,
                 !.to = IF p.endDate = NoDate THEN @ ELSE p.endDate,
                 !.applyBtn = options.single \/ (p.endDate # NoDate /\ p.startDate <= p.endDate)]

UpdateView(p) == UpdateFormInputs(UpdateCalendars(UpdateMonthsInView(p)))

\* hide takes the last range back when the new one has no end.  The callback gets
\* a range that is new.
Closed(p) ==
  LET q == IF p.endDate = NoDate THEN [p EXCEPT !.startDate = p.old[1], !.endDate = p.old[2]]
           ELSE p
  IN  [q EXCEPT !.isShowing = FALSE, !.focus = "none"]

Hide(p) ==
  /\ picker' = Closed(p)
  /\ LET range == <<Closed(p).startDate, Closed(p).endDate>>
     IN  label' = IF range = p.old THEN label ELSE range
  /\ UNCHANGED options

Keep(p) == picker' = p /\ UNCHANGED <<options, label>>

-----------------------------------------------------------------------------
Show ==
  /\ ~picker.isShowing
  /\ Keep([UpdateView([picker EXCEPT !.old = <<picker.startDate, picker.endDate>>])
             EXCEPT !.isShowing = TRUE])

\* A click elsewhere, or on the element once more (toggle): nothing is applied,
\* but the callback gets the new range all the same.
OutsideClick == picker.isShowing /\ Hide(picker)

ClickApply == picker.isShowing /\ Buttons /\ picker.applyBtn /\ Hide(picker)

ClickCancel ==
  /\ picker.isShowing /\ Buttons
  /\ Hide([picker EXCEPT !.startDate = picker.old[1], !.endDate = picker.old[2]])

\* A named range is applied at once.
ClickRange(r) ==
  /\ picker.isShowing /\ r \in Ranges
  /\ Hide([picker EXCEPT !.startDate = r[1], !.endDate = r[2],
                         !.calendars = @ /\ options.always])

ClickCustomRange ==
  /\ picker.isShowing /\ options.custom
  /\ Keep([picker EXCEPT !.calendars = TRUE])

\* The mouse over a named range, and off it again.
HoverRange(r) ==
  /\ picker.isShowing /\ picker.focus = "none" /\ r \in Ranges
  /\ Keep([picker EXCEPT !.from = r[1], !.to = r[2]])

MouseLeave == picker.isShowing /\ Keep(UpdateFormInputs(picker))

Calendars == picker.isShowing /\ picker.calendars

\* The days of a calendar that may be chosen: none before minDate or after maxDate
\* or, while an end is chosen, beyond the limit.
Available(month) ==
  LET limit == IF options.limit = 0 \/ picker.endDate # NoDate THEN NoDate
               ELSE picker.startDate + options.limit
  IN  {d \in Days :
         /\ FirstDay(month) - 1 <= d /\ d <= LastDay(month) + 1
         /\ d = AtLeast(d, options.minDate)
         /\ d = AtMost(AtMost(d, options.maxDate), limit)}

Clickable == Available(picker.left) \cup IF options.single THEN {} ELSE Available(picker.right)

\* The inputs show the day the mouse is over, where a click would put it.
HoverDate(d) ==
  /\ Calendars /\ d \in Clickable
  /\ Keep(IF picker.endDate # NoDate
            THEN [picker EXCEPT !.from = IF picker.focus = "start" THEN @ ELSE d]
            ELSE [picker EXCEPT !.to = IF picker.focus = "end" THEN @ ELSE d])

\* A day is clicked: the start of a range when there is none begun or the day is
\* before its start, otherwise its end, which autoApply applies.
ClickDate(d) ==
  /\ Calendars /\ d \in Clickable
  /\ LET starts == picker.endDate # NoDate \/ d < picker.startDate
         p == [picker EXCEPT !.focus = "none"]
         q == IF starts THEN SetStartDate([p EXCEPT !.endDate = NoDate], d)
                        ELSE SetEndDate(p, d)
     IN  IF options.single THEN Hide(SetEndDate(q, q.startDate))
         ELSE IF ~starts /\ options.autoApply THEN Hide(UpdateView(q))
         ELSE Keep(UpdateView(q))

\* The calendars there are to click: a single date is chosen from the left one.
Visible(side) == Calendars /\ (side = "right" => ~options.single)

\* The arrows of the calendars; linked ones move together.
ClickPrev(side) ==
  /\ Visible(side)
  /\ LET bound == IF side = "left" THEN options.minDate ELSE picker.startDate
         month == IF side = "left" THEN picker.left ELSE picker.right
     IN  /\ bound = NoDate \/ bound < FirstDay(month)
         /\ side = "left" \/ ~options.linked
         /\ month >= 0 /\ (options.linked => picker.right >= 0)     \* bound of the model
  /\ Keep(UpdateCalendars(IF side = "right" THEN [picker EXCEPT !.right = @ - 1]
            ELSE [picker EXCEPT !.left = @ - 1, !.right = IF options.linked THEN @ - 1 ELSE @]))

ClickNext(side) ==
  /\ Visible(side)
  /\ LET month == IF side = "left" THEN picker.left ELSE picker.right
     IN  /\ options.maxDate = NoDate \/ options.maxDate > LastDay(month)
         /\ side = "right" \/ ~options.linked \/ options.single
         /\ FirstDay(month) \in Days     \* bound of the model
  /\ Keep(UpdateCalendars(IF side = "left" THEN [picker EXCEPT !.left = @ + 1]
            ELSE [picker EXCEPT !.right = @ + 1, !.left = IF options.linked THEN @ + 1 ELSE @]))

\* A month is chosen from the list of a calendar: the right one not before the start.
MonthOrYearChanged(side, chosen) ==
  /\ Visible(side) /\ options.dropdowns
  /\ LET m == IF side = "right" THEN Later(chosen, Month(picker.startDate)) ELSE chosen
         low == IF options.minDate = NoDate THEN m ELSE Later(m, Month(options.minDate))
         month == IF options.maxDate = NoDate THEN low ELSE Earlier(low, Month(options.maxDate))
     IN  Keep(UpdateCalendars(
           IF side = "left"
             THEN [picker EXCEPT !.left = month, !.right = IF options.linked THEN month + 1 ELSE @]
             ELSE [picker EXCEPT !.right = month, !.left = IF options.linked THEN month - 1 ELSE @]))

\* The user tabs or clicks into an input: into that of the end to choose only it.
FormInputsFocused(side) ==
  /\ Calendars /\ ~options.single
  /\ LET p == [picker EXCEPT !.focus = side]
     IN  Keep(IF side = "start" THEN p
              ELSE UpdateView(SetStartDate([p EXCEPT !.endDate = NoDate], p.startDate)))

\* The end that was there, or was hovered over, comes back.
FormInputsBlurred ==
  /\ picker.isShowing /\ picker.focus # "none"
  /\ LET p == [picker EXCEPT !.focus = "none"]
     IN  Keep(IF p.endDate = NoDate /\ p.to # NoDate THEN UpdateView(SetEndDate(p, p.to)) ELSE p)

\* A date is typed into the input that has the focus.
FormInputsChanged(d) ==
  /\ picker.isShowing /\ picker.focus # "none"
  /\ LET right == picker.focus = "end"
         from == IF right THEN picker.from ELSE d
         to == IF right THEN d ELSE picker.to
         p == SetEndDate(SetStartDate(picker, IF right THEN Earlier(from, to) ELSE from), to)
     IN  Keep(UpdateView(IF right THEN [p EXCEPT !.from = p.startDate, !.to = d]
                                  ELSE [p EXCEPT !.from = d, !.to = p.endDate]))

-----------------------------------------------------------------------------
\* A page makes a picker for a range its options allow, and shows that range.
PickerInit(start, end) ==
  /\ options \in Options
  /\ start = AtMost(AtLeast(start, options.minDate), options.maxDate)
  /\ start <= end /\ end = AtMost(end, options.maxDate)
  /\ picker = Construct(start, end)
  /\ label = <<start, picker.endDate>>

Pick ==
  \/ Show \/ OutsideClick \/ ClickApply \/ ClickCancel \/ ClickCustomRange
  \/ MouseLeave \/ FormInputsBlurred
  \/ \E r \in Ranges : ClickRange(r) \/ HoverRange(r)
  \/ \E d \in Days : HoverDate(d) \/ ClickDate(d) \/ FormInputsChanged(d)
  \/ \E side \in {"left", "right"} : 
       \/ ClickPrev(side) \/ ClickNext(side)
       \/ \E d \in Days : MonthOrYearChanged(side, Month(d))
  \/ \E side \in {"start", "end"} : FormInputsFocused(side)

PickerSpec ==
  /\ \E start, end \in Days : PickerInit(start, end)
  /\ [][Pick]_pickerVars

-----------------------------------------------------------------------------
Months == -2..Cardinality(Days)

PickerTypeOK ==
  /\ options \in Options
  /\ picker.startDate \in Days /\ picker.endDate \in Days \cup {NoDate}
  /\ {picker.isShowing, picker.calendars, picker.applyBtn} \subseteq BOOLEAN
  /\ {picker.left, picker.right} \subseteq Months \cup {NoMonth}
  /\ {picker.from, picker.to} \subseteq Days \cup {NoDate}
  /\ picker.focus \in {"none", "start", "end"}
  /\ label[1] \in Days /\ label[2] \in Days

\* Whatever was clicked, typed, left half-way or cancelled: a range lies between
\* the dates the options allow and ends no earlier than it starts; when the picker
\* is closed it is whole, and the one the page was told last; linked calendars,
\* where both are shown, have two months in a row.
RangeIsAllowed ==
  /\ picker.startDate = AtMost(AtLeast(picker.startDate, options.minDate), options.maxDate)
  /\ ~picker.isShowing => label = <<picker.startDate, picker.endDate>>
  /\ picker.endDate # NoDate =>
       /\ picker.startDate <= picker.endDate
       /\ picker.endDate = AtMost(picker.endDate, options.maxDate)
  /\ options.linked /\ ~options.single /\ picker.left # NoMonth =>
       picker.right = picker.left + 1

=============================================================================
