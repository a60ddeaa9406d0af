------------------------------- MODULE SqlMode -------------------------------
(***************************************************************************)
(* The editor's SQL mode (plugins/codemirror/sql.js, MariaDB): one token   *)
(* of a line at a time, from a state that goes on over the end of a line.  *)
(* A line is a sequence of characters that count from 1 here.  Exponents,  *)
(* hexadecimal and binary numbers and dates are left out.                  *)
(***************************************************************************)
EXTENDS Integers, Sequences, FiniteSetsExt, SequencesExt

CONSTANTS
  Digits, Letters,     \* the characters of numbers and, with digits and _, of words
  WordStyle(_)         \* atom, builtin, keyword or string-2, as the word lists say, or none

NoStyle == "none"
WordChars == Letters \cup Digits \cup {"_"}
Operators == {"*", "+", "-", "%", "<", ">", "!", "=", "&", "|", "^"}
Brackets == {"(", ")", ",", ";", "[", "]"}
Quotes == {"'", "\""}
Backtick == "backtick"

StartState == [tokenize |-> "base", context |-> <<>>]

Has(text, i, chars) == i \in DOMAIN text /\ text[i] \in chars
\* eatWhile: the first place from i on that has none of the characters.
EatWhile(text, i, chars) ==
  Min({j \in i..Len(text) + 1 : j > Len(text) \/ text[j] \notin chars})
Eat(text, i, chars) == IF Has(text, i, chars) THEN i + 1 ELSE i

Tok(to, style, tokenize) == [to |-> to, style |-> style, tokenize |-> tokenize]

-----------------------------------------------------------------------------
\* A literal ends at its quote, unless a backslash that is not escaped itself is before it.
TokenLiteral(text, i, quote) ==
  LET Run(j) == Cardinality({k \in i..j - 1 : \A l \in k..j - 1 : text[l] = "\\"})
      ends == {j \in i..Len(text) : text[j] = quote /\ Run(j) % 2 = 0}
  IN  IF ends = {} THEN Tok(Len(text) + 1, "string", quote) ELSE Tok(Min(ends) + 1, "string", "base")

TokenComment(text, i) ==
  LET ends == {j \in i..Len(text) - 1 : text[j] = "*" /\ text[j + 1] = "/"}
  IN  IF ends = {} THEN Tok(Len(text) + 1, "comment", "comment") ELSE Tok(Min(ends) + 2, "comment", "base")

Number(text, i) ==
  LET whole == EatWhile(text, i, Digits)
      to == IF Has(text, whole, {"."}) /\ Has(text, whole + 1, Digits)
              THEN EatWhile(text, whole + 1, Digits) ELSE whole
  IN  Tok(Eat(text, to, {"."}), "number", "base")

\* `identifier`: it ends at a backtick that is not doubled.
HookIdentifier(text, i) ==
  LET run(j) == Cardinality({k \in i..j : \A l \in k..j : text[l] = Backtick})
      ends == {j \in i..Len(text) : text[j] = Backtick /\ ~Has(text, j + 1, {Backtick}) /\ run(j) % 2 = 1}
      word == EatWhile(text, i, WordChars)
  IN  IF ends # {} THEN Tok(Min(ends) + 1, "variable-2", "base")
      ELSE Tok(word, IF word > i THEN "variable-2" ELSE NoStyle, "base")

\* @name, @@name, @'name': a quoted name goes on to the last quote of the line.
HookVar(text, i0) ==
  LET i == Eat(text, i0, {"@"})
      quoted == Has(text, i, Quotes \cup {Backtick})
      lasts == {j \in i + 1..Len(text) : text[j] = text[i]}
      word == EatWhile(text, i, Letters \cup Digits \cup {"$", ".", "_"})
  IN  IF quoted THEN Tok(IF lasts = {} THEN i + 1 ELSE Max(lasts) + 1, "variable-2", "base")
      ELSE Tok(word, IF word > i THEN "variable-2" ELSE NoStyle, "base")

HookClient(text, i) ==
  IF Has(text, i, {"N"}) THEN Tok(i + 1, "atom", "base")
  ELSE IF Has(text, i, Letters \cup {".", "#", "!", "?"}) THEN Tok(i + 1, "variable-2", "base")
  ELSE Tok(i, NoStyle, "base")

Word(text, i) ==
  LET to == EatWhile(text, i, WordChars) IN Tok(to, WordStyle(SubSeq(text, i - 1, to - 1)), "base")

TokenBase(text, i0) ==
  LET ch == text[i0]
      i == i0 + 1
      space == EatWhile(text, i, {" "})
  IN  CASE ch = "@" -> HookVar(text, i)
        [] ch = Backtick -> HookIdentifier(text, i)
        [] ch = "\\" -> HookClient(text, i)
        [] ch \in Digits -> Number(text, i)
        [] ch = "?" /\ (space > i \/ i > Len(text) \/ Has(text, i, {";"})) ->
             Tok(IF space > i THEN space ELSE Eat(text, i, {";"}), "variable-3", "base")
        [] ch \in Quotes -> TokenLiteral(text, i, ch)
        [] ch \in {"n", "N"} /\ Has(text, i, Quotes) -> Tok(i, "keyword", "base")
        [] ch = "_" /\ Has(text, i, Letters) /\ Has(text, EatWhile(text, i, Letters \cup Digits), Quotes) ->
             Tok(EatWhile(text, i, Letters \cup Digits), "keyword", "base")
        [] ch \in Brackets -> Tok(i, NoStyle, "base")
        [] ch = "#" \/ (ch = "-" /\ Has(text, i, {"-"}) /\ Has(text, i + 1, {" "})) ->
             Tok(Len(text) + 1, "comment", "base")
        [] ch = "/" /\ Has(text, i, {"*"}) -> TokenComment(text, i + 1)
        [] ch = "." -> IF Has(text, i, Digits) THEN Tok(EatWhile(text, i, Digits), "number", "base")
                       ELSE IF Has(text, i, Letters \cup {"_"})
                         THEN Tok(EatWhile(text, i, Letters \cup {"_"}), "variable-2", "base")
                       ELSE Tok(i, NoStyle, "base")
        [] ch \in Operators -> Tok(EatWhile(text, i, Operators), NoStyle, "base")
        [] OTHER -> Word(text, i)

-----------------------------------------------------------------------------
\* token: the next token of a line, in a state, with the brackets that are open after it.
\* A bracket whose line goes on behind it aligns what follows, one at the end indents it.
Align(state, how) ==
  IF state.context # <<>> /\ Last(state.context).align = "unknown"
    THEN [state EXCEPT !.context = Front(@) \o <<[Last(@) EXCEPT !.align = how]>>] ELSE state

Bracket(text, i, token, state) ==
  LET str == SubSeq(text, i, token.to - 1)
      opened(type) == [type |-> type, indent |-> EatWhile(text, 1, {" "}) - 1, col |-> i - 1,
                       align |-> "unknown"]
  IN  IF str = <<"(">> THEN [state EXCEPT !.context = Append(@, opened(<<")">>))]
      ELSE IF str = <<"[">> THEN [state EXCEPT !.context = Append(@, opened(<<"]">>))]
      ELSE IF state.context # <<>> /\ Last(state.context).type = str
        THEN [state EXCEPT !.context = Front(@)]
      ELSE state

AfterToken(text, i, state, token) ==
  LET read == [state EXCEPT !.tokenize = token.tokenize]
  IN  [to |-> token.to, style |-> token.style,
       state |-> IF token.style = "comment" THEN read
                 ELSE Bracket(text, i, token, Align(read, "yes"))]
Token(text, i, state0) ==
  LET state == IF i = 1 THEN Align(state0, "no") ELSE state0
      space == EatWhile(text, i, {" "})
  IN  IF space > i THEN [to |-> space, style |-> NoStyle, state |-> state]
      ELSE AfterToken(text, i, state,
             CASE state.tokenize = "base" -> TokenBase(text, i)
               [] state.tokenize = "comment" -> TokenComment(text, i)
               [] OTHER -> TokenLiteral(text, i, state.tokenize))

\* processLine and highlightLine: all tokens of a line, and the state after it.
Advance(acc, t) == [at |-> t.to, state |-> t.state,
                    styles |-> Append(acc.styles, <<acc.at, t.to - 1, t.style>>)]
HighlightLine(text, state) ==
  LET read[n \in 0..Len(text)] ==       \* the first n tokens, of which each has a character
        IF n = 0 THEN [at |-> 1, state |-> state, styles |-> <<>>]
        ELSE LET acc == read[n - 1]
             IN  IF acc.at > Len(text) THEN acc ELSE Advance(acc, Token(text, acc.at, acc.state))
  IN  read[Len(text)]

\* indent: where a new line begins, for newlineAndIndent.
Indent(state, textAfter, unit) ==
  IF state.context = <<>> THEN "pass"
  ELSE LET cx == Last(state.context)
           closing == textAfter # <<>> /\ <<Head(textAfter)>> = cx.type
           more == IF closing THEN 0 ELSE 1
       IN  IF cx.align = "yes" THEN cx.col + more ELSE cx.indent + more * unit

=============================================================================
