------------------------------ MODULE CppBeast ------------------------------
(***************************************************************************)
(* uncategorized/cppbeast.py: process_content, thirteen operations on the  *)
(* text of a C++ file, one after another.                                  *)
(***************************************************************************)
EXTENDS Integers, Texts, TLC

Tab == "tab"
Quotes == {"'", "\""}
White == {Blank, NewLine}
Indentation == <<Blank, Blank>>
Raises == <<"IndexError">>     \* content[i] behind the end, or ''[-1]

ReplaceIndentation(text) == Replace(text, <<Tab>>, Indentation)

-----------------------------------------------------------------------------
(* clean_comments: one scan, which looks one symbol ahead and therefore    *)
(* never comes to the last one.  mode is a quote, a kind of comment or     *)
(* "code"; past says that the symbol belongs to the one before it.         *)
Scanner == [mode |-> "code", past |-> FALSE, clean |-> <<>>]
Keep(s, c) == [s EXCEPT !.clean = Append(s.clean, c)]

Scan(s, c, next) ==
    CASE s.past -> [s EXCEPT !.past = FALSE]
      [] s.mode \in Quotes -> [Keep(s, c) EXCEPT !.mode = IF c = s.mode THEN "code" ELSE @]
      [] s.mode = "block" -> IF <<c, next>> = <<"*", "/">>
                             THEN [s EXCEPT !.mode = "code", !.past = TRUE] ELSE s
      [] s.mode = "inline" -> IF c = NewLine THEN [s EXCEPT !.mode = "code"] ELSE s
      [] c \in Quotes -> [Keep(s, c) EXCEPT !.mode = c]
      [] <<c, next>> = <<"/", "*">> -> [s EXCEPT !.mode = "block", !.past = TRUE]
      [] <<c, next>> = <<"/", "/">> -> [s EXCEPT !.mode = "inline", !.past = TRUE]
      [] OTHER -> Keep(s, c)

RECURSIVE ScanFrom(_, _, _)
ScanFrom(text, i, s) ==
    IF i >= Len(text) THEN s ELSE ScanFrom(text, i + 1, Scan(s, text[i], text[i + 1]))

CleanComments(text) == ScanFrom(text, 1, Scanner).clean

RemoveMultipleSemiColons(text) == Exhaust(text, <<";", ";">>, <<";">>)

-----------------------------------------------------------------------------
(* align_indentation.  RestOf is what the brace or the arrow is put behind *)
(* ("while clean_content[-1] is white"), Level the indentation.            *)
Level(n) == [k \in 1..(2 * n) |-> Blank]
RestOf(clean) == RightStrip(clean, White)

(* Between parentheses line ends vanish; what follows a semicolon is taken *)
(* over unseen, a closing parenthesis too.  at = 0: content[i] raises.     *)
RECURSIVE Parenthesis(_, _, _, _)
Parenthesis(text, i, clean, depth) ==
    IF i = 0 \/ i > Len(text) THEN [at |-> 0, clean |-> clean]
    ELSE IF text[i] = ")" /\ depth = 0 THEN [at |-> i + 1, clean |-> Append(clean, ")")]
    ELSE IF text[i] = ";"
         THEN LET j == FirstOther(text, i + 1, White)
              IN IF j = 0 THEN [at |-> 0, clean |-> clean]
                 ELSE Parenthesis(text, j + 1, clean \o <<";", Blank, text[j]>>, depth)
    ELSE Parenthesis(text, i + 1, IF text[i] = NewLine THEN clean ELSE Append(clean, text[i]),
                     CASE text[i] = "(" -> depth + 1
                       [] text[i] = ")" -> depth - 1
                       [] OTHER -> depth)

(* One symbol of the scan, at position i: where it goes on (0: it raises), *)
(* the clean text, the level of indentation and the quote that is open.    *)
Go(at, clean, level, mode) == [at |-> at, clean |-> clean, level |-> level, mode |-> mode]

Quoted(text, i, s) ==
    Go(i + 1, IF text[i] = NewLine THEN s.clean ELSE Append(s.clean, text[i]), s.level,
       IF text[i] = s.mode THEN "code" ELSE s.mode)

OpenBrace(text, i, s) ==
    Go(IF RestOf(s.clean) = <<>> THEN 0 ELSE FirstOther(text, i + 1, White),
       RestOf(s.clean) \o <<Blank, "{", NewLine>> \o Level(s.level + 1), s.level + 1, "code")

CloseBrace(text, i, s) ==
    Go(IF RestOf(s.clean) = <<>> THEN 0 ELSE i + 1,
       RestOf(s.clean) \o <<NewLine>> \o Level(s.level - 1) \o <<"}">>
           \o (IF text[i + 1] \in White THEN <<>> ELSE <<Blank>>), s.level - 1, "code")

LineEnd(text, i, s) ==
    LET j == FirstOther(text, i, White)
        next == IF j = 0 THEN Len(text) + 1 ELSE j
    IN Go(next, s.clean \o SelectSeq(SubSeq(text, i, next - 1), LAMBDA c : c = NewLine)
                \o Level(s.level), s.level, "code")

Arrow(text, i, s) ==
    Go(IF RestOf(s.clean) = <<>> THEN 0 ELSE FirstOther(text, i + 2, White),
       RestOf(s.clean) \o <<"-", ">">>, s.level, "code")

EndStatement(text, i, s) ==
    Go(FirstOther(text, i + 1, {Blank}), s.clean \o <<";", NewLine>> \o Level(s.level),
       s.level, "code")

AlignOne(text, i, s) ==
    CASE s.mode \in Quotes -> Quoted(text, i, s)
      [] text[i] \in Quotes -> Go(i + 1, Append(s.clean, text[i]), s.level, text[i])
      [] text[i] = "{" -> OpenBrace(text, i, s)
      [] text[i] = "}" -> CloseBrace(text, i, s)
      [] text[i] = NewLine -> LineEnd(text, i, s)
      [] text[i] = "(" -> LET p == Parenthesis(text, i + 1, Append(s.clean, "("), 0)
                          IN Go(p.at, p.clean, s.level, "code")
      [] text[i] = ";" /\ text[i + 1] # NewLine -> EndStatement(text, i, s)
      [] text[i] = "-" /\ text[i + 1] = ">" -> Arrow(text, i, s)
      [] OTHER -> Go(i + 1, Append(s.clean, text[i]), s.level, "code")

RECURSIVE AlignFrom(_, _)
AlignFrom(text, s) ==
    IF s.at = 0 THEN Raises
    ELSE IF s.at >= Len(text) THEN s.clean ELSE AlignFrom(text, AlignOne(text, s.at, s))

AlignIndentation(text) == AlignFrom(text, Go(1, <<>>, 0, "code"))

-----------------------------------------------------------------------------
(* The operations on blanks. *)
CleanSpacesAtLineEnds(text) == Exhaust(LeftStrip(text, {Blank}), <<Blank, NewLine>>, <<NewLine>>)

CleanLine(line) ==
    LET lline == LeftStrip(line, {Blank})
    IN SubSeq(line, 1, Len(line) - Len(lline)) \o Exhaust(lline, Indentation, <<Blank>>)
CleanSpacesInTheMiddle(text) ==
    LET lines == SplitLines(text, {NewLine})
    IN Join([i \in DOMAIN lines |-> CleanLine(lines[i])], NewLine)

CleanSpacesBeforeChar(text, char) == Exhaust(text, <<Blank>> \o char, char)
CleanSpacesAfterChar(text, char) == Exhaust(text, char \o <<Blank>>, char)
CleanSpacesBefore(text) ==
    FoldLeft(LAMBDA t, c : CleanSpacesBeforeChar(t, <<c>>), text, <<")", "]", ",", ";">>)
CleanSpacesAfter(text) ==
    FoldLeft(LAMBDA t, c : CleanSpacesAfterChar(t, <<c>>), text, <<"(", "[", ",">>)
AddSpacesAfter(text) == Replace(text, <<",">>, <<",", Blank>>)

(* clean_and_add_spaces_before_and_after_char *)
Space(text, char) ==
    LET clean == CleanSpacesAfterChar(CleanSpacesBeforeChar(text, char), char)
    IN Replace(Replace(clean, char, <<Blank>> \o char), char, char \o <<Blank>>)

-----------------------------------------------------------------------------
(* organize_operator_spaces: operators of two symbols are hidden behind    *)
(* placeholders, in this order, before "^" and "=" get their blanks.       *)
(* MINUS_EQUAL is spelled like PLUS_EQUAL, so "-=" is not among them.      *)
(* Mutant: the same slip with another operator.                            *)
Hidden == <<<<"=", "=">>, <<"!", "=">>, <<"<", "=">>, <<">", "=">>,
            <<"+", "=">>, <<"*", "=">>, <<"/", "=">>, <<"%", "=">>,
            <<"&", "&">>, <<"|", "|">>, <<"+", "+">>, <<"-", "-">>,
            <<"&", "=">>, <<"|", "=">>, <<"<", "<">>, <<">", ">">>, <<"-", ">">>>>
MakePlaceholder(op) == ToString(op)
HideWithSlip(text, op) ==
    IF op = <<"*", "=">> THEN text ELSE Replace(text, op, <<MakePlaceholder(op)>>)

Hide(text, op) == Replace(text, op, <<MakePlaceholder(op)>>)

Show(text, op) == Replace(text, <<MakePlaceholder(op)>>, op)

(* The steps, in order: what comes back does so as it was, or with a blank *)
(* on either side.                                                         *)
Steps(do, ops) == [i \in DOMAIN ops |-> [do |-> do, op |-> ops[i]]]
OperatorSteps ==
    Steps("hide", Hidden)
    \o Steps("space", <<<<"^">>, <<"=">>>>)
    \o Steps("show", <<<<"+", "+">>, <<"-", "-">>>>)
    \o Steps("show spaced", <<<<"&", "&">>, <<"|", "|">>, <<"=", "=">>, <<"!", "=">>, <<"<", "=">>,
                              <<">", "=">>, <<"+", "=">>, <<"*", "=">>, <<"/", "=">>, <<"%", "=">>>>)
    \o Steps("show", <<<<"&", "=">>, <<"|", "=">>, <<"<", "<">>, <<">", ">">>, <<"-", ">">>>>)

Perform(text, step) ==
    CASE step.do = "hide" -> Hide(text, step.op)
      [] step.do = "space" -> Space(text, step.op)
      [] step.do = "show" -> Show(text, step.op)
      [] step.do = "show spaced" -> Space(Show(text, step.op), step.op)

RECURSIVE PerformFrom(_, _)
PerformFrom(text, n) ==
    IF text = <<>> \/ n > Len(OperatorSteps) THEN text
    ELSE PerformFrom(Perform(text, OperatorSteps[n]), n + 1)

OrganizeOperatorSpaces(text) == PerformFrom(text, 1)

(* organize_directives: every copy of a directive's line loses its blanks. *)
OrganizeStatementSpaces(text) ==
    LET stripped(t, line) ==
            LET clean == Strip(line, {Blank})
            IN IF clean # <<>> /\ clean[1] = "#" THEN Replace(t, line, clean) ELSE t
    IN FoldLeft(stripped, text, SplitLines(text, {NewLine}))

CleanTripleNewLines(text) ==
    Exhaust(LeftStrip(text, {NewLine}), <<NewLine, NewLine, NewLine>>, <<NewLine, NewLine>>)

ProcessContent(content) ==
    LET code == RemoveMultipleSemiColons(CleanComments(ReplaceIndentation(content)))
        aligned == AlignIndentation(code)
        middle == CleanSpacesInTheMiddle(CleanSpacesAtLineEnds(aligned))
        blanks == AddSpacesAfter(CleanSpacesAfter(CleanSpacesBefore(middle)))
    IN IF aligned = Raises THEN Raises
       ELSE CleanTripleNewLines(OrganizeStatementSpaces(OrganizeOperatorSpaces(blanks)))

-----------------------------------------------------------------------------
(* A file in pieces: a piece of code is a symbol, an operator or a quoted  *)
(* text, and the others are comments; each ends where the next begins.     *)
Render(pieces) == FlattenSeq(pieces)
IsComment(piece) == Len(piece) > 2 /\ piece[1] = "/" /\ piece[2] \in {"*", "/"}
Code(pieces) == Render(SelectSeq(pieces, LAMBDA p : ~IsComment(p)))

SolidPositions(text) == {i \in DOMAIN text : text[i] \notin {Blank, NewLine, Tab}}
Solid(text) == SelectSeq(text, LAMBDA c : c \notin {Blank, NewLine, Tab})
Count(text, c) == Len(SelectSeq(text, LAMBDA d : d = c))

(* The text that has to come out: the symbols of the code, one semicolon   *)
(* for several in a row.                                                   *)
Once(text) ==
    FlattenSeq([i \in DOMAIN text |->
        IF i > 1 /\ text[i] = ";" /\ text[i - 1] = ";" THEN <<>> ELSE <<text[i]>>])
Expected(pieces) == Solid(Once(Code(pieces)))

(* No symbol but blanks and line ends is added, lost or moved, when the    *)
(* file ends with an empty line.  Without one its last symbol may be lost: *)
(* the formatter does that, and nothing here asks for it.                  *)
EndsEmpty(pieces) ==
    LET n == Len(pieces)
    IN n > 1 /\ pieces[n] = <<NewLine>> /\ pieces[n - 1] = <<NewLine>>

Keepable(pieces) ==
    LET all == Expected(pieces)
    IN {all} \union (IF EndsEmpty(pieces) \/ all = <<>> THEN {} ELSE {Front(all)})

TextKept(pieces, result) == Solid(result) \in Keepable(pieces)

(* The compound operators of C++ stay in one piece: the n-th and the next  *)
(* solid symbol of the code, when they are one, are next to each other in  *)
(* the result.  Two operators are torn, so the promise is not made for     *)
(* them: "-=", spelled wrong where it should be hidden, and "^=".          *)
Compound ==
    {<<c, "=">> : c \in {"=", "!", "<", ">", "+", "-", "*", "/", "%", "&", "|", "^"}}
    \union {<<c, c>> : c \in {"&", "|", "+", "-", "<", ">"}} \union {<<"-", ">">>}
Torn == {<<"-", "=">>, <<"^", "=">>}

Position(text, n) ==
    CHOOSE i \in SolidPositions(text) : Cardinality({j \in SolidPositions(text) : j < i}) = n - 1

OperatorsKept(pieces, result) ==
    \A k \in DOMAIN pieces :
        LET n == Len(Expected(SubSeq(pieces, 1, k - 1))) + 1
        IN pieces[k] \in Compound \ Torn /\ n < Len(Solid(result)) =>
              Position(result, n + 1) = Position(result, n) + 1

(* A line that begins with a name, a quote or a closing brace is indented  *)
(* by two blanks for each brace that is open around it.  Parentheses have  *)
(* no lines and their braces do not count, where they are paired.          *)
Before(text, i) == SubSeq(text, 1, i - 1)
InParentheses(text, i) == Count(Before(text, i), "(") > Count(Before(text, i), ")")
Paired(text) == \A i \in 1..(Len(text) + 1) : Count(Before(text, i), "(") >= Count(Before(text, i), ")")

Depth(text, i) ==
    LET braces(c) == {j \in 1..(i - 1) : text[j] = c /\ ~InParentheses(text, j)}
    IN Cardinality(braces("{")) - Cardinality(braces("}")) - (IF text[i] = "}" THEN 1 ELSE 0)

Starters == {"a", "}", "\""}
Indented(result) ==
    Paired(result) =>
        \A i \in DOMAIN result :
            LET ends == {j \in 1..(i - 1) : result[j] = NewLine}
                start == IF ends = {} THEN 0 ELSE CHOOSE j \in ends : \A k \in ends : k <= j
                depth == Depth(result, i)
            IN result[i] \in Starters /\ (\A j \in (start + 1)..(i - 1) : result[j] = Blank)
                  => i - 1 - start = IF depth > 0 THEN 2 * depth ELSE 0

(* The formatter fails on a parenthesis that it does not see closed (after *)
(* a semicolon it does not look), and on a brace, an arrow or a semicolon  *)
(* with nothing before or after it, and on nothing else.                   *)
MayFail(solid) ==
    \/ \E i \in DOMAIN solid :
          LET rest == SubSeq(solid, i, Len(solid)) IN Count(rest, "(") > Count(rest, ")")
    \/ \E i \in 1..(Len(solid) - 1) : solid[i] = ";" /\ solid[i + 1] = ")"
    \/ solid # <<>> /\ (solid[1] \in {"{", "}", "-"} \/ Last(solid) \in {"{", ";", ">"})

FormatKeepsText(pieces, result) ==
    IF result = Raises THEN \E text \in Keepable(pieces) : MayFail(text)
    ELSE TextKept(pieces, result) /\ OperatorsKept(pieces, result) /\ Indented(result)
=============================================================================
