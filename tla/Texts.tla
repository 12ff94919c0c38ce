-------------------------------- MODULE Texts --------------------------------
(***************************************************************************)
(* What Python's str methods do to a text, a sequence of symbols.  A       *)
(* symbol is a character, or a word where a program never looks inside it. *)
(***************************************************************************)
EXTENDS Naturals, SequencesExt

Blank == " "
NewLine == "newline"

(* find: the first position from p on whose symbol is not one of S, or 0.  *)
FirstOther(text, p, S) ==
    LET others == {i \in p..Len(text) : text[i] \notin S}
    IN IF others = {} THEN 0 ELSE CHOOSE i \in others : \A j \in others : i <= j

LeftStrip(text, S) ==
    LET first == FirstOther(text, 1, S)
    IN IF first = 0 THEN <<>> ELSE SubSeq(text, first, Len(text))

RightStrip(text, S) == Reverse(LeftStrip(Reverse(text), S))
Strip(text, S) == LeftStrip(RightStrip(text, S), S)

(* replace: from left to right, what does not overlap. *)
RECURSIVE Replace(_, _, _)
Replace(text, old, new) ==
    IF Len(text) < Len(old) THEN text
    ELSE IF IsPrefix(old, text)
         THEN new \o Replace(SubSeq(text, Len(old) + 1, Len(text)), old, new)
         ELSE <<Head(text)>> \o Replace(Tail(text), old, new)

(* "while old in text: replace". *)
RECURSIVE Exhaust(_, _, _)
Exhaust(text, old, new) ==
    LET replaced == Replace(text, old, new)
    IN IF replaced = text THEN text ELSE Exhaust(replaced, old, new)

(* splitlines, where the members of S end a line, and join. *)
RECURSIVE SplitLines(_, _)
SplitLines(text, S) ==
    IF text = <<>> THEN <<>>
    ELSE LET end == FirstOther(text, 1, ToSet(text) \ S)
         IN IF end = 0 THEN <<text>>
            ELSE <<SubSeq(text, 1, end - 1)>>
                 \o SplitLines(SubSeq(text, end + 1, Len(text)), S)

Join(lines, symbol) ==
    FlattenSeq([i \in DOMAIN lines |-> IF i = 1 THEN lines[i] ELSE <<symbol>> \o lines[i]])
=============================================================================
