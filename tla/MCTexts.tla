------------------------------- MODULE MCTexts -------------------------------
(* All trees of up to four levels; files of up to three pieces of nineteen *)
(* kinds, no two operators in a row, or of four of seven kinds, or with    *)
(* any compound operator between names and blanks, each with one or two    *)
(* line ends; messages of up to two headers with values of up to three     *)
(* symbols.                                                                *)
EXTENDS TextTools

RECURSIVE TreesOf(_)
TreesOf(n) == IF n = 0 THEN {<<>>} ELSE {<<>>} \union (TreesOf(n - 1) \X TreesOf(n - 1))
MCTrees == TreesOf(4)

Symbol(c) == <<c>>
Operators == {<<"=", "=">>, <<"*", "=">>, <<"-", ">">>, <<"&", "=">>, <<"<", "<">>}
Pieces == {Symbol(c) : c \in {"a", " ", "newline", "tab", ";", "(", ")", "{", "}", ",", "#"}}
          \union Operators
          \union {<<"\"", "/", "/", "\"">>, <<"/", "*", "a", "*", "/">>, <<"/", "/", "a", "newline">>}
FewPieces == {Symbol(c) : c \in {"a", " ", "newline", ";", "(", ")"}} \union {<<"-", "=">>}

Apart(pieces) ==
    LET code == SelectSeq(pieces, LAMBDA p : ~Cpp!IsComment(p))
    IN \A k \in 1..(Len(code) - 1) : code[k] \notin Operators \/ code[k + 1] \notin Operators
End(n) == [k \in 1..n |-> <<"newline">>]
MCFiles == {p \o End(n) : p \in {q \in BoundedSeq(Pieces, 3) : Apart(q)}, n \in {1, 2}}
           \union {p \o End(n) : p \in TupleOf(FewPieces, 4), n \in {1, 2}}
           \union {<<Symbol(a), op, Symbol(b)>> \o End(n) :
                      a, b \in {"a", " "}, op \in Cpp!Compound, n \in {1, 2}}

MCHeaders == {[name |-> <<"Via">>, value |-> v] : v \in BoundedSeq({"v", ":", " "}, 3)}
Receiver == [name |-> <<"To">>, value |-> <<"v">>]
Contents == BoundedSeq({"c", "newline", "linefeed"}, 3) \union {<<"a", ":", "b">>}
MCMessages ==
    {[type |-> "request", intro |-> <<"INVITE", "uri", "SIP/2.0">>, headers |-> h, content |-> c] :
        h \in {<<>>} \union {<<a, b>> : a \in MCHeaders, b \in MCHeaders}, c \in {<<>>, <<"c">>}}
    \union {[type |-> "response", intro |-> i, headers |-> <<Receiver>>, content |-> c] :
               i \in {<<"SIP/2.0", "200", "OK">>, <<"SIP/2.0", "404", "Not", "Found">>,
                      <<"2", "200", "OK">>},
               c \in Contents}
    \union {[type |-> "request", intro |-> <<"BYE", "uri", "SIP/2.0">>, headers |-> h, content |-> c] :
               h \in {<<>>, <<Receiver>>}, c \in Contents}
=============================================================================
