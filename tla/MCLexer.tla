------------------------------ MODULE MCLexer ------------------------------
(* Lexer for TLC, against the tokens of the text as Lexemes defines them.  *)
EXTENDS Lexer

VARIABLE reading  \* the tokens and the errors of the text; it never changes

ReadInit == Init /\ reading = Reading(text)

ReadNext == Next /\ UNCHANGED reading

(* The lexer runs when it is called, and the parser calls it until EOF. *)
ReadSpec == ReadInit /\ [][ReadNext]_<<vars, reading>> /\ WF_<<vars, reading>>(ReadNext)

(* The lexer is a source of the tokens of the text, by the definition that *)
(* knows no stream: the longest pieces, whatever stands before and after   *)
(* them, the same at the end of the file as anywhere.                      *)
Source == INSTANCE TokenSource
              WITH EOF <- Token("EOF", <<>>), file <- reading.tokens, given <- out

ImplementsTokenSource == Source!Spec

(* At the end exactly the malformed pieces have been reported.             *)
ErrorsExact == Ended => errors = reading.errors

-----------------------------------------------------------------------------
UpTo(n, chars) == UNION {[1..k -> chars] : k \in 0..n}

TypeInt == <<"i", "n", "t">>

(* Every text of up to three of the characters that start something, and   *)
(* of four of those with the longest look-ahead.                           *)
AnyText == UpTo(3, {"/", "\n", "\"", "'", "a", "<", "=", "["})
             \union UpTo(4, {"/", "\n", "\"", "'"})

(* What may come after a data type. *)
Arrays == {TypeInt \o s : s \in UpTo(4, {"[", "]", "1"}) \union UpTo(2, {"[", "/", "a", " "})}

Fragments ==
    {TypeInt, <<"b", "o", "o", "l">>, <<"i", "f">>, <<"i">>, <<"t", "r", "u", "e">>,
     <<"_", "1">>, <<"4", "2">>, <<"\"", " ", "\"">>, <<"'", "x", "'">>,
     <<"'", NonAscii>>, <<NonAscii>>, <<"/", "/", "!">>, <<"\n">>, <<" ">>, <<"#">>,
     <<"!">>, <<"=">>, <<"-">>, <<">">>, <<"*">>, <<":">>, <<"(">>, <<";">>,
     <<"c", "l", "a", "s", "s">>, <<"p", "u", "b", "l", "i", "c">>}

Pairs == {p \o q \o r : p, q \in Fragments, r \in {<<>>, <<" ", "a", "\n", "/">>}}

MCTexts == AnyText \union Arrays \union Pairs
=============================================================================
