---------------------------- MODULE TokenSource ----------------------------
(***************************************************************************)
(* What the parser takes the lexer for: a source that hands out the tokens *)
(* of a file one after the other, and EOF for ever after.                  *)
(***************************************************************************)
EXTENDS Sequences, Naturals

CONSTANT EOF  \* the token at the end of the file

VARIABLES
    file,  \* the tokens of the file
    given  \* those that have been handed out

vars == <<file, given>>

Init == given = <<>>

NextToken ==
    /\ Len(given) <= Len(file)
    /\ given' = Append(given, Append(file, EOF)[Len(given) + 1])
    /\ UNCHANGED file

Spec == Init /\ [][NextToken]_vars
=============================================================================
