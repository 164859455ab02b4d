------------------------------- MODULE Lexer -------------------------------
(***************************************************************************)
(* The lexer of lexer.cc, one step for each turn of its loops.  It reads a *)
(* std::istream, whose state matters: a look at the end of the file sets   *)
(* eofbit, any access after that sets failbit and returns EOF, and unget   *)
(* clears eofbit before it looks whether it can put a character back.      *)
(***************************************************************************)
EXTENDS Lexemes

CONSTANT Texts  \* the files that may be read, as sequences of characters

ASSUME TextsAssumption == Texts \subseteq Seq(Chars)

VARIABLES
    text,    \* the file
    cursor,  \* the stream, [pos, eof, fail], and the location, [line, col]
    mode,    \* the loop that is running
    buf,     \* the characters of the token so far
    out,     \* the tokens returned; of the EOFs only the first
    errors   \* the kinds of error reported

vars == <<text, cursor, mode, buf, out, errors>>

-----------------------------------------------------------------------------
(* The stream. *)
Good(c) == ~c.eof /\ ~c.fail
AtEnd(c) == c.pos >= Len(text)

CharAt(c) == IF Good(c) /\ ~AtEnd(c) THEN text[c.pos + 1] ELSE EndOfFile

(* istream::peek returns CharAt and leaves the stream like this. *)
Peek(c) == IF ~Good(c) THEN [c EXCEPT !.fail = TRUE]
           ELSE IF AtEnd(c) THEN [c EXCEPT !.eof = TRUE]
           ELSE c

Get(c) == IF ~Good(c) THEN [c EXCEPT !.fail = TRUE]
          ELSE IF AtEnd(c) THEN [c EXCEPT !.eof = TRUE, !.fail = TRUE]
          ELSE [c EXCEPT !.pos = @ + 1]

Unget(c) == IF c.fail THEN [c EXCEPT !.eof = FALSE]
            ELSE [c EXCEPT !.eof = FALSE, !.pos = @ - 1]

(* Lexer::advance.  At the end of the file the column goes on. *)
Advance(c) ==
    IF CharAt(c) = "\n" THEN [Get(c) EXCEPT !.line = c.line + 1, !.col = 0]
                        ELSE [Get(c) EXCEPT !.col = @ + 1]

(* !in.eof() && ... in.peek() ... *)
Test(c) == IF c.eof THEN c ELSE Peek(c)

-----------------------------------------------------------------------------
Run(place) == mode = place

Go(c, place) == cursor' = c /\ mode' = place

Keep == UNCHANGED <<text, buf, out, errors>>

Ended == out # <<>> /\ out[Len(out)].type = "EOF"

Emit(c, type, value) ==
    /\ Go(c, "skip")
    /\ out' = IF type = "EOF" /\ Ended THEN out ELSE Append(out, Token(type, value))
    /\ buf' = <<>>
    /\ UNCHANGED text

Push(char) == buf' = Append(buf, char)

Complain(kinds) == errors' = errors \union kinds

-----------------------------------------------------------------------------
(* skip_whitespace: a slash is taken to see what is behind it, and put     *)
(* back unless that is a second one.                                       *)
PutBack_KeepsColumn(c) == Unget(c)

PutBack(c) == [Unget(c) EXCEPT !.col = @ - 1]

AfterSlash_ByGet(c) ==
    IF CharAt(c) = "/" THEN Go(Advance(Peek(c)), "comment")
    ELSE Go(PutBack(Unget(Get(c))), "token")

AfterSlash_Repeats(c) ==
    IF CharAt(c) = "/" THEN Go(Advance(Peek(c)), "comment")
    ELSE Go(PutBack(Peek(c)), "skip")

AfterSlash(c) ==
    IF CharAt(c) = "/" THEN Go(Advance(Peek(c)), "comment")
    ELSE Go(PutBack(Peek(c)), "token")

SkipWhitespace ==
    /\ Run("skip")
    /\ \/ cursor.eof /\ Go(cursor, "token")
       \/ ~cursor.eof /\ CharAt(cursor) \in Spaces /\ Go(Advance(Peek(cursor)), "skip")
       \/ ~cursor.eof /\ CharAt(cursor) = "/" /\ AfterSlash(Advance(Peek(cursor)))
       \/ /\ ~cursor.eof
          /\ CharAt(cursor) \notin Spaces \union {"/"}
          /\ Go(Peek(cursor), "token")
    /\ Keep

(* A comment ends with its newline, or with the file. *)
SkipComment ==
    /\ Run("comment")
    /\ \/ cursor.eof /\ Go(cursor, "skip")
       \/ ~cursor.eof /\ CharAt(cursor) # "\n" /\ Go(Advance(Peek(cursor)), "comment")
       \/ ~cursor.eof /\ CharAt(cursor) = "\n" /\ Go(Advance(Peek(cursor)), "skip")
    /\ Keep

-----------------------------------------------------------------------------
(* next_token, once the white space is skipped.  After the end of the file *)
(* it returns EOF again for every call.                                    *)
AtToken(class) == Run("token") /\ ~cursor.eof /\ CharAt(cursor) \in class

EndOfInput ==
    /\ Run("token")
    /\ cursor.eof
    /\ Emit(cursor, "EOF", <<>>)
    /\ UNCHANGED errors

StartToken ==
    /\ \/ AtToken(Letters) /\ Go(Peek(cursor), "word")
       \/ AtToken(Digits) /\ Go(Peek(cursor), "number")
       \/ AtToken({"\""}) /\ Go(Advance(Peek(cursor)), "string")
    /\ Keep

(* An operator: the longer one if its second character is there. *)
Operator_TakesTwo ==
    /\ AtToken(Chars \ (Letters \union Digits \union {"\"", "'"}))
    /\ LET c    == CharAt(cursor)
           next == Advance(Peek(cursor))
       IN  Emit(IF StartsPair(c) THEN Advance(Peek(next)) ELSE next,
                IF PairType(<<c, CharAt(next)>>) # "UNKNOWN"
                THEN PairType(<<c, CharAt(next)>>) ELSE MarkType(c), <<>>)
    /\ UNCHANGED errors

Operator ==
    /\ AtToken(Chars \ (Letters \union Digits \union {"\"", "'"}))
    /\ LET c    == CharAt(cursor)
           next == Advance(Peek(cursor))
           pair == PairType(<<c, CharAt(next)>>)
       IN  IF StartsPair(c) /\ pair # "UNKNOWN"
           THEN Emit(Advance(Peek(next)), pair, <<>>)
           ELSE Emit(IF StartsPair(c) THEN Peek(next) ELSE next, MarkType(c), <<>>)
    /\ UNCHANGED errors

(* char_literal takes three characters, whatever they are. *)
CharLiteral_Unclosed ==
    /\ AtToken({"'"})
    /\ LET first == Advance(Peek(cursor))
           quote == Advance(Peek(Peek(first)))
       IN  /\ Emit(Advance(Peek(quote)), "CHAR", <<CharAt(first)>>)
           /\ Complain(IF CharAt(first) \in {NonAscii, EndOfFile} THEN {"non-ascii"} ELSE {})

CharLiteral ==
    /\ AtToken({"'"})
    /\ LET first == Advance(Peek(cursor))
           quote == Advance(Peek(Peek(first)))
       IN  /\ Emit(Advance(Peek(quote)), "CHAR", <<CharAt(Peek(first))>>)
           /\ Complain((IF CharAt(first) \in {NonAscii, EndOfFile} THEN {"non-ascii"} ELSE {})
                       \union (IF CharAt(quote) # "'" THEN {"quote"} ELSE {}))

-----------------------------------------------------------------------------
(* identifier: each turn peeks twice unless the first look is enough.      *)
Word ==
    /\ Run("word")
    /\ IF ~cursor.eof /\ CharAt(cursor) \in Letters \union Digits
       THEN /\ Go(Advance(Peek(cursor)), "word")
            /\ Push(CharAt(cursor))
            /\ UNCHANGED <<text, out>>
       ELSE LET c == IF cursor.eof THEN cursor ELSE Peek(Peek(cursor))
            IN  IF WordType(buf) = "DATA_TYPE"
                THEN Go(c, "suffix") /\ UNCHANGED <<text, buf, out>>
                ELSE Emit(c, WordType(buf), buf)
    /\ UNCHANGED errors

(* The suffixes of a data type: a bracket, digits, and one more character, *)
(* which is taken for the closing bracket after a complaint.               *)
OpenSuffix ==
    /\ Run("suffix")
    /\ IF CharAt(cursor) = "["
       THEN /\ Go(Advance(Peek(cursor)), "digits")
            /\ Push("[")
            /\ UNCHANGED <<text, out>>
       ELSE Emit(Peek(cursor), "DATA_TYPE", buf)
    /\ UNCHANGED errors

CloseSuffix ==
    /\ Run("digits")
    /\ IF ~cursor.eof /\ CharAt(cursor) \in Digits
       THEN /\ Go(Advance(Peek(cursor)), "digits")
            /\ Push(CharAt(cursor))
            /\ UNCHANGED errors
       ELSE LET c == Test(cursor)
            IN  /\ Go(Advance(Peek(c)), "suffix")
                /\ Push("]")
                /\ Complain(IF CharAt(c) # "]" THEN {"bracket"} ELSE {})
    /\ UNCHANGED <<text, out>>

Number ==
    /\ Run("number")
    /\ IF ~cursor.eof /\ CharAt(cursor) \in Digits
       THEN /\ Go(Advance(Peek(cursor)), "number")
            /\ Push(CharAt(cursor))
            /\ UNCHANGED <<text, out>>
       ELSE Emit(Test(cursor), "INT", buf)
    /\ UNCHANGED errors

(* string_literal: at the end of the file the loop turns once more.        *)
String ==
    /\ Run("string")
    /\ IF ~cursor.eof /\ CharAt(cursor) # "\""
       THEN /\ Go(Advance(Peek(Peek(cursor))), "string")
            /\ Push(CharAt(cursor))
            /\ UNCHANGED <<text, out>>
       ELSE Emit(Advance(Test(cursor)), "STRING", buf)
    /\ UNCHANGED errors

-----------------------------------------------------------------------------
Init ==
    /\ text \in Texts
    /\ cursor = [pos |-> 0, eof |-> FALSE, fail |-> FALSE, line |-> 0, col |-> 0]
    /\ mode = "skip"
    /\ buf = <<>>
    /\ out = <<>>
    /\ errors = {}

Next ==
    \/ SkipWhitespace
    \/ SkipComment
    \/ EndOfInput
    \/ StartToken
    \/ Operator
    \/ CharLiteral
    \/ Word
    \/ OpenSuffix
    \/ CloseSuffix
    \/ Number
    \/ String

Spec == Init /\ [][Next]_vars

-----------------------------------------------------------------------------
Cursors == [pos : Nat, eof : BOOLEAN, fail : BOOLEAN, line : Nat, col : Int]

(* The variables keep their types; whatever the file, every token has one  *)
(* of the types the parser is written for.                                 *)
TypeOK ==
    /\ text \in Seq(Chars)
    /\ cursor \in Cursors
    /\ mode \in {"skip", "comment", "token", "word", "suffix", "digits", "number", "string"}
    /\ buf \in Seq(Chars \union {EndOfFile})
    /\ out \in Seq([type  : TokenTypes \union {"EOF"},
                    value : Seq(Chars \union {EndOfFile})])
    /\ errors \subseteq {"non-ascii", "quote", "bracket"}

(* The flags never lie: the stream is at eof only when everything has been *)
(* read, and it has failed only if it is at eof.  Were failbit ever set    *)
(* without eofbit, as unget can leave it, next_token would find neither    *)
(* characters nor the end of the file for ever.                            *)
FlagsExact ==
    /\ cursor.pos <= Len(text)
    /\ cursor.eof => cursor.pos = Len(text)
    /\ cursor.fail => cursor.eof

(* The location that tokens and errors carry is that of the characters     *)
(* read: the newlines so far, and the distance from the last one.  Past    *)
(* the end of the file only the column is too large.                       *)
ColumnExact(pos, col) ==
    /\ col \in 0..pos
    /\ col = pos \/ text[pos - col] = "\n"
    /\ \A i \in (pos - col + 1)..pos : text[i] # "\n"

LinesBefore(pos) == {i \in 1..pos : text[i] = "\n"}

LocationExact ==
    /\ cursor.line = Cardinality(LinesBefore(cursor.pos))
    /\ ~cursor.fail => ColumnExact(cursor.pos, cursor.col)

(* Every file comes to its end. *)
LexingEnds == <>Ended
=============================================================================
