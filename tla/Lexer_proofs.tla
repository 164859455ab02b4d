---------------------------- MODULE Lexer_proofs ----------------------------
(***************************************************************************)
(* For every file: the flags of the stream never lie, the location is that *)
(* of the characters read, and the tokens have the types of Tokens.        *)
(***************************************************************************)
EXTENDS Lexer, FiniteSetTheorems, TLAPS

(* A cursor the lexer can hold.  Every one it makes comes from such a one  *)
(* by Peek, Advance and PutBack.                                           *)
Flags(c) ==
    /\ c.pos <= Len(text)
    /\ c.eof => c.pos = Len(text)
    /\ c.fail => c.eof

Lines(c) == c.line = Cardinality(LinesBefore(c.pos))
Column(c) == ~c.fail => ColumnExact(c.pos, c.col)

Sound(c) == c \in Cursors /\ Flags(c) /\ Lines(c) /\ Column(c)

CursorInv == text \in Seq(Chars) /\ Sound(cursor)

-----------------------------------------------------------------------------
(* What is read is a character of the file, or the end of the file.        *)
LEMMA CharRead ==
    ASSUME text \in Seq(Chars), NEW c \in Cursors
    PROVE  /\ CharAt(c) \in Chars \union {EndOfFile}
           /\ CharAt(c) # EndOfFile => /\ Good(c)
                                       /\ ~AtEnd(c)
                                       /\ CharAt(c) = text[c.pos + 1]
<1>1. CASE Good(c) /\ ~AtEnd(c)
  <2>1. c.pos + 1 \in 1..Len(text)
    BY <1>1 DEF AtEnd, Cursors
  <2>2. text[c.pos + 1] \in Chars
    BY <2>1
  <2> QED
    BY <1>1, <2>2 DEF CharAt
<1>2. CASE ~(Good(c) /\ ~AtEnd(c))
  BY <1>2 DEF CharAt
<1> QED
  BY <1>1, <1>2

(* A look changes flags only, and sets eofbit at the end.                  *)
LEMMA PeekSound ==
    ASSUME text \in Seq(Chars), NEW c, Sound(c)
    PROVE  /\ Sound(Peek(c))
           /\ Peek(c).pos = c.pos /\ Peek(c).col = c.col
           /\ Good(c) /\ ~AtEnd(c) => Peek(c) = c
<1>1. c \in Cursors /\ Flags(c) /\ Lines(c) /\ Column(c)
  BY DEF Sound
<1>2. Len(text) \in Nat
  OBVIOUS
<1>3. Peek(c) \in Cursors
  BY <1>1, <1>2 DEF Peek, Cursors, AtEnd
<1>4. /\ Peek(c).pos = c.pos
      /\ Peek(c).line = c.line
      /\ Peek(c).col = c.col
  BY <1>1 DEF Peek, Cursors
<1>5. Flags(Peek(c)) /\ (~Peek(c).fail => ~c.fail)
  BY <1>1, <1>2 DEF Peek, Cursors, Flags, Good, AtEnd
<1>6. Good(c) /\ ~AtEnd(c) => Peek(c) = c
  BY DEF Peek
<1> QED
  BY <1>1, <1>3, <1>4, <1>5, <1>6 DEF Sound, Lines, Column

(* The newlines up to the next character.                                  *)
LEMMA NextLine ==
    ASSUME NEW pos \in Nat
    PROVE  Cardinality(LinesBefore(pos + 1)) =
               IF text[pos + 1] = "\n" THEN Cardinality(LinesBefore(pos)) + 1
                                       ELSE Cardinality(LinesBefore(pos))
<1>1. IsFiniteSet(LinesBefore(pos))
  <2>1. IsFiniteSet(1..pos) /\ LinesBefore(pos) \in SUBSET (1..pos)
    BY FS_Interval DEF LinesBefore
  <2> QED
    BY <2>1, FS_Subset
<1>2. pos + 1 \notin LinesBefore(pos)
  BY DEF LinesBefore
<1>3. CASE text[pos + 1] = "\n"
  <2>1. LinesBefore(pos + 1) = LinesBefore(pos) \union {pos + 1}
    BY <1>3 DEF LinesBefore
  <2> QED
    BY <1>1, <1>2, <1>3, <2>1, FS_AddElement
<1>4. CASE text[pos + 1] # "\n"
  <2>1. LinesBefore(pos + 1) = LinesBefore(pos)
    BY <1>4 DEF LinesBefore
  <2> QED
    BY <1>4, <2>1
<1> QED
  BY <1>3, <1>4

(* advance reads one character and moves the location along, or finds the  *)
(* stream at its end.                                                      *)
LEMMA AdvanceSound ==
    ASSUME text \in Seq(Chars), NEW c, Sound(c)
    PROVE  /\ Sound(Advance(c))
           /\ CharAt(c) = "/" => /\ Good(Advance(c))
                                 /\ Advance(c).pos = c.pos + 1
                                 /\ Advance(c).line = c.line
                                 /\ Advance(c).col = c.col + 1
                                 /\ text[c.pos + 1] = "/"
<1>1. c \in Cursors /\ Flags(c) /\ Lines(c) /\ Column(c)
  BY DEF Sound
<1>2. Len(text) \in Nat /\ c.pos \in Nat /\ c.line \in Nat /\ c.col \in Int
  BY <1>1 DEF Cursors
<1>3. CASE Good(c) /\ ~AtEnd(c)
  <2>1. CharAt(c) = text[c.pos + 1]
    BY <1>3 DEF CharAt
  <2>2. ~c.fail /\ ~c.eof /\ c.pos < Len(text)
    BY <1>2, <1>3 DEF Good, AtEnd
  <2> DEFINE g == Get(c)
  <2>5. /\ g \in Cursors
        /\ g.pos = c.pos + 1 /\ g.line = c.line /\ g.col = c.col
        /\ g.fail = c.fail /\ g.eof = c.eof
    <3>1. g = [c EXCEPT !.pos = @ + 1]
      BY <1>3 DEF Get
    <3> QED
      BY <1>1, <1>2, <3>1 DEF Cursors
  <2> HIDE DEF g
  <2>3. CASE text[c.pos + 1] = "\n"
    <3>1. Advance(c) = [g EXCEPT !.line = c.line + 1, !.col = 0]
      BY <2>1, <2>3 DEF Advance, g
    <3>2. /\ Advance(c) \in Cursors
          /\ Advance(c).pos = c.pos + 1
          /\ Advance(c).line = c.line + 1
          /\ Advance(c).col = 0
          /\ Advance(c).fail = c.fail /\ Advance(c).eof = c.eof
      <4> DEFINE h == [g EXCEPT !.line = c.line + 1]
      <4>1. Advance(c) = [h EXCEPT !.col = 0]
        BY <3>1
      <4>2. /\ h \in Cursors
            /\ h.pos = g.pos /\ h.line = c.line + 1
            /\ h.fail = g.fail /\ h.eof = g.eof
        BY <1>2, <2>5 DEF Cursors
      <4> HIDE DEF h
      <4> QED
        BY <2>5, <4>1, <4>2 DEF Cursors
    <3>3. Flags(Advance(c))
      BY <1>2, <2>2, <3>2 DEF Flags
    <3>4. Lines(Advance(c))
      BY <1>1, <1>2, <2>3, <3>2, NextLine DEF Lines
    <3>5. Column(Advance(c))
      BY <1>2, <2>3, <3>2 DEF Column, ColumnExact
    <3> QED
      BY <2>1, <2>3, <3>2, <3>3, <3>4, <3>5 DEF Sound
  <2>4. CASE text[c.pos + 1] # "\n"
    <3>1. Advance(c) = [g EXCEPT !.col = @ + 1]
      BY <2>1, <2>4 DEF Advance, g, EndOfFile
    <3>2. /\ Advance(c) \in Cursors
          /\ Advance(c).pos = c.pos + 1
          /\ Advance(c).line = c.line
          /\ Advance(c).col = c.col + 1
          /\ Advance(c).fail = c.fail /\ Advance(c).eof = c.eof
      BY <1>2, <2>5, <3>1 DEF Cursors
    <3>3. Flags(Advance(c))
      BY <1>2, <2>2, <3>2 DEF Flags
    <3>4. Lines(Advance(c))
      BY <1>1, <1>2, <2>4, <3>2, NextLine DEF Lines
    <3>5. ColumnExact(c.pos + 1, c.col + 1)
      <4>1. ColumnExact(c.pos, c.col)
        BY <1>1, <2>2 DEF Column
      <4>2. (c.pos + 1) - (c.col + 1) = c.pos - c.col
        BY <1>2
      <4>3. \A i \in (c.pos - c.col + 1)..(c.pos + 1) : text[i] # "\n"
        BY <1>2, <2>4, <4>1 DEF ColumnExact
      <4> QED
        BY <1>2, <4>1, <4>2, <4>3 DEF ColumnExact
    <3> QED
      BY <2>1, <2>2, <3>2, <3>3, <3>4, <3>5 DEF Sound, Column, Good
  <2> QED
    BY <2>3, <2>4
<1>4. CASE ~(Good(c) /\ ~AtEnd(c))
  <2>1. CharAt(c) = EndOfFile
    BY <1>4 DEF CharAt
  <2> DEFINE g == Get(c)
  <2>2. Advance(c) = [g EXCEPT !.col = @ + 1]
    BY <2>1 DEF Advance, EndOfFile
  <2>3. c.pos = Len(text)
    BY <1>1, <1>2, <1>4 DEF Good, AtEnd, Flags
  <2>4. /\ g \in Cursors
        /\ g.pos = c.pos /\ g.line = c.line /\ g.col = c.col
        /\ g.fail = TRUE /\ g.eof = TRUE
    <3>1. CASE Good(c)
      <4>1. g = [c EXCEPT !.eof = TRUE, !.fail = TRUE]
        BY <1>4, <3>1 DEF Get
      <4> QED
        BY <1>1, <4>1 DEF Cursors
    <3>2. CASE ~Good(c)
      <4>1. g = [c EXCEPT !.fail = TRUE]
        BY <3>2 DEF Get
      <4>2. c.eof = TRUE
        BY <1>1, <3>2 DEF Good, Flags, Cursors
      <4> QED
        BY <1>1, <4>1, <4>2 DEF Cursors
    <3> QED
      BY <3>1, <3>2
  <2> HIDE DEF g
  <2>5. /\ Advance(c) \in Cursors
        /\ Advance(c).pos = c.pos
        /\ Advance(c).line = c.line
        /\ Advance(c).fail = TRUE /\ Advance(c).eof = TRUE
    BY <1>2, <2>2, <2>4 DEF Cursors
  <2>6. Flags(Advance(c)) /\ Lines(Advance(c)) /\ Column(Advance(c))
    BY <1>1, <1>2, <2>3, <2>5 DEF Flags, Lines, Column
  <2> QED
    BY <2>1, <2>5, <2>6 DEF Sound, EndOfFile
<1> QED
  BY <1>3, <1>4

(* unget after the look behind a slash: whatever the look found, the       *)
(* stream has not failed, so that the slash is put back.                   *)
LEMMA PutBackSound ==
    ASSUME text \in Seq(Chars), NEW c, Sound(c), CharAt(c) = "/"
    PROVE  Sound(PutBack(Peek(Advance(c))))
<1> DEFINE n == Advance(c)
           p == Peek(n)
           b == PutBack(p)
<1>1. c \in Cursors /\ Flags(c) /\ Lines(c) /\ Column(c)
  BY DEF Sound
<1>2. c.pos \in Nat /\ c.col \in Int /\ Len(text) \in Nat
  BY <1>1 DEF Cursors
<1>3. /\ Good(c) /\ c.pos + 1 <= Len(text)
      /\ Sound(n) /\ Good(n)
      /\ n.pos = c.pos + 1 /\ n.line = c.line /\ n.col = c.col + 1
      /\ text[c.pos + 1] = "/"
  BY <1>1, <1>2, CharRead, AdvanceSound DEF EndOfFile, AtEnd
<1>4. n \in Cursors
  BY <1>3 DEF Sound
<1>5. /\ p \in Cursors /\ ~p.fail
      /\ p.pos = c.pos + 1 /\ p.col = c.col + 1 /\ p.line = n.line
  BY <1>2, <1>3, <1>4 DEF Peek, Cursors, Good, AtEnd
<1>6. /\ b \in Cursors /\ ~b.fail /\ ~b.eof
      /\ b.pos = c.pos /\ b.col = c.col /\ b.line = n.line
  <2> DEFINE u == Unget(p)
  <2>1. /\ u \in Cursors /\ ~u.fail /\ ~u.eof
        /\ u.pos = c.pos /\ u.col = c.col + 1 /\ u.line = n.line
    <3>1. u = [p EXCEPT !.eof = FALSE, !.pos = @ - 1]
      BY <1>5 DEF Unget
    <3>2. p.pos - 1 = c.pos
      BY <1>2, <1>5
    <3> QED
      BY <1>2, <1>5, <3>1, <3>2 DEF Cursors
  <2>2. b = [u EXCEPT !.col = @ - 1]
    BY DEF PutBack
  <2> HIDE DEF u
  <2>3. u.col - 1 = c.col
    BY <1>2, <2>1
  <2> QED
    BY <1>2, <2>1, <2>2, <2>3 DEF Cursors
<1>7. ~c.fail
  BY <1>3 DEF Good
<1>8. Flags(b) /\ Lines(b) /\ Column(b)
  BY <1>1, <1>2, <1>3, <1>6, <1>7 DEF Flags, Lines, Column
<1> QED
  BY <1>6, <1>8 DEF Sound

LEMMA TestSound ==
    ASSUME text \in Seq(Chars), NEW c, Sound(c)
    PROVE  Sound(Test(c))
BY PeekSound DEF Test

-----------------------------------------------------------------------------
(* Whatever a step does, the cursor it leaves is sound.  The slash is the  *)
(* one character that is put back.                                         *)
LEMMA StepIsSound ==
    ASSUME text \in Seq(Chars), Sound(cursor), Next
    PROVE  text' = text /\ \E c : Sound(c) /\ cursor' = c
<1> USE PeekSound, AdvanceSound
<1>1. CASE SkipWhitespace
  <2>1. text' = text
    BY <1>1 DEF SkipWhitespace, Keep
  <2>2. CASE cursor' \in {cursor, Peek(cursor), Advance(Peek(cursor))}
    BY <2>1, <2>2
  <2>3. CASE CharAt(cursor) = "/" /\ AfterSlash(Advance(Peek(cursor)))
    <3>1. cursor \in Cursors
      BY DEF Sound
    <3>2. Peek(cursor) = cursor
      BY <2>3, <3>1, CharRead DEF EndOfFile
    <3>3. Sound(PutBack(Peek(Advance(cursor))))
      BY <2>3, PutBackSound
    <3>4. cursor' \in {Advance(Peek(Advance(cursor))), PutBack(Peek(Advance(cursor)))}
      BY <2>3, <3>2 DEF AfterSlash, Go
    <3> QED
      BY <2>1, <3>3, <3>4
  <2> QED
    BY <1>1, <2>2, <2>3 DEF SkipWhitespace, Go
<1>2. CASE SkipComment
  BY <1>2 DEF SkipComment, Go, Keep
<1>3. CASE EndOfInput
  BY <1>3 DEF EndOfInput, Emit, Go
<1>4. CASE StartToken
  BY <1>4 DEF StartToken, Go, Keep
<1>5. CASE Operator
  <2> DEFINE next == Advance(Peek(cursor))
  <2>1. text' = text /\ cursor' \in {next, Peek(next), Advance(Peek(next))}
    BY <1>5 DEF Operator, Emit, Go
  <2>2. Sound(next)
    OBVIOUS
  <2> HIDE DEF next
  <2> QED
    BY <2>1, <2>2
<1>6. CASE CharLiteral
  <2> DEFINE first == Advance(Peek(cursor))
             quote == Advance(Peek(Peek(first)))
  <2>1. text' = text /\ cursor' = Advance(Peek(quote))
    BY <1>6 DEF CharLiteral, Emit, Go
  <2>2. Sound(first)
    OBVIOUS
  <2>3. Sound(quote)
    BY <2>2
  <2> HIDE DEF first, quote
  <2> QED
    BY <2>1, <2>3
<1>7. CASE Word
  <2>1. text' = text /\ cursor' \in {cursor, Advance(Peek(cursor)), Peek(Peek(cursor))}
    BY <1>7 DEF Word, Emit, Go
  <2> QED
    BY <2>1
<1>8. CASE OpenSuffix
  BY <1>8 DEF OpenSuffix, Emit, Go
<1>9. CASE CloseSuffix
  BY <1>9, TestSound DEF CloseSuffix, Go
<1>10. CASE Number
  BY <1>10, TestSound DEF Number, Emit, Go
<1>11. CASE String
  <2>1. text' = text /\ cursor' \in {Advance(Peek(Peek(cursor))), Advance(Test(cursor))}
    BY <1>11 DEF String, Emit, Go
  <2> QED
    BY <2>1, TestSound
<1> QED
  BY <1>1, <1>2, <1>3, <1>4, <1>5, <1>6, <1>7, <1>8, <1>9, <1>10, <1>11 DEF Next

(* The cursor is sound in every state.                                     *)
LEMMA CursorSound == Spec => []CursorInv
<1>1. Init => CursorInv
  <2> SUFFICES ASSUME Init PROVE CursorInv
    OBVIOUS
  <2>1. text \in Seq(Chars)
    BY TextsAssumption DEF Init
  <2>2. /\ cursor \in Cursors
        /\ cursor.pos = 0 /\ cursor.col = 0 /\ cursor.line = 0
        /\ ~cursor.eof /\ ~cursor.fail
    BY DEF Init, Cursors
  <2>3. Flags(cursor)
    BY <2>1, <2>2 DEF Flags
  <2>4. Lines(cursor)
    <3>1. LinesBefore(0) = {}
      BY DEF LinesBefore
    <3> QED
      BY <2>2, <3>1, FS_EmptySet DEF Lines
  <2>5. Column(cursor)
    BY <2>2 DEF Column, ColumnExact
  <2> QED
    BY <2>1, <2>2, <2>3, <2>4, <2>5 DEF CursorInv, Sound
<1>2. CursorInv /\ [Next]_vars => CursorInv'
  <2> SUFFICES ASSUME CursorInv, [Next]_vars PROVE CursorInv'
    OBVIOUS
  <2>1. CASE Next
    <3>1. PICK c : Sound(c) /\ cursor' = c
      BY <2>1, StepIsSound DEF CursorInv
    <3>2. text' = text
      BY <2>1, StepIsSound DEF CursorInv
    <3> QED
      BY <3>1, <3>2 DEF CursorInv, Sound, Flags, Lines, Column, ColumnExact, LinesBefore
  <2>2. CASE UNCHANGED vars
    BY <2>2 DEF CursorInv, Sound, Flags, Lines, Column, ColumnExact, LinesBefore, vars
  <2> QED
    BY <2>1, <2>2
<1> QED
  BY <1>1, <1>2, PTL DEF Spec

-----------------------------------------------------------------------------
(* Whatever the file, the end of the file is never reported early, and     *)
(* never missed: the stream fails only when everything has been read.      *)
THEOREM FlagsCorrect == Spec => []FlagsExact
<1>1. CursorInv => FlagsExact
  BY DEF CursorInv, Sound, Flags, FlagsExact
<1> QED
  BY <1>1, CursorSound, PTL

(* Whatever the file, the location is that of the characters read.         *)
THEOREM LocationCorrect == Spec => []LocationExact
<1>1. CursorInv => LocationExact
  BY DEF CursorInv, Sound, Lines, Column, LocationExact
<1> QED
  BY <1>1, CursorSound, PTL

-----------------------------------------------------------------------------
Values == Seq(Chars \union {EndOfFile})

Types == TokenTypes \union {"EOF"}

(* The tables give every word and every mark one of the types of Tokens.   *)
LEMMA TablesTyped ==
    ASSUME NEW s
    PROVE  /\ WordType(s) \in Types
           /\ MarkType(s) \in Types
           /\ PairType(s) \in Types
<1>1. WordType(s) \in Types
  BY DEF WordType, ReservedType, Types, TokenTypes
<1>2. MarkType(s) \in Types
  BY DEF MarkType, Types, TokenTypes
<1>3. PairType(s) \in Types
  BY DEF PairType, Types, TokenTypes
<1> QED
  BY <1>1, <1>2, <1>3

LEMMA EmitTyped ==
    ASSUME TypeOK, NEW c, NEW type \in Types, NEW value \in Values,
           Emit(c, type, value)
    PROVE  /\ mode' = "skip" /\ text' = text
           /\ buf' \in Values
           /\ out' \in Seq([type : Types, value : Values])
<1>1. Token(type, value) \in [type : Types, value : Values]
  BY DEF Token
<1>2. out \in Seq([type : Types, value : Values])
  BY DEF TypeOK, Types, Values
<1>3. Append(out, Token(type, value)) \in Seq([type : Types, value : Values])
  BY <1>1, <1>2
<1> QED
  <2>1. <<>> \in Values
    BY DEF Values
  <2> QED
    BY <1>2, <1>3, <2>1 DEF Emit, Go

(* The types of the variables, in every state.                             *)
THEOREM TypeCorrect == Spec => []TypeOK
<1>1. Init => TypeOK
  BY TextsAssumption DEF Init, TypeOK, Cursors
<1>2. TypeOK /\ CursorInv /\ CursorInv' /\ [Next]_vars => TypeOK'
  <2> SUFFICES ASSUME TypeOK, CursorInv, CursorInv', [Next]_vars PROVE TypeOK'
    OBVIOUS
  <2>1. text' \in Seq(Chars) /\ cursor' \in Cursors
    BY DEF CursorInv, Sound
  <2>2. /\ buf \in Values
        /\ out \in Seq([type : Types, value : Values])
        /\ cursor \in Cursors /\ Sound(cursor)
        /\ text \in Seq(Chars)
    BY DEF TypeOK, CursorInv, Sound, Values, Types
  <2>3. \A c \in Cursors : CharAt(c) \in Chars \union {EndOfFile}
    BY <2>2, CharRead
  <2>4. <<>> \in Values
    BY DEF Values
  <2>5. \A char \in Chars \union {EndOfFile} : Append(buf, char) \in Values
    BY <2>2 DEF Values
  <2> DEFINE Kept == /\ mode' \in {"skip", "comment", "token", "word", "suffix",
                                   "digits", "number", "string"}
                     /\ buf' \in Values
                     /\ out' \in Seq([type : Types, value : Values])
                     /\ errors' \subseteq {"non-ascii", "quote", "bracket"}
  <2>6. errors \subseteq {"non-ascii", "quote", "bracket"}
    BY DEF TypeOK
  <2>7. ASSUME SkipWhitespace PROVE Kept
    BY <2>2, <2>6, <2>7 DEF SkipWhitespace, AfterSlash, Go, Keep
  <2>8. ASSUME SkipComment PROVE Kept
    BY <2>2, <2>6, <2>8 DEF SkipComment, Go, Keep
  <2>9. ASSUME EndOfInput PROVE Kept
    BY <2>4, <2>6, <2>9, EmitTyped DEF EndOfInput, Types
  <2>10. ASSUME StartToken PROVE Kept
    BY <2>2, <2>6, <2>10 DEF StartToken, Go, Keep
  <2>11. ASSUME Operator PROVE Kept
    BY <2>4, <2>6, <2>11, EmitTyped, TablesTyped DEF Operator
  <2>12. ASSUME CharLiteral PROVE Kept
    <3> DEFINE first == Advance(Peek(cursor))
               quote == Advance(Peek(Peek(first)))
               read  == CharAt(Peek(first))
    <3>1. Peek(first) \in Cursors
      BY <2>2, PeekSound, AdvanceSound DEF Sound
    <3>2. <<read>> \in Values
      BY <2>3, <3>1 DEF Values
    <3>3. /\ Emit(Advance(Peek(quote)), "CHAR", <<read>>)
          /\ errors' \subseteq {"non-ascii", "quote", "bracket"}
      BY <2>6, <2>12 DEF CharLiteral, Complain
    <3> HIDE DEF read, quote
    <3> QED
      BY <3>2, <3>3, EmitTyped DEF Types, TokenTypes
  <2>13. ASSUME Word PROVE Kept
    <3>1. Run("word") /\ errors' = errors
      BY <2>13 DEF Word
    <3>2. CASE buf' = Append(buf, CharAt(cursor)) /\ out' = out /\ mode' = "word"
      BY <2>2, <2>3, <2>5, <2>6, <3>1, <3>2
    <3>3. CASE buf' = buf /\ out' = out /\ mode' = "suffix"
      BY <2>2, <2>6, <3>1, <3>3
    <3>4. CASE \E c : Emit(c, WordType(buf), buf)
      BY <2>2, <2>6, <3>1, <3>4, EmitTyped, TablesTyped
    <3> QED
      BY <2>13, <3>2, <3>3, <3>4 DEF Word, Push, Go
  <2>14. ASSUME OpenSuffix PROVE Kept
    BY <2>2, <2>5, <2>6, <2>14, EmitTyped
       DEF OpenSuffix, Push, Go, Types, TokenTypes, Chars, Marks
  <2>15. ASSUME CloseSuffix PROVE Kept
    BY <2>2, <2>3, <2>5, <2>6, <2>15
       DEF CloseSuffix, Push, Go, Complain, Chars, Marks
  <2>16. ASSUME Number PROVE Kept
    <3>1. errors' = errors
      BY <2>16 DEF Number
    <3>2. CASE buf' = Append(buf, CharAt(cursor)) /\ out' = out /\ mode' = "number"
      BY <2>2, <2>3, <2>5, <2>6, <3>1, <3>2
    <3>3. CASE \E c : Emit(c, "INT", buf)
      BY <2>2, <2>6, <3>1, <3>3, EmitTyped DEF Types, TokenTypes
    <3> QED
      BY <2>16, <3>2, <3>3 DEF Number, Push, Go
  <2>17. ASSUME String PROVE Kept
    <3>1. errors' = errors
      BY <2>17 DEF String
    <3>2. CASE buf' = Append(buf, CharAt(cursor)) /\ out' = out /\ mode' = "string"
      BY <2>2, <2>3, <2>5, <2>6, <3>1, <3>2
    <3>3. CASE \E c : Emit(c, "STRING", buf)
      BY <2>2, <2>6, <3>1, <3>3, EmitTyped DEF Types, TokenTypes
    <3> QED
      BY <2>17, <3>2, <3>3 DEF String, Push, Go
  <2>18. CASE UNCHANGED vars
    BY <2>18 DEF TypeOK, vars
  <2>19. ASSUME Next PROVE Kept
    BY <2>7, <2>8, <2>9, <2>10, <2>11, <2>12, <2>13, <2>14, <2>15, <2>16, <2>17, <2>19 DEF Next
  <2>20. Kept => TypeOK'
    BY <2>1 DEF TypeOK, Values, Types
  <2> HIDE DEF Kept
  <2> QED
    BY <2>18, <2>19, <2>20
<1> QED
  BY <1>1, <1>2, CursorSound, PTL DEF Spec
=============================================================================
