------------------------------ MODULE Lexemes ------------------------------
(***************************************************************************)
(* The tokens of a text, defined without a stream: a text falls into       *)
(* pieces from left to right, each the longest there is at its place, and  *)
(* each but blanks and comments is a token.  The lexer shares the tables   *)
(* of characters, keywords and operators, and nothing else.                *)
(***************************************************************************)
EXTENDS Tokens, Integers, SequencesExt

(* Capitals are lexed as the small letters are, and any further mark as #. *)
Letters ==
    {"a", "b", "c", "d", "e", "f", "g", "h", "i", "j", "k", "l", "m", "n",
     "o", "p", "q", "r", "s", "t", "u", "v", "w", "x", "y", "z", "_"}
Digits == {"0", "1", "2", "3", "4", "5", "6", "7", "8", "9"}
Spaces == {" ", "\n"}
Marks == {"(", ")", "{", "}", "[", "]", ":", ",", "<", ">", "-", ";", "=",
          "+", "*", "/", "!", "\"", "'", "#"}
NonAscii == "non-ascii"

Chars == Letters \union Digits \union Spaces \union Marks \union {NonAscii}

EndOfFile == "EOF"  \* what peek and get return at the end of the file

-----------------------------------------------------------------------------
DataTypes == {<<"i", "n", "t">>, <<"c", "h", "a", "r">>, <<"b", "o", "o", "l">>,
              <<"v", "o", "i", "d">>, <<"s", "t", "r", "i", "n", "g">>}

AccessModifiers == {<<"p", "u", "b", "l", "i", "c">>,
                    <<"p", "r", "i", "v", "a", "t", "e">>,
                    <<"p", "r", "o", "t", "e", "c", "t", "e", "d">>}

TruthValues == {<<"t", "r", "u", "e">>, <<"f", "a", "l", "s", "e">>}

ReservedType(word) ==
    CASE word \in DataTypes -> "DATA_TYPE"
      [] word \in AccessModifiers -> "KW_ACCESS_MODIFIER"
      [] word = <<"i", "f">> -> "KW_IF"
      [] word = <<"e", "l", "s", "e">> -> "KW_ELSE"
      [] word = <<"w", "h", "i", "l", "e">> -> "KW_WHILE"
      [] word = <<"c", "l", "a", "s", "s">> -> "KW_CLASS"
      [] word = <<"r", "e", "t", "u", "r", "n">> -> "KW_RETURN"
      [] word = <<"c", "o", "n", "s", "t", "r", "u", "c", "t", "o", "r">> -> "KW_CONSTRUCTOR"
      [] OTHER -> "ID"

(* The type of a word: the trie holds whole keywords, and a word that is a *)
(* part of one, or goes on after one, is an identifier.                    *)
WordType_Bool(word) == IF word \in TruthValues THEN "BOOL" ELSE ReservedType(word)

WordType(word) == IF word \in TruthValues THEN "INT" ELSE ReservedType(word)

(* Operators of one character; whatever else starts no token is unknown.   *)
MarkType(c) ==
    CASE c = "(" -> "LPAREN"   [] c = ")" -> "RPAREN"
      [] c = "{" -> "LBRACE"   [] c = "}" -> "RBRACE"
      [] c = "[" -> "LBRACKET" [] c = "]" -> "RBRACKET"
      [] c = ":" -> "COLON"    [] c = "," -> "COMMA"
      [] c = "<" -> "LT"       [] c = ">" -> "GT"
      [] c = "-" -> "MINUS"    [] c = "+" -> "PLUS"
      [] c = "*" -> "MULTIPLY" [] c = "/" -> "DIVIDE"
      [] c = "=" -> "EQUALS"   [] c = ";" -> "SEMICOLON"
      [] OTHER -> "UNKNOWN"

(* Operators of two, and the characters after which the lexer looks for    *)
(* the second one.                                                         *)
PairType(pair) ==
    CASE pair = <<"<", "=">> -> "LEQ" [] pair = <<"<", "<">> -> "LSHIFT"
      [] pair = <<">", "=">> -> "GEQ" [] pair = <<">", ">">> -> "RSHIFT"
      [] pair = <<"=", "=">> -> "DEQ" [] pair = <<"!", "=">> -> "NEQ"
      [] pair = <<"-", ">">> -> "ARROW_RIGHT"
      [] OTHER -> "UNKNOWN"

StartsPair(c) == c \in {"<", ">", "-", "=", "!"}

-----------------------------------------------------------------------------
Consists(s, i, j, class) == \A k \in i..j : s[k] \in class

(* The first place of s from i on that holds no digit. *)
AfterDigits(s, i) ==
    Min({k \in i..(Len(s) + 1) : k = Len(s) + 1 \/ s[k] \notin Digits})

IsBlank(s) == Len(s) = 1 /\ s[1] \in Spaces

IsComment(s) ==
    /\ Len(s) >= 2 /\ s[1] = "/" /\ s[2] = "/"
    /\ \A k \in 3..(Len(s) - 1) : s[k] # "\n"

IsWord(s) == s[1] \in Letters /\ Consists(s, 2, Len(s), Letters \union Digits)

IsNumber(s) == Consists(s, 1, Len(s), Digits)

IsString(s) == s[1] = "\"" /\ \A k \in 2..(Len(s) - 1) : s[k] # "\""

IsChar(s) == s[1] = "'" /\ Len(s) <= 3

(* What may follow the name of a data type: any number of brackets, each   *)
(* with digits and a character, which should have been the closing one.    *)
AreSuffixes(s) ==
    LET from[q \in 1..(Len(s) + 1)] ==
            \/ q = Len(s) + 1
            \/ /\ s[q] = "["
               /\ AfterDigits(s, q + 1) <= Len(s) => from[AfterDigits(s, q + 1) + 1]
    IN  from[1]

(* The places of those characters, the end of the text being one. *)
Closings(s) ==
    LET from[q \in 1..(Len(s) + 2)] ==
            IF q > Len(s) THEN {}
            ELSE {AfterDigits(s, q + 1)} \union from[AfterDigits(s, q + 1) + 1]
    IN  from[1]

NameLen(s) == Max({k \in 0..Len(s) : Consists(s, 1, k, Letters)})
TypeName(s) == SubSeq(s, 1, NameLen(s))
Suffix(s) == SubSeq(s, NameLen(s) + 1, Len(s))

IsArrayType(s) ==
    /\ TypeName(s) \in DataTypes
    /\ Suffix(s) # <<>>
    /\ AreSuffixes(Suffix(s))

IsPiece(s) ==
    \/ Len(s) = 1
    \/ Len(s) = 2 /\ PairType(s) # "UNKNOWN"
    \/ IsComment(s) \/ IsWord(s) \/ IsNumber(s) \/ IsString(s) \/ IsChar(s)
    \/ IsArrayType(s)

Longest(text, p) ==
    SubSeq(text, p, Max({q \in p..Len(text) : IsPiece(SubSeq(text, p, q))}))

-----------------------------------------------------------------------------
Token(type, value) == [type |-> type, value |-> value]

(* An unterminated string takes the end of the file for its last           *)
(* character.                                                              *)
StringValue(s) ==
    IF Len(s) >= 2 /\ s[Len(s)] = "\"" THEN SubSeq(s, 2, Len(s) - 1)
    ELSE Tail(s) \o <<EndOfFile>>

ArrayValue(s) ==
    LET suffix == Suffix(s)
        closed == IF Len(suffix) + 1 \in Closings(suffix) THEN suffix \o <<"]">> ELSE suffix
    IN  TypeName(s) \o [k \in DOMAIN closed |->
                           IF k \in Closings(suffix) THEN "]" ELSE closed[k]]

TokensOf(s) ==
    CASE IsBlank(s) \/ IsComment(s) -> <<>>
      [] IsWord(s) -> <<Token(WordType(s), s)>>
      [] IsArrayType(s) -> <<Token("DATA_TYPE", ArrayValue(s))>>
      [] IsNumber(s) -> <<Token("INT", s)>>
      [] IsString(s) -> <<Token("STRING", StringValue(s))>>
      [] IsChar(s) -> <<Token("CHAR", <<IF Len(s) > 1 THEN s[2] ELSE EndOfFile>>)>>
      [] OTHER -> <<Token(IF Len(s) = 2 THEN PairType(s) ELSE MarkType(s[1]), <<>>)>>

ErrorsOf(s) ==
    CASE IsArrayType(s) ->
             {"bracket" : k \in {k \in Closings(Suffix(s)) :
                                     k > Len(Suffix(s)) \/ Suffix(s)[k] # "]"}}
      [] IsChar(s) ->
             (IF Len(s) = 1 \/ (Len(s) > 1 /\ s[2] = NonAscii) THEN {"non-ascii"} ELSE {})
             \union (IF Len(s) = 3 /\ s[3] = "'" THEN {} ELSE {"quote"})
      [] OTHER -> {}

(* The pieces of a text, in order. *)
Pieces(text) ==
    LET from[p \in 1..(Len(text) + 1)] ==
            IF p > Len(text) THEN <<>>
            ELSE LET s == Longest(text, p) IN <<s>> \o from[p + Len(s)]
    IN  from[1]

(* The tokens of a text, and the kinds of error in it. *)
Reading(text) ==
    LET pieces == Pieces(text)
    IN  [tokens |-> FlattenSeq([i \in DOMAIN pieces |-> TokensOf(pieces[i])]),
         errors |-> UNION {ErrorsOf(piece) : piece \in Range(pieces)}]
=============================================================================
