------------------------------- MODULE Parser -------------------------------
(***************************************************************************)
(* The recursive-descent parser of parser.cc as a stack machine.  A token  *)
(* is its position in the file; the two-token look-ahead is the deque of   *)
(* parser.hh.  The C++ call stack is calls: a frame is <<where the         *)
(* function goes on, the local it still needs>>.  The tree is kept in      *)
(* postfix order in out: a node is <<kind, token>>, it takes its children  *)
(* from the nodes before it, and Open marks where a list of children       *)
(* starts.  Types, token texts and locations are left out.                 *)
(*                                                                         *)
(* Parser errors do not stop the parser; main stops after it.              *)
(***************************************************************************)
EXTENDS Tokens, Integers, Sequences

CONSTANT Files  \* the files that may be given, as sequences of tokens

ASSUME FilesAssumption == Files \subseteq Seq(TokenTypes)

VARIABLES
    input,   \* the file
    tokens,  \* [current, peeked_tokens, read]: positions in the file
    calls,   \* the functions under way, the innermost first
    out,     \* the nodes made, in postfix order
    errors   \* the kinds of parser error reported

vars == <<input, tokens, calls, out, errors>>

-----------------------------------------------------------------------------
(* The token stream.  The position after the last token is the end of the  *)
(* file, which the lexer returns again whenever it is asked again.         *)
End == Len(input) + 1

After(p) == IF p < End THEN p + 1 ELSE End

Type(p) == IF p \in DOMAIN input THEN input[p] ELSE "EOF"

(* Parser::peek: fill the deque up to count tokens. *)
Filled(t) == [current |-> t.current,
              peeked_tokens |-> Append(t.peeked_tokens, After(t.read)),
              read |-> After(t.read)]

Peek_OneTooMany(t, count) ==
    CASE Len(t.peeked_tokens) > count -> t
      [] Len(t.peeked_tokens) = count -> Filled(t)
      [] Len(t.peeked_tokens) = count - 1 -> Filled(Filled(t))
      [] OTHER -> Filled(Filled(Filled(t)))

Peek(t, count) ==
    CASE Len(t.peeked_tokens) >= count -> t
      [] Len(t.peeked_tokens) = count - 1 -> Filled(t)
      [] OTHER -> Filled(Filled(t))

Peeked(count) == Type(Peek(tokens, count).peeked_tokens[count])

(* Parser::advance: the deque first, then the lexer. *)
Advance_SkipsPeeked(t) ==
    [t EXCEPT !.current = After(t.read), !.read = After(t.read)]

Advance(t) ==
    IF t.peeked_tokens # <<>>
    THEN [current |-> Head(t.peeked_tokens),
          peeked_tokens |-> Tail(t.peeked_tokens),
          read |-> t.read]
    ELSE [current |-> After(t.read), peeked_tokens |-> <<>>, read |-> After(t.read)]

Current == Type(tokens.current)

(* getBinaryPrecedence and getUnaryPrecedence; a type name counts as an    *)
(* operator, the one that binds tightest.                                  *)
BinaryPrecedence(type) ==
    CASE type = "DATA_TYPE" -> 5
      [] type \in {"MULTIPLY", "DIVIDE"} -> 4
      [] type \in {"PLUS", "MINUS"} -> 3
      [] type = "EQUALS" -> 2
      [] type \in {"DEQ", "NEQ", "GT", "GEQ", "LT", "LEQ"} -> 1
      [] OTHER -> -1

UnaryPrecedence(type) == IF type \in {"PLUS", "MINUS"} THEN 100 ELSE -1

(* The loop of parseBinaryExpr takes an operator that binds tighter than   *)
(* the one whose right operand is being parsed.                            *)
Takes_AsTight(type, parent) ==
    BinaryPrecedence(type) >= parent /\ BinaryPrecedence(type) # -1

Takes(type, parent) == BinaryPrecedence(type) > parent

-----------------------------------------------------------------------------
(* The machine. *)
At(place) == calls # <<>> /\ calls[1][1] = place
Local == calls[1][2]

Open == <<"Open", 0>>

Require(type, t, error) == IF Type(t.current) = type THEN {} ELSE {error}

(* One piece of a function between two calls: the tokens are now at t, the *)
(* frames take the place of the running one, nodes are made and errors     *)
(* reported.                                                               *)
Do(t, frames, nodes, reported) ==
    /\ tokens' = t
    /\ calls' = frames \o Tail(calls)
    /\ out' = out \o nodes
    /\ errors' = errors \union reported
    /\ UNCHANGED input

Call(t, frames) == Do(t, frames, <<>>, {})
Make(t, kind, token) == Do(t, <<>>, <<<<kind, token>>>>, {})

(* The parser is called. *)
Start ==
    /\ tokens = [current |-> 0, peeked_tokens |-> <<>>, read |-> 0]
    /\ calls = <<<<"Program", 0>>>>
    /\ out = <<>>
    /\ errors = {}

Init == input \in Files /\ Start

ParseProgram ==
    \/ At("Program") /\ Do(Advance(tokens), <<<<"InProgram", 0>>>>, <<Open>>, {})
    \/ At("InProgram") /\ Current = "EOF" /\ Make(tokens, "Program", 0)
    \/ /\ At("InProgram") /\ Current # "EOF"
       /\ Call(tokens, <<<<"Statement", 0>>, <<"InProgram", 0>>>>)

ParseStatement ==
    /\ At("Statement")
    /\ CASE Current = "LBRACE" -> Call(tokens, <<<<"Block", 0>>>>)
         [] Current = "DATA_TYPE" ->
              Call(Peek(tokens, 2),
                   IF Peeked(2) = "LPAREN" THEN <<<<"MethodDecl", 0>>>>
                   ELSE <<<<"VarDecl", 0>>, <<"DeclEnd", 0>>>>)
         [] Current = "KW_IF" -> Call(tokens, <<<<"If", 0>>>>)
         [] Current = "KW_WHILE" -> Call(tokens, <<<<"While", 0>>>>)
         [] Current = "KW_RETURN" ->
              Call(tokens, <<<<"Return", 0>>, <<"StmtEnd", 0>>>>)
         [] Current = "KW_CLASS" -> Call(tokens, <<<<"Class", 0>>>>)
         [] OTHER -> Call(tokens, <<<<"ExprStmt", 0>>, <<"StmtEnd", 0>>>>)

EndStatement_BareDecl ==
    /\ At("StmtEnd") \/ At("DeclEnd")
    /\ Do(Advance(tokens), <<>>, <<>>, Require("SEMICOLON", tokens, "semicolon"))

(* The semicolon that closes a declaration, an expression or a return: any *)
(* other token in its place is reported and taken all the same.            *)
EndStatement ==
    \/ /\ At("StmtEnd")
       /\ Do(Advance(tokens), <<>>, <<>>,
             Require("SEMICOLON", tokens, "semicolon"))
    \/ /\ At("DeclEnd")
       /\ Do(Advance(tokens), <<>>, <<<<"ExprStmt", 0>>>>,
             Require("SEMICOLON", tokens, "semicolon"))

-----------------------------------------------------------------------------
(* Classes and methods. *)
ParseClass ==
    \/ /\ At("Class")
       /\ LET name == Advance(tokens)
              brace == Advance(name)
          IN  Do(Advance(brace), <<<<"Members", name.current>>>>, <<Open>>,
                 Require("ID", name, "identifier")
                     \union Require("LBRACE", brace, "class body"))
    \/ /\ At("Members") /\ Current # "RBRACE"
       /\ Call(tokens, <<<<"Member", 0>>, calls[1]>>)
    \/ At("Members") /\ Current = "RBRACE" /\ Make(Advance(tokens), "Class", Local)

(* An access modifier is skipped; whatever does not start a member is      *)
(* skipped up to and with the next semicolon or closing brace.             *)
ParseClassMember ==
    \/ /\ At("Member")
       /\ Call(IF Current = "KW_ACCESS_MODIFIER" THEN Advance(tokens) ELSE tokens,
               <<<<"BareMember", 0>>>>)
    \/ /\ At("BareMember") /\ Current = "DATA_TYPE"
       /\ Call(Peek(tokens, 2), IF Peeked(2) = "LPAREN" THEN <<<<"MethodDecl", 0>>>>
                                ELSE <<<<"FieldDecl", 0>>>>)
    \/ /\ At("BareMember") /\ Current = "KW_CONSTRUCTOR"
       /\ IF Peeked(1) = "LPAREN"
          THEN Call(Peek(tokens, 1), <<<<"ConstructorDecl", 0>>>>)
          ELSE Do(Peek(tokens, 1), <<<<"SkipMember", 0>>>>, <<>>, {"class member"})
    \/ /\ At("BareMember") /\ Current \notin {"DATA_TYPE", "KW_CONSTRUCTOR"}
       /\ Do(tokens, <<<<"SkipMember", 0>>>>, <<>>, {"class member"})
    \/ /\ At("SkipMember") /\ Current \notin {"SEMICOLON", "RBRACE", "EOF"}
       /\ Call(Advance(tokens), <<<<"SkipMember", 0>>>>)
    \/ /\ At("SkipMember") /\ Current \in {"SEMICOLON", "RBRACE"}
       /\ Call(Advance(tokens), <<>>)
    \/ At("SkipMember") /\ Current = "EOF" /\ Call(tokens, <<>>)

ParseFieldDecl ==
    /\ At("FieldDecl")
    /\ LET name == Advance(tokens)
       IN  Do(Advance(name), <<>>, <<<<"FieldDecl", name.current>>>>,
              Require("ID", name, "identifier"))

ParseConstructorDecl ==
    \/ /\ At("ConstructorDecl")
       /\ Do(Advance(tokens),
             <<<<"Params", 0>>, <<"Block", 0>>, <<"EndConstructor", tokens.current>>>>,
             <<Open>>, {})
    \/ At("EndConstructor") /\ Make(tokens, "ConstructorDecl", Local)

(* Both callers have seen the parenthesis two tokens ahead. *)
ParseMethodDecl ==
    \/ /\ At("MethodDecl")
       /\ LET name == Advance(tokens)
          IN  Do(Advance(name),
                 <<<<"Params", 0>>, <<"Block", 0>>, <<"EndMethod", name.current>>>>,
                 <<Open>>, Require("ID", name, "identifier"))
    \/ At("EndMethod") /\ Make(tokens, "MethodDecl", Local)

(* The parameter loop, which is in both functions and does not look for    *)
(* the end of the file.  BOUND: the parameters it goes on making there are *)
(* not kept.                                                               *)
ParseParams ==
    /\ At("Params")
    /\ LET t == Advance(tokens)
       IN  CASE Type(t.current) = "RPAREN" -> Call(Advance(t), <<>>)
             [] Type(t.current) = "COMMA" -> Call(t, <<calls[1]>>)
             [] OTHER ->
                  LET name == Advance(t)
                  IN  Do(name, <<calls[1]>>,
                         IF name.current = End THEN <<>>
                         ELSE <<<<"Param", name.current>>>>,
                         Require("DATA_TYPE", t, "parameter type")
                             \union Require("ID", name, "parameter name"))

-----------------------------------------------------------------------------
(* Statements. *)
ParseBlock ==
    \/ /\ At("Block")
       /\ Do(Advance(tokens), <<<<"InBlock", 0>>>>, <<Open>>,
             Require("LBRACE", tokens, "opening brace"))
    \/ At("InBlock") /\ Current = "RBRACE" /\ Make(Advance(tokens), "Block", 0)
    \/ /\ At("InBlock") /\ Current = "EOF"
       /\ Do(tokens, <<>>, <<<<"Block", 0>>>>, {"closing brace"})
    \/ /\ At("InBlock") /\ Current \notin {"RBRACE", "EOF"}
       /\ Call(tokens, <<<<"Statement", 0>>, <<"InBlock", 0>>>>)

(* The condition is parsed with its parentheses, as a grouped expression:  *)
(* an operator after the closing one goes on with the condition.           *)
ParseIfStmt ==
    \/ /\ At("If")
       /\ Do(Advance(tokens),
             <<<<"Binary", 0>>, <<"Statement", 0>>, <<"Else", 0>>>>, <<>>,
             Require("LPAREN", Advance(tokens), "opening parenthesis"))
    \/ /\ At("Else") /\ Current = "KW_ELSE"
       /\ Call(Advance(tokens), <<<<"Statement", 0>>, <<"EndElse", 0>>>>)
    \/ At("Else") /\ Current # "KW_ELSE" /\ Make(tokens, "If", 0)
    \/ At("EndElse") /\ Make(tokens, "IfElse", 0)

ParseWhileStmt ==
    \/ /\ At("While")
       /\ Do(Advance(tokens),
             <<<<"Binary", 0>>, <<"Statement", 0>>, <<"EndWhile", 0>>>>, <<>>,
             Require("LPAREN", Advance(tokens), "opening parenthesis"))
    \/ At("EndWhile") /\ Make(tokens, "While", 0)

ParseReturnStmt ==
    \/ At("Return") /\ Call(Advance(tokens), <<<<"Binary", 0>>, <<"EndReturn", 0>>>>)
    \/ At("EndReturn") /\ Make(tokens, "Return", 0)

ParseExprStmt ==
    \/ /\ At("ExprStmt")
       /\ IF Current = "ID"
          THEN Call(Peek(tokens, 1),
                    <<IF Peeked(1) = "LPAREN" THEN <<"MethodCall", 0>> ELSE <<"Binary", 0>>,
                      <<"EndExprStmt", 0>>>>)
          ELSE Call(tokens, <<<<"Binary", 0>>, <<"EndExprStmt", 0>>>>)
    \/ At("EndExprStmt") /\ Make(tokens, "ExprStmt", 0)

ParseVarDecl ==
    \/ /\ At("VarDecl")
       /\ LET name == Advance(tokens)
              after == Advance(name)
              wrong == Require("ID", name, "identifier")
          IN  IF Type(after.current) = "EQUALS"
              THEN Do(Advance(after),
                      <<<<"Binary", 0>>, <<"EndVarDecl", name.current>>>>, <<>>, wrong)
              ELSE Do(after, <<>>, <<<<"VarDecl", name.current>>>>, wrong)
    \/ At("EndVarDecl") /\ Make(tokens, "VarDeclInit", Local)

-----------------------------------------------------------------------------
(* Expressions.  The local of Binary and Operators is parent_precedence.   *)
ParseBinaryExpr ==
    /\ At("Binary")
    /\ Call(tokens,
            <<IF UnaryPrecedence(Current) > Local THEN <<"Unary", 0>> ELSE <<"Expr", 0>>,
              <<"Operators", Local>>>>)

ParseOperators ==
    \/ /\ At("Operators") /\ Takes(Current, Local)
       /\ Call(Advance(tokens),
               <<<<"Binary", BinaryPrecedence(Current)>>,
                 <<"EndBinary", tokens.current>>, calls[1]>>)
    \/ At("Operators") /\ ~Takes(Current, Local) /\ Call(tokens, <<>>)
    \/ /\ At("EndBinary")
       /\ Make(tokens, IF Type(Local) = "EQUALS" THEN "Assignment" ELSE "Binary", Local)

ParseUnaryExpr ==
    \/ /\ At("Unary")
       /\ Call(Advance(tokens), <<<<"Binary", UnaryPrecedence(Current)>>,
                                  <<"EndUnary", tokens.current>>>>)
    \/ At("EndUnary") /\ Make(tokens, "Unary", Local)

(* A group may go without its closing parenthesis, and any token that      *)
(* starts nothing else is a literal.                                       *)
ParseExpr ==
    \/ /\ At("Expr") /\ Current = "LPAREN"
       /\ Call(Advance(tokens), <<<<"Binary", 0>>, <<"EndGroup", 0>>>>)
    \/ /\ At("EndGroup")
       /\ Call(IF Current = "RPAREN" THEN Advance(tokens) ELSE tokens, <<>>)
    \/ At("Expr") /\ Current = "DATA_TYPE" /\ Call(tokens, <<<<"VarDecl", 0>>>>)
    \/ /\ At("Expr") /\ Current = "ID"
       /\ IF Peeked(1) = "LPAREN"
          THEN Call(Peek(tokens, 1), <<<<"MethodCall", 0>>>>)
          ELSE Make(Advance(Peek(tokens, 1)), "Identifier", tokens.current)
    \/ /\ At("Expr") /\ Current \notin {"LPAREN", "DATA_TYPE", "ID"}
       /\ Make(Advance(tokens), "Literal", tokens.current)

(* Both callers have seen the parenthesis.  An argument is an operand, not *)
(* an expression with operators; one token that is neither a comma nor the *)
(* closing parenthesis is dropped after it.                                *)
ParseMethodCall ==
    /\ At("MethodCall")
    /\ Do(Advance(Advance(tokens)), <<<<"Arguments", tokens.current>>>>, <<Open>>, {})

ParseComma_Stays == At("Arguments") /\ Current = "COMMA" /\ Call(tokens, <<calls[1]>>)
ParseComma == At("Arguments") /\ Current = "COMMA" /\ Call(Advance(tokens), <<calls[1]>>)

ParseArguments ==
    \/ ParseComma
    \/ At("Arguments") /\ Current = "RPAREN" /\ Make(Advance(tokens), "MethodCall", Local)
    \/ /\ At("Arguments") /\ Current = "EOF"
       /\ Do(Advance(tokens), <<>>, <<<<"MethodCall", Local>>>>,
             {"end of file", "closing parenthesis"})
    \/ /\ At("Arguments") /\ Current \notin {"RPAREN", "EOF", "COMMA"}
       /\ Call(tokens, <<<<"Expr", 0>>, <<"EndArgument", 0>>, calls[1]>>)
    \/ /\ At("EndArgument")
       /\ Make(IF Current \in {"COMMA", "RPAREN"} THEN tokens ELSE Advance(tokens),
               "Argument", 0)

-----------------------------------------------------------------------------
Next ==
    \/ ParseProgram \/ ParseStatement \/ EndStatement
    \/ ParseClass \/ ParseClassMember \/ ParseFieldDecl
    \/ ParseConstructorDecl \/ ParseMethodDecl \/ ParseParams
    \/ ParseBlock \/ ParseIfStmt \/ ParseWhileStmt \/ ParseReturnStmt
    \/ ParseExprStmt \/ ParseVarDecl
    \/ ParseBinaryExpr \/ ParseOperators \/ ParseUnaryExpr \/ ParseExpr
    \/ ParseMethodCall \/ ParseArguments

Spec == Init /\ [][Next]_vars

(* The parser is a function that main has called. *)
FairSpec == Spec /\ WF_vars(Next)

Finished == calls = <<>>

-----------------------------------------------------------------------------
Positions == 0..End

Streams == [current : Positions, peeked_tokens : Seq(Positions), read : Positions]

Places ==
    {"Program", "InProgram", "Statement", "StmtEnd", "DeclEnd", "Class", "Members",
     "Member", "BareMember", "SkipMember", "FieldDecl", "ConstructorDecl",
     "EndConstructor", "MethodDecl", "EndMethod", "Params", "Block", "InBlock",
     "If", "Else", "EndElse", "While", "EndWhile", "Return", "EndReturn",
     "ExprStmt", "EndExprStmt", "VarDecl", "EndVarDecl", "Binary", "Operators",
     "EndBinary", "Unary", "EndUnary", "Expr", "EndGroup", "MethodCall",
     "Arguments", "EndArgument"}

Frames == Places \X Int

NodeKinds ==
    {"Open", "Program", "Block", "Class", "FieldDecl", "MethodDecl",
     "ConstructorDecl", "Param", "ExprStmt", "If", "IfElse", "While", "Return",
     "VarDecl", "VarDeclInit", "Binary", "Assignment", "Unary", "Literal",
     "Identifier", "MethodCall", "Argument"}

Nodes == NodeKinds \X Int

ErrorKinds ==
    {"semicolon", "identifier", "class body", "class member", "parameter type",
     "parameter name", "opening brace", "closing brace", "opening parenthesis",
     "closing parenthesis", "end of file"}

(* Every variable has its type, and never more than two tokens wait in the *)
(* deque, which is what the parser's lookups ask for.                      *)
TypeOK ==
    /\ input \in Seq(TokenTypes)
    /\ tokens \in Streams
    /\ Len(tokens.peeked_tokens) <= 2
    /\ calls \in Seq(Frames)
    /\ out \in Seq(Nodes)
    /\ errors \subseteq ErrorKinds

Later(p, n) == IF p + n <= End THEN p + n ELSE End

InOrder(t) ==
    /\ t.read = Later(t.current, Len(t.peeked_tokens))
    /\ \A i \in 1..Len(t.peeked_tokens) : t.peeked_tokens[i] = Later(t.current, i)

(* However peek, advance and ret_advance alternate, the parser meets the   *)
(* tokens of the file one after the other: those waiting in the deque are  *)
(* exactly the ones between the current token and the lexer.               *)
LookAheadInOrder == InOrder(tokens)

(* The members of a class or the parameters of a method are being read and *)
(* the file is at its end.                                                 *)
InOpenList ==
    /\ tokens.current = End
    /\ \E i \in DOMAIN calls : calls[i][1] \in {"Members", "Params"}

(* The parser returns from every file, however broken, but for those that  *)
(* end in such a list, from which it never returns: all other loops make   *)
(* progress or look for the end of the file.                               *)
StopsOrOpenList == <>[]Finished \/ <>[](InOpenList /\ ~Finished)

(* What parser.cc:100 sets out to do: a class without its closing brace is *)
(* reported.                                                               *)
OpenClassReported == (At("Members") /\ Current = "EOF") ~> Finished

(* parser.cc:525: after an argument there is "either a comma or closing    *)
(* parenthesis".  A parse without errors makes a node of every name and    *)
(* number of the file: none is dropped.                                    *)
NothingDropped ==
    Finished /\ errors = {} =>
        \A p \in DOMAIN input : input[p] \in {"ID", "INT"} =>
            \E i \in DOMAIN out : out[i][2] = p

(* parser.cc:213: a field declaration ends in a semicolon.  A class whose  *)
(* members all do is accepted.                                             *)
FieldFile == <<"KW_CLASS", "ID", "LBRACE", "DATA_TYPE", "ID", "SEMICOLON", "RBRACE">>

FieldsParse == Finished /\ input = FieldFile => errors = {}
=============================================================================
