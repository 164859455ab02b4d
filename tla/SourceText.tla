----------------------------- MODULE SourceText -----------------------------
(***************************************************************************)
(* How a tree is written: the tokens of a file that means it, with every   *)
(* operand in parentheses that is not a single word or a call.  It is      *)
(* defined from the grammar of the language, without the parser.           *)
(***************************************************************************)
EXTENDS Integers, SequencesExt

Word(type, value) == <<[type |-> type, value |-> value]>>

Sign(type) == Word(type, "")
TypeName(type) == Word("DATA_TYPE", type)
IdSign(name) == Word("ID", name)

InParens(text) == Sign("LPAREN") \o text \o Sign("RPAREN")

Listed(texts) ==
    FlattenSeq([i \in DOMAIN texts |->
                   IF i = 1 THEN texts[i] ELSE Sign("COMMA") \o texts[i]])

OperatorSign(op) ==
    CASE op = "+" -> Sign("PLUS")
      [] op = "-" -> Sign("MINUS")
      [] op = "<" -> Sign("LT")
      [] op = "==" -> Sign("DEQ")
      [] op = "type" -> TypeName("int")

LiteralSign(type) ==
    Sign(CASE type = "int" -> "INT"
           [] type = "char" -> "CHAR"
           [] type = "string" -> "STRING"
           [] type = "void" -> "UNKNOWN")

(* The text of each node of a tree.  What follows a condition must not     *)
(* look like an operator, and an if without an else must not stand before  *)
(* one: such trees have no text.                                           *)
Texts(p) ==
    LET text[n \in DOMAIN p] ==
            LET node  == p[n]
                kid(i) == text[node.kids[i]]
                kids  == [i \in DOMAIN node.kids |-> kid(i)]
                operand(i) ==
                    IF p[node.kids[i]].kind \in {"Literal", "Ident", "Call"} THEN kid(i)
                    ELSE InParens(kid(i))
            IN  CASE node.kind = "Program" -> FlattenSeq(kids)
                  [] node.kind = "Block" ->
                         Sign("LBRACE") \o FlattenSeq(kids) \o Sign("RBRACE")
                  [] node.kind = "Method" ->
                         TypeName(node.type) \o IdSign(node.name)
                         \o InParens(Listed([i \in DOMAIN node.params |->
                                TypeName(node.params[i].type) \o IdSign(node.params[i].name)]))
                         \o kid(1)
                  [] node.kind = "Class" ->
                         Sign("KW_CLASS") \o Sign("ID") \o Sign("LBRACE") \o Sign("RBRACE")
                  [] node.kind = "If" ->
                         Sign("KW_IF") \o InParens(kid(1)) \o kid(2)
                         \o (IF Len(kids) = 3 THEN Sign("KW_ELSE") \o kid(3) ELSE <<>>)
                  [] node.kind = "While" -> Sign("KW_WHILE") \o InParens(kid(1)) \o kid(2)
                  [] node.kind = "Return" -> Sign("KW_RETURN") \o kid(1) \o Sign("SEMICOLON")
                  [] node.kind = "ExprStmt" -> kid(1) \o Sign("SEMICOLON")
                  [] node.kind = "VarDecl" ->
                         TypeName(node.type) \o IdSign(node.name)
                         \o (IF kids = <<>> THEN <<>> ELSE Sign("EQUALS") \o kid(1))
                  [] node.kind = "Assign" -> operand(1) \o Sign("EQUALS") \o operand(2)
                  [] node.kind = "Binary" -> operand(1) \o OperatorSign(node.op) \o operand(2)
                  [] node.kind = "Unary" -> OperatorSign(node.op) \o operand(1)
                  [] node.kind = "Literal" -> LiteralSign(node.type)
                  [] node.kind = "Ident" -> IdSign(node.name)
                  [] node.kind = "Call" -> IdSign(node.name) \o InParens(Listed(kids))
                  [] node.kind = "Arg" -> operand(1)
    IN  text

Written(p) == Texts(p)[1]
=============================================================================
