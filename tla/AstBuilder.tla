----------------------------- MODULE AstBuilder -----------------------------
(***************************************************************************)
(* What the parser puts into the nodes it makes: the tree for the nodes    *)
(* that Parser leaves in postfix order, with the names, types and          *)
(* operators of their tokens.  A file is a sequence of tokens, records of  *)
(* a type and a value.                                                     *)
(***************************************************************************)
EXTENDS Trees

(* Parser::parseType, of the value of a token: an array type is void.      *)
NamedType_NoString(value) ==
    IF value \in {"int", "bool", "char"} THEN value ELSE "void"

NamedType(value) ==
    IF value \in {"int", "bool", "char", "string"} THEN value ELSE "void"

(* Parser::get_current_type.  The lexer makes no TOKEN_BOOL. *)
LiteralType(type) ==
    CASE type = "INT" -> "int"
      [] type = "STRING" -> "string"
      [] type = "CHAR" -> "char"
      [] OTHER -> "void"

(* The operator a node gets from its token: those that check_binary_op and *)
(* the generator treat alike are one.                                      *)
Operator(type) ==
    CASE type \in {"PLUS", "MULTIPLY", "DIVIDE"} -> "+"
      [] type = "MINUS" -> "-"
      [] type \in {"LT", "GT", "LEQ", "GEQ"} -> "<"
      [] type \in {"DEQ", "NEQ"} -> "=="
      [] type = "DATA_TYPE" -> "type"

-----------------------------------------------------------------------------
(* The nodes that take all the parts since Open; the others take a fixed   *)
(* number.                                                                 *)
ListKinds == {"Program", "Block", "Class", "MethodDecl", "ConstructorDecl", "MethodCall"}

Arity ==
    [Param |-> 0, FieldDecl |-> 0, Literal |-> 0, Identifier |-> 0, VarDecl |-> 0,
     VarDeclInit |-> 1, Unary |-> 1, Argument |-> 1, ExprStmt |-> 1, Return |-> 1,
     Assignment |-> 2, Binary |-> 2, If |-> 2, While |-> 2, IfElse |-> 3]

TokenAt(file, p) ==
    IF p \in DOMAIN file THEN file[p] ELSE [type |-> "EOF", value |-> ""]

(* The node of the given kind for the token at p.  A declared name comes   *)
(* right after its type.  Fields and constructors are members of a class,  *)
(* of which nothing is kept.                                               *)
Made(file, kind, p, parts) ==
    LET value == TokenAt(file, p).value
        type  == NamedType(TokenAt(file, p - 1).value)
        op    == Operator(TokenAt(file, p).type)
    IN  CASE kind = "Program" -> Program(parts)
          [] kind = "Block" -> Block(parts)
          [] kind \in {"Class", "FieldDecl", "ConstructorDecl"} -> Class
          [] kind = "MethodDecl" ->
                 Tree("Method", value, type,
                      [i \in 1..(Len(parts) - 1) |-> parts[i][1]], "+", <<Last(parts)>>)
          [] kind = "Param" -> <<Param(type, value)>>
          [] kind = "If" -> If(parts[1], parts[2])
          [] kind = "IfElse" -> IfElse(parts[1], parts[2], parts[3])
          [] kind = "While" -> While(parts[1], parts[2])
          [] kind = "Return" -> Return(parts[1])
          [] kind = "ExprStmt" -> Do(parts[1])
          [] kind = "VarDecl" -> Decl(type, value)
          [] kind = "VarDeclInit" -> DeclInit(type, value, parts[1])
          [] kind = "Assignment" -> Assign(parts[1], parts[2])
          [] kind = "Binary" -> Binary(parts[1], op, parts[2])
          [] kind = "Unary" -> Unary(op, parts[1])
          [] kind = "Literal" -> Lit(LiteralType(TokenAt(file, p).type))
          [] kind = "Identifier" -> Id(value)
          [] kind = "MethodCall" -> Tree("Call", value, "void", <<>>, "+", parts)
          [] kind = "Argument" -> Arg(parts[1])

(* The parts are those made so far that no node has taken yet; the empty   *)
(* one is where a list was opened.                                         *)
Push(file, parts, node) ==
    LET kind  == node[1]
        list  == kind \in ListKinds
        taken == IF list THEN Len(parts) - SelectLastInSeq(parts, LAMBDA t : t = <<>>)
                 ELSE Arity[kind]
        left  == Len(parts) - taken
    IN  IF kind = "Open" THEN Append(parts, <<>>)
        ELSE Append(SubSeq(parts, 1, IF list THEN left - 1 ELSE left),
                    Made(file, kind, node[2], SubSeq(parts, left + 1, Len(parts))))

(* The parts once these nodes have been made. *)
Grown(file, parts, nodes) ==
    FoldLeft(LAMBDA ps, node : Push(file, ps, node), parts, nodes)
=============================================================================
