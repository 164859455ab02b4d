------------------------------ MODULE MCParser ------------------------------
(* Whole sentences of the language, and files that are broken in one place. *)
EXTENDS Grammar

Ops == {"MULTIPLY", "PLUS", "EQUALS", "DEQ"}

Calls1 == {CallOf(Nothing), CallOf(Argument(Name)),
           CallOf(Argument(Number) ++ Word("COMMA") ++ Argument(Name))}

Small == {Name} \union Negations({Name}) \union Operations({Name}, Ops, {Name})

(* Up to three operators in every grouping, calls and negations. *)
Operands == Small \union {Group(e) : e \in Small \ {Name}} \union Calls1

Exps == Operands
          \union Operations(Operands, Ops, Operands)
          \union Negations(Operands)
          \union {CallOf(Argument(Group(e))) : e \in Small}

StartsWithCall(e) ==
    Len(e.phrase.text) > 1 /\ e.phrase.text[1] = "ID" /\ e.phrase.text[2] = "LPAREN"

(* parseExprStmt takes a call for the whole statement. *)
ExprStmts == {ExprStmt(e) : e \in {e \in Exps : StartsWithCall(e) => e \in Calls1}}

Leaves == {ExprStmt(Name), ExprStmt(CallOf(Nothing)), VarDecl, VarDeclInit(Number),
           ReturnStmt(Name), Block(Nothing)}

Nested ==
    LET inner == AfterCondition(Leaves)
    IN  {If(Name, s) : s \in inner} \union {While(Name, s) : s \in inner}
          \union {IfElse(Name, s, t) : s \in inner, t \in Leaves}
          \union {Block(s ++ t) : s \in Leaves, t \in Leaves}

Statements ==
    LET inner == {IfElse(Name, ExprStmt(Name), ReturnStmt(Name)),
                  If(Name, ExprStmt(Name)), Block(VarDecl)}
    IN  ExprStmts \union Leaves \union Nested
          \union {If(Name, s) : s \in inner}
          \union {IfElse(Name, inner1, s) : inner1 \in {Block(VarDecl), While(Name, Block(Nothing))},
                                            s \in inner}
          \union {VarDeclInit(e) : e \in Operands} \union {ReturnStmt(e) : e \in Operands}

TwoParams == Param ++ Word("COMMA") ++ Param

Methods ==
    {MethodDecl(p, Block(s)) : p \in {Nothing, Param, TwoParams},
                               s \in {Nothing, VarDecl, ReturnStmt(Name)}}

Classes ==
    {Class(m) : m \in {Nothing, ConstructorDecl(Param, Block(Nothing)),
                       Word("KW_ACCESS_MODIFIER") ++ MethodDecl(Nothing, Block(VarDecl)),
                       MethodDecl(Nothing, Block(Nothing)) ++ ConstructorDecl(Nothing, Block(Nothing))}}

Sentences ==
    {Program(s) : s \in {Nothing} \union Statements \union Methods \union Classes}
      \union {Program(m ++ s) : m \in Methods \union Classes,
                                s \in {VarDecl, ExprStmt(CallOf(Nothing))}}

(* Programs that use most of the language, to be broken. *)
Seeds ==
    {Program(d).text :
        d \in {Class(ConstructorDecl(Param, Block(ExprStmt(Operation(Name, "EQUALS", Number))))
                       ++ MethodDecl(TwoParams, Block(ReturnStmt(Name)))),
               MethodDecl(Nothing, Block(IfElse(Name, ExprStmt(CallOf(Argument(Name))),
                                                While(Name, ReturnStmt(Number))))),
               VarDeclInit(Group(Operation(Name, "PLUS", Number))) ++ Block(VarDecl)}}

Cut(t, i) == SubSeq(t, 1, i - 1)
Without(t, i) == Cut(t, i) \o SubSeq(t, i + 1, Len(t))

BadTokens == {"ID", "INT", "LPAREN", "RPAREN", "LBRACE", "RBRACE", "SEMICOLON",
              "COMMA", "DATA_TYPE", "KW_ELSE", "KW_CLASS", "KW_CONSTRUCTOR", "PLUS"}

Broken ==
    UNION {{Cut(t, i), Without(t, i)} \union {[t EXCEPT ![i] = b] : b \in BadTokens} :
             <<t, i>> \in {<<t, i>> \in Seeds \X (1..30) : i <= Len(t)}}

(* Every file of up to three of these tokens. *)
Short == UNION {[1..n -> BadTokens] : n \in 0..3}

MCDerivations == Sentences
MCFiles ==
    {d.text : d \in Sentences} \union Broken \union Short
      \union {FieldFile}
      \union {Program(ExprStmt(CallOf(Argument(e)))).text : e \in Small}
=============================================================================
