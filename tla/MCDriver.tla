------------------------------ MODULE MCDriver ------------------------------
(* Driver for TLC: programs that analysis accepts, with ifs in ifs, loops, *)
(* methods in methods and statements outside them, and a few it rejects.   *)
EXTENDS Driver, Trees, SourceText

MCNames == {"", "main", "f", "x", "y"}

one == Lit("int")
x == Id("x")
Set(name, e) == Do(Assign(Id(name), e))

Statements ==
    {Set("x", Binary(x, "+", Unary("-", one))),
     Set("x", Unary("+", x)),
     Set("y", one),
     Set("x", Decl("int", "y")),
     If(Decl("bool", "y"), Return(one)),
     VarInit("int", "y", Binary(one, "-", one)),
     IfElse(one, Block(<<>>), Var("int", "y")),
     If(one, Set("x", Decl("int", "y"))),
     If(Binary(x, "<", one), Return(x)),
     IfElse(one, IfElse(one, Set("x", one), Block(<<>>)), Block(<<VarInit("int", "y", one)>>)),
     IfElse(one, Block(<<>>), IfElse(one, Block(<<>>), Set("x", one))),
     While(one, Set("x", one)),
     Return(Binary(x, "==", x)),
     Block(<<Var("string", "y"), Set("x", CallOf("f", <<one>>))>>),
     Method("int", "f", <<Param("int", "y")>>, <<Return(Id("y"))>>),
     Method("void", "y", <<>>, <<If(one, Block(<<Var("int", "f")>>))>>)}

Before == {<<>>, <<Method("int", "f", <<Param("int", "y")>>, <<>>)>>}

MCPrograms ==
    {Program(b \o <<Method("int", "main", <<>>, <<Var("int", "x"), s, t>>)>>) :
        b \in Before, s, t \in Statements}
    \union
    {Program(<<Var("int", "x"), Method("int", "main", <<>>, <<s>>), t>>) :
        s, t \in Statements}

-----------------------------------------------------------------------------
File(text, malformed, tree) == [tokens |-> text, malformed |-> malformed, tree |-> tree]

(* Files that use most of the language, to be broken by leaving out or     *)
(* changing one token.                                                     *)
Seeds ==
    {Written(Program(<<Method("int", "main", <<>>, stmts)>>)) :
        stmts \in {<<VarInit("string", "x", Lit("string")),
                     IfElse(Binary(x, "==", x), Set("x", CallOf("f", <<x, one>>)), Return(one))>>,
                   <<While(Unary("-", one), Block(<<Do(Binary(one, "type", Lit("char")))>>)),
                     Class>>}}

Without(text, i) == SubSeq(text, 1, i - 1) \o SubSeq(text, i + 1, Len(text))

Broken ==
    UNION {UNION {{Without(text, i)} \union {[text EXCEPT ![i] = word[1]] :
                      word \in {Sign("GEQ"), Sign("MULTIPLY"), TypeName("int[]"), Sign("RPAREN")}} :
                  i \in DOMAIN text} : text \in Seeds}

MCSources ==
    {File(Written(p), FALSE, p) : p \in MCPrograms}
      \union {File(text, FALSE, <<>>) : text \in Broken}
      \union {File(Written(Program(<<Method("int", "main", <<>>, <<s>>)>>)), TRUE, <<>>) :
                 s \in {VarInit("char", "x", Lit("char")), Var("void", "x")}}
=============================================================================
