------------------------------- MODULE MCSema -------------------------------
(* Sema for TLC: programs of a global part, int main() with two statements *)
(* and, for some, a statement after it.                                    *)
EXTENDS Sema, Trees

MCNames == {"", "main", "f", "a", "p"}

one == Lit("int")
yes == Binary(one, "==", one)  \* true is an int: no literal is a bool

(* Statements that declare, use and nest the names a, p and f. *)
Statements ==
    {Var("int", "a"),
     VarInit("int", "a", one),
     VarInit("bool", "a", one),
     VarInit("int", "f", Id("a")),
     Do(Assign(Id("a"), one)),
     Do(Assign(Id("p"), Unary("-", Id("a")))),
     Do(CallOf("f", <<Id("a")>>)),
     If(Binary(Id("a"), "<", one), Block(<<Var("int", "p")>>)),
     IfElse(Lit("string"), Return(one), Block(<<>>)),
     IfElse(yes, Return(Binary(yes, "+", one)), Var("int", "a")),
     If(Binary(yes, "type", Id("a")), Return(one)),
     While(Id("a"), Block(<<Var("int", "p"), Do(Assign(Id("p"), yes))>>)),
     Return(Binary(Id("a"), "==", yes)),
     If(Decl("bool", "a"), Do(Assign(Id("a"), yes))),
     Block(<<Var("int", "a"), Do(Assign(Id("a"), CallOf("f", <<one>>)))>>),
     Method("int", "f", <<Param("int", "p")>>, <<Return(Id("p"))>>),
     Method("bool", "a", <<Param("int", "p"), Param("int", "p")>>, <<Return(yes)>>),
     Class}

(* What may follow it. *)
Seconds ==
    {Do(Assign(Id("a"), one)),
     Do(Assign(Id("p"), Unary("-", Id("a")))),
     Do(CallOf("f", <<Id("a")>>)),
     Return(Binary(Id("a"), "==", yes)),
     Method("int", "f", <<Param("int", "p")>>, <<Return(Id("p"))>>)}

Before ==
    {<<>>,
     <<Var("int", "p")>>,
     <<Method("int", "f", <<Param("int", "p")>>, <<Var("int", "a")>>)>>,
     <<Method("int", "f", <<Param("bool", "f")>>, <<>>)>>,
     <<Method("int", "main", <<>>, <<>>)>>,
     <<Var("int", "a")>>,
     <<Return(one)>>}

After == {<<>>, <<Return(Id("p"))>>}

Main(type, stmts) == <<Method(type, "main", <<>>, stmts)>>

MCPrograms ==
    {Program(b \o Main("int", <<s, t>>) \o a) :
        b \in Before, s \in Statements, t \in Seconds, a \in After}
    \union {Program(Main("void", <<s>>)) : s \in Statements}
=============================================================================
