------------------------------- MODULE Trees -------------------------------
(***************************************************************************)
(* Syntax trees as the node sequences of Ast, put together from the        *)
(* sequences of their parts; the root of a part is its first node.         *)
(***************************************************************************)
EXTENDS Integers, SequencesExt

Moved(part, n) ==
    [i \in DOMAIN part |->
        [part[i] EXCEPT !.kids = [k \in DOMAIN @ |-> @[k] + n]]]

Tree(kind, name, type, params, op, parts) ==
    LET before(i) == FoldLeft(LAMBDA n, part : n + Len(part), 1, SubSeq(parts, 1, i - 1))
    IN  <<[kind |-> kind, name |-> name, type |-> type, params |-> params, op |-> op,
           kids |-> [i \in DOMAIN parts |-> before(i) + 1]]>>
        \o FlattenSeq([i \in DOMAIN parts |-> Moved(parts[i], before(i))])

Plain(kind, kids) == Tree(kind, "", "void", <<>>, "+", kids)

Program(stmts) == Plain("Program", stmts)
Block(stmts) == Plain("Block", stmts)
If(cond, then) == Plain("If", <<cond, then>>)
IfElse(cond, then, else) == Plain("If", <<cond, then, else>>)
While(cond, body) == Plain("While", <<cond, body>>)
Return(e) == Plain("Return", <<e>>)
Do(e) == Plain("ExprStmt", <<e>>)
Assign(l, r) == Plain("Assign", <<l, r>>)
Class == Plain("Class", <<>>)
Binary(l, op, r) == Tree("Binary", "", "void", <<>>, op, <<l, r>>)
Unary(op, e) == Tree("Unary", "", "void", <<>>, op, <<e>>)
Lit(type) == Tree("Literal", "", type, <<>>, "+", <<>>)
Id(name) == Tree("Ident", name, "void", <<>>, "+", <<>>)
Decl(type, name) == Tree("VarDecl", name, type, <<>>, "+", <<>>)
Var(type, name) == Do(Decl(type, name))
DeclInit(type, name, e) == Tree("VarDecl", name, type, <<>>, "+", <<e>>)
VarInit(type, name, e) == Do(DeclInit(type, name, e))
Arg(e) == Plain("Arg", <<e>>)
CallOf(name, es) ==
    Tree("Call", name, "void", <<>>, "+", [i \in DOMAIN es |-> Arg(es[i])])
Param(type, name) == [name |-> name, type |-> type]
Method(type, name, params, stmts) ==
    Tree("Method", name, type, params, "+", <<Block(stmts)>>)
=============================================================================
