------------------------------ MODULE Grammar ------------------------------
(***************************************************************************)
(* Sentences of the language with their trees, built without parsing: a    *)
(* phrase is its tokens and the nodes they stand for, in postfix order.    *)
(* The rules are those of examples/grammar.md as far as the parser follows *)
(* them, with the precedences of parser.hh.                                *)
(***************************************************************************)
EXTENDS Parser

CONSTANT Derivations  \* phrases that are whole files

ASSUME DerivationsAssumption == \A d \in Derivations : d.text \in Files

-----------------------------------------------------------------------------
Moved(tree, n) ==
    [i \in DOMAIN tree |-> IF tree[i][2] = 0 THEN tree[i]
                           ELSE <<tree[i][1], tree[i][2] + n>>]

Word(type) == [text |-> <<type>>, tree |-> <<>>]
Nothing == [text |-> <<>>, tree |-> <<>>]

a ++ b == [text |-> a.text \o b.text, tree |-> a.tree \o Moved(b.tree, Len(a.text))]

Node(kind, token, phrase) ==
    [text |-> phrase.text, tree |-> Append(phrase.tree, <<kind, token>>)]

List(phrase) == [phrase EXCEPT !.tree = <<Open>> \o @]

(* Expressions; the level of a phrase says how tightly its parts hold      *)
(* together, and operators of one level group to the left.                 *)
Level == [MULTIPLY |-> 4, PLUS |-> 3, MINUS |-> 3, EQUALS |-> 2, DEQ |-> 1]
UnaryLevel == 5
PrimaryLevel == 6

Exp(phrase, level) == [phrase |-> phrase, level |-> level]

Name == Exp(Node("Identifier", 1, Word("ID")), PrimaryLevel)
Number == Exp(Node("Literal", 1, Word("INT")), PrimaryLevel)

Group(e) == Exp(Word("LPAREN") ++ e.phrase ++ Word("RPAREN"), PrimaryLevel)

Negations(es) ==
    {Exp(Node("Unary", 1, Word("MINUS") ++ e.phrase), UnaryLevel) :
        e \in {e \in es : e.level = PrimaryLevel}}

Operation(l, op, r) ==
    Exp(Node(IF op = "EQUALS" THEN "Assignment" ELSE "Binary",
             Len(l.phrase.text) + 1, l.phrase ++ Word(op) ++ r.phrase),
        Level[op])

Operations(ls, ops, rs) ==
    {Operation(t[1], t[2], t[3]) :
        t \in {t \in ls \X ops \X rs :
                 t[1].level >= Level[t[2]] /\ t[3].level > Level[t[2]]}}

Argument(e) == Node("Argument", 0, e.phrase)

CallOf(arguments) ==
    Exp(Node("MethodCall", 1,
             List(Word("ID") ++ Word("LPAREN") ++ arguments ++ Word("RPAREN"))),
        PrimaryLevel)

-----------------------------------------------------------------------------
(* Statements. *)
ExprStmt(e) == Node("ExprStmt", 0, e.phrase) ++ Word("SEMICOLON")
ReturnStmt(e) == Node("Return", 0, Word("KW_RETURN") ++ e.phrase) ++ Word("SEMICOLON")

Declared == Word("DATA_TYPE") ++ Word("ID")

VarDecl == Node("ExprStmt", 0, Node("VarDecl", 2, Declared)) ++ Word("SEMICOLON")
VarDeclInit(e) ==
    Node("ExprStmt", 0, Node("VarDeclInit", 2, Declared ++ Word("EQUALS") ++ e.phrase))
        ++ Word("SEMICOLON")

Block(statements) ==
    Node("Block", 0, List(Word("LBRACE") ++ statements ++ Word("RBRACE")))

(* A statement that starts with an operator, or with a type, would go on   *)
(* with the condition before it.                                           *)
AfterCondition(statements) ==
    {s \in statements : s.text[1] \notin {"MINUS", "PLUS", "DATA_TYPE"}}

Condition(keyword, e) == Word(keyword) ++ Group(e).phrase

If(e, s) == Node("If", 0, Condition("KW_IF", e) ++ s)
IfElse(e, s1, s2) ==
    Node("IfElse", 0, Condition("KW_IF", e) ++ s1 ++ Word("KW_ELSE") ++ s2)
While(e, s) == Node("While", 0, Condition("KW_WHILE", e) ++ s)

Param == Node("Param", 2, Declared)

MethodDecl(params, block) ==
    Node("MethodDecl", 2,
         List(Declared ++ Word("LPAREN") ++ params ++ Word("RPAREN") ++ block))

ConstructorDecl(params, block) ==
    Node("ConstructorDecl", 1,
         List(Word("KW_CONSTRUCTOR") ++ Word("LPAREN") ++ params ++ Word("RPAREN")
                ++ block))

Class(members) ==
    Node("Class", 2,
         List(Word("KW_CLASS") ++ Word("ID") ++ Word("LBRACE") ++ members
                ++ Word("RBRACE")))

Program(statements) == Node("Program", 0, List(statements))

-----------------------------------------------------------------------------
(* A sentence parses without errors, and to its own tree: operators group  *)
(* by their precedence and to the left, an else goes with the nearest if,  *)
(* every list has its elements in order and nothing is lost or repeated.   *)
DerivationsParse ==
    Finished => \A d \in Derivations :
                    d.text = input => out = d.tree /\ errors = {}
=============================================================================
