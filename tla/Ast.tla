-------------------------------- MODULE Ast --------------------------------
(***************************************************************************)
(* The syntax trees of include/ast.hh, as the parser hands them to the     *)
(* semantic passes.  A program is the sequence of its nodes in the order   *)
(* in which they are met from the root, which is node 1; a node names its  *)
(* children by position, in the order of the fields of its class.          *)
(***************************************************************************)
EXTENDS Integers, Sequences

CONSTANTS
    Names,     \* identifiers, with the empty one for a node that has none
    Programs,  \* the programs considered
    NULL,      \* nullptr
    WILD       \* what an uninitialised pointer holds when it is not null

(* The types the parser produces: PrimitiveType, and char* for "string". *)
Types == {"int", "bool", "char", "void", "string"}

(* What get_current_type makes of a token: true and false are read as INT, *)
(* no token is a BOOL, and any that is no literal counts as void.          *)
LiteralTypes == {"int", "char", "string", "void"}

Kinds == {"Program", "Block", "Method", "Class", "If", "While", "Return",
          "ExprStmt", "VarDecl", "Assign", "Binary", "Unary", "Literal",
          "Ident", "Call", "Arg"}

(* Operators: two arithmetic ones, which are also the unary ones, one for  *)
(* the orderings, one for (in)equality, and a type name, which the parser  *)
(* takes for a binary operator of the highest precedence.                  *)
Ops == {"+", "-", "<", "==", "type"}

(* kids: Method has its body, If its condition and its one or two branches,*)
(* VarDecl its initialiser or nothing, Call its Args.  type: what the node *)
(* declares, or the type of a literal.  A Class keeps no members, for no   *)
(* pass descends into one.                                                 *)
Node == [kind   : Kinds,
         name   : Names,
         type   : Types,
         params : Seq([name : Names, type : Types]),
         op     : Ops,
         kids   : Seq(Nat)]

ExprKinds == {"VarDecl", "Assign", "Binary", "Unary", "Literal", "Ident", "Call"}
StmtKinds == {"Block", "Method", "Class", "If", "While", "Return", "ExprStmt"}

(* The kinds the children of a node of the given kind may have, in order,  *)
(* where their number is fixed.                                            *)
ChildKinds(kind) ==
    CASE kind \in {"Return", "ExprStmt", "Unary", "Arg"} -> {<<ExprKinds>>}
      [] kind \in {"Binary", "Assign"} -> {<<ExprKinds, ExprKinds>>}
      [] kind = "VarDecl" -> {<<>>, <<ExprKinds>>}
      [] kind = "If" -> {<<ExprKinds, StmtKinds>>, <<ExprKinds, StmtKinds, StmtKinds>>}
      [] kind = "While" -> {<<ExprKinds, StmtKinds>>}
      [] kind = "Method" -> {<<{"Block"}>>}
      [] OTHER -> {<<>>}

(* What the passes take for granted about the children of a node: they     *)
(* follow the pointers and downcast without a look.                        *)
WellFormed(p, n) ==
    LET kinds == [i \in DOMAIN p[n].kids |-> p[p[n].kids[i]].kind]
    IN  /\ \A i \in DOMAIN p[n].kids : p[n].kids[i] \in (n + 1)..Len(p)
        /\ CASE p[n].kind \in {"Program", "Block"} ->
                    \A i \in DOMAIN kinds : kinds[i] \in StmtKinds
             [] p[n].kind = "Call" -> \A i \in DOMAIN kinds : kinds[i] = "Arg"
             [] OTHER ->
                    \E allowed \in ChildKinds(p[n].kind) :
                        /\ Len(kinds) = Len(allowed)
                        /\ \A i \in DOMAIN kinds : kinds[i] \in allowed[i]
        /\ p[n].kind = "Literal" => p[n].type \in LiteralTypes

(* It is a tree, and the nodes are numbered as they are met: the children  *)
(* of what comes before a child come before it too.                        *)
InOrder(p) ==
    /\ \A n \in 2..Len(p) : \E m \in DOMAIN p : \E i \in DOMAIN p[m].kids : p[m].kids[i] = n
    /\ \A m, n \in DOMAIN p : \A i \in DOMAIN p[m].kids, j \in DOMAIN p[n].kids :
           LET k == p[m].kids[i]
               l == p[n].kids[j]
           IN  /\ k = l => m = n
               /\ m = n /\ i < j => k < l
               /\ m < n /\ n < k => l < k

IsProgram(p) ==
    /\ p \in Seq(Node)
    /\ p # <<>>
    /\ p[1].kind = "Program"
    /\ \A n \in DOMAIN p : WellFormed(p, n)
    /\ InOrder(p)

ASSUME AstAssumption ==
    /\ {"main", ""} \subseteq Names
    /\ NULL # WILD
    /\ \A p \in Programs : IsProgram(p)

(* The node that has n as a child, for n other than the root. *)
ParentOf(p, n) ==
    CHOOSE m \in DOMAIN p : \E i \in DOMAIN p[m].kids : p[m].kids[i] = n

(* A node with everything above it. *)
Path(p, n) ==
    LET path[m \in DOMAIN p] ==
            IF m = 1 THEN {1} ELSE {m} \union path[ParentOf(p, m)]
    IN  path[n]
=============================================================================
