-------------------------------- MODULE Sema --------------------------------
(***************************************************************************)
(* Sema::analyze (src/sema.cc): the three passes in a row, each followed   *)
(* by a look at its own diagnostics, and the check for int main() between  *)
(* the first two.  "accepted" is a tree handed on to the generator,        *)
(* "rejected" a null pointer returned.                                     *)
(***************************************************************************)
EXTENDS SymbolCollector, NameResolver, TypeChecker

Begin(p) ==
    /\ pass' = p
    /\ agenda' = <<Task("visit", 1, 0)>>

Finish(end) ==
    /\ pass' = end
    /\ UNCHANGED agenda

PassOver(p) == pass = p /\ agenda = <<>>

HasMain ==
    LET main == FindOverload(methods, "main", <<>>)
    IN  main # NULL /\ SymbolAt(ctx, main).type = "int"

AfterCollector_KeepsGoing ==
    /\ PassOver("collect")
    /\ IF ~HasMain THEN Finish("rejected") ELSE Begin("resolve")
    /\ UNCHANGED <<prog, ctx, methods, symbolOf, scopeOf, typeOf, result,
                   currentFunction, errors>>

AfterCollector ==
    /\ PassOver("collect")
    /\ IF ReportedBy("SymbolCollector") \/ ~HasMain
       THEN Finish("rejected")
       ELSE Begin("resolve")
    /\ UNCHANGED <<prog, ctx, methods, symbolOf, scopeOf, typeOf, result,
                   currentFunction, errors>>

AfterResolver ==
    /\ PassOver("resolve")
    /\ IF ReportedBy("NameResolver") THEN Finish("rejected") ELSE Begin("check")
    /\ UNCHANGED <<prog, ctx, methods, symbolOf, scopeOf, typeOf, result,
                   currentFunction, errors>>

AfterChecker ==
    /\ PassOver("check")
    /\ Finish(IF ReportedBy("TypeChecker") THEN "rejected" ELSE "accepted")
    /\ UNCHANGED <<prog, ctx, methods, symbolOf, scopeOf, typeOf, result,
                   currentFunction, errors>>

Analysis ==
    \/ Collect
    \/ AfterCollector
    \/ Resolve
    \/ AfterResolver
    \/ Check
    \/ AfterChecker

(* For the analysis on its own, any of the programs has been parsed.       *)
ParserReturns == pass = "parse" /\ \E tree \in Programs : Analyze(tree)

Next == ParserReturns \/ Analysis

Spec == InitPasses /\ [][Next]_semaVars

(* The passes run by themselves: a call that is pending is made.           *)
FairSpec == Spec /\ WF_semaVars(Analysis)

-----------------------------------------------------------------------------
SymbolRefs == (1..Len(ctx.scopes)) \X Names

Scope == [parent  : Nat,
          symbols : [Names -> Symbol \union {NULL}],
          owner   : Nat]

(* Every variable has the type of its declaration; a symbol pointer that   *)
(* is set points to a symbol that is declared.                             *)
TypeOK ==
    /\ prog \in Seq(Node)
    /\ pass \in Passing \union Ends
    /\ ctx.scopes \in Seq(Scope)
    /\ ctx.current \in 0..Len(ctx.scopes)
    /\ methods \in [Names -> Seq([symbol : SymbolRefs, params : Seq(Types)])]
    /\ symbolOf \in [Nodes -> SymbolRefs \union Garbage]
    /\ scopeOf \in [Nodes -> (1..Len(ctx.scopes)) \union Garbage]
    /\ typeOf \in [Nodes -> Types \union {NULL}]
    /\ result \in [Nodes -> Types \union {NULL}]
    /\ currentFunction \in SymbolRefs \union {NULL}

-----------------------------------------------------------------------------
(* The scopes of the nodes around n, and around it the node whose scope is *)
(* the nearest.                                                            *)
ScopeNodes(n) == {m \in Path(prog, n) : Kind(m) \in {"Program", "Block", "Method"}}
Around(n) == ScopeNodes(n) \ {n}
Nearest(S) == CHOOSE m \in S : \A x \in S : x <= m

OwnerOf(s) == ctx.scopes[s].owner

(* push_scope and pop_scope stay in step with the tree: whatever handler   *)
(* of the collector runs, the current scope is that of the nearest         *)
(* program, block or method around it.                                     *)
CollectorScopeIsNearest ==
    pass = "collect" /\ agenda # <<>> =>
        LET n    == Head(agenda)[2]
            here == IF Head(agenda)[1] = "visit" THEN Around(n) ELSE ScopeNodes(n)
        IN  IF here = {} THEN ctx.current = 0
                         ELSE OwnerOf(ctx.current) = Nearest(here)

(* A method whose parameters leak: the resolver has been through its body, *)
(* and came back to the method's own scope, not to the one around it.      *)
LeaksInto(m, n) ==
    /\ Kind(m) = "Method"
    /\ m \notin Path(prog, n)
    /\ m = Nearest({k \in 1..(n - 1) : /\ Kind(k) \in {"Program", "Block", "Method"}
                                      /\ k > Nearest(Around(n))
                                      /\ Nearest(Around(k)) = Nearest(Around(n))})

(* A name means its nearest declaration: of the scopes around a bound      *)
(* identifier none further in declares the name.  The exception is what    *)
(* the method before it in the block declares in its own scope.            *)
BoundToNearest ==
    \A n \in Nodes : Kind(n) = "Ident" /\ symbolOf[n] \notin Garbage =>
        LET s == symbolOf[n][1]
        IN  \/ /\ OwnerOf(s) \in Around(n)
               /\ \A t \in (s + 1)..Len(ctx.scopes) :
                      OwnerOf(t) \in Around(n) =>
                          ctx.scopes[t].symbols[Name(n)] = NULL
            \/ LeaksInto(OwnerOf(s), n)

(* Without that exception: a name is found only where it is in scope.      *)
BoundInScope ==
    \A n \in Nodes : Kind(n) = "Ident" /\ symbolOf[n] \notin Garbage =>
        OwnerOf(symbolOf[n][1]) \in Around(n)

(* collectVarDecl lets no variable hide a declaration that is visible: of  *)
(* two declarations of a name, one in a scope around the other's, the      *)
(* inner one, if it is a variable, came first.                             *)
DeclOf(s, x) == ctx.scopes[s].symbols[x]

NoVariableShadows ==
    \A s, t \in 1..Len(ctx.scopes), x \in Names :
        (/\ s \in Chain(ctx, t) \ {t}
         /\ DeclOf(s, x) # NULL
         /\ DeclOf(t, x) # NULL
         /\ DeclOf(t, x).kind = "var")
        => DeclOf(t, x).decl < DeclOf(s, x).decl

(* Once the collector has let a program pass, a call with the parameter    *)
(* types of a method finds that method and no other, and the symbol of the *)
(* method is its own.                                                      *)
OverloadsDistinct ==
    pass \in {"resolve", "check", "accepted"} =>
        \A n \in Nodes : Kind(n) = "Method" /\ symbolOf[n] \notin Garbage =>
            /\ SymbolAt(ctx, symbolOf[n]).decl = n
            /\ FindOverload(methods, Name(n), ParamTypes(n)) = symbolOf[n]

(* The checker dies only on a program it has something against: an error   *)
(* it has reported already, whose node was left without a type, or a name  *)
(* the resolver never looked up.                                           *)
CrashesExplained ==
    pass = "crashed" =>
        \/ ReportedBy("TypeChecker")
        \/ \E n \in Nodes : Kind(n) = "Ident" /\ symbolOf[n] \in Garbage

(* The types the language gives the expressions of the tree, from the      *)
(* symbols alone and without a walk: that of a node by the types of its    *)
(* children, and so of every node.                                         *)
MeaningOf(type, n) ==
    CASE Kind(n) \in {"Literal", "VarDecl"} -> prog[n].type
      [] Kind(n) = "Ident"  -> SymbolAt(ctx, symbolOf[n]).type
      [] Kind(n) = "Binary" -> BinaryType(prog[n].op, type[Kid(n, 1)], type[Kid(n, 2)])
      [] Kind(n) \in {"Unary", "Assign", "Arg", "ExprStmt"} -> type[Kid(n, 1)]
      [] Kind(n) = "Call" ->
             LET types == [i \in DOMAIN Kids(n) |-> type[Kid(n, i)]]
             IN  SymbolAt(ctx, FindOverload(methods, Name(n), types)).type
      [] OTHER -> "void"

Meaning == LET type[n \in Nodes] == MeaningOf(type, n) IN type

(* The body of a while loop is not checked. *)
InLoopBody(n) == \E m \in Path(prog, n) : Kind(m) = "While" /\ Kid(m, 2) \in Path(prog, n)

(* What analysis hands on is typed all through: every name in it is bound, *)
(* no initialiser is at odds with its variable, and the type on every      *)
(* expression is the one it means, but for a returned value, which has     *)
(* taken the function's.                                                   *)
AcceptedIsTyped ==
    pass = "accepted" =>
        \A n \in Nodes \ {1} : ~InLoopBody(n) =>
            /\ Kind(n) = "Ident" => symbolOf[n] \notin Garbage
            /\ Kind(n) = "VarDecl" =>
                   \A i \in DOMAIN Kids(n) : TypeEquals(prog[n].type, Meaning[Kid(n, i)])
            /\ Kind(n) \in {"Literal", "Ident", "Binary", "Unary", "VarDecl",
                            "Assign", "Call", "Arg", "ExprStmt"} =>
                   \/ typeOf[n] = Meaning[n]
                   \/ Kind(ParentOf(prog, n)) = "Return"

(* A return that is accepted stands in a function.                         *)
ReturnsInFunctions ==
    pass = "accepted" =>
        \A n \in Nodes : Kind(n) = "Return" =>
            \E m \in Path(prog, n) : Kind(m) = "Method"

(* The passes together decide what the language decides about the tree as  *)
(* a whole: a program is accepted if and only if its declarations, names   *)
(* and types are right, and the analysis dies only of the types.           *)
Law == INSTANCE Language
           WITH tree <- prog,
                fresh <- IF prog = <<>> THEN NULL ELSE symbolOf[1],
                verdict <- IF pass \in Ends THEN pass ELSE "none"

ImplementsLanguage == Law!Spec

(* Analysis always comes to an end. *)
AnalysisEnds == pass = "collect" ~> pass \in Ends
=============================================================================
