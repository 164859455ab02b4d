--------------------------- MODULE SymbolCollector ---------------------------
(* Pass 1 (src/visitor/symbolcollector.cc): scopes, symbols, methods. *)
EXTENDS Passes

LOCAL Collecting(what, n, i) == Doing("collect", what, n, i)

CollectorUnchanged == UNCHANGED <<prog, pass, typeOf, result, currentFunction>>

(* collectProgram and collectBlock: a scope around the statements. *)
CollectScope_RecordsOuter(n) ==
    /\ Collecting("visit", n, 0)
    /\ Kind(n) \in {"Program", "Block"}
    /\ scopeOf' = [scopeOf EXCEPT ![n] = ctx.current]
    /\ ctx' = PushScope(ctx, n)
    /\ Then(Visits(Kids(n)) \o <<Task("leave", n, 0)>>)
    /\ CollectorUnchanged
    /\ UNCHANGED <<methods, symbolOf, errors>>

CollectScope(n) ==
    /\ Collecting("visit", n, 0)
    /\ Kind(n) \in {"Program", "Block"}
    /\ ctx' = PushScope(ctx, n)
    /\ scopeOf' = [scopeOf EXCEPT ![n] = ctx'.current]
    /\ Then(Visits(Kids(n)) \o <<Task("leave", n, 0)>>)
    /\ CollectorUnchanged
    /\ UNCHANGED <<methods, symbolOf, errors>>

LeaveScope_NoPop(n) ==
    /\ Collecting("leave", n, 0)
    /\ Then(<<>>)
    /\ CollectorUnchanged
    /\ UNCHANGED <<ctx, methods, symbolOf, scopeOf, errors>>

LeaveScope(n) ==
    /\ Collecting("leave", n, 0)
    /\ ctx' = PopScope(ctx)
    /\ Then(<<>>)
    /\ CollectorUnchanged
    /\ UNCHANGED <<methods, symbolOf, scopeOf, errors>>

(* collectMethodDecl: a scope for the parameters, which then declares the  *)
(* method itself too, and around it all the scope of the body block.       *)
CollectMethodDecl(n) ==
    /\ Collecting("visit", n, 0)
    /\ Kind(n) = "Method"
    /\ ctx' = PushScope(ctx, n)
    /\ Then([i \in DOMAIN prog[n].params |-> Task("param", n, i)]
            \o <<Task("declare", n, 0)>>
            \o Visits(Kids(n))
            \o <<Task("leave", n, 0)>>)
    /\ CollectorUnchanged
    /\ UNCHANGED <<methods, symbolOf, scopeOf, errors>>

(* A second parameter of the same name is dropped without a word. *)
CollectParam(n, i) ==
    /\ Collecting("param", n, i)
    /\ ctx' = Declare(ctx, prog[n].params[i].name,
                      [kind |-> "param", type |-> prog[n].params[i].type,
                       params |-> <<>>, decl |-> n])
    /\ Then(<<>>)
    /\ CollectorUnchanged
    /\ UNCHANGED <<methods, symbolOf, scopeOf, errors>>

ParamTypes(n) == [i \in DOMAIN prog[n].params |-> prog[n].params[i].type]

DeclareMethod(n) ==
    /\ Collecting("declare", n, 0)
    /\ LET types == ParamTypes(n)
           ref   == <<ctx.current, Name(n)>>
       IN  IF CanDeclare(ctx, Name(n))
           THEN /\ ctx' = Declare(ctx, Name(n),
                                  [kind |-> "func", type |-> prog[n].type,
                                   params |-> types, decl |-> n])
                /\ symbolOf' = [symbolOf EXCEPT ![n] = ref]
                /\ methods' = AddMethod(methods, ref, types)
                /\ IF HasOverload(methods, Name(n), types)
                   THEN Report("SymbolCollector", "duplicate overload", n)
                   ELSE UNCHANGED errors
           ELSE /\ Report("SymbolCollector", "Failed to declare method", n)
                /\ UNCHANGED <<ctx, symbolOf, methods>>
    /\ Then(<<>>)
    /\ CollectorUnchanged
    /\ UNCHANGED scopeOf

(* collectVarDecl: no name that is visible may be declared again. *)
CollectVarDecl(n) ==
    /\ Collecting("visit", n, 0)
    /\ Kind(n) = "VarDecl"
    /\ IF Lookup(ctx, Name(n)) = NULL
       THEN /\ ctx' = Declare(ctx, Name(n),
                              [kind |-> "var", type |-> prog[n].type,
                               params |-> <<>>, decl |-> n])
            /\ symbolOf' = [symbolOf EXCEPT ![n] = <<ctx.current, Name(n)>>]
            /\ UNCHANGED errors
       ELSE /\ Report("SymbolCollector", "Redeclaration of variable", n)
            /\ UNCHANGED <<ctx, symbolOf>>
    /\ Then(<<>>)
    /\ CollectorUnchanged
    /\ UNCHANGED <<methods, scopeOf>>

(* The handlers that only pass the call on.  No initialiser, returned      *)
(* expression or operand of a unary operator is ever reached, and classes  *)
(* are not handled.                                                        *)
CollectedKids_HandsBack(n) ==
    IF Kind(n) \in {"If", "While", "ExprStmt", "Binary", "Assign", "Call", "Arg"}
    THEN Kids(n)
    ELSE <<n>>

CollectedKids(n) ==
    IF Kind(n) \in {"If", "While", "ExprStmt", "Binary", "Assign", "Call", "Arg"}
    THEN Kids(n)
    ELSE <<>>

CollectOther(n) ==
    /\ Collecting("visit", n, 0)
    /\ Kind(n) \notin {"Program", "Block", "Method", "VarDecl"}
    /\ Then(Visits(CollectedKids(n)))
    /\ CollectorUnchanged
    /\ UNCHANGED <<ctx, methods, symbolOf, scopeOf, errors>>

Collect ==
    \E n \in Pending :
        \/ CollectScope(n)
        \/ LeaveScope(n)
        \/ CollectMethodDecl(n)
        \/ \E i \in DOMAIN prog[n].params : CollectParam(n, i)
        \/ DeclareMethod(n)
        \/ CollectVarDecl(n)
        \/ CollectOther(n)
=============================================================================
