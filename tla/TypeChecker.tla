----------------------------- MODULE TypeChecker -----------------------------
(***************************************************************************)
(* Pass 3 (src/visitor/typechecker.cc): types of expressions.  A handler   *)
(* returns a type, void when it has reported an error, and on success also *)
(* leaves it on the node; its callers read one or the other.               *)
(***************************************************************************)
EXTENDS Passes

LOCAL Checking(what, n) == Doing("check", what, n, 0)

CheckerUnchanged == UNCHANGED <<prog, methods, symbolOf, scopeOf>>

Error(message, n) == Report("TypeChecker", message, n)

(* A handler ends: it returns t and leaves it on the node. *)
Typed(n, t) ==
    /\ typeOf' = [typeOf EXCEPT ![n] = t]
    /\ result' = [result EXCEPT ![n] = t]
    /\ Then(<<>>)
    /\ UNCHANGED <<pass, errors>>

(* A handler ends: it has reported, and returns void. *)
Untyped(n, message) ==
    /\ Error(message, n)
    /\ result' = [result EXCEPT ![n] = "void"]
    /\ Then(<<>>)
    /\ UNCHANGED <<pass, typeOf>>

(* A handler's first half: the calls for the children, then the rest.      *)
Call(tasks) ==
    /\ Then(tasks)
    /\ UNCHANGED <<pass, typeOf, result, errors>>

Dies == Crash /\ UNCHANGED <<typeOf, result, errors>>

(* A type pointer is used before anything has set it. *)
Missing(n) == typeOf[n] = NULL

(* checkProgram and checkBlock *)
CheckScope(n) ==
    /\ Checking("visit", n)
    /\ Kind(n) \in {"Program", "Block"}
    /\ ctx' = SetCurrent(ctx, scopeOf[n])
    /\ Call(Visits(Kids(n)) \o <<Task("leave", n, 0)>>)
    /\ CheckerUnchanged
    /\ UNCHANGED currentFunction

CheckLeave(n) ==
    /\ Checking("leave", n)
    /\ ctx' = SetCurrent(ctx, ctx.scopes[scopeOf[n]].parent)
    /\ Call(<<>>)
    /\ CheckerUnchanged
    /\ UNCHANGED currentFunction

(* The function is not reset when its body has been checked. *)
CheckMethodDecl(n) ==
    /\ Checking("visit", n)
    /\ Kind(n) = "Method"
    /\ IF symbolOf[n] = NULL
       THEN Untyped(n, "not resolved") /\ UNCHANGED currentFunction
       ELSE currentFunction' = symbolOf[n] /\ Call(Visits(Kids(n)))
    /\ CheckerUnchanged
    /\ UNCHANGED ctx

(* checkIfStmt and checkWhileStmt; the body of a while is not checked. *)
TestCondition(n) ==
    /\ Checking("test", n)
    /\ IF Missing(Kid(n, 1)) THEN Dies
       ELSE IF ~TypeEquals(typeOf[Kid(n, 1)], "bool")
       THEN /\ Error("condition is not compatible with boolean", n)
            /\ Then(<<>>)
            /\ UNCHANGED <<pass, typeOf, result>>
       ELSE Call(IF Kind(n) = "If" THEN Visits(Tail(Kids(n))) ELSE <<>>)

CheckReturn(n) ==
    /\ Checking("visit", n)
    /\ Kind(n) = "Return"
    /\ IF currentFunction = NULL
       THEN /\ Error("Tried to return whilst not in function!", n)
            /\ Then(<<>>)
            /\ UNCHANGED <<pass, typeOf, result>>
       ELSE Call(<<Task("visit", Kid(n, 1), 0), Task("return", n, 0)>>)

(* The value, not the function's type, is asked whether it is compatible,  *)
(* and then takes the function's type.                                     *)
ReturnType_Swapped(n) ==
    /\ Checking("return", n)
    /\ LET t == SymbolAt(ctx, currentFunction).type
       IN  IF Missing(Kid(n, 1)) \/ ~TypeEquals(t, typeOf[Kid(n, 1)])
           THEN /\ Error("Invalid return type", n)
                /\ Then(<<>>)
                /\ UNCHANGED <<pass, typeOf, result>>
           ELSE /\ typeOf' = [typeOf EXCEPT ![Kid(n, 1)] = t]
                /\ Then(<<>>)
                /\ UNCHANGED <<pass, result, errors>>

ReturnType(n) ==
    /\ Checking("return", n)
    /\ LET t == SymbolAt(ctx, currentFunction).type
       IN  IF Missing(Kid(n, 1)) \/ ~TypeEquals(typeOf[Kid(n, 1)], t)
           THEN /\ Error("Invalid return type", n)
                /\ Then(<<>>)
                /\ UNCHANGED <<pass, typeOf, result>>
           ELSE /\ typeOf' = [typeOf EXCEPT ![Kid(n, 1)] = t]
                /\ Then(<<>>)
                /\ UNCHANGED <<pass, result, errors>>

CheckLeaf_LeavesNoType(n) ==
    /\ Checking("visit", n)
    /\ Kind(n) \in {"Literal", "Ident", "Class"}
    /\ result' = [result EXCEPT ![n] = prog[n].type]
    /\ Then(<<>>)
    /\ UNCHANGED <<pass, typeOf, errors>>

CheckLeaf(n) ==
    /\ Checking("visit", n)
    /\ Kind(n) \in {"Literal", "Ident", "Class"}
    /\ CASE Kind(n) = "Literal" -> Typed(n, prog[n].type)
         [] Kind(n) = "Class"   -> Untyped(n, "Unknown statment type")
         [] Kind(n) = "Ident" /\ symbolOf[n] = NULL ->
                Untyped(n, "Symbol not found for identifier")
         [] Kind(n) = "Ident" /\ symbolOf[n] = WILD -> Dies
         [] OTHER               -> Typed(n, SymbolAt(ctx, symbolOf[n]).type)

(* checkAssignmentExpr looks at the symbol of the assignment itself, which *)
(* no pass ever sets.                                                      *)
CheckAssignment(n) ==
    /\ Checking("visit", n)
    /\ Kind(n) = "Assign"
    /\ IF symbolOf[n] = NULL
       THEN Untyped(n, "Symbol not found for assignment")
       ELSE Call(Visits(Kids(n)) \o <<Task("type", n, 0)>>)

(* The handlers that call for all the children before they do anything.    *)
CheckChildren(n) ==
    /\ Checking("visit", n)
    /\ \/ /\ Kind(n) \in {"VarDecl", "ExprStmt", "Binary", "Unary", "Call", "Arg"}
          /\ Call(Visits(Kids(n)) \o <<Task("type", n, 0)>>)
       \/ /\ Kind(n) \in {"If", "While"}
          /\ Call(<<Task("visit", Kid(n, 1), 0), Task("test", n, 0)>>)

(* The second halves of the handlers of the expressions. *)
TypeVarDecl(n) ==
    IF Kids(n) = <<>> THEN Typed(n, prog[n].type)
    ELSE IF Missing(Kid(n, 1)) THEN Dies
    ELSE IF TypeEquals(prog[n].type, typeOf[Kid(n, 1)]) THEN Typed(n, prog[n].type)
    ELSE Untyped(n, "does not match initializer type")

TypeAssignment(n) ==
    IF Missing(Kid(n, 1)) \/ Missing(Kid(n, 2)) THEN Dies
    ELSE IF TypeEquals(typeOf[Kid(n, 1)], typeOf[Kid(n, 2)])
    THEN Typed(n, typeOf[Kid(n, 1)])
    ELSE Untyped(n, "is not compatible with right type")

TypeBinary_KeepsLeft(n) ==
    IF BinaryType(prog[n].op, result[Kid(n, 1)], result[Kid(n, 2)]) = "void"
    THEN Untyped(n, "is not compatible with left type")
    ELSE Typed(n, result[Kid(n, 1)])

TypeBinary(n) ==
    LET t == BinaryType(prog[n].op, result[Kid(n, 1)], result[Kid(n, 2)])
    IN  IF t = "void" THEN Untyped(n, "is not compatible with left type")
                      ELSE Typed(n, t)

TypeUnary(n) ==
    IF TypeEquals(result[Kid(n, 1)], "int") THEN Typed(n, result[Kid(n, 1)])
    ELSE Untyped(n, "operand type is not int")

TypeCall(n) ==
    LET types == [i \in DOMAIN Kids(n) |-> result[Kid(n, i)]]
        ref   == FindOverload(methods, Name(n), types)
    IN  IF ref = NULL THEN Untyped(n, "Cannot find candidate for method call")
                      ELSE Typed(n, SymbolAt(ctx, ref).type)

(* checkExprStmt copies what its expression has, be it nothing. *)
TypeExprStmt(n) ==
    /\ typeOf' = [typeOf EXCEPT ![n] = typeOf[Kid(n, 1)]]
    /\ Then(<<>>)
    /\ UNCHANGED <<pass, result, errors>>

TypeExpression(n) ==
    /\ Checking("type", n)
    /\ CASE Kind(n) = "VarDecl"  -> TypeVarDecl(n)
         [] Kind(n) = "Assign"   -> TypeAssignment(n)
         [] Kind(n) = "Binary"   -> TypeBinary(n)
         [] Kind(n) = "Unary"    -> TypeUnary(n)
         [] Kind(n) = "Call"     -> TypeCall(n)
         [] Kind(n) = "Arg"      -> Typed(n, result[Kid(n, 1)])
         [] OTHER                -> TypeExprStmt(n)

Check ==
    \E n \in Pending :
        \/ CheckScope(n)
        \/ CheckLeave(n)
        \/ CheckMethodDecl(n)
        \/ /\ \/ TestCondition(n)
              \/ CheckReturn(n)
              \/ ReturnType(n)
              \/ CheckLeaf(n)
              \/ CheckAssignment(n)
              \/ CheckChildren(n)
              \/ TypeExpression(n)
           /\ CheckerUnchanged
           /\ UNCHANGED <<ctx, currentFunction>>
=============================================================================
