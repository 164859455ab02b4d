---------------------------- MODULE NameResolver ----------------------------
(* Pass 2 (src/visitor/nameresolver.cc): identifiers to symbols. *)
EXTENDS Passes

LOCAL Resolving(what, n) == Doing("resolve", what, n, 0)

ResolverUnchanged ==
    UNCHANGED <<prog, pass, methods, scopeOf, typeOf, result, currentFunction>>

(* resolveProgram and resolveBlock go to the scope of the node, and back   *)
(* to that scope's parent.                                                 *)
ResolveScope_StaysOut(n) ==
    /\ Resolving("visit", n)
    /\ Kind(n) \in {"Program", "Block"}
    /\ ctx' = IF Kind(n) = "Program" THEN SetCurrent(ctx, scopeOf[n]) ELSE ctx
    /\ Then(Visits(Kids(n)) \o <<Task("leave", n, 0)>>)
    /\ ResolverUnchanged
    /\ UNCHANGED <<symbolOf, errors>>

ResolveScope(n) ==
    /\ Resolving("visit", n)
    /\ Kind(n) \in {"Program", "Block"}
    /\ ctx' = SetCurrent(ctx, scopeOf[n])
    /\ Then(Visits(Kids(n)) \o <<Task("leave", n, 0)>>)
    /\ ResolverUnchanged
    /\ UNCHANGED <<symbolOf, errors>>

ResolveLeave(n) ==
    /\ Resolving("leave", n)
    /\ ctx' = SetCurrent(ctx, ctx.scopes[scopeOf[n]].parent)
    /\ Then(<<>>)
    /\ ResolverUnchanged
    /\ UNCHANGED <<symbolOf, errors>>

(* resolveIdentifierExpr; CompilerContext::lookup asserts a current scope. *)
ResolveIdentifier(n) ==
    /\ Resolving("visit", n)
    /\ Kind(n) = "Ident"
    /\ IF ctx.current = 0
       THEN Crash /\ UNCHANGED <<prog, symbolOf, errors>>
       ELSE LET ref == Lookup(ctx, Name(n))
            IN  /\ IF ref = NULL
                   THEN /\ Report("NameResolver", "not found in scope", n)
                        /\ UNCHANGED symbolOf
                   ELSE /\ symbolOf' = [symbolOf EXCEPT ![n] = ref]
                        /\ UNCHANGED errors
                /\ Then(<<>>)
                /\ UNCHANGED <<prog, pass>>
    /\ UNCHANGED <<ctx, methods, scopeOf, typeOf, result, currentFunction>>

ResolveUnknown(n) ==
    /\ Resolving("visit", n)
    /\ Kind(n) = "Class"
    /\ Report("NameResolver", "Unknown statment type", n)
    /\ Then(<<>>)
    /\ ResolverUnchanged
    /\ UNCHANGED <<ctx, symbolOf>>

(* The handlers that only pass the call on.  A declaration is an           *)
(* expression, and resolveExpression does not know it: its initialiser is  *)
(* not reached.  A call resolves the expressions inside its arguments.     *)
ResolvedKids(n) ==
    CASE Kind(n) \in {"If", "While", "Return", "ExprStmt", "Method",
                      "Assign", "Binary", "Unary"} -> Kids(n)
      [] Kind(n) = "Call" -> [i \in DOMAIN Kids(n) |-> Kid(Kid(n, i), 1)]
      [] OTHER -> <<>>

ResolveOther(n) ==
    /\ Resolving("visit", n)
    /\ Kind(n) \notin {"Program", "Block", "Ident", "Class"}
    /\ Then(Visits(ResolvedKids(n)))
    /\ ResolverUnchanged
    /\ UNCHANGED <<ctx, symbolOf, errors>>

Resolve ==
    \E n \in Pending :
        \/ ResolveScope(n)
        \/ ResolveLeave(n)
        \/ ResolveIdentifier(n)
        \/ ResolveUnknown(n)
        \/ ResolveOther(n)
=============================================================================
