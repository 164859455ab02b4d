------------------------------- MODULE Passes -------------------------------
(***************************************************************************)
(* What the passes over the tree share: the annotations on the nodes, the  *)
(* context, the diagnostics, and the walk.  A visitor calls itself for the *)
(* children of a node; its pending calls are the agenda, next one first.   *)
(* A task is <<what, node, i>>: "visit" is the call for the node, the      *)
(* others are what the handler does after its children's calls return.     *)
(***************************************************************************)
EXTENDS Types, Scopes

VARIABLES
    prog,             \* the tree
    pass,             \* the pass under way, or how the run ended
    agenda,           \* the pending calls of the pass
    ctx,              \* CompilerContext: scopes and current scope
    methods,          \* CompilerContext::method_table
    symbolOf,         \* node.semantic.data.variable.symbol
    scopeOf,          \* node.semantic.scope
    typeOf,           \* node.semantic.declared_type
    result,           \* the type a TypeChecker handler returned for a node
    currentFunction,  \* TypeChecker::current_function
    errors            \* Diagnostics: {<<reporting pass, message, node>>}

semaVars == <<prog, pass, agenda, ctx, methods, symbolOf, scopeOf, typeOf,
              result, currentFunction, errors>>

Passing == {"parse", "collect", "resolve", "check"}
Ends    == {"accepted", "rejected", "crashed"}

(* SemanticInfo leaves its symbol and scope pointers uninitialised: they   *)
(* hold what the heap held.  Under AddressSanitizer, with which the build  *)
(* is configured, that is a pattern other than null; a fresh heap page     *)
(* without it reads null.                                                  *)
Garbage == {NULL, WILD}

Nodes == DOMAIN prog
Kind(n) == prog[n].kind
Name(n) == prog[n].name
Kids(n) == prog[n].kids
Kid(n, i) == prog[n].kids[i]

Task(what, n, i) == <<what, n, i>>
Visits(ns) == [i \in DOMAIN ns |-> Task("visit", ns[i], 0)]

(* The handler at the front of the agenda, and the calls it makes. *)
Doing(p, what, n, i) ==
    /\ pass = p
    /\ agenda # <<>>
    /\ Head(agenda) = Task(what, n, i)

(* The node whose handler runs next, if a pass is under way. *)
Pending == IF agenda = <<>> THEN {} ELSE {Head(agenda)[2]} \intersect Nodes

Then(tasks) == agenda' = tasks \o Tail(agenda)

Report(by, message, n) == errors' = errors \union {<<by, message, n>>}
ReportedBy(by) == \E e \in errors : e[1] = by

(* The process dies: a null or wild pointer is dereferenced, or an assert  *)
(* fails.                                                                  *)
Crash ==
    /\ pass' = "crashed"
    /\ agenda' = <<>>

InitPasses ==
    /\ prog = <<>>
    /\ pass = "parse"
    /\ agenda = <<>>
    /\ ctx = NoContext
    /\ methods = NoMethods
    /\ symbolOf = <<>>
    /\ scopeOf = <<>>
    /\ typeOf = <<>>
    /\ result = <<>>
    /\ currentFunction = NULL
    /\ errors = {}

(* The parser has made a tree, and analysis begins with its root.          *)
Analyze(tree) ==
    /\ prog' = tree
    /\ pass' = "collect"
    /\ agenda' = <<Task("visit", 1, 0)>>
    /\ \E garbage \in Garbage :
         /\ symbolOf' = [n \in DOMAIN tree |-> garbage]
         /\ scopeOf' = [n \in DOMAIN tree |-> garbage]
    /\ typeOf' = [n \in DOMAIN tree |-> NULL]
    /\ result' = [n \in DOMAIN tree |-> NULL]
    /\ UNCHANGED <<ctx, methods, currentFunction, errors>>
=============================================================================
