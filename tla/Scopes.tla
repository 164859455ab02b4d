------------------------------- MODULE Scopes -------------------------------
(***************************************************************************)
(* The scope half of CompilerContext, with src/scope.cc, and the method    *)
(* table.  A context is the scopes in the order they were pushed and the   *)
(* current one; 0 is no scope.  A scope never declares a name twice, so    *)
(* <<scope, name>> identifies a symbol for good: it stands for its address.*)
(***************************************************************************)
EXTENDS Ast

Symbol == [kind   : {"var", "param", "func"},
           type   : Types,
           params : Seq(Types),
           decl   : Nat]   \* the declaring node, for the properties only

ASSUME ScopesAssumption == NULL \notin Symbol \union Types \union (Nat \X Names)

NoContext == [scopes |-> <<>>, current |-> 0]

(* The owner is the node the scope is pushed for, kept for the properties. *)
PushScope(c, n) ==
    [scopes  |-> Append(c.scopes, [parent  |-> c.current,
                                   symbols |-> [x \in Names |-> NULL],
                                   owner   |-> n]),
     current |-> Len(c.scopes) + 1]

(* The current scope stays when it has no parent. *)
PopScope(c) ==
    IF c.scopes[c.current].parent = 0
    THEN c
    ELSE [c EXCEPT !.current = c.scopes[c.current].parent]

SetCurrent(c, s) == [c EXCEPT !.current = s]

(* Scope::declare fails, and changes nothing, when its own scope has the   *)
(* name already; a declaration further out does not matter.                *)
CanDeclare(c, name) == c.scopes[c.current].symbols[name] = NULL

Declare(c, name, symbol) ==
    IF CanDeclare(c, name)
    THEN [c EXCEPT !.scopes[c.current].symbols[name] = symbol]
    ELSE c

(* The scopes from s outwards. *)
Chain(c, s) ==
    LET chain[t \in 0..Len(c.scopes)] ==
            IF t = 0 THEN {} ELSE {t} \union chain[c.scopes[t].parent]
    IN  chain[s]

(* Scope::lookup from s outwards: the innermost declaration of the name.   *)
(* A scope is pushed after its parent, so the innermost is the youngest.   *)
LookupFrom(c, s, name) ==
    LET hits == {t \in Chain(c, s) : c.scopes[t].symbols[name] # NULL}
    IN  IF hits = {} THEN NULL
        ELSE <<CHOOSE t \in hits : \A u \in hits : u <= t, name>>

(* CompilerContext::lookup(name, walkParent), whose second argument is not *)
(* passed on: it always walks.                                             *)
Lookup_OwnScopeOnly(c, name) ==
    IF CanDeclare(c, name) THEN NULL ELSE <<c.current, name>>

Lookup(c, name) == LookupFrom(c, c.current, name)

SymbolAt(c, ref) == c.scopes[ref[1]].symbols[ref[2]]

-----------------------------------------------------------------------------
(* MethodTable: a bucket of functions for each name.  The owner is left    *)
(* out, for every function has the empty one.                              *)

NoMethods == [x \in Names |-> <<>>]

HasOverload(table, name, types) ==
    \E i \in DOMAIN table[name] : table[name][i].params = types

(* add_method refuses a second function with the same parameter types.     *)
AddMethod(table, ref, types) ==
    IF HasOverload(table, ref[2], types)
    THEN table
    ELSE [table EXCEPT ![ref[2]] = Append(@, [symbol |-> ref, params |-> types])]

(* find_overload compares type pointers, and types are interned: the       *)
(* parameter types must be those of the arguments, in order.               *)
FindOverload(table, name, types) ==
    IF HasOverload(table, name, types)
    THEN table[name][CHOOSE i \in DOMAIN table[name] :
                         table[name][i].params = types].symbol
    ELSE NULL
=============================================================================
