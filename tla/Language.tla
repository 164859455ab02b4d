------------------------------ MODULE Language ------------------------------
(***************************************************************************)
(* What the analysis decides, free of passes, scopes and annotations: one  *)
(* step judges a tree as a whole.  The rules are those the three passes    *)
(* enforce, with their order of declaration, the parameters that outlive   *)
(* their method, and the loop bodies nobody looks into.                    *)
(***************************************************************************)
EXTENDS Types

VARIABLES
    tree,    \* the program
    fresh,   \* what the pointers of its nodes held when they were made
    verdict  \* "none" until it is judged

vars == <<tree, fresh, verdict>>

-----------------------------------------------------------------------------
Above(p, n) == Path(p, n) \ {n}

Scoping(p) == {n \in DOMAIN p : p[n].kind \in {"Program", "Block", "Method"}}

Innermost(nodes) == CHOOSE n \in nodes : \A m \in nodes : m <= n

(* The scopes around a node, each named by the node that opens it.         *)
ScopesAround(p, n) == Scoping(p) \intersect Above(p, n)

Home(p, n) == Innermost(ScopesAround(p, n))

(* Inside an initialiser, a returned value or the operand of a unary       *)
(* operator nothing is declared.                                           *)
Declares(p, n) ==
    /\ p[n].kind = "VarDecl"
    /\ \A m \in Above(p, n) : p[m].kind \notin {"VarDecl", "Return", "Unary"}

Methods(p) == {n \in DOMAIN p : p[n].kind = "Method"}

Signature(p, m) ==
    <<p[m].name, [i \in DOMAIN p[m].params |-> p[m].params[i].type]>>

Declaration(name, type, scope, at) ==
    [name |-> name, type |-> type, scope |-> scope, at |-> at]

(* A method is declared next to its parameters, of which the first counts  *)
(* when two have the same name.                                            *)
Declarations(p) ==
    {Declaration(p[n].name, p[n].type, Home(p, n), n) :
        n \in {n \in DOMAIN p : Declares(p, n)}}
    \union {Declaration(p[m].name, p[m].type, m, m) : m \in Methods(p)}
    \union UNION {{Declaration(p[m].params[i].name, p[m].params[i].type, m, m) :
                      i \in {i \in DOMAIN p[m].params :
                                 \A j \in 1..(i - 1) :
                                     p[m].params[j].name # p[m].params[i].name}} :
                  m \in Methods(p)}

(* No variable has a name that is visible where it is declared and has     *)
(* been declared before, no method that of a parameter, and no two methods *)
(* have the same signature; int main() is there.                           *)
DeclaredWell(p) ==
    /\ \A n \in DOMAIN p : Declares(p, n) =>
           \A d \in Declarations(p) :
               d.name = p[n].name /\ d.at < n => d.scope \notin ScopesAround(p, n)
    /\ \A m \in Methods(p) : \A i \in DOMAIN p[m].params : p[m].params[i].name # p[m].name
    /\ \A m, k \in Methods(p) : Signature(p, m) = Signature(p, k) => m = k
    /\ \E m \in Methods(p) : Signature(p, m) = <<"main", <<>>>> /\ p[m].type = "int"

-----------------------------------------------------------------------------
(* The scopes a name is looked up in.  After a method, until the next      *)
(* block ends, its parameters and its name are visible too.                *)
Visible(p, n) ==
    LET before == {k \in Scoping(p) : /\ k \in (Home(p, n) + 1)..(n - 1)
                                      /\ Home(p, k) = Home(p, n)}
    IN  ScopesAround(p, n)
            \union (IF before = {} THEN {} ELSE {Innermost(before)} \intersect Methods(p))

Meant(p, n) ==
    {d \in Declarations(p) : d.name = p[n].name /\ d.scope \in Visible(p, n)}

(* Names in initialisers are not looked up. *)
LookedUp(p, n) ==
    /\ p[n].kind = "Ident"
    /\ \A m \in Above(p, n) : p[m].kind # "VarDecl"

NamedWell(p) ==
    /\ \A n \in DOMAIN p : p[n].kind # "Class"
    /\ \A n \in DOMAIN p : LookedUp(p, n) => Meant(p, n) # {}

-----------------------------------------------------------------------------
Called(p, n, types) == {m \in Methods(p) : Signature(p, m) = <<p[n].name, types>>}

(* The types of the expressions of a program that is declared and named    *)
(* well.                                                                   *)
TypesIn(p) ==
    LET type[n \in DOMAIN p] ==
            LET kid == p[n].kids
            IN  CASE p[n].kind \in {"Literal", "VarDecl"} -> p[n].type
                  [] p[n].kind = "Ident" ->
                         IF Meant(p, n) = {} THEN "void"
                         ELSE (CHOOSE d \in Meant(p, n) :
                                   \A e \in Meant(p, n) : e.scope <= d.scope).type
                  [] p[n].kind = "Binary" ->
                         BinaryType(p[n].op, type[kid[1]], type[kid[2]])
                  [] p[n].kind \in {"Unary", "Assign", "Arg"} -> type[kid[1]]
                  [] p[n].kind = "Call" ->
                         LET called == Called(p, n, [i \in DOMAIN kid |-> type[kid[i]]])
                         IN  IF called = {} THEN "void" ELSE p[CHOOSE m \in called : TRUE].type
                  [] OTHER -> "void"
    IN  type

Checked(p, n) ==
    \A m \in Above(p, n) : p[m].kind = "While" => p[m].kids[2] \notin Path(p, n)

(* The method a return is held against: the last one before it, whether or *)
(* not the return stands inside.                                           *)
Before(p, n) == {m \in Methods(p) : m < n /\ Checked(p, m)}

(* An assignment passes only when the pointer nobody sets is not null.     *)
TypedWell(p, pointer) ==
    LET type == TypesIn(p)
        kid(n, i) == type[p[n].kids[i]]
    IN  \A n \in {n \in DOMAIN p : Checked(p, n)} :
            CASE p[n].kind = "Ident" -> LookedUp(p, n)
              [] p[n].kind = "Binary" -> type[n] # "void"
              [] p[n].kind = "Call" ->
                     Called(p, n, [i \in DOMAIN p[n].kids |-> kid(n, i)]) # {}
              [] p[n].kind = "Unary" -> TypeEquals(kid(n, 1), "int")
              [] p[n].kind = "Assign" ->
                     pointer # NULL /\ TypeEquals(kid(n, 1), kid(n, 2))
              [] p[n].kind = "VarDecl" ->
                     \A i \in DOMAIN p[n].kids : TypeEquals(p[n].type, kid(n, i))
              [] p[n].kind \in {"If", "While"} -> TypeEquals(kid(n, 1), "bool")
              [] p[n].kind = "Return" ->
                     /\ Before(p, n) # {}
                     /\ TypeEquals(kid(n, 1), p[Innermost(Before(p, n))].type)
              [] OTHER -> TRUE

-----------------------------------------------------------------------------
Init ==
    /\ tree = <<>>
    /\ fresh = NULL
    /\ verdict = "none"

Read ==
    /\ tree = <<>>
    /\ IsProgram(tree')
    /\ fresh' \in {NULL, WILD}
    /\ UNCHANGED verdict

(* Only a program that is ill typed can bring the analysis down.           *)
Judge ==
    /\ tree # <<>>
    /\ verdict = "none"
    /\ verdict' \in {"accepted", "rejected", "crashed"}
    /\ verdict' = "accepted" <=>
           DeclaredWell(tree) /\ NamedWell(tree) /\ TypedWell(tree, fresh)
    /\ verdict' = "crashed" => DeclaredWell(tree) /\ NamedWell(tree)
    /\ UNCHANGED <<tree, fresh>>

Spec == Init /\ [][Read \/ Judge]_vars
=============================================================================
