-------------------------------- MODULE Sema_proofs --------------------------------
(***************************************************************************)
(* What holds of the analysis of every program: the passes report under    *)
(* their own names and only while they run, the overloads of a program     *)
(* that the collector has let pass are distinct, every annotation has the  *)
(* type of its declaration, and the checker dies for a reason; and how the *)
(* scopes follow the tree: the collector is in the scope of the node it    *)
(* visits, no variable hides a declaration, and the resolver binds a name  *)
(* to its nearest declaration.                                             *)
(***************************************************************************)
EXTENDS Sema, Passes_proofs

-----------------------------------------------------------------------------
(* Who has reported what, by the time each pass runs.                      *)
OnlyFrom(by) == \A e \in errors : e[1] = by

ErrorsByPass ==
    /\ pass \in {"parse", "accepted"} => errors = {}
    /\ pass = "collect" => OnlyFrom("SymbolCollector")
    /\ pass = "resolve" => OnlyFrom("NameResolver")
    /\ pass = "check" => OnlyFrom("TypeChecker")

Reports(by) ==
    /\ errors \subseteq errors'
    /\ \A e \in errors' : e \in errors \/ e[1] = by

LEMMA ReportReports ==
    ASSUME NEW by, NEW message, NEW n, Report(by, message, n)
    PROVE  Reports(by)
BY DEF Report, Reports

(* A step of the collector reports for the collector, and stays in it.     *)
LEMMA CollectReports ==
    ASSUME Collect
    PROVE  pass = "collect" /\ pass' = "collect" /\ Reports("SymbolCollector")
<1> PICK n \in Pending :
        \/ CollectScope(n)
        \/ LeaveScope(n)
        \/ CollectMethodDecl(n)
        \/ \E i \in DOMAIN prog[n].params : CollectParam(n, i)
        \/ DeclareMethod(n)
        \/ CollectVarDecl(n)
        \/ CollectOther(n)
  BY DEF Collect
<1>1. CASE \/ CollectScope(n)
           \/ LeaveScope(n)
           \/ CollectMethodDecl(n)
           \/ \E i \in DOMAIN prog[n].params : CollectParam(n, i)
           \/ CollectOther(n)
  <2>1. pass = "collect" /\ pass' = pass /\ errors' = errors
    BY <1>1 DEF CollectScope, LeaveScope, CollectMethodDecl, CollectParam, CollectOther,
                Doing, CollectorUnchanged
  <2> QED
    BY <2>1 DEF Reports
<1>2. CASE DeclareMethod(n)
  <2>1. pass = "collect" /\ pass' = pass
    BY <1>2 DEF DeclareMethod, Doing, CollectorUnchanged
  <2>2. Reports("SymbolCollector")
    BY <1>2, ReportReports DEF DeclareMethod, Reports
  <2> QED
    BY <2>1, <2>2
<1>3. CASE CollectVarDecl(n)
  <2>1. pass = "collect" /\ pass' = pass
    BY <1>3 DEF CollectVarDecl, Doing, CollectorUnchanged
  <2>2. Reports("SymbolCollector")
    BY <1>3, ReportReports DEF CollectVarDecl, Reports
  <2> QED
    BY <2>1, <2>2
<1> QED
  BY <1>1, <1>2, <1>3

LEMMA ResolveReports ==
    ASSUME Resolve
    PROVE  /\ pass = "resolve" /\ pass' \in {"resolve", "crashed"}
           /\ Reports("NameResolver")
<1> PICK n \in Pending :
        \/ ResolveScope(n)
        \/ ResolveLeave(n)
        \/ ResolveIdentifier(n)
        \/ ResolveUnknown(n)
        \/ ResolveOther(n)
  BY DEF Resolve
<1>1. CASE ResolveScope(n) \/ ResolveLeave(n) \/ ResolveOther(n)
  <2>1. pass = "resolve" /\ pass' = pass /\ errors' = errors
    BY <1>1 DEF ResolveScope, ResolveLeave, ResolveOther, Doing, ResolverUnchanged
  <2> QED
    BY <2>1 DEF Reports
<1>2. CASE ResolveIdentifier(n)
  <2>1. pass = "resolve" /\ pass' \in {"resolve", "crashed"}
    BY <1>2 DEF ResolveIdentifier, Doing, Crash
  <2>2. Reports("NameResolver")
    BY <1>2, ReportReports DEF ResolveIdentifier, Reports
  <2> QED
    BY <2>1, <2>2
<1>3. CASE ResolveUnknown(n)
  BY <1>3, ReportReports DEF ResolveUnknown, Doing, ResolverUnchanged
<1> QED
  BY <1>1, <1>2, <1>3

LEMMA CheckReports ==
    ASSUME Check
    PROVE  /\ pass = "check" /\ pass' \in {"check", "crashed"}
           /\ Reports("TypeChecker")
<1> USE ReportReports DEF Doing, Error
<1>1. ASSUME NEW n, NEW t, Typed(n, t)
      PROVE  pass' = pass /\ Reports("TypeChecker")
  BY <1>1 DEF Typed, Reports
<1>2. ASSUME NEW n, NEW m, Untyped(n, m)
      PROVE  pass' = pass /\ Reports("TypeChecker")
  BY <1>2 DEF Untyped
<1>3. ASSUME NEW tasks, Call(tasks)
      PROVE  pass' = pass /\ Reports("TypeChecker")
  BY <1>3 DEF Call, Reports
<1>4. ASSUME Dies
      PROVE  pass' = "crashed" /\ Reports("TypeChecker")
  BY <1>4 DEF Dies, Crash, Reports
<1> PICK n \in Pending :
        \/ CheckScope(n)
        \/ CheckLeave(n)
        \/ CheckMethodDecl(n)
        \/ TestCondition(n)
        \/ CheckReturn(n)
        \/ ReturnType(n)
        \/ CheckLeaf(n)
        \/ CheckAssignment(n)
        \/ CheckChildren(n)
        \/ TypeExpression(n)
  BY DEF Check
<1>5. CASE CheckScope(n) \/ CheckLeave(n)
  BY <1>3, <1>5 DEF CheckScope, CheckLeave
<1>6. CASE CheckMethodDecl(n)
  BY <1>2, <1>3, <1>6 DEF CheckMethodDecl
<1>7. CASE TestCondition(n)
  BY <1>3, <1>4, <1>7 DEF TestCondition
<1>8. CASE CheckReturn(n)
  BY <1>3, <1>8 DEF CheckReturn
<1>9. CASE ReturnType(n)
  BY <1>9 DEF ReturnType, Reports
<1>10. CASE CheckLeaf(n)
  <2>1. pass = "check"
    BY <1>10 DEF CheckLeaf
  <2>2. \/ \E t : Typed(n, t)
        \/ \E m : Untyped(n, m)
        \/ Dies
    BY <1>10 DEF CheckLeaf
  <2> QED
    BY <1>1, <1>2, <1>4, <2>1, <2>2
<1>11. CASE CheckAssignment(n)
  BY <1>2, <1>3, <1>11 DEF CheckAssignment
<1>12. CASE CheckChildren(n)
  BY <1>3, <1>12 DEF CheckChildren
<1>13. CASE TypeExpression(n)
  <2>1. pass = "check"
    BY <1>13 DEF TypeExpression
  <2>2. ASSUME TypeVarDecl(n) \/ TypeAssignment(n) \/ TypeBinary(n) \/ TypeUnary(n)
                   \/ TypeCall(n)
        PROVE  (\E t : Typed(n, t)) \/ (\E m : Untyped(n, m)) \/ Dies
    BY <2>2 DEF TypeVarDecl, TypeAssignment, TypeBinary, TypeUnary, TypeCall
  <2>3. ASSUME TypeExprStmt(n)
        PROVE  pass' = pass /\ Reports("TypeChecker")
    BY <2>3 DEF TypeExprStmt, Reports
  <2>4. \/ TypeVarDecl(n) \/ TypeAssignment(n) \/ TypeBinary(n) \/ TypeUnary(n)
            \/ TypeCall(n)
        \/ \E t : Typed(n, t)
        \/ TypeExprStmt(n)
    BY <1>13 DEF TypeExpression
  <2> QED
    BY <1>1, <1>2, <1>4, <2>1, <2>2, <2>3, <2>4
<1> QED
  BY <1>5, <1>6, <1>7, <1>8, <1>9, <1>10, <1>11, <1>12, <1>13

(* Each pass begins with no errors but its own.                            *)
LEMMA AnalysisErrors ==
    ASSUME ErrorsByPass, Analysis
    PROVE  ErrorsByPass'
<1>1. CASE Collect
  BY <1>1, CollectReports DEF ErrorsByPass, OnlyFrom, Reports
<1>2. CASE Resolve
  BY <1>2, ResolveReports DEF ErrorsByPass, OnlyFrom, Reports
<1>3. CASE Check
  BY <1>3, CheckReports DEF ErrorsByPass, OnlyFrom, Reports
<1>4. CASE AfterCollector
  BY <1>4 DEF AfterCollector, PassOver, Finish, Begin, ErrorsByPass, OnlyFrom, ReportedBy
<1>5. CASE AfterResolver
  BY <1>5 DEF AfterResolver, PassOver, Finish, Begin, ErrorsByPass, OnlyFrom, ReportedBy
<1>6. CASE AfterChecker
  BY <1>6 DEF AfterChecker, PassOver, Finish, ErrorsByPass, OnlyFrom, ReportedBy
<1> QED
  BY <1>1, <1>2, <1>3, <1>4, <1>5, <1>6 DEF Analysis

LEMMA AnalyzeErrors ==
    ASSUME NEW tree, ErrorsByPass, pass = "parse", Analyze(tree)
    PROVE  ErrorsByPass'
BY DEF Analyze, ErrorsByPass, OnlyFrom

-----------------------------------------------------------------------------
(* The scopes declare what they have declared for good, and every method   *)
(* that has a symbol is the one its symbol was made for; unless a          *)
(* duplicate has been reported, it is in the table under its types.        *)
Scoped(c) ==
    /\ DOMAIN c = {"scopes", "current"}
    /\ c.scopes \in Seq(Scope)
    /\ \A s \in 1..Len(c.scopes) : c.scopes[s].parent < s

Current(c) == c.current \in 1..Len(c.scopes)

Begun ==
    pass = "collect" /\ agenda # <<>> =>
        \/ Current(ctx)
        \/ agenda = <<Task("visit", 1, 0)>> /\ ctx.scopes = <<>>

Tabled ==
    /\ methods \in [Names -> Seq([symbol : Nat \X Names, params : Seq(Types)])]
    /\ \A x \in Names : \A i, j \in DOMAIN methods[x] :
           methods[x][i].params = methods[x][j].params => i = j

Refs(c) == (1..Len(c.scopes)) \X Names

Own(n) ==
    /\ symbolOf[n] \in Refs(ctx)
    /\ symbolOf[n][2] = Name(n)
    /\ SymbolAt(ctx, symbolOf[n]) # NULL
    /\ SymbolAt(ctx, symbolOf[n]).decl = n

Listed(n) ==
    \E i \in DOMAIN methods[Name(n)] :
        /\ methods[Name(n)][i].symbol = symbolOf[n]
        /\ methods[Name(n)][i].params = ParamTypes(n)

Registered ==
    \A n \in Nodes : Kind(n) = "Method" /\ symbolOf[n] \notin Garbage =>
        Own(n) /\ (ReportedBy("SymbolCollector") \/ Listed(n))

Rooted ==
    IF pass = "parse" THEN prog = <<>> /\ ctx.scopes = <<>> /\ ctx.current = 0
                      ELSE prog \in Seq(Node) /\ prog # <<>> /\ prog[1].kind = "Program"

MethodsInv ==
    /\ Rooted
    /\ Scoped(ctx)
    /\ pass = "collect" => ctx.current \in 0..Len(ctx.scopes)
    /\ Begun
    /\ Tabled
    /\ Registered
    /\ DOMAIN symbolOf = Nodes
    /\ ErrorsByPass

-----------------------------------------------------------------------------
LEMMA ElementOf ==
    ASSUME NEW R, NEW q \in Seq(R), NEW i \in DOMAIN q
    PROVE  q[i] \in R
OBVIOUS

LEMMA ParentIsNat ==
    ASSUME NEW s \in Scope
    PROVE  s.parent \in Nat
BY DEF Scope

(* Declaring a name never takes another declaration away.                  *)
LEMMA DeclareKeeps ==
    ASSUME NEW c, Scoped(c), Current(c), NEW x \in Names, NEW s \in Symbol
    PROVE  LET d == Declare(c, x, s)
           IN  /\ Scoped(d)
               /\ d.current = c.current
               /\ Len(d.scopes) = Len(c.scopes)
               /\ \A ref \in Refs(c) :
                      SymbolAt(c, ref) # NULL => SymbolAt(d, ref) = SymbolAt(c, ref)
               /\ CanDeclare(c, x) => SymbolAt(d, <<c.current, x>>) = s
<1> DEFINE d == Declare(c, x, s)
<1> DEFINE k == c.current
<1>1. CASE ~CanDeclare(c, x)
  BY <1>1 DEF Declare
<1>2. CASE CanDeclare(c, x)
  <2>1. k \in 1..Len(c.scopes) /\ c.scopes[k] \in Scope
    BY DEF Scoped, Current
  <2> DEFINE sc == [c.scopes[k] EXCEPT !.symbols[x] = s]
  <2>2. /\ sc \in Scope
        /\ sc.symbols[x] = s
        /\ sc.parent = c.scopes[k].parent
        /\ \A y \in Names \ {x} : sc.symbols[y] = c.scopes[k].symbols[y]
    BY <2>1 DEF Scope
  <2>3. d = [c EXCEPT !.scopes[k].symbols[x] = s]
    BY <1>2 DEF Declare
  <2>4. /\ DOMAIN d = {"scopes", "current"}
        /\ d.current = c.current
        /\ d.scopes = [c.scopes EXCEPT ![k] = sc]
    BY <2>3 DEF Scoped
  <2>5. /\ d.scopes \in Seq(Scope)
        /\ Len(d.scopes) = Len(c.scopes)
        /\ d.scopes[k] = sc
        /\ \A t \in 1..Len(c.scopes) : t # k => d.scopes[t] = c.scopes[t]
    <3> HIDE DEF sc, d
    <3> QED
      BY <2>1, <2>2, <2>4 DEF Scoped
  <2>6. ASSUME NEW ref \in Refs(c), SymbolAt(c, ref) # NULL
        PROVE  SymbolAt(d, ref) = SymbolAt(c, ref)
    <3>1. ref[1] \in 1..Len(c.scopes) /\ ref[2] \in Names
      BY DEF Refs
    <3>2. ref[1] = k => ref[2] # x
      BY <1>2, <2>6 DEF SymbolAt, CanDeclare
    <3> HIDE DEF sc, d
    <3> QED
      BY <2>2, <2>5, <3>1, <3>2 DEF SymbolAt
  <2>7. SymbolAt(d, <<k, x>>) = s
    <3> HIDE DEF sc, d
    <3> QED
      BY <2>2, <2>5 DEF SymbolAt
  <2>8. \A t \in 1..Len(d.scopes) : d.scopes[t].parent < t
    <3> HIDE DEF sc, d
    <3> QED
      BY <2>1, <2>2, <2>5 DEF Scoped
  <2> QED
    <3> HIDE DEF sc, d
    <3> QED
      BY <2>4, <2>5, <2>6, <2>7, <2>8 DEF Scoped, d
<1> QED
  BY <1>1, <1>2

LEMMA PushKeeps ==
    ASSUME NEW c, Scoped(c), c.current \in 0..Len(c.scopes), NEW n \in Nat
    PROVE  LET d == PushScope(c, n)
           IN  /\ Scoped(d)
               /\ Current(d)
               /\ Len(d.scopes) = Len(c.scopes) + 1
               /\ \A ref \in Refs(c) : SymbolAt(d, ref) = SymbolAt(c, ref)
<1> DEFINE sc == [parent |-> c.current, symbols |-> [x \in Names |-> NULL], owner |-> n]
           d == PushScope(c, n)
<1>1. sc \in Scope /\ sc.parent = c.current
  BY DEF Scope
<1>2. /\ DOMAIN d = {"scopes", "current"}
      /\ d.scopes = Append(c.scopes, sc)
      /\ d.current = Len(c.scopes) + 1
  BY DEF PushScope
<1> HIDE DEF sc, d
<1>3. /\ d.scopes \in Seq(Scope)
      /\ Len(d.scopes) = Len(c.scopes) + 1
      /\ \A t \in 1..Len(c.scopes) : d.scopes[t] = c.scopes[t]
  BY <1>1, <1>2 DEF Scoped
<1>4. Len(c.scopes) \in Nat
  BY DEF Scoped
<1>5. \A ref \in Refs(c) : ref[1] \in 1..Len(c.scopes)
  BY DEF Refs
<1>6. \A t \in 1..Len(d.scopes) : d.scopes[t].parent < t
  <2> TAKE t \in 1..Len(d.scopes)
  <2>1. CASE t = Len(c.scopes) + 1
    BY <1>1, <1>2, <1>3, <1>4, <2>1 DEF Scoped
  <2>2. CASE t \in 1..Len(c.scopes)
    <3>1. c.scopes[t] \in Scope /\ d.scopes[t] = c.scopes[t]
      BY <1>3, <2>2 DEF Scoped
    <3>2. d.scopes[t].parent \in Nat /\ d.scopes[t].parent < t
      BY <2>2, <3>1, ParentIsNat DEF Scoped
    <3> QED
      BY <1>3, <1>4, <3>2
  <2> QED
    BY <1>3, <1>4, <2>1, <2>2
<1> QED
  BY <1>2, <1>3, <1>4, <1>5, <1>6 DEF Scoped, Current, SymbolAt, d

(* A method is added under types that no other has.                        *)
Added(t, ref, types) ==
    /\ t \in [Names -> Seq([symbol : Nat \X Names, params : Seq(Types)])]
    /\ \A x \in Names : \A i, j \in DOMAIN t[x] :
           t[x][i].params = t[x][j].params => i = j
    /\ \A x \in Names : \A i \in DOMAIN methods[x] :
           i \in DOMAIN t[x] /\ t[x][i] = methods[x][i]
    /\ \/ HasOverload(methods, ref[2], types)
       \/ \E i \in DOMAIN t[ref[2]] :
              t[ref[2]][i] = [symbol |-> ref, params |-> types]

LEMMA AddKeeps ==
    ASSUME Tabled, NEW ref \in Nat \X Names, NEW types \in Seq(Types)
    PROVE  Added(AddMethod(methods, ref, types), ref, types)
<1> USE DEF Added
<1> DEFINE t == AddMethod(methods, ref, types)
           y == ref[2]
           entry == [symbol |-> ref, params |-> types]
           Entry == [symbol : Nat \X Names, params : Seq(Types)]
<1>1. y \in Names /\ entry \in Entry
  OBVIOUS
<1>2. CASE HasOverload(methods, y, types)
  BY <1>2 DEF AddMethod, Tabled
<1>3. CASE ~HasOverload(methods, y, types)
  <2>1. t = [methods EXCEPT ![y] = Append(methods[y], entry)]
    BY <1>3 DEF AddMethod
  <2>2. methods \in [Names -> Seq(Entry)]
    BY DEF Tabled
  <2> HIDE DEF entry, Entry, t, y
  <2>3. methods[y] \in Seq(Entry)
    BY <1>1, <2>2
  <2>4. /\ t \in [Names -> Seq(Entry)]
        /\ t[y] = Append(methods[y], entry)
        /\ \A x \in Names \ {y} : t[x] = methods[x]
    BY <1>1, <2>1, <2>2, <2>3
  <2>5. /\ DOMAIN methods[y] = 1..Len(methods[y])
        /\ Len(methods[y]) \in Nat
        /\ DOMAIN t[y] = 1..(Len(methods[y]) + 1)
        /\ t[y][Len(methods[y]) + 1] = entry
        /\ \A i \in 1..Len(methods[y]) : t[y][i] = methods[y][i]
    BY <1>1, <2>3, <2>4
  <2>6. entry.params = types
    BY DEF entry
  <2>7. \A i \in DOMAIN methods[y] : methods[y][i].params # types
    BY <1>3 DEF HasOverload
  <2>8. \A i, j \in DOMAIN t[y] : t[y][i].params = t[y][j].params => i = j
    <3> SUFFICES ASSUME NEW i \in DOMAIN t[y], NEW j \in DOMAIN t[y],
                        t[y][i].params = t[y][j].params
                 PROVE  i = j
      OBVIOUS
    <3>1. CASE i \in DOMAIN methods[y] /\ j \in DOMAIN methods[y]
      BY <1>1, <2>5, <3>1 DEF Tabled
    <3>2. ASSUME NEW k \in DOMAIN t[y]
          PROVE  \/ k \in DOMAIN methods[y] /\ t[y][k].params # types
                 \/ k = Len(methods[y]) + 1 /\ t[y][k].params = types
      <4>1. CASE k = Len(methods[y]) + 1
        BY <2>5, <2>6, <4>1
      <4>2. CASE k \in DOMAIN methods[y]
        <5>1. k \in 1..Len(methods[y]) /\ methods[y][k].params # types
          BY <2>5, <2>7, <4>2
        <5>2. t[y][k] = methods[y][k]
          BY <2>5, <5>1
        <5> QED
          BY <4>2, <5>1, <5>2
      <4> QED
        BY <2>5, <4>1, <4>2
    <3> QED
      BY <3>1, <3>2
  <2>9. \A x \in Names : \A i, j \in DOMAIN t[x] :
            t[x][i].params = t[x][j].params => i = j
    BY <2>4, <2>8 DEF Tabled
  <2>10. \A x \in Names : \A i \in DOMAIN methods[x] :
             i \in DOMAIN t[x] /\ t[x][i] = methods[x][i]
    <3>1. \A i \in DOMAIN methods[y] : i \in DOMAIN t[y] /\ t[y][i] = methods[y][i]
      BY <2>5
    <3> QED
      BY <2>4, <3>1
  <2>11. Len(methods[y]) + 1 \in DOMAIN t[y]
    BY <2>5
  <2> QED
    BY <2>4, <2>5, <2>9, <2>10, <2>11 DEF entry, Entry, t, y
<1> QED
  BY <1>2, <1>3

-----------------------------------------------------------------------------
(* What the collector adds takes nothing from a method it has declared.    *)
Grows ==
    /\ prog' = prog
    /\ \A ref \in Refs(ctx) :
           /\ ref \in Refs(ctx')
           /\ SymbolAt(ctx, ref) # NULL => SymbolAt(ctx', ref) = SymbolAt(ctx, ref)
    /\ \A x \in Names : \A i \in DOMAIN methods[x] :
           i \in DOMAIN methods'[x] /\ methods'[x][i] = methods[x][i]
    /\ errors \subseteq errors'

LEMMA NamesOfNodes ==
    ASSUME prog \in Seq(Node), NEW n \in Nodes
    PROVE  /\ n \in Nat
           /\ Name(n) \in Names
           /\ prog[n].type \in Types
           /\ ParamTypes(n) \in Seq(Types)
           /\ \A i \in DOMAIN prog[n].params :
                  prog[n].params[i].name \in Names /\ prog[n].params[i].type \in Types
<1>1. n \in Nat /\ prog[n] \in Node
  BY DEF Nodes
<1> DEFINE ps == prog[n].params
<1>2. ps \in Seq([name : Names, type : Types])
  BY <1>1 DEF Node
<1>3. \A i \in DOMAIN ps : ps[i].name \in Names /\ ps[i].type \in Types
  <2> SUFFICES ASSUME NEW i \in DOMAIN ps
               PROVE  ps[i].name \in Names /\ ps[i].type \in Types
    OBVIOUS
  <2>1. ps[i] \in [name : Names, type : Types]
    <3> HIDE DEF ps
    <3> QED
      BY <1>2, ElementOf
  <2> HIDE DEF ps
  <2> QED
    BY <2>1
<1>4. ParamTypes(n) \in Seq(Types)
  <2>1. ParamTypes(n) = [i \in 1..Len(ps) |-> ps[i].type] /\ Len(ps) \in Nat
    BY <1>2 DEF ParamTypes
  <2>2. \A i \in 1..Len(ps) : ps[i].type \in Types
    BY <1>2, <1>3
  <2> HIDE DEF ps
  <2> QED
    BY <2>1, <2>2
<1> QED
  BY <1>1, <1>3, <1>4 DEF Name, Node

LEMMA KeepsOwn ==
    ASSUME Grows, prog \in Seq(Node), NEW n \in Nodes,
           Own(n), ReportedBy("SymbolCollector") \/ Listed(n),
           symbolOf'[n] = symbolOf[n]
    PROVE  Own(n)' /\ (ReportedBy("SymbolCollector") \/ Listed(n))'
<1>1. Name(n) \in Names /\ Name(n)' = Name(n) /\ ParamTypes(n)' = ParamTypes(n)
  BY NamesOfNodes DEF Grows, Name, ParamTypes
<1>2. Own(n)'
  BY <1>1 DEF Own, Grows
<1>3. ReportedBy("SymbolCollector") => ReportedBy("SymbolCollector")'
  BY DEF Grows, ReportedBy
<1>4. Listed(n) => Listed(n)'
  BY <1>1 DEF Listed, Grows
<1> QED
  BY <1>2, <1>3, <1>4

LEMMA KeepsRegistered ==
    ASSUME Grows, prog \in Seq(Node), Registered,
           \A n \in Nodes : Kind(n) = "Method" => symbolOf'[n] = symbolOf[n]
    PROVE  Registered'
<1> SUFFICES ASSUME NEW n \in Nodes, Kind(n) = "Method", symbolOf[n] \notin Garbage
             PROVE  Own(n)' /\ (ReportedBy("SymbolCollector") \/ Listed(n))'
  BY DEF Registered, Grows, Nodes, Kind
<1> QED
  BY KeepsOwn DEF Registered

(* The collector at work: a scope is current from the first one on.        *)
LEMMA CollectKeeps ==
    ASSUME MethodsInv, Collect
    PROVE  /\ prog' = prog
           /\ Scoped(ctx') /\ Current(ctx')
           /\ Tabled'
           /\ Registered'
           /\ DOMAIN symbolOf' = Nodes
           /\ Grows
<1>1. pass = "collect" /\ prog \in Seq(Node)
  BY CollectReports DEF MethodsInv, Rooted
<1> PICK n \in Pending :
        \/ CollectScope(n)
        \/ LeaveScope(n)
        \/ CollectMethodDecl(n)
        \/ \E i \in DOMAIN prog[n].params : CollectParam(n, i)
        \/ DeclareMethod(n)
        \/ CollectVarDecl(n)
        \/ CollectOther(n)
  BY DEF Collect
<1>2. n \in Nodes /\ agenda # <<>> /\ n = Head(agenda)[2]
  BY DEF Pending
<1>3. n \in Nat
  BY <1>1, <1>2, NamesOfNodes
<1>w. \A what, i : Doing("collect", what, n, i) => Head(agenda)[1] = what
  BY DEF Doing, Task
<1>v. CollectScope(n) => Head(agenda)[1] = "visit"
  BY <1>w DEF CollectScope
<1>4. Current(ctx) \/ CollectScope(n)
  <2>1. CASE agenda = <<Task("visit", 1, 0)>>
    <3>1. n = 1 /\ Head(agenda) = <<"visit", 1, 0>>
      BY <1>2, <2>1 DEF Task
    <3>2. Kind(n) = "Program"
      BY <1>1, <3>1 DEF MethodsInv, Rooted, Kind
    <3>3. Head(agenda)[1] = "visit"
      BY <3>1
    <3>4. ~LeaveScope(n) /\ ~DeclareMethod(n)
      BY <1>w, <3>3 DEF LeaveScope, DeclareMethod
    <3>5. \A i : ~CollectParam(n, i)
      BY <1>w, <3>3 DEF CollectParam
    <3> QED
      BY <3>2, <3>4, <3>5 DEF CollectMethodDecl, CollectVarDecl, CollectOther
  <2> QED
    BY <1>1, <1>2, <2>1 DEF MethodsInv, Begun
<1> USE DEF MethodsInv
<1>5. CASE CollectScope(n) \/ CollectMethodDecl(n)
  <2>1. /\ ctx' = PushScope(ctx, n)
        /\ UNCHANGED <<prog, methods, symbolOf, errors>>
    BY <1>5 DEF CollectScope, CollectMethodDecl, CollectorUnchanged
  <2>2. /\ Scoped(ctx') /\ Current(ctx')
        /\ Len(ctx'.scopes) = Len(ctx.scopes) + 1
        /\ \A ref \in Refs(ctx) : SymbolAt(ctx', ref) = SymbolAt(ctx, ref)
    BY <1>1, <1>3, <2>1, PushKeeps
  <2>3. Grows
    BY <2>1, <2>2 DEF Grows, Refs, Scoped
  <2> QED
    BY <1>1, <2>1, <2>2, <2>3, KeepsRegistered DEF Tabled
<1>6. CASE LeaveScope(n)
  <2>1. /\ ctx' = PopScope(ctx)
        /\ UNCHANGED <<prog, methods, symbolOf, errors>>
        /\ Current(ctx)
    BY <1>w, <1>v, <1>4, <1>6 DEF LeaveScope, CollectorUnchanged
  <2>2. Scoped(ctx') /\ Current(ctx') /\ ctx'.scopes = ctx.scopes
    <3> DEFINE up == ctx.scopes[ctx.current].parent
    <3>1. up \in Nat /\ up <= Len(ctx.scopes)
      <4>1. ctx.current \in 1..Len(ctx.scopes) /\ ctx.scopes[ctx.current] \in Scope
        BY <2>1 DEF Scoped, Current
      <4> QED
        BY <4>1, ParentIsNat DEF Scoped
    <3>2. CASE up = 0
      BY <2>1, <3>2 DEF PopScope
    <3>3. CASE up # 0
      <4>1. ctx' = [ctx EXCEPT !.current = up]
        BY <2>1, <3>3 DEF PopScope
      <4>2. up \in 1..Len(ctx.scopes)
        BY <3>1, <3>3 DEF Scoped
      <4> HIDE DEF up
      <4> QED
        BY <4>1, <4>2 DEF Scoped, Current
    <3> QED
      BY <3>2, <3>3
  <2>3. Grows
    BY <2>1, <2>2 DEF Grows, Refs, SymbolAt
  <2> QED
    BY <1>1, <2>1, <2>2, <2>3, KeepsRegistered DEF Tabled
<1>7. ASSUME NEW i \in DOMAIN prog[n].params, CollectParam(n, i)
      PROVE  /\ prog' = prog
             /\ Scoped(ctx') /\ Current(ctx')
             /\ Tabled'
             /\ Registered'
             /\ DOMAIN symbolOf' = Nodes
             /\ Grows
  <2> DEFINE x == prog[n].params[i].name
             s == [kind |-> "param", type |-> prog[n].params[i].type,
                   params |-> <<>>, decl |-> n]
  <2>1. /\ ctx' = Declare(ctx, x, s)
        /\ UNCHANGED <<prog, methods, symbolOf, errors>>
        /\ Current(ctx)
    BY <1>w, <1>v, <1>4, <1>7 DEF CollectParam, CollectorUnchanged
  <2>2. x \in Names /\ s \in Symbol
    BY <1>1, <1>2, <1>3, NamesOfNodes DEF Symbol
  <2> HIDE DEF x, s
  <2>3. /\ Scoped(ctx') /\ Current(ctx')
        /\ Len(ctx'.scopes) = Len(ctx.scopes)
        /\ \A ref \in Refs(ctx) :
               SymbolAt(ctx, ref) # NULL => SymbolAt(ctx', ref) = SymbolAt(ctx, ref)
    BY <2>1, <2>2, DeclareKeeps DEF Current
  <2>4. Grows
    BY <2>1, <2>3 DEF Grows, Refs
  <2> QED
    BY <1>1, <2>1, <2>3, <2>4, KeepsRegistered DEF Tabled
<1>8. CASE DeclareMethod(n)
  <2> DEFINE types == ParamTypes(n)
             ref == <<ctx.current, Name(n)>>
             s == [kind |-> "func", type |-> prog[n].type, params |-> types, decl |-> n]
  <2>1. prog' = prog /\ Current(ctx)
    BY <1>w, <1>v, <1>4, <1>8 DEF DeclareMethod, CollectorUnchanged
  <2>2. CASE ~CanDeclare(ctx, Name(n))
    <3>1. UNCHANGED <<ctx, symbolOf, methods>> /\ errors \subseteq errors'
      BY <1>8, <2>2 DEF DeclareMethod, Report
    <3>2. Grows
      BY <2>1, <3>1 DEF Grows
    <3> QED
      BY <1>1, <2>1, <3>1, <3>2, KeepsRegistered DEF Tabled
  <2>3. CASE CanDeclare(ctx, Name(n))
    <3>1. /\ ctx' = Declare(ctx, Name(n), s)
          /\ symbolOf' = [symbolOf EXCEPT ![n] = ref]
          /\ methods' = AddMethod(methods, ref, types)
          /\ HasOverload(methods, Name(n), types) =>
                 Report("SymbolCollector", "duplicate overload", n)
          /\ errors \subseteq errors'
      BY <1>8, <2>3 DEF DeclareMethod, Report
    <3>2. Name(n) \in Names /\ s \in Symbol /\ types \in Seq(Types)
      BY <1>1, <1>2, <1>3, NamesOfNodes DEF Symbol
    <3>3. /\ Scoped(ctx') /\ Current(ctx')
          /\ Len(ctx'.scopes) = Len(ctx.scopes)
          /\ \A r \in Refs(ctx) :
                 SymbolAt(ctx, r) # NULL => SymbolAt(ctx', r) = SymbolAt(ctx, r)
          /\ SymbolAt(ctx', ref) = s
      <4> HIDE DEF s
      <4> QED
        BY <2>1, <2>3, <3>1, <3>2, DeclareKeeps DEF Current
    <3>4. ref \in Nat \X Names /\ ref \in Refs(ctx)
      BY <2>1, <3>2 DEF Current, Refs, Scoped
    <3>5. /\ Tabled'
          /\ \A x \in Names : \A i \in DOMAIN methods[x] :
                 i \in DOMAIN methods'[x] /\ methods'[x][i] = methods[x][i]
          /\ \/ HasOverload(methods, Name(n), types)
             \/ \E i \in DOMAIN methods'[Name(n)] :
                    methods'[Name(n)][i] = [symbol |-> ref, params |-> types]
      <4> DEFINE y == Name(n)
      <4>1. ref[2] = y
        OBVIOUS
      <4> HIDE DEF types, ref, y
      <4>2. Added(methods', ref, types)
        BY <3>1, <3>2, <3>4, AddKeeps
      <4> QED
        BY <4>1, <4>2 DEF Added, Tabled, y
    <3>6. Grows
      BY <2>1, <3>1, <3>3, <3>5 DEF Grows, Refs
    <3>7. symbolOf'[n] = ref /\ \A m \in Nodes \ {n} : symbolOf'[m] = symbolOf[m]
      BY <1>2, <3>1
    <3>8. Own(n)'
      <4>1. s # NULL /\ s.decl = n
        BY <3>2, ScopesAssumption
      <4>2. ref \in Refs(ctx')
        BY <3>4, <3>6 DEF Grows
      <4>3. ref[2] = Name(n)'
        BY <2>1 DEF Name
      <4> HIDE DEF s, ref
      <4> QED
        BY <3>3, <3>7, <4>1, <4>2, <4>3 DEF Own
    <3>9. (ReportedBy("SymbolCollector") \/ Listed(n))'
      <4>1. HasOverload(methods, Name(n), types) => ReportedBy("SymbolCollector")'
        <5>1. Report("SymbolCollector", "duplicate overload", n)
              => <<"SymbolCollector", "duplicate overload", n>> \in errors'
          BY DEF Report
        <5> QED
          BY <3>1, <5>1 DEF ReportedBy
      <4>2. ParamTypes(n)' = types /\ Name(n)' = Name(n)
        BY <2>1 DEF ParamTypes, Name
      <4> HIDE DEF types, ref
      <4> QED
        BY <3>5, <3>7, <4>1, <4>2 DEF Listed
    <3>10. Registered'
      <4> SUFFICES ASSUME NEW m \in Nodes, Kind(m) = "Method", symbolOf'[m] \notin Garbage
                   PROVE  Own(m)' /\ (ReportedBy("SymbolCollector") \/ Listed(m))'
        BY <2>1 DEF Registered, Nodes, Kind
      <4>1. CASE m = n
        BY <3>8, <3>9, <4>1
      <4>2. CASE m # n
        BY <1>1, <3>6, <3>7, <4>2, KeepsOwn DEF Registered
      <4> QED
        BY <4>1, <4>2
    <3> QED
      BY <2>1, <3>1, <3>3, <3>5, <3>6, <3>10
  <2> QED
    BY <2>2, <2>3
<1>9. CASE CollectVarDecl(n)
  <2> DEFINE s == [kind |-> "var", type |-> prog[n].type, params |-> <<>>, decl |-> n]
  <2>1. /\ UNCHANGED <<prog, methods>>
        /\ errors \subseteq errors'
        /\ Kind(n) = "VarDecl"
        /\ \/ ctx' = Declare(ctx, Name(n), s) /\ symbolOf' = [symbolOf EXCEPT ![n] =
                                                        <<ctx.current, Name(n)>>]
           \/ UNCHANGED <<ctx, symbolOf>>
    BY <1>9 DEF CollectVarDecl, CollectorUnchanged, Report
  <2>2. Current(ctx)
    BY <1>4, <1>9 DEF CollectVarDecl, CollectScope
  <2>3. Name(n) \in Names /\ s \in Symbol
    BY <1>1, <1>2, <1>3, NamesOfNodes DEF Symbol
  <2> HIDE DEF s
  <2>4. /\ Scoped(ctx') /\ Current(ctx')
        /\ Len(ctx'.scopes) = Len(ctx.scopes)
        /\ \A ref \in Refs(ctx) :
               SymbolAt(ctx, ref) # NULL => SymbolAt(ctx', ref) = SymbolAt(ctx, ref)
    <3>1. CASE ctx' = Declare(ctx, Name(n), s)
      BY <2>2, <2>3, <3>1, DeclareKeeps DEF Current
    <3>2. CASE ctx' = ctx
      BY <2>2, <3>2
    <3> QED
      BY <2>1, <3>1, <3>2
  <2>5. Grows
    BY <2>1, <2>4 DEF Grows, Refs
  <2>6. /\ DOMAIN symbolOf' = Nodes
        /\ \A m \in Nodes : Kind(m) = "Method" => symbolOf'[m] = symbolOf[m]
    BY <2>1
  <2> QED
    BY <1>1, <2>1, <2>4, <2>5, <2>6, KeepsRegistered DEF Tabled
<1>10. CASE CollectOther(n)
  <2>1. UNCHANGED <<prog, ctx, methods, symbolOf, errors>> /\ Current(ctx)
    BY <1>4, <1>10 DEF CollectOther, CollectorUnchanged, CollectScope
  <2>2. Grows
    BY <2>1 DEF Grows
  <2> QED
    BY <1>1, <2>1, <2>2, KeepsRegistered DEF Tabled
<1> QED
  BY <1>5, <1>6, <1>7, <1>8, <1>9, <1>10

(* The passes after it change no declaration, no method and no symbol of   *)
(* one; only the current scope moves.                                      *)
Still ==
    /\ UNCHANGED <<prog, methods>>
    /\ DOMAIN ctx' = {"scopes", "current"} /\ ctx'.scopes = ctx.scopes
    /\ DOMAIN symbolOf' = DOMAIN symbolOf
    /\ \A n \in Nodes : Kind(n) = "Method" => symbolOf'[n] = symbolOf[n]
    /\ errors \subseteq errors'

LEMMA CurrentMoves ==
    ASSUME NEW c, Scoped(c), NEW s
    PROVE  DOMAIN SetCurrent(c, s) = {"scopes", "current"}
           /\ SetCurrent(c, s).scopes = c.scopes
BY DEF Scoped, SetCurrent

LEMMA ResolveStill ==
    ASSUME Scoped(ctx), DOMAIN symbolOf = Nodes, Resolve
    PROVE  Still
<1> PICK n \in Pending :
        \/ ResolveScope(n)
        \/ ResolveLeave(n)
        \/ ResolveIdentifier(n)
        \/ ResolveUnknown(n)
        \/ ResolveOther(n)
  BY DEF Resolve
<1>1. CASE ResolveScope(n) \/ ResolveLeave(n)
  BY <1>1, CurrentMoves DEF ResolveScope, ResolveLeave, ResolverUnchanged, Still
<1>2. CASE ResolveIdentifier(n)
  <2>1. /\ UNCHANGED <<prog, methods, ctx>>
        /\ errors \subseteq errors'
        /\ Kind(n) = "Ident"
        /\ \/ symbolOf' = symbolOf
           \/ \E ref : symbolOf' = [symbolOf EXCEPT ![n] = ref]
    BY <1>2 DEF ResolveIdentifier, Report
  <2>2. DOMAIN symbolOf' = DOMAIN symbolOf
    BY <2>1
  <2>3. ASSUME NEW m \in Nodes, Kind(m) = "Method"
        PROVE  symbolOf'[m] = symbolOf[m]
    <3>1. m # n
      BY <2>1, <2>3
    <3>2. ASSUME NEW ref, symbolOf' = [symbolOf EXCEPT ![n] = ref]
          PROVE  symbolOf'[m] = symbolOf[m]
      BY <3>1, <3>2 DEF MethodsInv
    <3> QED
      BY <2>1, <3>2
  <2> QED
    BY <2>1, <2>2, <2>3 DEF Still, Scoped
<1>3. CASE ResolveUnknown(n) \/ ResolveOther(n)
  BY <1>3 DEF ResolveUnknown, ResolveOther, ResolverUnchanged, Report, Still, Scoped
<1> QED
  BY <1>1, <1>2, <1>3

LEMMA CheckStill ==
    ASSUME Scoped(ctx), Check
    PROVE  Still
<1> PICK n \in Pending :
        \/ CheckScope(n)
        \/ CheckLeave(n)
        \/ CheckMethodDecl(n)
        \/ CheckerUnchanged /\ ctx' = ctx
  BY DEF Check
<1>1. errors \subseteq errors'
  BY CheckReports DEF Reports
<1>2. UNCHANGED <<prog, methods, symbolOf>>
  BY DEF CheckScope, CheckLeave, CheckMethodDecl, CheckerUnchanged
<1>3. ctx' = ctx \/ \E s : ctx' = SetCurrent(ctx, s)
  BY DEF CheckScope, CheckLeave, CheckMethodDecl
<1> QED
  BY <1>1, <1>2, <1>3, CurrentMoves DEF Still, Scoped

-----------------------------------------------------------------------------
LEMMA MethodsInit == InitPasses => MethodsInv
BY DEF InitPasses, MethodsInv, Rooted, Scoped, NoContext, Begun, Tabled, NoMethods,
       Registered, Nodes, ErrorsByPass

LEMMA StillKeeps ==
    ASSUME MethodsInv, Still, pass # "parse", pass' \notin {"parse", "collect"},
           ErrorsByPass'
    PROVE  MethodsInv'
<1>1. prog \in Seq(Node)
  BY DEF MethodsInv, Rooted
<1>2. Grows
  BY DEF Still, Grows, Refs, SymbolAt
<1>3. Registered'
  BY <1>1, <1>2, KeepsRegistered DEF Still, MethodsInv
<1>4. Scoped(ctx') /\ Tabled' /\ Rooted' /\ Begun' /\ DOMAIN symbolOf' = Nodes'
  BY DEF Still, MethodsInv, Scoped, Tabled, Rooted, Begun, Nodes
<1> QED
  BY <1>3, <1>4 DEF MethodsInv

LEMMA AnalysisMethods ==
    ASSUME MethodsInv, Analysis
    PROVE  MethodsInv'
<1>1. ErrorsByPass'
  BY AnalysisErrors DEF MethodsInv
<1>2. CASE Collect
  <2>1. pass = "collect" /\ pass' = "collect"
    BY <1>2, CollectReports
  <2> QED
    BY <1>1, <1>2, <2>1, CollectKeeps DEF MethodsInv, Rooted, Begun, Current, Nodes
<1>3. CASE Resolve
  BY <1>1, <1>3, ResolveReports, ResolveStill, StillKeeps DEF MethodsInv
<1>4. CASE Check
  BY <1>1, <1>4, CheckReports, CheckStill, StillKeeps DEF MethodsInv
<1>5. CASE AfterCollector \/ AfterResolver \/ AfterChecker
  <2>1. /\ pass # "parse" /\ pass' \notin {"parse", "collect"}
        /\ UNCHANGED <<prog, ctx, methods, symbolOf, errors>>
    BY <1>5 DEF AfterCollector, AfterResolver, AfterChecker, PassOver, Finish, Begin
  <2>2. Still
    BY <2>1 DEF Still, MethodsInv, Scoped
  <2> QED
    BY <1>1, <2>1, <2>2, StillKeeps
<1> QED
  BY <1>2, <1>3, <1>4, <1>5 DEF Analysis

LEMMA ParserPrograms ==
    ASSUME ParserReturns
    PROVE  pass = "parse" /\ \E tree : IsProgram(tree) /\ Analyze(tree)
BY AstAssumption DEF ParserReturns

LEMMA ParserMethods ==
    ASSUME MethodsInv, pass = "parse", NEW tree, IsProgram(tree), Analyze(tree)
    PROVE  MethodsInv'
<1>1. pass = "parse" /\ pass' = "collect" /\ prog' = tree
  BY DEF Analyze
<1>3. Rooted'
  BY <1>1 DEF Rooted, IsProgram
<1>4. ErrorsByPass'
  BY <1>1, AnalyzeErrors DEF MethodsInv
<1>5. Registered' /\ DOMAIN symbolOf' = Nodes'
  BY <1>1 DEF Analyze, Registered, Nodes
<1>6. /\ Scoped(ctx)' /\ Tabled' /\ Begun'
      /\ ctx'.scopes = <<>> /\ ctx'.current = 0
  BY <1>1 DEF Analyze, MethodsInv, Rooted, Tabled, Begun
<1> QED
  BY <1>3, <1>4, <1>5, <1>6 DEF MethodsInv

(* Whoever gets past the collector has told every method apart: it finds   *)
(* each by the types of its parameters, and its symbol is its own.         *)
LEMMA OverloadsFollow == MethodsInv => OverloadsDistinct
<1> SUFFICES ASSUME MethodsInv, pass \in {"resolve", "check", "accepted"},
                    NEW n \in Nodes, Kind(n) = "Method", symbolOf[n] \notin Garbage
             PROVE  /\ SymbolAt(ctx, symbolOf[n]).decl = n
                    /\ FindOverload(methods, Name(n), ParamTypes(n)) = symbolOf[n]
  BY DEF OverloadsDistinct
<1>1. ~ReportedBy("SymbolCollector")
  BY DEF MethodsInv, ErrorsByPass, OnlyFrom, ReportedBy
<1>2. Own(n) /\ Listed(n)
  BY <1>1 DEF MethodsInv, Registered
<1>3. Name(n) \in Names
  BY NamesOfNodes DEF MethodsInv, Rooted
<1> DEFINE types == ParamTypes(n)
           bucket == methods[Name(n)]
           found == CHOOSE i \in DOMAIN bucket : bucket[i].params = types
<1>4. PICK i \in DOMAIN bucket : bucket[i].symbol = symbolOf[n] /\ bucket[i].params = types
  BY <1>2 DEF Listed
<1>5. found \in DOMAIN bucket /\ bucket[found].params = types
  BY <1>4
<1>6. found = i
  <2> HIDE DEF found, types
  <2> QED
    BY <1>3, <1>4, <1>5 DEF MethodsInv, Tabled
<1>7. FindOverload(methods, Name(n), types) = bucket[found].symbol
  BY <1>4 DEF FindOverload, HasOverload
<1> QED
  BY <1>2, <1>4, <1>6, <1>7 DEF Own

(* MethodTable, for every program: once SymbolCollector has let it pass,   *)
(* find_overload with the parameter types of a method returns that method. *)
THEOREM OverloadsAreDistinct == Spec => []OverloadsDistinct
<1>1. MethodsInv /\ [Next]_semaVars => MethodsInv'
  <2> SUFFICES ASSUME MethodsInv, [Next]_semaVars
               PROVE  MethodsInv'
    OBVIOUS
  <2>1. CASE UNCHANGED semaVars
    <3>1. Registered'
      BY <2>1 DEF semaVars, MethodsInv, Registered, Own, Listed, Nodes, Kind, Name,
                  ParamTypes, ReportedBy
    <3>2. Rooted' /\ Begun' /\ Tabled' /\ Nodes' = Nodes
      BY <2>1 DEF semaVars, MethodsInv, Rooted, Begun, Tabled, Nodes
    <3>3. ErrorsByPass'
      BY <2>1 DEF semaVars, MethodsInv, ErrorsByPass, OnlyFrom
    <3> QED
      BY <2>1, <3>1, <3>2, <3>3 DEF semaVars, MethodsInv
  <2> QED
    BY <2>1, ParserPrograms, ParserMethods, AnalysisMethods DEF Next
<1> QED
  BY <1>1, MethodsInit, OverloadsFollow, PTL DEF Spec

-----------------------------------------------------------------------------
(* The pending calls.  A handler leaves a fan of them: its tasks for the   *)
(* parameters of n, the visits of nodes below n, and what it does in the   *)
(* end for n itself.                                                       *)
Scoping == {"Program", "Block", "Method"}

Fans(ts, n, a, ks, z, w) ==
    /\ IsSeq(ts) /\ ks \in Seq(Nat) /\ a \in Nat /\ z \in {0, 1}
    /\ Len(ts) = a + Len(ks) + z
    /\ \A k \in 1..a : ts[k][1] \in {"param", "declare"} /\ ts[k][2] = n
    /\ a # 0 => ts[a][1] = "declare"
    /\ \A k \in 1..Len(ks) : ts[a + k][1] = "visit" /\ ts[a + k][2] = ks[k]
    /\ z = 1 => ts[a + Len(ks) + 1][1] = w /\ ts[a + Len(ks) + 1][2] = n

(* What may be pending for which nodes.                                    *)
Fits(p, tree, t) ==
    LET kind == tree[t[2]].kind
    IN  /\ t[2] \in DOMAIN tree
        /\ \/ t[1] = "visit" /\ t[2] # 1
           \/ t[1] = "leave" /\ kind \in {"Program", "Block"}
           \/ t[1] = "leave" /\ p = "collect" /\ kind = "Method"
           \/ t[1] \in {"param", "declare"} /\ p = "collect" /\ kind = "Method"
           \/ t[1] = "test" /\ p = "check" /\ kind \in {"If", "While"}
           \/ t[1] = "return" /\ p = "check" /\ kind = "Return"
           \/ /\ t[1] = "type" /\ p = "check"
              /\ kind \in {"VarDecl", "ExprStmt", "Binary", "Unary", "Call", "Arg", "Assign"}

AtRoot == agenda = <<Task("visit", 1, 0)>>

Planned ==
    /\ IsSeq(agenda)
    /\ pass # "parse" => IsProgram(prog)
    /\ pass = "parse" \/ pass \in Ends => agenda = <<>>
    /\ \/ AtRoot
       \/ \A k \in DOMAIN agenda : /\ Fits(pass, prog, agenda[k])
                                   /\ agenda[k][2] = 1 => k = Len(agenda)

-----------------------------------------------------------------------------
LEMMA NothingFans ==
    ASSUME NEW n, NEW w
    PROVE  Fans(<<>>, n, 0, <<>>, 0, w)
<1>1. IsSeq(<<>>)
  <2>1. <<>> \in Seq({})
    OBVIOUS
  <2> QED
    BY <2>1 DEF IsSeq
<1> QED
  BY <1>1 DEF Fans

LEMMA VisitsFan ==
    ASSUME NEW ks \in Seq(Nat), NEW n, NEW w
    PROVE  Fans(Visits(ks), n, 0, ks, 0, w)
<1>1. /\ IsSeq(Visits(ks)) /\ Len(Visits(ks)) = Len(ks)
      /\ \A i \in DOMAIN ks : Visits(ks)[i] = <<"visit", ks[i], 0>>
  BY VisitsOf
<1>2. DOMAIN ks = 1..Len(ks) /\ Len(ks) \in Nat
  OBVIOUS
<1> QED
  BY <1>1, <1>2 DEF Fans

LEMMA VisitsThenFan ==
    ASSUME NEW ks \in Seq(Nat), NEW n, NEW w
    PROVE  Fans(Visits(ks) \o <<Task(w, n, 0)>>, n, 0, ks, 1, w)
<1> DEFINE ts == Visits(ks) \o <<Task(w, n, 0)>>
<1>1. /\ IsSeq(ts)
      /\ Len(ks) \in Nat /\ DOMAIN ks = 1..Len(ks)
      /\ Len(ts) = Len(ks) + 1
      /\ \A i \in DOMAIN ks : ts[i] = <<"visit", ks[i], 0>>
      /\ ts[Len(ks) + 1] = <<w, n, 0>>
  BY VisitsThenAt DEF Task
<1> HIDE DEF ts
<1>2. Fans(ts, n, 0, ks, 1, w)
  BY <1>1 DEF Fans
<1> QED
  BY <1>2 DEF ts

LEMMA VisitThenFan ==
    ASSUME NEW k \in Nat, NEW n, NEW w
    PROVE  Fans(<<Task("visit", k, 0), Task(w, n, 0)>>, n, 0, <<k>>, 1, w)
<1> DEFINE ts == <<Task("visit", k, 0), Task(w, n, 0)>>
           S == {Task("visit", k, 0), Task(w, n, 0)}
<1>1. ts \in Seq(S)
  OBVIOUS
<1>2. IsSeq(ts) /\ Len(ts) = 2
  BY <1>1 DEF IsSeq
<1>3. ts[1] = <<"visit", k, 0>> /\ ts[2] = <<w, n, 0>>
  BY DEF Task
<1> HIDE DEF ts
<1>4. Fans(ts, n, 0, <<k>>, 1, w)
  BY <1>2, <1>3 DEF Fans
<1> QED
  BY <1>4 DEF ts

(* The tasks of a method declaration.                                      *)
LEMMA ParamsFan ==
    ASSUME NEW ps, IsSeq(ps), NEW ks \in Seq(Nat), NEW n
    PROVE  LET ts == [i \in DOMAIN ps |-> Task("param", n, i)]
                     \o <<Task("declare", n, 0)>> \o Visits(ks)
                     \o <<Task("leave", n, 0)>>
           IN  Fans(ts, n, Len(ps) + 1, ks, 1, "leave")
<1> DEFINE as == [i \in DOMAIN ps |-> Task("param", n, i)]
           vs == Visits(ks)
           d == Task("declare", n, 0)
           l == Task("leave", n, 0)
           q == as \o <<d>>
           r == q \o vs
           ts == r \o <<l>>
<1>1. Len(ps) \in Nat /\ DOMAIN ps = 1..Len(ps)
  BY DEF IsSeq
<1>2. /\ IsSeq(vs) /\ Len(vs) = Len(ks)
      /\ \A i \in DOMAIN ks : vs[i] = <<"visit", ks[i], 0>>
  BY VisitsOf
<1>3. DOMAIN ks = 1..Len(ks) /\ Len(ks) \in Nat
  OBVIOUS
<1>4. as = [i \in 1..Len(ps) |-> <<"param", n, i>>]
  BY <1>1 DEF Task
<1> DEFINE A == {<<"param", n, i>> : i \in 1..Len(ps)}
<1>5. as \in Seq(A)
  <2>1. \A i \in 1..Len(ps) : <<"param", n, i>> \in A
    OBVIOUS
  <2> HIDE DEF A
  <2> QED
    BY <1>1, <1>4, <2>1
<1>6. Len(as) = Len(ps) /\ \A i \in 1..Len(ps) : as[i] = <<"param", n, i>>
  BY <1>1, <1>4
<1>7. IsSeq(as)
  BY <1>5 DEF IsSeq
<1>8. d[1] = "declare" /\ d[2] = n /\ l[1] = "leave" /\ l[2] = n
  BY DEF Task
<1> HIDE DEF A, as, vs, d, l
<1>9. /\ IsSeq(q) /\ Len(q) = Len(ps) + 1
      /\ \A k \in 1..Len(ps) : q[k] = as[k]
      /\ q[Len(ps) + 1] = d
  <2>1. PICK o : o = <<d>>
    OBVIOUS
  <2>2. IsSeq(o) /\ Len(o) = 1 /\ o[1] = d
    BY <2>1, OneTask
  <2>3. q = as \o o
    BY <2>1
  <2> HIDE DEF q
  <2>4. Joins(as, o, q)
    BY <1>7, <2>2, <2>3, Joined
  <2>5. Len(q) = Len(ps) + 1 /\ 1 \in 1..Len(o) /\ Len(as) = Len(ps)
    BY <1>1, <1>6, <2>2, <2>4 DEF Joins
  <2> HIDE DEF q
  <2> QED
    BY <1>1, <1>6, <2>2, <2>4, <2>5 DEF Joins
<1> HIDE DEF q
<1>10. /\ IsSeq(r) /\ Len(r) = Len(ps) + 1 + Len(ks)
       /\ \A k \in 1..(Len(ps) + 1) : r[k] = q[k]
       /\ \A k \in 1..Len(ks) : r[Len(ps) + 1 + k] = vs[k]
  <2>3. r = q \o vs
    OBVIOUS
  <2> HIDE DEF r
  <2>4. Joins(q, vs, r)
    BY <1>2, <1>9, <2>3, Joined
  <2> QED
    BY <1>2, <1>9, <2>4 DEF Joins
<1> HIDE DEF r
<1>11. /\ IsSeq(ts) /\ Len(ts) = Len(ps) + 1 + Len(ks) + 1
       /\ \A k \in 1..(Len(ps) + 1 + Len(ks)) : ts[k] = r[k]
       /\ ts[Len(ps) + 1 + Len(ks) + 1] = l
  <2>1. PICK o : o = <<l>>
    OBVIOUS
  <2>2. IsSeq(o) /\ Len(o) = 1 /\ o[1] = l
    BY <2>1, OneTask
  <2>3. ts = r \o o
    BY <2>1
  <2> HIDE DEF ts
  <2>4. Joins(r, o, ts)
    BY <1>10, <2>2, <2>3, Joined
  <2> QED
    BY <1>1, <1>3, <1>10, <2>2, <2>4 DEF Joins
<1> HIDE DEF ts
<1>12. \A k \in 1..(Len(ps) + 1) : ts[k][1] \in {"param", "declare"} /\ ts[k][2] = n
  <2> TAKE k \in 1..(Len(ps) + 1)
  <2>1. ts[k] = q[k]
    BY <1>1, <1>3, <1>10, <1>11
  <2>2. CASE k = Len(ps) + 1
    BY <1>8, <1>9, <2>1, <2>2
  <2>3. CASE k \in 1..Len(ps)
    <3>1. ts[k] = <<"param", n, k>>
      BY <1>6, <1>9, <2>1, <2>3
    <3> QED
      BY <3>1
  <2> QED
    BY <1>1, <2>2, <2>3
<1>13. \A k \in 1..Len(ks) :
          ts[Len(ps) + 1 + k][1] = "visit" /\ ts[Len(ps) + 1 + k][2] = ks[k]
  <2> TAKE k \in 1..Len(ks)
  <2>1. ts[Len(ps) + 1 + k] = vs[k]
    BY <1>1, <1>3, <1>10, <1>11
  <2>2. vs[k] = <<"visit", ks[k], 0>>
    BY <1>2, <1>3
  <2> QED
    BY <2>1, <2>2
<1>14. Fans(ts, n, Len(ps) + 1, ks, 1, "leave")
  <2>1. Len(ps) + 1 \in 1..(Len(ps) + 1)
        /\ Len(ps) + 1 \in 1..(Len(ps) + 1 + Len(ks))
    BY <1>1, <1>3
  <2>2. ts[Len(ps) + 1] = r[Len(ps) + 1] /\ r[Len(ps) + 1] = q[Len(ps) + 1]
    BY <1>10, <1>11, <2>1
  <2>3. ts[Len(ps) + 1][1] = "declare"
    BY <1>8, <1>9, <2>2
  <2> QED
    BY <1>1, <1>8, <1>11, <1>12, <1>13, <2>3 DEF Fans
<1> QED
  BY <1>14 DEF ts, r, q, as, vs, d, l

(* The handler of n takes its call from the agenda and puts its own there. *)
Goes(n, what, ts, a, ks, z, w) ==
    /\ agenda # <<>> /\ Head(agenda)[1] = what /\ Head(agenda)[2] = n
    /\ pass' = pass /\ prog' = prog
    /\ Then(ts) /\ Fans(ts, n, a, ks, z, w)
    /\ a # 0 => pass = "collect" /\ Kind(n) = "Method"
    /\ z = 1 => Fits(pass, prog, <<w, n, 0>>) /\ w # "visit"
    /\ what # "visit" => z = 0 /\ a = 0
    /\ \A i \in DOMAIN ks : ks[i] \in Nodes /\ ks[i] # 1

LEMMA PlannedGoes ==
    ASSUME Planned, pass # "parse", NEW n \in Nodes, NEW what, NEW ts, NEW a, NEW ks,
           NEW z, NEW w, Goes(n, what, ts, a, ks, z, w),
           n = 1 => what = "visit" \/ ts = <<>>
    PROVE  Planned'
<1>1. /\ IsSeq(agenda')
      /\ Len(ts) \in Nat /\ Len(agenda) \in Nat
      /\ DOMAIN ts = 1..Len(ts) /\ DOMAIN agenda = 1..Len(agenda)
      /\ Len(agenda') = Len(ts) + Len(agenda) - 1
      /\ DOMAIN agenda' = 1..(Len(ts) + Len(agenda) - 1)
      /\ \A k \in 1..Len(ts) : agenda'[k] = ts[k]
      /\ \A k \in (Len(ts) + 1)..(Len(ts) + Len(agenda) - 1) :
             agenda'[k] = agenda[k - Len(ts) + 1]
      /\ Head(agenda) = agenda[1] /\ 1 \in 1..Len(agenda)
  BY NextCalls DEF Planned, Goes, Fans
<1>2. /\ IsSeq(ts) /\ ks \in Seq(Nat) /\ a \in Nat /\ z \in {0, 1}
      /\ Len(ts) = a + Len(ks) + z
      /\ \A k \in 1..a : ts[k][1] \in {"param", "declare"} /\ ts[k][2] = n
      /\ \A k \in 1..Len(ks) : ts[a + k][1] = "visit" /\ ts[a + k][2] = ks[k]
      /\ z = 1 => ts[a + Len(ks) + 1][1] = w /\ ts[a + Len(ks) + 1][2] = n
  BY DEF Goes, Fans
<1>3. /\ pass' = pass /\ prog' = prog /\ IsProgram(prog)
      /\ Len(ks) \in Nat /\ DOMAIN ks = 1..Len(ks)
      /\ pass \notin Ends
  BY <1>2 DEF Goes, Planned
<1>4. \A t, u : t[1] = u[1] /\ t[2] = u[2] /\ Fits(pass, prog, t) => Fits(pass, prog, u)
  BY <1>3 DEF Fits, Nodes, Kind
<1>5. ASSUME NEW k \in 1..Len(ts)
      PROVE  Fits(pass, prog, ts[k]) /\ (ts[k][2] = 1 => n = 1 /\ k = Len(ts))
  <2>1. CASE k \in 1..a
    <3>1. Kind(n) = "Method" /\ pass = "collect" /\ n # 1
      BY <1>2, <1>3, <2>1 DEF Goes, IsProgram, Kind
    <3> QED
      BY <1>2, <1>3, <2>1, <3>1 DEF Fits, Nodes, Kind
  <2>2. CASE k \in (a + 1)..(a + Len(ks))
    <3>1. k - a \in 1..Len(ks) /\ k = a + (k - a)
      BY <1>2, <1>3, <2>2
    <3>2. ts[k][1] = "visit" /\ ts[k][2] = ks[k - a] /\ ks[k - a] \in Nodes /\ ks[k - a] # 1
      BY <1>2, <1>3, <3>1 DEF Goes
    <3> QED
      BY <1>3, <3>2 DEF Fits, Nodes
  <2>3. CASE z = 1 /\ k = a + Len(ks) + 1
    <3>1. ts[k][1] = w /\ ts[k][2] = n /\ Fits(pass, prog, <<w, n, 0>>)
      BY <1>2, <2>3 DEF Goes
    <3>2. <<w, n, 0>>[1] = w /\ <<w, n, 0>>[2] = n
      OBVIOUS
    <3> QED
      BY <1>2, <1>4, <2>3, <3>1, <3>2
  <2> QED
    BY <1>2, <1>3, <2>1, <2>2, <2>3
<1>6. CASE AtRoot
  <2>1. Len(agenda) = 1 /\ Len(agenda') = Len(ts)
    BY <1>1, <1>6 DEF AtRoot
  <2>2. \A k \in DOMAIN agenda' : Fits(pass, prog, agenda'[k]) /\ (agenda'[k][2] = 1 => k = Len(agenda'))
    <3> HIDE DEF Fits
    <3> QED
      BY <1>1, <1>5, <2>1
  <2> QED
    BY <1>1, <1>3, <2>2 DEF Planned, Fits, Ends
<1>7. CASE ~AtRoot
  <2>1. \A k \in DOMAIN agenda : Fits(pass, prog, agenda[k]) /\ (agenda[k][2] = 1 => k = Len(agenda))
    BY <1>7 DEF Planned
  <2>2. n = 1 => ts = <<>> /\ Len(agenda) = 1
    <3> SUFFICES ASSUME n = 1 PROVE ts = <<>> /\ Len(agenda) = 1
      OBVIOUS
    <3>1. agenda[1][2] = 1
      BY <1>1 DEF Goes
    <3>2. Len(agenda) = 1
      BY <1>1, <2>1, <3>1
    <3>3. Fits(pass, prog, agenda[1])
      BY <1>1, <2>1
    <3>4. what # "visit"
      BY <1>1, <3>1, <3>3 DEF Fits, Goes
    <3> QED
      BY <3>2, <3>4
  <2>3. ASSUME NEW k \in DOMAIN agenda'
        PROVE  Fits(pass, prog, agenda'[k]) /\ (agenda'[k][2] = 1 => k = Len(agenda'))
    <3>1. CASE k \in 1..Len(ts)
      <4>1. n # 1
        BY <2>2, <3>1
      <4> HIDE DEF Fits
      <4> QED
        BY <1>1, <1>5, <3>1, <4>1
    <3>2. CASE k \in (Len(ts) + 1)..(Len(ts) + Len(agenda) - 1)
      <4>1. k - Len(ts) + 1 \in DOMAIN agenda /\ agenda'[k] = agenda[k - Len(ts) + 1]
        BY <1>1, <3>2
      <4>2. Fits(pass, prog, agenda[k - Len(ts) + 1])
        BY <2>1, <4>1
      <4>3. Fits(pass, prog, agenda'[k])
        BY <1>4, <4>1, <4>2
      <4>4. agenda'[k][2] = 1 => k - Len(ts) + 1 = Len(agenda)
        BY <2>1, <4>1
      <4> HIDE DEF Fits
      <4> QED
        BY <1>1, <3>2, <4>3, <4>4
    <3> QED
      BY <1>1, <3>1, <3>2
  <2> QED
    BY <1>1, <1>3, <2>3 DEF Planned, Fits, Ends
<1> QED
  BY <1>6, <1>7

(* Every child is visited, or there are only expressions below n.          *)
Covers(n, what, a, ks, z) ==
    \/ /\ what = "visit" /\ ks = Kids(n)
       /\ z = 1 <=> Kind(n) \in Scoping
       /\ Kind(n) = "Method" => a # 0
    \/ /\ what = "visit" /\ ks = <<>> /\ z = 0 /\ Kind(n) \notin Scoping
       /\ \A i \in DOMAIN Kids(n) : Expression(Kid(n, i))
    \/ what # "visit" /\ ks = <<>> /\ z = 0

Collects(n) ==
    \/ CollectScope(n)
    \/ LeaveScope(n)
    \/ CollectMethodDecl(n)
    \/ \E i \in DOMAIN prog[n].params : CollectParam(n, i)
    \/ DeclareMethod(n)
    \/ CollectVarDecl(n)
    \/ CollectOther(n)

LEMMA CollectGoes ==
    ASSUME Planned, NEW n \in Pending, Collects(n)
    PROVE  /\ pass = "collect" /\ n \in Nodes
           /\ \E what, ts, a, ks, z :
                 /\ Goes(n, what, ts, a, ks, z, "leave")
                 /\ n = 1 => what = "visit" \/ ts = <<>>
                 /\ Covers(n, what, a, ks, z)
<1>1. n \in Nodes
  BY DEF Pending
<1>2. pass = "collect" /\ pass' = pass /\ prog' = prog
  BY DEF Collects, CollectScope, LeaveScope, CollectMethodDecl, CollectParam, DeclareMethod,
         CollectVarDecl, CollectOther, Doing, CollectorUnchanged
<1>3. IsProgram(prog)
  BY <1>2 DEF Planned
<1>4. /\ Kids(n) \in Seq(Nat) /\ Len(Kids(n)) \in Nat
      /\ \A i \in DOMAIN Kids(n) : Kids(n)[i] \in Nodes /\ Kids(n)[i] # 1
  BY <1>1, <1>3, KidsArePending
<1>5. <<"leave", n, 0>>[1] = "leave" /\ <<"leave", n, 0>>[2] = n
  OBVIOUS
<1>6. Kind(n) \in Scoping => Fits(pass, prog, <<"leave", n, 0>>)
  BY <1>1, <1>2, <1>5 DEF Fits, Scoping, Kind, Nodes
<1>7. CASE CollectScope(n)
  <2> DEFINE ts == Visits(Kids(n)) \o <<Task("leave", n, 0)>>
  <2>1. Fans(ts, n, 0, Kids(n), 1, "leave")
    BY <1>4, VisitsThenFan
  <2>2. Then(ts) /\ Kind(n) \in Scoping /\ Doing("collect", "visit", n, 0)
    BY <1>7 DEF CollectScope, Scoping
  <2> HIDE DEF ts
  <2>3. Goes(n, "visit", ts, 0, Kids(n), 1, "leave")
    BY <1>2, <1>4, <1>6, <2>1, <2>2, HeadIs DEF Goes
  <2> QED
    BY <1>1, <1>2, <1>7, <2>2, <2>3 DEF Covers, CollectScope
<1>8. CASE CollectMethodDecl(n)
  <2> DEFINE ps == prog[n].params
             ts == [i \in DOMAIN ps |-> Task("param", n, i)]
                   \o <<Task("declare", n, 0)>> \o Visits(Kids(n))
                   \o <<Task("leave", n, 0)>>
  <2>1. IsSeq(ps) /\ Len(ps) \in Nat /\ Len(ps) + 1 # 0
    <3>1. prog[n] \in Node
      BY <1>1, <1>3 DEF IsProgram, Nodes
    <3>2. ps \in Seq([name : Names, type : Types])
      BY <3>1 DEF Node
    <3> QED
      BY <3>2 DEF IsSeq
  <2>2. Fans(ts, n, Len(ps) + 1, Kids(n), 1, "leave")
    <3> HIDE DEF ps
    <3> QED
      BY <1>4, <2>1, ParamsFan
  <2>3. Then(ts) /\ Kind(n) = "Method" /\ Doing("collect", "visit", n, 0)
    BY <1>8 DEF CollectMethodDecl
  <2> HIDE DEF ts, ps
  <2>4. Kind(n) \in Scoping
    BY <2>3 DEF Scoping
  <2>5. Goes(n, "visit", ts, Len(ps) + 1, Kids(n), 1, "leave")
    BY <1>2, <1>4, <1>6, <2>2, <2>3, <2>4, HeadIs DEF Goes
  <2> QED
    BY <1>1, <1>2, <2>1, <2>4, <2>5 DEF Covers
<1>9. ASSUME NEW what, NEW i, Then(<<>>), Doing("collect", what, n, i),
             what = "visit" => /\ Kind(n) \notin Scoping
                               /\ \A j \in DOMAIN Kids(n) : Expression(Kid(n, j))
      PROVE  \E ts, a, ks, z : /\ Goes(n, what, ts, a, ks, z, "leave")
                               /\ n = 1 => what = "visit" \/ ts = <<>>
                               /\ Covers(n, what, a, ks, z)
  <2>1. Fans(<<>>, n, 0, <<>>, 0, "leave")
    BY NothingFans
  <2>2. Goes(n, what, <<>>, 0, <<>>, 0, "leave")
    BY <1>2, <1>9, <2>1, HeadIs DEF Goes
  <2> QED
    BY <1>9, <2>2 DEF Covers
<1>10. CASE LeaveScope(n)
  BY <1>1, <1>2, <1>9, <1>10 DEF LeaveScope
<1>11. CASE \E i \in DOMAIN prog[n].params : CollectParam(n, i)
  BY <1>1, <1>2, <1>9, <1>11 DEF CollectParam
<1>12. CASE DeclareMethod(n)
  BY <1>1, <1>2, <1>9, <1>12 DEF DeclareMethod
<1>13. CASE CollectVarDecl(n)
  <2>1. Kind(n) = "VarDecl" /\ Then(<<>>) /\ Doing("collect", "visit", n, 0)
    BY <1>13 DEF CollectVarDecl
  <2>2. Kind(n) \notin Scoping /\ \A j \in DOMAIN Kids(n) : Expression(Kid(n, j))
    BY <1>1, <1>3, <2>1, KindsOfKids DEF Scoping
  <2> QED
    BY <1>1, <1>2, <1>9, <2>1, <2>2
<1>14. CASE CollectOther(n)
  <2>1. /\ Kind(n) \notin {"Program", "Block", "Method", "VarDecl"}
        /\ Then(Visits(CollectedKids(n))) /\ Doing("collect", "visit", n, 0)
    BY <1>14 DEF CollectOther
  <2>2. Kind(n) \notin Scoping
    BY <2>1 DEF Scoping
  <2>3. CASE CollectedKids(n) = Kids(n)
    <3>1. Fans(Visits(Kids(n)), n, 0, Kids(n), 0, "leave")
      BY <1>4, VisitsFan
    <3>2. Goes(n, "visit", Visits(Kids(n)), 0, Kids(n), 0, "leave")
      BY <1>2, <1>4, <2>1, <2>3, <3>1, HeadIs DEF Goes
    <3> QED
      BY <1>1, <1>2, <2>1, <2>2, <3>2 DEF Covers
  <2>4. CASE CollectedKids(n) = <<>> /\ Kind(n) \notin {"If", "While"}
    <3>1. Visits(<<>>) = <<>>
      BY DEF Visits
    <3>2. \A j \in DOMAIN Kids(n) : Expression(Kid(n, j))
      BY <1>1, <1>3, <2>1, <2>4, KindsOfKids
    <3> QED
      BY <1>1, <1>2, <1>9, <2>1, <2>2, <2>4, <3>1, <3>2
  <2> QED
    BY <2>3, <2>4 DEF CollectedKids
<1> QED
  BY <1>7, <1>8, <1>10, <1>11, <1>12, <1>13, <1>14 DEF Collects

(* The resolver passes every child on, or there are only expressions below *)
(* n, and it passes on some of what is below.                              *)
PassesOn(n, what, ks, z) ==
    \/ /\ what = "visit" /\ ks = Kids(n)
       /\ z = 1 <=> Kind(n) \in {"Program", "Block"}
    \/ /\ what = "visit" /\ z = 0 /\ Kind(n) \notin Scoping
       /\ \A i \in DOMAIN Kids(n) : Expression(Kid(n, i))
       /\ \A i \in DOMAIN ks : n \in Path(prog, ks[i]) /\ n < ks[i]
       /\ \A i, j \in DOMAIN ks : i < j => ks[i] < ks[j]
    \/ what # "visit" /\ ks = <<>> /\ z = 0

Resolves(n) ==
    \/ ResolveScope(n)
    \/ ResolveLeave(n)
    \/ ResolveIdentifier(n)
    \/ ResolveUnknown(n)
    \/ ResolveOther(n)

LEMMA ResolveGoes ==
    ASSUME Planned, NEW n \in Pending, Resolves(n)
    PROVE  /\ pass = "resolve" /\ n \in Nodes
           /\ \/ ResolveIdentifier(n) /\ ctx.current = 0
              \/ \E what, ts, a, ks, z :
                    /\ Goes(n, what, ts, a, ks, z, "leave")
                    /\ n = 1 => what = "visit" \/ ts = <<>>
                    /\ PassesOn(n, what, ks, z)
<1>1. n \in Nodes
  BY DEF Pending
<1>2. pass = "resolve"
  BY DEF Resolves, ResolveScope, ResolveLeave, ResolveIdentifier, ResolveUnknown,
         ResolveOther, Doing
<1>3. IsProgram(prog)
  BY <1>2 DEF Planned
<1>4. /\ Kids(n) \in Seq(Nat) /\ Len(Kids(n)) \in Nat
      /\ \A i \in DOMAIN Kids(n) : Kids(n)[i] \in Nodes /\ Kids(n)[i] # 1
  BY <1>1, <1>3, KidsArePending
<1>5. <<"leave", n, 0>>[1] = "leave" /\ <<"leave", n, 0>>[2] = n
  OBVIOUS
<1>6. Kind(n) \in {"Program", "Block"} => Fits(pass, prog, <<"leave", n, 0>>)
  BY <1>1, <1>2, <1>5 DEF Fits, Kind, Nodes
<1>7. CASE ResolveScope(n)
  <2> DEFINE ts == Visits(Kids(n)) \o <<Task("leave", n, 0)>>
  <2>1. Fans(ts, n, 0, Kids(n), 1, "leave")
    BY <1>4, VisitsThenFan
  <2>2. /\ Then(ts) /\ Kind(n) \in {"Program", "Block"}
        /\ Doing("resolve", "visit", n, 0) /\ pass' = pass /\ prog' = prog
    BY <1>7 DEF ResolveScope, ResolverUnchanged
  <2> HIDE DEF ts
  <2>3. Goes(n, "visit", ts, 0, Kids(n), 1, "leave")
    BY <1>2, <1>4, <1>6, <2>1, <2>2, HeadIs DEF Goes
  <2> QED
    BY <1>1, <1>2, <2>2, <2>3 DEF PassesOn
<1>9. ASSUME NEW what, NEW i, Then(<<>>), Doing("resolve", what, n, i),
             pass' = pass, prog' = prog,
             what = "visit" => /\ Kind(n) \notin Scoping
                               /\ \A j \in DOMAIN Kids(n) : Expression(Kid(n, j))
      PROVE  \E ts, a, ks, z : /\ Goes(n, what, ts, a, ks, z, "leave")
                               /\ n = 1 => what = "visit" \/ ts = <<>>
                               /\ PassesOn(n, what, ks, z)
  <2>1. Fans(<<>>, n, 0, <<>>, 0, "leave")
    BY NothingFans
  <2>2. Goes(n, what, <<>>, 0, <<>>, 0, "leave")
    BY <1>2, <1>9, <2>1, HeadIs DEF Goes
  <2> QED
    BY <1>9, <2>2 DEF PassesOn
<1>10. CASE ResolveLeave(n)
  <2>1. /\ Then(<<>>) /\ Doing("resolve", "leave", n, 0) /\ pass' = pass /\ prog' = prog
    BY <1>10 DEF ResolveLeave, ResolverUnchanged
  <2> QED
    BY <1>1, <1>2, <1>9, <2>1
<1>11. CASE ResolveIdentifier(n) /\ ctx.current # 0
  <2>1. /\ Then(<<>>) /\ Doing("resolve", "visit", n, 0) /\ pass' = pass /\ prog' = prog
        /\ Kind(n) = "Ident"
    BY <1>11 DEF ResolveIdentifier
  <2>2. Kind(n) \notin Scoping /\ \A j \in DOMAIN Kids(n) : Expression(Kid(n, j))
    BY <1>1, <1>3, <2>1, KindsOfKids DEF Scoping
  <2> QED
    BY <1>1, <1>2, <1>9, <2>1, <2>2
<1>12. CASE ResolveUnknown(n)
  <2>1. /\ Then(<<>>) /\ Doing("resolve", "visit", n, 0) /\ pass' = pass /\ prog' = prog
        /\ Kind(n) = "Class"
    BY <1>12 DEF ResolveUnknown, ResolverUnchanged
  <2>2. Kind(n) \notin Scoping /\ \A j \in DOMAIN Kids(n) : Expression(Kid(n, j))
    BY <1>1, <1>3, <2>1, KindsOfKids DEF Scoping
  <2> QED
    BY <1>1, <1>2, <1>9, <2>1, <2>2
<1>13. CASE ResolveOther(n)
  <2>1. /\ Kind(n) \notin {"Program", "Block", "Ident", "Class"}
        /\ Then(Visits(ResolvedKids(n))) /\ Doing("resolve", "visit", n, 0)
        /\ pass' = pass /\ prog' = prog
    BY <1>13 DEF ResolveOther, ResolverUnchanged
  <2>2. CASE ResolvedKids(n) = Kids(n)
    <3>1. Fans(Visits(Kids(n)), n, 0, Kids(n), 0, "leave")
      BY <1>4, VisitsFan
    <3>2. Goes(n, "visit", Visits(Kids(n)), 0, Kids(n), 0, "leave")
      BY <1>2, <1>4, <2>1, <2>2, <3>1, HeadIs DEF Goes
    <3> QED
      BY <1>1, <1>2, <2>1, <3>2 DEF PassesOn
  <2>3. CASE ResolvedKids(n) = <<>> /\ Kind(n) \notin {"If", "While", "Method"}
    <3>1. Visits(<<>>) = <<>>
      BY DEF Visits
    <3>2. Kind(n) \notin Scoping /\ \A j \in DOMAIN Kids(n) : Expression(Kid(n, j))
      BY <1>1, <1>3, <2>1, <2>3, KindsOfKids DEF Scoping
    <3> QED
      BY <1>1, <1>2, <1>9, <2>1, <2>3, <3>1, <3>2
  <2>4. CASE Kind(n) = "Call"
    <3> DEFINE ks == [i \in DOMAIN Kids(n) |-> Kid(Kid(n, i), 1)]
    <3>1. ResolvedKids(n) = ks
      BY <2>4 DEF ResolvedKids
    <3>2. /\ ks \in Seq(Nat)
          /\ \A i \in DOMAIN ks : /\ ks[i] \in Nodes /\ ks[i] # 1 /\ n < ks[i]
                                  /\ n \in Path(prog, ks[i])
          /\ \A i, j \in DOMAIN ks : i < j => ks[i] < ks[j]
      BY <1>1, <1>3, <2>4, ArgumentsOf
    <3>3. Kind(n) \notin Scoping /\ \A j \in DOMAIN Kids(n) : Expression(Kid(n, j))
      BY <1>1, <1>3, <2>4, KindsOfKids DEF Scoping
    <3> HIDE DEF ks
    <3>4. Fans(Visits(ks), n, 0, ks, 0, "leave")
      BY <3>2, VisitsFan
    <3>5. Goes(n, "visit", Visits(ks), 0, ks, 0, "leave")
      BY <1>2, <2>1, <3>1, <3>2, <3>4, HeadIs DEF Goes
    <3>6. PassesOn(n, "visit", ks, 0)
      BY <3>2, <3>3 DEF PassesOn
    <3> QED
      BY <1>1, <1>2, <3>5, <3>6
  <2> QED
    BY <2>2, <2>3, <2>4 DEF ResolvedKids
<1> QED
  BY <1>1, <1>2, <1>7, <1>10, <1>11, <1>12, <1>13 DEF Resolves

(* What each operation of a context does to the scopes.                    *)
LEMMA ScopeIs ==
    ASSUME NEW c, Scoped(c), NEW t \in 1..Len(c.scopes)
    PROVE  /\ c.scopes[t] \in Scope
           /\ c.scopes[t].parent \in 0..(t - 1)
           /\ c.scopes[t].owner \in Nat
           /\ \A x \in Names : c.scopes[t].symbols[x] \in Symbol \union {NULL}
<1>1. c.scopes[t] \in Scope /\ c.scopes[t].parent < t
  BY DEF Scoped
<1>2. c.scopes[t].parent \in Nat
  BY <1>1, ParentIsNat
<1>3. Len(c.scopes) \in Nat
  BY DEF Scoped
<1>4. c.scopes[t].owner \in Nat /\ c.scopes[t].symbols \in [Names -> Symbol \union {NULL}]
  BY <1>1 DEF Scope
<1> QED
  BY <1>1, <1>2, <1>3, <1>4

LEMMA DeclareTree ==
    ASSUME NEW c, Scoped(c), Current(c), NEW x \in Names, NEW s
    PROVE  LET d == Declare(c, x, s)
           IN  /\ d.current = c.current /\ Len(d.scopes) = Len(c.scopes)
               /\ \A t \in 1..Len(c.scopes) :
                      /\ d.scopes[t].owner = c.scopes[t].owner
                      /\ d.scopes[t].parent = c.scopes[t].parent
                      /\ \A y \in Names :
                             d.scopes[t].symbols[y] =
                                 IF t = c.current /\ y = x /\ CanDeclare(c, x)
                                 THEN s ELSE c.scopes[t].symbols[y]
<1> DEFINE d == Declare(c, x, s)
           k == c.current
<1>1. CASE ~CanDeclare(c, x)
  BY <1>1 DEF Declare
<1>2. CASE CanDeclare(c, x)
  <2>1. k \in 1..Len(c.scopes) /\ c.scopes[k] \in Scope
    BY DEF Scoped, Current
  <2> DEFINE sc == [c.scopes[k] EXCEPT !.symbols[x] = s]
  <2>2. /\ sc.owner = c.scopes[k].owner
        /\ sc.parent = c.scopes[k].parent
        /\ \A y \in Names : sc.symbols[y] = IF y = x THEN s ELSE c.scopes[k].symbols[y]
    BY <2>1 DEF Scope
  <2>3. d = [c EXCEPT !.scopes[k].symbols[x] = s]
    BY <1>2 DEF Declare
  <2>4. d.current = c.current /\ d.scopes = [c.scopes EXCEPT ![k] = sc]
    BY <2>3 DEF Scoped
  <2>5. /\ Len(d.scopes) = Len(c.scopes)
        /\ d.scopes[k] = sc
        /\ \A t \in 1..Len(c.scopes) : t # k => d.scopes[t] = c.scopes[t]
    <3>1. c.scopes \in Seq(Scope)
      BY DEF Scoped
    <3> HIDE DEF sc, d
    <3> QED
      BY <2>1, <2>4, <3>1
  <2>6. \A t \in 1..Len(c.scopes) :
            /\ d.scopes[t].owner = c.scopes[t].owner
            /\ d.scopes[t].parent = c.scopes[t].parent
            /\ \A y \in Names : d.scopes[t].symbols[y] =
                                    IF t = k /\ y = x THEN s ELSE c.scopes[t].symbols[y]
    <3> HIDE DEF sc, d
    <3> QED
      BY <2>2, <2>5
  <2> HIDE DEF d
  <2> QED
    BY <1>2, <2>4, <2>5, <2>6 DEF d
<1> QED
  BY <1>1, <1>2

LEMMA PushTree ==
    ASSUME NEW c, Scoped(c), NEW n
    PROVE  LET d == PushScope(c, n)
               N == Len(c.scopes)
           IN  /\ N \in Nat /\ d.current = N + 1 /\ Len(d.scopes) = N + 1
               /\ \A t \in 1..N : d.scopes[t] = c.scopes[t]
               /\ d.scopes[N + 1].owner = n
               /\ d.scopes[N + 1].parent = c.current
               /\ \A y \in Names : d.scopes[N + 1].symbols[y] = NULL
<1> DEFINE sc == [parent |-> c.current, symbols |-> [x \in Names |-> NULL], owner |-> n]
           d == PushScope(c, n)
<1>1. sc.owner = n /\ sc.parent = c.current /\ \A y \in Names : sc.symbols[y] = NULL
  OBVIOUS
<1>2. d.scopes = Append(c.scopes, sc) /\ d.current = Len(c.scopes) + 1
  BY DEF PushScope
<1>3. c.scopes \in Seq(Scope) /\ IsSeq(c.scopes)
  BY DEF Scoped, IsSeq
<1> HIDE DEF sc, d
<1>4. /\ Len(d.scopes) = Len(c.scopes) + 1 /\ Len(c.scopes) \in Nat
      /\ \A t \in 1..Len(c.scopes) : d.scopes[t] = c.scopes[t]
      /\ d.scopes[Len(c.scopes) + 1] = sc
  BY <1>2, <1>3, AppendTo
<1> QED
  BY <1>1, <1>2, <1>4 DEF d

LEMMA PopTree ==
    ASSUME NEW c, Scoped(c), Current(c)
    PROVE  /\ PopScope(c).scopes = c.scopes
           /\ PopScope(c).current = IF c.scopes[c.current].parent = 0 THEN c.current
                                    ELSE c.scopes[c.current].parent
<1> DEFINE up == c.scopes[c.current].parent
<1>1. CASE up = 0
  BY <1>1 DEF PopScope
<1>2. CASE up # 0
  <2>1. PopScope(c) = [c EXCEPT !.current = up]
    BY <1>2 DEF PopScope
  <2>2. DOMAIN c = {"scopes", "current"}
    BY DEF Scoped
  <2> HIDE DEF up
  <2> QED
    BY <1>2, <2>1, <2>2 DEF up
<1> QED
  BY <1>1, <1>2

-----------------------------------------------------------------------------
(* The nodes that are met later on.                                        *)
Ahead(n) ==
    \E k \in DOMAIN agenda : agenda[k][1] = "visit" /\ agenda[k][2] \in Path(prog, n)

Declaring(n) ==
    \E k \in DOMAIN agenda : agenda[k][1] = "declare" /\ agenda[k][2] = n

LEMMA StillAhead ==
    ASSUME Planned, IsProgram(prog), NEW n \in Nodes, NEW what, NEW ts, NEW a, NEW ks,
           NEW z, Goes(n, what, ts, a, ks, z, "leave"), Covers(n, what, a, ks, z),
           NEW m \in Nodes, Kind(m) \in Scoping, Ahead(m)
    PROVE  Ahead(m)' \/ (m = n /\ what = "visit")
<1>1. /\ Len(ts) \in Nat /\ Len(agenda) \in Nat
      /\ DOMAIN ts = 1..Len(ts) /\ DOMAIN agenda = 1..Len(agenda)
      /\ DOMAIN agenda' = 1..(Len(ts) + Len(agenda) - 1)
      /\ \A k \in 1..Len(ts) : agenda'[k] = ts[k]
      /\ \A k \in (Len(ts) + 1)..(Len(ts) + Len(agenda) - 1) :
             agenda'[k] = agenda[k - Len(ts) + 1]
      /\ Head(agenda) = agenda[1] /\ 1 \in 1..Len(agenda)
  BY NextCalls DEF Planned, Goes, Fans
<1>2. /\ ks \in Seq(Nat) /\ a \in Nat /\ z \in {0, 1} /\ Len(ts) = a + Len(ks) + z
      /\ \A k \in 1..Len(ks) : ts[a + k][1] = "visit" /\ ts[a + k][2] = ks[k]
  BY DEF Goes, Fans
<1>3. prog' = prog /\ Len(ks) \in Nat
  BY <1>2 DEF Goes
<1>4. PICK k \in DOMAIN agenda : agenda[k][1] = "visit" /\ agenda[k][2] \in Path(prog, m)
  BY DEF Ahead
<1>5. CASE k # 1
  <2>1. \E j \in DOMAIN agenda' : agenda'[j] = agenda[k]
    BY <1>5, LaterCalls DEF Planned, Goes, Fans
  <2> QED
    BY <1>3, <1>4, <2>1 DEF Ahead
<1>6. CASE k = 1 /\ m # n
  <2>1. n \in Path(prog, m) /\ what = "visit"
    BY <1>1, <1>4, <1>6 DEF Goes
  <2>2. PICK i \in DOMAIN Kids(n) : Kid(n, i) \in Path(prog, m)
    BY <1>6, <2>1, PathsGoUp DEF Kids, Kid, Nodes
  <2>3. ~Expression(m)
    BY DEF Expression, ExprKinds, Scoping
  <2>4. ~Expression(Kid(n, i))
    BY <2>2, <2>3, InExpressions, KidsArePending
  <2>5. ks = Kids(n)
    BY <2>1, <2>2, <2>4 DEF Covers
  <2>6. i \in 1..Len(ks) /\ ks[i] = Kid(n, i)
    BY <2>2, <2>5, KidsArePending
  <2>7. a + i \in 1..Len(ts)
    BY <1>2, <1>3, <2>6
  <2>8. a + i \in DOMAIN agenda' /\ agenda'[a + i] = ts[a + i]
    BY <1>1, <2>7
  <2>9. agenda'[a + i][1] = "visit" /\ agenda'[a + i][2] \in Path(prog, m)
    BY <1>2, <2>2, <2>6, <2>8
  <2> QED
    BY <1>3, <2>8, <2>9 DEF Ahead
<1>7. CASE k = 1 /\ m = n
  BY <1>1, <1>4, <1>7 DEF Goes
<1> QED
  BY <1>5, <1>6, <1>7

LEMMA StillDeclaring ==
    ASSUME Planned, NEW n \in Nodes, NEW what, NEW ts, NEW a, NEW ks,
           NEW z, Goes(n, what, ts, a, ks, z, "leave"), NEW m, Declaring(m)
    PROVE  Declaring(m)' \/ (m = n /\ what = "declare")
<1>1. /\ Len(ts) \in Nat /\ Len(agenda) \in Nat
      /\ DOMAIN agenda = 1..Len(agenda)
      /\ DOMAIN agenda' = 1..(Len(ts) + Len(agenda) - 1)
      /\ \A k \in (Len(ts) + 1)..(Len(ts) + Len(agenda) - 1) :
             agenda'[k] = agenda[k - Len(ts) + 1]
      /\ Head(agenda) = agenda[1] /\ 1 \in 1..Len(agenda)
  BY NextCalls DEF Planned, Goes, Fans
<1>4. PICK k \in DOMAIN agenda : agenda[k][1] = "declare" /\ agenda[k][2] = m
  BY DEF Declaring
<1>5. CASE k # 1
  <2>1. \E j \in DOMAIN agenda' : agenda'[j] = agenda[k]
    BY <1>5, LaterCalls DEF Planned, Goes, Fans
  <2> QED
    BY <1>4, <2>1 DEF Declaring
<1>7. CASE k = 1
  BY <1>1, <1>4, <1>7 DEF Goes
<1> QED
  BY <1>5, <1>7

LEMMA NowDeclaring ==
    ASSUME Planned, NEW n \in Nodes, NEW what, NEW ts, NEW a, NEW ks,
           NEW z, Goes(n, what, ts, a, ks, z, "leave"), a # 0
    PROVE  Declaring(n)'
<1>1. /\ Len(ts) \in Nat /\ Len(agenda) \in Nat /\ 1 \in 1..Len(agenda)
      /\ DOMAIN agenda' = 1..(Len(ts) + Len(agenda) - 1)
      /\ \A k \in 1..Len(ts) : agenda'[k] = ts[k]
  <2>1. IsSeq(agenda) /\ agenda # <<>> /\ IsSeq(ts) /\ Then(ts)
    BY DEF Planned, Goes, Fans
  <2> QED
    BY <2>1, NextCalls
<1>2. /\ ks \in Seq(Nat) /\ a \in Nat /\ z \in {0, 1} /\ Len(ts) = a + Len(ks) + z
      /\ ts[a][1] = "declare"
      /\ \A k \in 1..a : ts[k][2] = n
  BY DEF Goes, Fans
<1>3. Len(ks) \in Nat
  BY <1>2
<1>4. a \in 1..Len(ts) /\ a \in 1..a /\ a \in 1..(Len(ts) + Len(agenda) - 1)
  BY <1>1, <1>2, <1>3
<1>5. agenda'[a][1] = "declare" /\ agenda'[a][2] = n /\ a \in DOMAIN agenda'
  BY <1>1, <1>2, <1>4
<1> QED
  BY <1>5 DEF Declaring

Declared(c, ref) == ref \in Refs(c) /\ SymbolAt(c, ref) # NULL

HasScope(c, s, n) == s \in 1..Len(c.scopes) /\ c.scopes[s].owner = n

(* A pointer that is set points to what is declared, a scope that is set   *)
(* is the node's own.                                                      *)
Placed ==
    /\ DOMAIN scopeOf = Nodes
    /\ ctx.current \in 0..Len(ctx.scopes)
    /\ \A n \in Nodes : symbolOf[n] \in Garbage \/ Declared(ctx, symbolOf[n])
    /\ \A n \in Nodes : scopeOf[n] \in Garbage \/ HasScope(ctx, scopeOf[n], n)
    /\ \A x \in Names : \A i \in DOMAIN methods[x] : Declared(ctx, methods[x][i].symbol)
    /\ currentFunction = NULL \/ Declared(ctx, currentFunction)

(* Every block has its scope and every method its symbol, or will have.    *)
Covered ==
    \A n \in Nodes :
        /\ Kind(n) \in {"Program", "Block"} => HasScope(ctx, scopeOf[n], n) \/ Ahead(n)
        /\ Kind(n) = "Method" => \/ Own(n) \/ ReportedBy("SymbolCollector")
                                 \/ Ahead(n) \/ Declaring(n)

Settled ==
    \A n \in Nodes :
        /\ Kind(n) \in {"Program", "Block"} => HasScope(ctx, scopeOf[n], n)
        /\ Kind(n) = "Method" => Own(n)

SettledInv ==
    /\ MethodsInv
    /\ Planned
    /\ Placed
    /\ pass = "collect" => Covered
    /\ pass \in {"resolve", "check"} => Settled

LEMMA CollectPlaces ==
    ASSUME MethodsInv, Planned, Placed, NEW n \in Pending, Collects(n)
    PROVE  /\ Placed'
           /\ \A m \in Nodes : HasScope(ctx, scopeOf[m], m) => HasScope(ctx', scopeOf'[m], m)
           /\ \A m \in Nodes : Kind(m) = "Method" /\ Own(m) => Own(m)'
           /\ Head(agenda)[1] = "visit" /\ Kind(n) \in {"Program", "Block"} =>
                  HasScope(ctx', scopeOf'[n], n)
           /\ Head(agenda)[1] = "declare" => Own(n)' \/ ReportedBy("SymbolCollector")'
           /\ errors \subseteq errors' /\ prog' = prog
<1>1. Collect
  BY DEF Collects, Collect
<1>2. /\ Scoped(ctx') /\ Current(ctx') /\ Grows /\ DOMAIN symbolOf' = Nodes
  BY <1>1, CollectKeeps
<1>3. pass = "collect" /\ prog' = prog /\ errors \subseteq errors' /\ Nodes' = Nodes
  BY <1>1, <1>2, CollectReports DEF Grows, Nodes
<1>4. Scoped(ctx) /\ n \in Nodes /\ prog \in Seq(Node) /\ DOMAIN symbolOf = Nodes
      /\ IsProgram(prog)
  BY <1>3 DEF MethodsInv, Pending, Rooted, Planned
<1>5. \A ref : Declared(ctx, ref) => Declared(ctx', ref)
  BY <1>2 DEF Grows, Declared
<1>6. currentFunction' = currentFunction
  BY DEF Collects, CollectScope, LeaveScope, CollectMethodDecl, CollectParam, DeclareMethod,
         CollectVarDecl, CollectOther, CollectorUnchanged
<1>7. ctx'.current \in 0..Len(ctx'.scopes)
  BY <1>2 DEF Current
<1>8. n \in Nat /\ Name(n) \in Names
  BY <1>4, NamesOfNodes
<1>9. ASSUME NEW m \in Nodes, Own(m), symbolOf'[m] = symbolOf[m]
      PROVE  Own(m)'
  BY <1>2, <1>3, <1>9 DEF Own, Grows, Name
<1>10. ASSUME \A m \in Nodes : symbolOf'[m] = symbolOf[m]
       PROVE  /\ \A m \in Nodes : symbolOf'[m] \in Garbage \/ Declared(ctx', symbolOf'[m])
              /\ \A m \in Nodes : Kind(m) = "Method" /\ Own(m) => Own(m)'
  BY <1>5, <1>9, <1>10 DEF Placed
<1>11. ASSUME methods' = methods
       PROVE  \A x \in Names : \A i \in DOMAIN methods'[x] :
                  Declared(ctx', methods'[x][i].symbol)
  BY <1>5, <1>11 DEF Placed
<1>12. ASSUME scopeOf' = scopeOf,
              /\ Len(ctx'.scopes) \in Nat /\ Len(ctx.scopes) \in Nat
              /\ Len(ctx'.scopes) >= Len(ctx.scopes)
              /\ \A s \in 1..Len(ctx.scopes) : ctx'.scopes[s].owner = ctx.scopes[s].owner
       PROVE  /\ \A m \in Nodes : HasScope(ctx, scopeOf[m], m) => HasScope(ctx', scopeOf'[m], m)
              /\ \A m \in Nodes : scopeOf'[m] \in Garbage \/ HasScope(ctx', scopeOf'[m], m)
              /\ DOMAIN scopeOf' = Nodes
  <2>1. \A s, m : HasScope(ctx, s, m) => HasScope(ctx', s, m)
    BY <1>12 DEF HasScope
  <2> QED
    BY <1>12, <2>1 DEF Placed
<1>13. Len(ctx.scopes) \in Nat
  BY <1>4 DEF Scoped
<1>14. CASE CollectScope(n)
  <2>1. /\ ctx' = PushScope(ctx, n) /\ scopeOf' = [scopeOf EXCEPT ![n] = ctx'.current]
        /\ UNCHANGED <<methods, symbolOf>> /\ Doing("collect", "visit", n, 0)
    BY <1>14 DEF CollectScope
  <2>2. /\ ctx'.current = Len(ctx.scopes) + 1 /\ Len(ctx'.scopes) = Len(ctx.scopes) + 1
        /\ \A t \in 1..Len(ctx.scopes) : ctx'.scopes[t] = ctx.scopes[t]
        /\ ctx'.scopes[Len(ctx.scopes) + 1].owner = n
    BY <1>4, <2>1, PushTree
  <2>3. HasScope(ctx', scopeOf'[n], n)
    <3>1. scopeOf'[n] = Len(ctx.scopes) + 1
      BY <1>4, <2>1, <2>2 DEF Placed
    <3> QED
      BY <1>13, <2>2, <3>1 DEF HasScope
  <2>4. \A s, m : HasScope(ctx, s, m) => HasScope(ctx', s, m)
    BY <1>13, <2>2 DEF HasScope
  <2>5. /\ \A m \in Nodes : HasScope(ctx, scopeOf[m], m) => HasScope(ctx', scopeOf'[m], m)
        /\ \A m \in Nodes : scopeOf'[m] \in Garbage \/ HasScope(ctx', scopeOf'[m], m)
        /\ DOMAIN scopeOf' = Nodes
    <3>1. \A m \in Nodes : m = n \/ scopeOf'[m] = scopeOf[m]
      BY <2>1 DEF Placed
    <3> QED
      BY <2>1, <2>3, <2>4, <3>1 DEF Placed
  <2>6. Head(agenda)[1] = "visit"
    BY <2>1, HeadIs
  <2> QED
    BY <1>3, <1>6, <1>5, <1>7, <1>10, <1>11, <2>1, <2>3, <2>5, <2>6 DEF Placed
<1>15. CASE CollectMethodDecl(n)
  <2>1. /\ ctx' = PushScope(ctx, n) /\ UNCHANGED <<methods, symbolOf, scopeOf>>
        /\ Doing("collect", "visit", n, 0) /\ Kind(n) = "Method"
    BY <1>15 DEF CollectMethodDecl
  <2>2. /\ Len(ctx'.scopes) = Len(ctx.scopes) + 1
        /\ \A t \in 1..Len(ctx.scopes) : ctx'.scopes[t] = ctx.scopes[t]
    BY <1>4, <2>1, PushTree
  <2>3. Head(agenda)[1] = "visit"
    BY <2>1, HeadIs
  <2> QED
    BY <1>3, <1>6, <1>5, <1>7, <1>10, <1>11, <1>12, <1>13, <2>1, <2>2, <2>3 DEF Placed
<1>16. CASE LeaveScope(n)
  <2>1. /\ UNCHANGED <<methods, symbolOf, scopeOf>> /\ Doing("collect", "leave", n, 0)
        /\ ctx' = PopScope(ctx)
    BY <1>16 DEF LeaveScope
  <2>2. Head(agenda)[1] = "leave"
    BY <2>1, HeadIs
  <2>3. Len(ctx'.scopes) >= Len(ctx.scopes) /\ Len(ctx'.scopes) \in Nat
        /\ \A s \in 1..Len(ctx.scopes) : ctx'.scopes[s].owner = ctx.scopes[s].owner
    <3>1. CASE ctx' = ctx
      BY <1>13, <3>1
    <3>2. CASE ctx'.scopes = ctx.scopes
      BY <1>13, <3>2
    <3>3. ctx' = ctx \/ ctx'.scopes = ctx.scopes
      BY <1>4, <2>1 DEF PopScope, Scoped
    <3> QED
      BY <3>1, <3>2, <3>3
  <2> QED
    BY <1>3, <1>6, <1>5, <1>7, <1>10, <1>11, <1>12, <1>13, <2>1, <2>2, <2>3 DEF Placed
<1>17. ASSUME NEW i \in DOMAIN prog[n].params, CollectParam(n, i)
       PROVE  /\ Placed'
              /\ \A m \in Nodes : HasScope(ctx, scopeOf[m], m) => HasScope(ctx', scopeOf'[m], m)
              /\ \A m \in Nodes : Kind(m) = "Method" /\ Own(m) => Own(m)'
              /\ Head(agenda)[1] = "param"
  <2>1. /\ UNCHANGED <<methods, symbolOf, scopeOf>> /\ Doing("collect", "param", n, i)
        /\ \E s : ctx' = Declare(ctx, prog[n].params[i].name, s)
    BY <1>17 DEF CollectParam
  <2>2. Head(agenda)[1] = "param"
    BY <2>1, HeadIs
  <2>3. prog[n].params[i].name \in Names
    BY <1>4, NamesOfNodes
  <2>4. Current(ctx)
    <3>1. ~AtRoot
      BY <2>2 DEF AtRoot, Task
    <3> QED
      BY <1>3, <2>1, <3>1 DEF MethodsInv, Begun, AtRoot, Doing
  <2>5. /\ Len(ctx'.scopes) = Len(ctx.scopes)
        /\ \A s \in 1..Len(ctx.scopes) : ctx'.scopes[s].owner = ctx.scopes[s].owner
    BY <1>4, <2>1, <2>3, <2>4, DeclareTree
  <2> QED
    BY <1>3, <1>6, <1>5, <1>7, <1>10, <1>11, <1>12, <1>13, <2>1, <2>2, <2>5 DEF Placed
<1>18. CASE CollectOther(n)
  <2>1. /\ UNCHANGED <<ctx, methods, symbolOf, scopeOf>> /\ Doing("collect", "visit", n, 0)
        /\ Kind(n) \notin {"Program", "Block"}
    BY <1>18 DEF CollectOther
  <2>2. Head(agenda)[1] = "visit"
    BY <2>1, HeadIs
  <2> QED
    BY <1>3, <1>6, <1>5, <1>7, <1>10, <1>11, <1>12, <1>13, <2>1, <2>2 DEF Placed
<1>19. CASE DeclareMethod(n)
  <2> DEFINE types == ParamTypes(n)
             ref == <<ctx.current, Name(n)>>
             s == [kind |-> "func", type |-> prog[n].type, params |-> types, decl |-> n]
  <2>1. Doing("collect", "declare", n, 0) /\ scopeOf' = scopeOf
    BY <1>19 DEF DeclareMethod
  <2>2. Head(agenda)[1] = "declare"
    BY <2>1, HeadIs
  <2>3. Current(ctx)
    <3>1. ~AtRoot
      BY <2>2 DEF AtRoot, Task
    <3> QED
      BY <1>3, <2>1, <3>1 DEF MethodsInv, Begun, AtRoot, Doing
  <2>4. CASE ~CanDeclare(ctx, Name(n))
    <3>1. UNCHANGED <<ctx, symbolOf, methods>>
          /\ Report("SymbolCollector", "Failed to declare method", n)
      BY <1>19, <2>4 DEF DeclareMethod
    <3>2. ReportedBy("SymbolCollector")'
      <4>1. <<"SymbolCollector", "Failed to declare method", n>> \in errors'
        BY <3>1 DEF Report
      <4> QED
        BY <4>1 DEF ReportedBy
    <3> QED
      BY <1>3, <1>6, <1>5, <1>7, <1>10, <1>11, <1>12, <1>13, <2>1, <2>2, <3>1, <3>2
         DEF Placed
  <2>5. CASE CanDeclare(ctx, Name(n))
    <3>1. /\ ctx' = Declare(ctx, Name(n), s)
          /\ symbolOf' = [symbolOf EXCEPT ![n] = ref]
          /\ methods' = AddMethod(methods, ref, types)
      BY <1>19, <2>5 DEF DeclareMethod
    <3>2. s \in Symbol
      BY <1>4, <1>8, NamesOfNodes DEF Symbol
    <3>3. /\ s # NULL /\ s.decl = n
      BY <3>2, ScopesAssumption
    <3>4. SymbolAt(ctx', ref) = s
      <4> HIDE DEF s
      <4> QED
        BY <1>4, <1>8, <2>3, <2>5, <3>1, <3>2, DeclareKeeps
    <3>5. ref \in Refs(ctx')
      BY <1>2, <1>8, <2>3 DEF Current, Refs, Grows
    <3>6. ref[2] = Name(n)
      OBVIOUS
    <3> HIDE DEF s, ref
    <3>7. Declared(ctx', ref)
      BY <3>3, <3>4, <3>5 DEF Declared
    <3>8. symbolOf'[n] = ref /\ \A m \in Nodes \ {n} : symbolOf'[m] = symbolOf[m]
      BY <1>4, <3>1
    <3>9. Own(n)'
      BY <1>3, <3>3, <3>4, <3>5, <3>6, <3>8 DEF Own, Name
    <3>10. \A m \in Nodes : symbolOf'[m] \in Garbage \/ Declared(ctx', symbolOf'[m])
      BY <1>5, <3>7, <3>8 DEF Placed
    <3>11. \A m \in Nodes : Kind(m) = "Method" /\ Own(m) => Own(m)'
      BY <1>9, <3>8, <3>9
    <3>12. \A x \in Names : \A i \in DOMAIN methods'[x] :
               Declared(ctx', methods'[x][i].symbol)
      <4>1. CASE HasOverload(methods, ref[2], types)
        BY <1>11, <3>1, <4>1 DEF AddMethod
      <4>2. CASE ~HasOverload(methods, ref[2], types)
        <5> DEFINE e == [symbol |-> ref, params |-> types]
        <5>1. e.symbol = ref
          OBVIOUS
        <5>2. methods' = [methods EXCEPT ![Name(n)] = Append(methods[Name(n)], e)]
          BY <3>1, <3>6, <4>2 DEF AddMethod
        <5> HIDE DEF e
        <5>3. /\ DOMAIN methods = Names /\ IsSeq(methods[Name(n)])
          BY <1>8 DEF MethodsInv, Tabled, IsSeq
        <5>4. methods'[Name(n)] = Append(methods[Name(n)], e)
              /\ \A x \in Names \ {Name(n)} : methods'[x] = methods[x]
          BY <1>8, <5>2, <5>3
        <5>5. \A i \in DOMAIN methods'[Name(n)] :
                 \/ methods'[Name(n)][i] = e
                 \/ i \in DOMAIN methods[Name(n)]
                    /\ methods'[Name(n)][i] = methods[Name(n)][i]
          <6> DEFINE q == methods[Name(n)]
                     r == methods'[Name(n)]
          <6>1. r = Append(q, e) /\ IsSeq(q)
            BY <5>3, <5>4
          <6> HIDE DEF q, r
          <6>2. /\ Len(q) \in Nat /\ DOMAIN q = 1..Len(q) /\ DOMAIN r = 1..(Len(q) + 1)
                /\ \A i \in 1..Len(q) : r[i] = q[i]
                /\ r[Len(q) + 1] = e
            BY <6>1, AppendTo
          <6>3. \A i \in DOMAIN r : r[i] = e \/ (i \in DOMAIN q /\ r[i] = q[i])
            BY <6>2
          <6> QED
            BY <6>3 DEF q, r
        <5>6. ASSUME NEW x \in Names, NEW i \in DOMAIN methods'[x]
              PROVE  Declared(ctx', methods'[x][i].symbol)
          <6>1. CASE x # Name(n)
            BY <1>5, <5>4, <6>1 DEF Placed
          <6>2. CASE x = Name(n)
            BY <1>5, <1>8, <3>7, <5>1, <5>5, <6>2 DEF Placed
          <6> QED
            BY <6>1, <6>2
        <5> QED
          BY <5>6
      <4> QED
        BY <4>1, <4>2
    <3>13. Len(ctx'.scopes) = Len(ctx.scopes)
           /\ \A t \in 1..Len(ctx.scopes) : ctx'.scopes[t].owner = ctx.scopes[t].owner
      BY <1>4, <1>8, <2>3, <3>1, DeclareTree
    <3>14. /\ \A m \in Nodes : HasScope(ctx, scopeOf[m], m) => HasScope(ctx', scopeOf'[m], m)
           /\ \A m \in Nodes : scopeOf'[m] \in Garbage \/ HasScope(ctx', scopeOf'[m], m)
           /\ DOMAIN scopeOf' = Nodes
      <4>1. Len(ctx'.scopes) \in Nat /\ Len(ctx'.scopes) >= Len(ctx.scopes)
        BY <1>13, <3>13
      <4> QED
        BY <1>12, <1>13, <2>1, <3>13, <4>1
    <3>15. currentFunction' = NULL \/ Declared(ctx', currentFunction')
      BY <1>5, <1>6 DEF Placed
    <3>16. Placed'
      BY <1>3, <1>7, <3>10, <3>12, <3>14, <3>15 DEF Placed
    <3> QED
      BY <1>3, <2>2, <3>9, <3>11, <3>14, <3>16
  <2> QED
    BY <2>4, <2>5
<1>20. CASE CollectVarDecl(n)
  <2> DEFINE s == [kind |-> "var", type |-> prog[n].type, params |-> <<>>, decl |-> n]
             ref == <<ctx.current, Name(n)>>
  <2>1. /\ UNCHANGED <<methods, scopeOf>> /\ Kind(n) = "VarDecl"
        /\ Doing("collect", "visit", n, 0)
    BY <1>20 DEF CollectVarDecl
  <2>2. Head(agenda)[1] = "visit"
    BY <2>1, HeadIs
  <2>3. Current(ctx)
    <3>1. ~AtRoot
      BY <1>4, <2>1 DEF AtRoot, Task, Doing, IsProgram, Kind
    <3> QED
      BY <1>3, <2>1, <3>1 DEF MethodsInv, Begun, AtRoot, Doing
  <2>4. CASE Lookup(ctx, Name(n)) # NULL
    <3>1. UNCHANGED <<ctx, symbolOf>>
      BY <1>20, <2>4 DEF CollectVarDecl
    <3> QED
      BY <1>3, <1>6, <1>5, <1>7, <1>10, <1>11, <1>12, <1>13, <2>1, <2>2, <3>1 DEF Placed
  <2>5. CASE Lookup(ctx, Name(n)) = NULL
    <3>1. ctx' = Declare(ctx, Name(n), s) /\ symbolOf' = [symbolOf EXCEPT ![n] = ref]
      BY <1>20, <2>5 DEF CollectVarDecl
    <3>2. s \in Symbol /\ s # NULL
      <4>1. s \in Symbol
        BY <1>4, <1>8, NamesOfNodes DEF Symbol
      <4> HIDE DEF s
      <4> QED
        BY <4>1, ScopesAssumption
    <3>3. CanDeclare(ctx, Name(n))
      <4>1. ctx.current \in 1..Len(ctx.scopes)
        BY <2>3 DEF Current
      <4>2. \A t \in 1..Len(ctx.scopes) : ctx.scopes[t].parent \in 0..(t - 1)
        BY <1>4, ScopeIs
      <4>3. \A t \in Chain(ctx, ctx.current) : ctx.scopes[t].symbols[Name(n)] = NULL
        BY <1>8, <1>13, <2>5, <4>1, <4>2, LookupFinds DEF Lookup
      <4>4. ctx.current \in Chain(ctx, ctx.current)
        BY <1>13, <4>1, <4>2, ChainIs
      <4> QED
        BY <4>3, <4>4 DEF CanDeclare
    <3>4. SymbolAt(ctx', ref) = s
      <4> HIDE DEF s
      <4> QED
        BY <1>4, <1>8, <2>3, <3>1, <3>2, <3>3, DeclareKeeps
    <3>5. ref \in Refs(ctx')
      BY <1>2, <1>8, <2>3 DEF Current, Refs, Grows
    <3> HIDE DEF s, ref
    <3>6. Declared(ctx', ref)
      BY <3>2, <3>4, <3>5 DEF Declared
    <3>7. symbolOf'[n] = ref /\ \A m \in Nodes \ {n} : symbolOf'[m] = symbolOf[m]
      BY <1>4, <3>1
    <3>8. \A m \in Nodes : symbolOf'[m] \in Garbage \/ Declared(ctx', symbolOf'[m])
      BY <1>5, <3>6, <3>7 DEF Placed
    <3>9. \A m \in Nodes : Kind(m) = "Method" /\ Own(m) => Own(m)'
      BY <1>9, <2>1, <3>7
    <3>10. Len(ctx'.scopes) = Len(ctx.scopes)
           /\ \A t \in 1..Len(ctx.scopes) : ctx'.scopes[t].owner = ctx.scopes[t].owner
      BY <1>4, <1>8, <2>3, <3>1, DeclareTree
    <3>11. /\ \A m \in Nodes : HasScope(ctx, scopeOf[m], m) => HasScope(ctx', scopeOf'[m], m)
           /\ \A m \in Nodes : scopeOf'[m] \in Garbage \/ HasScope(ctx', scopeOf'[m], m)
           /\ DOMAIN scopeOf' = Nodes
      <4>1. Len(ctx'.scopes) \in Nat /\ Len(ctx'.scopes) >= Len(ctx.scopes)
        BY <1>13, <3>10
      <4> QED
        BY <1>12, <1>13, <2>1, <3>10, <4>1
    <3>12. currentFunction' = NULL \/ Declared(ctx', currentFunction')
      BY <1>5, <1>6 DEF Placed
    <3>13. \A x \in Names : \A i \in DOMAIN methods'[x] :
               Declared(ctx', methods'[x][i].symbol)
      BY <1>11, <2>1
    <3>14. Placed'
      BY <1>3, <1>7, <3>8, <3>11, <3>12, <3>13 DEF Placed
    <3> QED
      BY <1>3, <2>1, <2>2, <3>9, <3>11, <3>14
  <2> QED
    BY <2>4, <2>5
<1> QED
  BY <1>3, <1>14, <1>15, <1>16, <1>17, <1>18, <1>19, <1>20 DEF Collects

Checks(n) ==
    \/ CheckScope(n)
    \/ CheckLeave(n)
    \/ CheckMethodDecl(n)
    \/ /\ \/ TestCondition(n)
          \/ CheckReturn(n)
          \/ ReturnType(n)
          \/ CheckLeaf(n)
          \/ CheckAssignment(n)
          \/ CheckChildren(n)
          \/ TypeExpression(n)
       /\ CheckerUnchanged
       /\ UNCHANGED <<ctx, currentFunction>>

(* The calls the checker makes for a node.                                 *)
Operated == {"VarDecl", "ExprStmt", "Binary", "Unary", "Call", "Arg", "Assign"}

Asks(n, what) ==
    \/ Then(<<>>)
    \/ /\ what = "visit" /\ Kind(n) \in {"Program", "Block"}
       /\ Then(Visits(Kids(n)) \o <<Task("leave", n, 0)>>)
    \/ what = "visit" /\ Kind(n) = "Method" /\ Then(Visits(Kids(n)))
    \/ /\ what = "visit" /\ Kind(n) = "Return"
       /\ Then(<<Task("visit", Kid(n, 1), 0), Task("return", n, 0)>>)
    \/ /\ what = "visit" /\ Kind(n) \in Operated
       /\ Then(Visits(Kids(n)) \o <<Task("type", n, 0)>>)
    \/ /\ what = "visit" /\ Kind(n) \in {"If", "While"}
       /\ Then(<<Task("visit", Kid(n, 1), 0), Task("test", n, 0)>>)
    \/ what = "test" /\ Kind(n) = "If" /\ Then(Visits(Tail(Kids(n))))

Asked(n) ==
    \E what : /\ Doing("check", what, n, 0)
              /\ \/ pass' = "crashed" /\ agenda' = <<>>
                 \/ pass' = pass /\ Asks(n, what)

LEMMA CheckAsks ==
    ASSUME NEW n \in Pending, Checks(n)
    PROVE  n \in Nodes /\ pass = "check" /\ prog' = prog /\ Asked(n)
<1>1. n \in Nodes
  BY DEF Pending
<1>2. Check
  BY DEF Check, Checks
<1>3. pass = "check" /\ prog' = prog
  BY <1>2, CheckReports DEF Checks, CheckScope, CheckLeave, CheckMethodDecl, CheckerUnchanged
<1>4. ASSUME NEW t, Typed(n, t) PROVE pass' = pass /\ Then(<<>>)
  BY <1>4 DEF Typed
<1>5. ASSUME NEW m, Untyped(n, m) PROVE pass' = pass /\ Then(<<>>)
  BY <1>5 DEF Untyped
<1>6. ASSUME Dies PROVE pass' = "crashed" /\ agenda' = <<>>
  BY <1>6 DEF Dies, Crash
<1>7. ASSUME NEW ts, Call(ts) PROVE pass' = pass /\ Then(ts)
  BY <1>7 DEF Call
<1>0. ASSUME NEW what, Doing("check", what, n, 0),
             \/ pass' = "crashed" /\ agenda' = <<>>
             \/ pass' = pass /\ Asks(n, what)
      PROVE  Asked(n)
  BY <1>0 DEF Asked
<1>18. pass' = pass /\ Then(<<>>) => \A what : pass' = pass /\ Asks(n, what)
  BY DEF Asks
<1>8. ASSUME CheckScope(n) PROVE Asked(n)
  <2>1. /\ Doing("check", "visit", n, 0) /\ Kind(n) \in {"Program", "Block"}
        /\ Call(Visits(Kids(n)) \o <<Task("leave", n, 0)>>)
    BY <1>8 DEF CheckScope
  <2>2. pass' = pass /\ Asks(n, "visit")
    BY <1>7, <2>1 DEF Asks
  <2> QED
    BY <1>0, <2>1, <2>2
<1>9. ASSUME CheckLeave(n) PROVE Asked(n)
  <2>1. Doing("check", "leave", n, 0) /\ Call(<<>>)
    BY <1>9 DEF CheckLeave
  <2> QED
    BY <1>0, <1>7, <1>18, <2>1
<1>10. ASSUME CheckMethodDecl(n) PROVE Asked(n)
  <2>1. /\ Doing("check", "visit", n, 0) /\ Kind(n) = "Method"
        /\ (\E m : Untyped(n, m)) \/ Call(Visits(Kids(n)))
    BY <1>10 DEF CheckMethodDecl
  <2>2. pass' = pass /\ Asks(n, "visit")
    BY <1>5, <1>7, <1>18, <2>1 DEF Asks
  <2> QED
    BY <1>0, <2>1, <2>2
<1>11. ASSUME TestCondition(n) PROVE Asked(n)
  <2>1. Doing("check", "test", n, 0)
    BY <1>11 DEF TestCondition
  <2>2. \/ Dies
        \/ pass' = pass /\ Then(<<>>)
        \/ Call(IF Kind(n) = "If" THEN Visits(Tail(Kids(n))) ELSE <<>>)
    BY <1>11 DEF TestCondition
  <2> QED
    <3>1. CASE Dies
      BY <1>0, <1>6, <2>1, <3>1
    <3>2. CASE ~Dies
      <4>1. pass' = pass /\ Asks(n, "test")
        BY <1>7, <1>18, <2>2, <3>2 DEF Asks
      <4> QED
        BY <1>0, <2>1, <4>1
    <3> QED
      BY <3>1, <3>2
<1>12. ASSUME CheckReturn(n) PROVE Asked(n)
  <2>1. Doing("check", "visit", n, 0) /\ Kind(n) = "Return"
    BY <1>12 DEF CheckReturn
  <2>2. \/ pass' = pass /\ Then(<<>>)
        \/ Call(<<Task("visit", Kid(n, 1), 0), Task("return", n, 0)>>)
    BY <1>12 DEF CheckReturn
  <2> QED
    <3>1. pass' = pass /\ Asks(n, "visit")
      BY <1>7, <1>18, <2>1, <2>2 DEF Asks
    <3> QED
      BY <1>0, <2>1, <3>1
<1>13. ASSUME ReturnType(n) PROVE Asked(n)
  <2>1. Doing("check", "return", n, 0) /\ pass' = pass /\ Then(<<>>)
    BY <1>13 DEF ReturnType
  <2> QED
    BY <1>0, <1>18, <2>1
<1>14. ASSUME CheckLeaf(n) PROVE Asked(n)
  <2>1. Doing("check", "visit", n, 0)
    BY <1>14 DEF CheckLeaf
  <2>2. (\E t : Typed(n, t)) \/ (\E m : Untyped(n, m)) \/ Dies
    BY <1>14 DEF CheckLeaf
  <2> QED
    BY <1>0, <1>4, <1>5, <1>6, <1>18, <2>1, <2>2
<1>15. ASSUME CheckAssignment(n) PROVE Asked(n)
  <2>1. Doing("check", "visit", n, 0) /\ Kind(n) = "Assign"
    BY <1>15 DEF CheckAssignment
  <2>2. (\E m : Untyped(n, m)) \/ Call(Visits(Kids(n)) \o <<Task("type", n, 0)>>)
    BY <1>15 DEF CheckAssignment
  <2> QED
    <3>1. pass' = pass /\ Asks(n, "visit")
      BY <1>5, <1>7, <1>18, <2>1, <2>2 DEF Asks, Operated
    <3> QED
      BY <1>0, <2>1, <3>1
<1>16. ASSUME CheckChildren(n) PROVE Asked(n)
  <2>1. pass' = pass /\ Asks(n, "visit")
    BY <1>7, <1>16 DEF CheckChildren, Asks, Operated
  <2>2. Doing("check", "visit", n, 0)
    BY <1>16 DEF CheckChildren
  <2> QED
    BY <1>0, <2>1, <2>2
<1>17. ASSUME TypeExpression(n) PROVE Asked(n)
  <2>1. Doing("check", "type", n, 0)
    BY <1>17 DEF TypeExpression
  <2>2. ASSUME TypeVarDecl(n) \/ TypeAssignment(n) \/ TypeBinary(n) \/ TypeUnary(n)
                   \/ TypeCall(n)
        PROVE  (\E t : Typed(n, t)) \/ (\E m : Untyped(n, m)) \/ Dies
    BY <2>2 DEF TypeVarDecl, TypeAssignment, TypeBinary, TypeUnary, TypeCall
  <2>3. ASSUME TypeExprStmt(n)
        PROVE  pass' = pass /\ Then(<<>>)
    BY <2>3 DEF TypeExprStmt
  <2>4. \/ TypeVarDecl(n) \/ TypeAssignment(n) \/ TypeBinary(n) \/ TypeUnary(n)
            \/ TypeCall(n)
        \/ \E t : Typed(n, t)
        \/ TypeExprStmt(n)
    BY <1>17 DEF TypeExpression
  <2> QED
    BY <1>0, <1>4, <1>5, <1>6, <1>18, <2>1, <2>2, <2>3, <2>4
<1> QED
  BY <1>1, <1>3, <1>8, <1>9, <1>10, <1>11, <1>12, <1>13, <1>14, <1>15, <1>16, <1>17
     DEF Checks

(* The children whose types are looked at afterwards are visited first.    *)
Supplies(n, ks, z, w) ==
    /\ z = 1 /\ w = "test" => \E i \in DOMAIN ks : ks[i] = Kid(n, 1)
    /\ z = 1 /\ w = "type" => \A j \in DOMAIN Kids(n) : \E i \in DOMAIN ks : ks[i] = Kid(n, j)

(* Which children are visited, and what comes after them.                  *)
Selects(n, what, ks, z, w) ==
    \/ ks = <<>> /\ z = 0
    \/ /\ what = "visit" /\ ks = Kids(n)
       /\ \/ z = 0 /\ Kind(n) = "Method"
          \/ z = 1 /\ w = "leave" /\ Kind(n) \in {"Program", "Block"}
          \/ z = 1 /\ w = "type" /\ Kind(n) \in Operated
    \/ /\ what = "visit" /\ ks = <<Kid(n, 1)>> /\ z = 1
       /\ \/ w = "return" /\ Kind(n) = "Return"
          \/ w = "test" /\ Kind(n) \in {"If", "While"}
    \/ what = "test" /\ Kind(n) = "If" /\ ks = Tail(Kids(n)) /\ z = 0

LEMMA CheckGoes ==
    ASSUME Planned, NEW n \in Pending, Checks(n)
    PROVE  /\ pass = "check" /\ n \in Nodes /\ prog' = prog
           /\ \/ pass' = "crashed" /\ agenda' = <<>>
              \/ \E what, ts, a, ks, z, w :
                    /\ Goes(n, what, ts, a, ks, z, w)
                    /\ n = 1 => what = "visit" \/ ts = <<>>
                    /\ Supplies(n, ks, z, w) /\ Selects(n, what, ks, z, w)
<1>1. n \in Nodes /\ pass = "check" /\ prog' = prog /\ Asked(n)
  BY CheckAsks
<1>2. IsProgram(prog)
  BY <1>1 DEF Planned
<1>3. /\ Kids(n) \in Seq(Nat) /\ Len(Kids(n)) \in Nat /\ DOMAIN Kids(n) = 1..Len(Kids(n))
      /\ \A i \in DOMAIN Kids(n) : Kids(n)[i] \in Nodes /\ Kids(n)[i] # 1
                                   /\ Kids(n)[i] = Kid(n, i)
  BY <1>1, <1>2, KidsArePending
<1>4. PICK what : /\ Doing("check", what, n, 0)
                  /\ \/ pass' = "crashed" /\ agenda' = <<>>
                     \/ pass' = pass /\ Asks(n, what)
  BY <1>1 DEF Asked
<1> DEFINE G == \E ts, a, ks, z, w : /\ Goes(n, what, ts, a, ks, z, w)
                                     /\ n = 1 => what = "visit" \/ ts = <<>>
                                     /\ Supplies(n, ks, z, w)
                                     /\ Selects(n, what, ks, z, w)
<1>5. agenda # <<>> /\ Head(agenda)[1] = what /\ Head(agenda)[2] = n
  BY <1>4, HeadIs
<1>6. ASSUME pass' = pass, NEW ts, NEW ks, NEW z, NEW w, Then(ts), Fans(ts, n, 0, ks, z, w),
             z = 1 => Fits("check", prog, Task(w, n, 0)) /\ w # "visit",
             what # "visit" => z = 0,
             \A i \in DOMAIN ks : ks[i] \in Nodes /\ ks[i] # 1,
             n = 1 => what = "visit" \/ ts = <<>>, Supplies(n, ks, z, w),
             Selects(n, what, ks, z, w)
      PROVE  G
  <2>1. Goes(n, what, ts, 0, ks, z, w)
    BY <1>1, <1>5, <1>6 DEF Goes, Task
  <2> QED
    BY <1>6, <2>1
<1> HIDE DEF G
<1>7. \A w : Task(w, n, 0)[1] = w /\ Task(w, n, 0)[2] = n
  BY DEF Task
<1>8. Kind(1) = "Program"
  BY <1>2 DEF IsProgram, Kind
<1>9. ASSUME pass' = pass, Then(<<>>)
      PROVE  G
  <2>1. Fans(<<>>, n, 0, <<>>, 0, "leave")
    BY NothingFans
  <2> QED
    BY <1>6, <1>9, <2>1 DEF Supplies, Selects
<1>10. ASSUME pass' = pass, NEW w, Fits("check", prog, Task(w, n, 0)), w \notin {"visit", "test"},
              what = "visit", Selects(n, what, Kids(n), 1, w),
              Then(Visits(Kids(n)) \o <<Task(w, n, 0)>>)
       PROVE  G
  <2>1. Fans(Visits(Kids(n)) \o <<Task(w, n, 0)>>, n, 0, Kids(n), 1, w)
    BY <1>3, VisitsThenFan
  <2> QED
    <3>1. Supplies(n, Kids(n), 1, w)
      BY <1>3, <1>10 DEF Supplies
    <3> QED
      BY <1>3, <1>6, <1>10, <2>1, <3>1
<1>11. ASSUME pass' = pass, NEW w, Fits("check", prog, Task(w, n, 0)), w \notin {"visit", "type"},
              what = "visit", 1 \in DOMAIN Kids(n), Selects(n, what, <<Kid(n, 1)>>, 1, w),
              Then(<<Task("visit", Kid(n, 1), 0), Task(w, n, 0)>>)
       PROVE  G
  <2> DEFINE ts == <<Task("visit", Kid(n, 1), 0), Task(w, n, 0)>>
  <2>1. Kid(n, 1) \in Nat /\ Kid(n, 1) \in Nodes /\ Kid(n, 1) # 1
    BY <1>3, <1>11
  <2>2. Fans(ts, n, 0, <<Kid(n, 1)>>, 1, w)
    BY <2>1, VisitThenFan
  <2>3. \A i \in DOMAIN <<Kid(n, 1)>> : <<Kid(n, 1)>>[i] = Kid(n, 1)
    OBVIOUS
  <2>4. Then(ts)
    BY <1>11
  <2> HIDE DEF ts
  <2> QED
    <3>1. Supplies(n, <<Kid(n, 1)>>, 1, w)
      <4>1. 1 \in DOMAIN <<Kid(n, 1)>>
        OBVIOUS
      <4> QED
        BY <1>11, <2>3, <4>1 DEF Supplies
    <3> QED
      BY <1>6, <1>11, <2>1, <2>2, <2>3, <2>4, <3>1
<1>12. ASSUME pass' = pass, NEW ks \in Seq(Nat), Then(Visits(ks)), n # 1,
              \A i \in DOMAIN ks : ks[i] \in Nodes /\ ks[i] # 1,
              Selects(n, what, ks, 0, "leave")
       PROVE  G
  <2>1. Fans(Visits(ks), n, 0, ks, 0, "leave")
    BY <1>12, VisitsFan
  <2> QED
    BY <1>6, <1>12, <2>1 DEF Supplies
<1>13. Kind(n) \in {"Program", "Block"} => Fits("check", prog, Task("leave", n, 0))
  BY <1>1, <1>7 DEF Fits, Kind, Nodes
<1>14. Kind(n) = "Return" => Fits("check", prog, Task("return", n, 0))
  BY <1>1, <1>7 DEF Fits, Kind, Nodes
<1>15. Kind(n) \in Operated => Fits("check", prog, Task("type", n, 0))
  BY <1>1, <1>7 DEF Fits, Kind, Nodes, Operated
<1>16. Kind(n) \in {"If", "While"} => Fits("check", prog, Task("test", n, 0))
  BY <1>1, <1>7 DEF Fits, Kind, Nodes
<1>17. Kind(n) \in {"If", "While", "Return"} => 1 \in DOMAIN Kids(n)
  BY <1>1, <1>2, KindsOfKids
<1>18. Kind(n) = "If" => /\ Tail(Kids(n)) \in Seq(Nat)
                         /\ \A i \in DOMAIN Tail(Kids(n)) :
                                Tail(Kids(n))[i] \in Nodes /\ Tail(Kids(n))[i] # 1
  <2> SUFFICES ASSUME Kind(n) = "If"
               PROVE  /\ Tail(Kids(n)) \in Seq(Nat)
                      /\ \A i \in DOMAIN Tail(Kids(n)) :
                             Tail(Kids(n))[i] \in Nodes /\ Tail(Kids(n))[i] # 1
    OBVIOUS
  <2> PICK q : q = Kids(n)
    OBVIOUS
  <2>1. q \in Seq(Nat) /\ q # <<>>
    BY <1>3, <1>17
  <2>2. Tail(q) \in Seq(Nat) /\ Len(Tail(q)) = Len(q) - 1
        /\ \A i \in 1..(Len(q) - 1) : Tail(q)[i] = q[i + 1]
    BY <2>1
  <2>3. DOMAIN Tail(q) = 1..(Len(q) - 1) /\ \A i \in 1..(Len(q) - 1) : i + 1 \in DOMAIN q
    BY <1>3, <2>2
  <2> QED
    BY <1>3, <2>2, <2>3
<1>19. pass' = pass /\ Asks(n, what) => G
  <2> SUFFICES ASSUME pass' = pass, Asks(n, what) PROVE G
    OBVIOUS
  <2>1. CASE Then(<<>>)
    BY <1>9, <2>1
  <2>2. CASE /\ what = "visit" /\ Kind(n) \in {"Program", "Block"}
             /\ Then(Visits(Kids(n)) \o <<Task("leave", n, 0)>>)
    BY <1>10, <1>13, <2>2 DEF Selects
  <2>3. CASE what = "visit" /\ Kind(n) = "Method" /\ Then(Visits(Kids(n)))
    BY <1>3, <1>8, <1>12, <2>3 DEF Selects
  <2>4. CASE /\ what = "visit" /\ Kind(n) = "Return"
             /\ Then(<<Task("visit", Kid(n, 1), 0), Task("return", n, 0)>>)
    BY <1>11, <1>14, <1>17, <2>4 DEF Selects
  <2>5. CASE /\ what = "visit" /\ Kind(n) \in Operated
             /\ Then(Visits(Kids(n)) \o <<Task("type", n, 0)>>)
    BY <1>10, <1>15, <2>5 DEF Selects
  <2>6. CASE /\ what = "visit" /\ Kind(n) \in {"If", "While"}
             /\ Then(<<Task("visit", Kid(n, 1), 0), Task("test", n, 0)>>)
    BY <1>11, <1>16, <1>17, <2>6 DEF Selects
  <2>7. CASE what = "test" /\ Kind(n) = "If" /\ Then(Visits(Tail(Kids(n))))
    BY <1>8, <1>12, <1>18, <2>7 DEF Selects
  <2> QED
    BY <2>1, <2>2, <2>3, <2>4, <2>5, <2>6, <2>7 DEF Asks
<1> QED
  BY <1>1, <1>4, <1>19 DEF G

(* What is pending fits the tree, whatever handler runs.                   *)
LEMMA AnalysisPlanned ==
    ASSUME Planned, Analysis
    PROVE  Planned' /\ prog' = prog /\ pass # "parse" /\ pass' # "parse"
<1>3. IsSeq(<<>>) /\ DOMAIN <<>> = {}
  BY NothingIsASequence
<1>1. CASE Collect
  <2>1. PICK n \in Pending : Collects(n)
    BY <1>1 DEF Collect, Collects
  <2>2. pass = "collect" /\ n \in Nodes
    BY <2>1, CollectGoes
  <2>3. PICK what, ts, a, ks, z : /\ Goes(n, what, ts, a, ks, z, "leave")
                                  /\ n = 1 => what = "visit" \/ ts = <<>>
    BY <2>1, CollectGoes
  <2>4. Planned'
    BY <2>2, <2>3, PlannedGoes
  <2> QED
    BY <2>2, <2>3, <2>4 DEF Goes
<1>2. CASE Resolve
  <2>1. PICK n \in Pending : Resolves(n)
    BY <1>2 DEF Resolve, Resolves
  <2>2. pass = "resolve" /\ n \in Nodes
    BY <2>1, ResolveGoes
  <2>3. CASE ResolveIdentifier(n) /\ ctx.current = 0
    <3>1. pass' = "crashed" /\ agenda' = <<>> /\ prog' = prog
      BY <2>3 DEF ResolveIdentifier, Crash
    <3> QED
      BY <1>3, <2>2, <3>1 DEF Planned
  <2>4. CASE \E what, ts, a, ks, z : /\ Goes(n, what, ts, a, ks, z, "leave")
                                     /\ n = 1 => what = "visit" \/ ts = <<>>
    <3>1. PICK what, ts, a, ks, z : /\ Goes(n, what, ts, a, ks, z, "leave")
                                    /\ n = 1 => what = "visit" \/ ts = <<>>
      BY <2>4
    <3>2. Planned'
      BY <2>2, <3>1, PlannedGoes
    <3> QED
      BY <2>2, <3>1, <3>2 DEF Goes
  <2> QED
    BY <2>1, <2>3, <2>4, ResolveGoes
<1>4. CASE Check
  <2>1. PICK n \in Pending : Checks(n)
    BY <1>4 DEF Check, Checks
  <2>2. pass = "check" /\ n \in Nodes /\ prog' = prog
    BY <2>1, CheckGoes
  <2>3. CASE pass' = "crashed" /\ agenda' = <<>>
    BY <1>3, <2>2, <2>3 DEF Planned
  <2>4. CASE \E what, ts, a, ks, z, w : /\ Goes(n, what, ts, a, ks, z, w)
                                        /\ n = 1 => what = "visit" \/ ts = <<>>
    <3>1. PICK what, ts, a, ks, z, w : /\ Goes(n, what, ts, a, ks, z, w)
                                       /\ n = 1 => what = "visit" \/ ts = <<>>
      BY <2>4
    <3>2. Planned'
      BY <2>2, <3>1, PlannedGoes
    <3> QED
      BY <2>2, <3>1, <3>2 DEF Goes
  <2> QED
    BY <2>1, <2>3, <2>4, CheckGoes
<1>5. CASE AfterCollector \/ AfterResolver \/ AfterChecker
  <2>1. /\ prog' = prog /\ pass \in {"collect", "resolve", "check"}
        /\ \/ pass' \in Ends /\ agenda' = <<>>
           \/ pass' \in {"resolve", "check"} /\ AtRoot'
    BY <1>5 DEF AfterCollector, AfterResolver, AfterChecker, PassOver, Finish, Begin,
                AtRoot, Ends
  <2>2. IsProgram(prog)
    BY <2>1 DEF Planned
  <2>3. CASE pass' \in Ends /\ agenda' = <<>>
    BY <1>3, <2>1, <2>2, <2>3 DEF Planned, Ends
  <2>4. CASE pass' \in {"resolve", "check"} /\ AtRoot'
    <3>1. IsSeq(agenda') /\ agenda' # <<>>
      BY <2>4, OneTask DEF AtRoot
    <3> QED
      BY <2>1, <2>2, <2>4, <3>1 DEF Planned, Ends
  <2> QED
    BY <2>1, <2>3, <2>4 DEF Ends
<1> QED
  BY <1>1, <1>2, <1>4, <1>5 DEF Analysis

LEMMA ParserPlanned ==
    ASSUME NEW tree, IsProgram(tree), Analyze(tree)
    PROVE  Planned' /\ IsProgram(prog')
<1>2. IsProgram(prog') /\ pass' = "collect" /\ AtRoot'
  BY DEF Analyze, AtRoot
<1>3. IsSeq(agenda') /\ agenda' # <<>>
  BY <1>2, OneTask DEF AtRoot
<1> QED
  BY <1>2, <1>3 DEF Planned, Ends

LEMMA CollectCovers ==
    ASSUME SettledInv, Collect
    PROVE  Placed' /\ Covered'
<1>1. PICK n \in Pending : Collects(n)
  BY DEF Collect, Collects
<1>2. MethodsInv /\ Planned /\ Placed /\ Covered /\ pass = "collect" /\ n \in Nodes
  BY <1>1, CollectGoes DEF SettledInv
<1>3. IsProgram(prog)
  BY <1>2 DEF Planned
<1>4. PICK what, ts, a, ks, z : /\ Goes(n, what, ts, a, ks, z, "leave")
                                /\ Covers(n, what, a, ks, z)
  BY <1>1, <1>2, CollectGoes
<1>5. /\ Placed'
      /\ \A m \in Nodes : HasScope(ctx, scopeOf[m], m) => HasScope(ctx', scopeOf'[m], m)
      /\ \A m \in Nodes : Kind(m) = "Method" /\ Own(m) => Own(m)'
      /\ what = "visit" /\ Kind(n) \in {"Program", "Block"} => HasScope(ctx', scopeOf'[n], n)
      /\ what = "declare" => Own(n)' \/ ReportedBy("SymbolCollector")'
      /\ errors \subseteq errors' /\ prog' = prog
  <2>1. Head(agenda)[1] = what
    BY <1>4 DEF Goes
  <2> QED
    BY <1>1, <1>2, <2>1, CollectPlaces
<1>6. ReportedBy("SymbolCollector") => ReportedBy("SymbolCollector")'
  BY <1>5 DEF ReportedBy
<1>7. ASSUME NEW m \in Nodes, Kind(m) \in {"Program", "Block"}
      PROVE  HasScope(ctx', scopeOf'[m], m) \/ Ahead(m)'
  <2>1. HasScope(ctx, scopeOf[m], m) \/ Ahead(m)
    BY <1>2, <1>7 DEF Covered
  <2>2. Ahead(m) => Ahead(m)' \/ (m = n /\ what = "visit")
    BY <1>2, <1>3, <1>4, <1>7, StillAhead DEF Scoping
  <2> QED
    BY <1>5, <1>7, <2>1, <2>2
<1>8. ASSUME NEW m \in Nodes, Kind(m) = "Method"
      PROVE  \/ Own(m)' \/ ReportedBy("SymbolCollector")'
             \/ Ahead(m)' \/ Declaring(m)'
  <2>1. Own(m) \/ ReportedBy("SymbolCollector") \/ Ahead(m) \/ Declaring(m)
    BY <1>2, <1>8 DEF Covered
  <2>2. Ahead(m) => Ahead(m)' \/ (m = n /\ what = "visit")
    BY <1>2, <1>3, <1>4, <1>8, StillAhead DEF Scoping
  <2>3. m = n /\ what = "visit" => Declaring(m)'
    <3>1. m = n /\ what = "visit" => a # 0
      BY <1>4, <1>8 DEF Covers, Scoping
    <3> QED
      BY <1>2, <1>4, <3>1, NowDeclaring
  <2>4. Declaring(m) => Declaring(m)' \/ (m = n /\ what = "declare")
    BY <1>2, <1>4, StillDeclaring
  <2> QED
    BY <1>5, <1>6, <1>8, <2>1, <2>2, <2>3, <2>4
<1>9. Nodes' = Nodes /\ \A m \in Nodes : Kind(m)' = Kind(m)
  BY <1>5 DEF Nodes, Kind
<1>10. Covered'
  BY <1>7, <1>8, <1>9 DEF Covered
<1> QED
  BY <1>5, <1>10

(* After the collector the scopes and the declarations stay.               *)
LEMMA StillSettled ==
    ASSUME MethodsInv, Placed, Still
    PROVE  /\ \A ref : Declared(ctx, ref) => Declared(ctx', ref)
           /\ \A s, m : HasScope(ctx, s, m) => HasScope(ctx', s, m)
           /\ \A m \in Nodes : Kind(m) = "Method" /\ Own(m) => Own(m)'
           /\ \A x \in Names : \A i \in DOMAIN methods'[x] :
                  Declared(ctx', methods'[x][i].symbol)
           /\ Nodes' = Nodes /\ \A m \in Nodes : Kind(m)' = Kind(m)
<1>1. /\ UNCHANGED <<prog, methods>> /\ ctx'.scopes = ctx.scopes
      /\ \A m \in Nodes : Kind(m) = "Method" => symbolOf'[m] = symbolOf[m]
  BY DEF Still
<1>2. \A ref : Declared(ctx, ref) => Declared(ctx', ref)
  BY <1>1 DEF Declared, Refs, SymbolAt
<1>3. \A s, m : HasScope(ctx, s, m) => HasScope(ctx', s, m)
  BY <1>1 DEF HasScope
<1>4. Nodes' = Nodes /\ \A m \in Nodes : Kind(m)' = Kind(m)
  BY <1>1 DEF Nodes, Kind
<1>5. \A m \in Nodes : Kind(m) = "Method" /\ Own(m) => Own(m)'
  BY <1>1 DEF Own, Refs, SymbolAt, Name
<1>6. \A x \in Names : \A i \in DOMAIN methods'[x] : Declared(ctx', methods'[x][i].symbol)
  BY <1>1, <1>2 DEF Placed
<1> QED
  BY <1>2, <1>3, <1>4, <1>5, <1>6

LEMMA StillSettles ==
    ASSUME MethodsInv, Settled, Placed, Still, scopeOf' = scopeOf
    PROVE  Settled'
BY StillSettled DEF Settled

LEMMA OwnScope ==
    ASSUME Placed, Settled, NEW n \in Nodes, Kind(n) \in {"Program", "Block"}
    PROVE  HasScope(ctx, scopeOf[n], n)
BY DEF Settled

LEMMA LeavesScope ==
    ASSUME Planned, NEW n \in Nodes, NEW p \in {"resolve", "check"}, NEW i,
           Doing(p, "leave", n, i)
    PROVE  Kind(n) \in {"Program", "Block"}
<1>1. pass = p /\ agenda # <<>> /\ Head(agenda) = <<"leave", n, i>>
  BY DEF Doing, Task
<1>2. ~AtRoot
  BY <1>1 DEF AtRoot, Task
<1>3. IsSeq(agenda) /\ Head(agenda) = agenda[1] /\ 1 \in DOMAIN agenda
  <2>1. IsSeq(agenda)
    BY DEF Planned
  <2> QED
    BY <1>1, <2>1 DEF IsSeq
<1>4. Fits(pass, prog, agenda[1])
  BY <1>2, <1>3 DEF Planned
<1>5. agenda[1][1] = "leave" /\ agenda[1][2] = n
  BY <1>1, <1>3
<1> QED
  BY <1>1, <1>4, <1>5 DEF Fits, Kind

LEMMA ResolveSettles ==
    ASSUME MethodsInv, Planned, Placed, Settled, Resolve
    PROVE  Placed' /\ Settled'
<1>1. PICK n \in Pending : Resolves(n)
  BY DEF Resolve, Resolves
<1>2. n \in Nodes /\ pass = "resolve"
  BY <1>1, ResolveGoes
<1>3. Still
  BY ResolveStill DEF MethodsInv
<1>4. scopeOf' = scopeOf /\ currentFunction' = currentFunction
  BY <1>1 DEF Resolves, ResolveScope, ResolveLeave, ResolveIdentifier, ResolveUnknown,
              ResolveOther, ResolverUnchanged
<1>5. Settled'
  BY <1>3, <1>4, StillSettles
<1>6. Scoped(ctx) /\ Len(ctx.scopes) \in Nat /\ ctx'.scopes = ctx.scopes
  BY <1>3 DEF MethodsInv, Scoped, Still
<1>7. \A t \in 1..Len(ctx.scopes) : ctx.scopes[t].parent \in 0..(t - 1)
  BY <1>6, ScopeIs
<1>8. ctx'.current \in 0..Len(ctx'.scopes)
  <2>1. CASE ResolveScope(n)
    <3>1. Kind(n) \in {"Program", "Block"} /\ ctx' = SetCurrent(ctx, scopeOf[n])
      BY <2>1 DEF ResolveScope
    <3>2. scopeOf[n] \in 1..Len(ctx.scopes)
      BY <1>2, <3>1, OwnScope DEF HasScope
    <3>3. ctx'.current = scopeOf[n]
      BY <1>6, <3>1 DEF SetCurrent, Scoped
    <3> QED
      BY <1>6, <3>2, <3>3
  <2>2. CASE ResolveLeave(n)
    <3>1. Doing("resolve", "leave", n, 0)
          /\ ctx' = SetCurrent(ctx, ctx.scopes[scopeOf[n]].parent)
      BY <2>2 DEF ResolveLeave
    <3>2. Kind(n) \in {"Program", "Block"}
      BY <1>2, <3>1, LeavesScope
    <3>3. scopeOf[n] \in 1..Len(ctx.scopes)
      BY <1>2, <3>2, OwnScope DEF HasScope
    <3>4. ctx'.current = ctx.scopes[scopeOf[n]].parent
      BY <1>6, <3>1 DEF SetCurrent, Scoped
    <3> QED
      BY <1>6, <1>7, <3>3, <3>4
  <2>3. CASE ctx' = ctx
    BY <2>3 DEF Placed
  <2> QED
    BY <1>1, <2>1, <2>2, <2>3 DEF Resolves, ResolveIdentifier, ResolveUnknown, ResolveOther
<1>9. \A m \in Nodes : symbolOf'[m] \in Garbage \/ Declared(ctx', symbolOf'[m])
  <2>1. CASE symbolOf' = symbolOf
    BY <1>3, <2>1, StillSettled DEF Placed
  <2>2. CASE ResolveIdentifier(n) /\ symbolOf' # symbolOf
    <3> DEFINE ref == Lookup(ctx, Name(n))
    <3>1. ref # NULL /\ symbolOf' = [symbolOf EXCEPT ![n] = ref]
      BY <2>2 DEF ResolveIdentifier
    <3>2. Name(n) \in Names
      BY <1>2, NamesOfNodes DEF MethodsInv, Rooted
    <3>3. PICK t \in 1..Len(ctx.scopes) :
             ref = <<t, Name(n)>> /\ ctx.scopes[t].symbols[Name(n)] # NULL
      <4>1. ctx.current \in 0..Len(ctx.scopes)
        BY DEF Placed
      <4> QED
        BY <1>6, <1>7, <3>1, <3>2, <4>1, LookupFinds DEF Lookup
    <3>4. Declared(ctx, ref)
      <4>1. ref[1] = t /\ ref[2] = Name(n) /\ ref \in (1..Len(ctx.scopes)) \X Names
        BY <3>2, <3>3
      <4> HIDE DEF ref
      <4> QED
        BY <3>3, <4>1 DEF Declared, Refs, SymbolAt
    <3> HIDE DEF ref
    <3>5. \A m \in Nodes : symbolOf'[m] = IF m = n THEN ref ELSE symbolOf[m]
      BY <3>1 DEF MethodsInv
    <3> QED
      BY <1>3, <3>4, <3>5, StillSettled DEF Placed
  <2> QED
    BY <1>1, <2>1, <2>2 DEF Resolves, ResolveScope, ResolveLeave, ResolveUnknown, ResolveOther
<1>10. /\ DOMAIN scopeOf' = Nodes'
       /\ \A m \in Nodes : scopeOf'[m] \in Garbage \/ HasScope(ctx', scopeOf'[m], m)
       /\ currentFunction' = NULL \/ Declared(ctx', currentFunction')
       /\ Nodes' = Nodes
       /\ \A x \in Names : \A i \in DOMAIN methods'[x] : Declared(ctx', methods'[x][i].symbol)
  BY <1>3, <1>4, StillSettled DEF Placed
<1> QED
  BY <1>5, <1>8, <1>9, <1>10 DEF Placed

LEMMA CheckSettles ==
    ASSUME MethodsInv, Planned, Placed, Settled, Check
    PROVE  Placed' /\ Settled'
<1>1. PICK n \in Pending : Checks(n)
  BY DEF Check, Checks
<1>2. n \in Nodes /\ pass = "check"
  BY <1>1, CheckGoes
<1>3. Still
  BY CheckStill DEF MethodsInv
<1>4. scopeOf' = scopeOf /\ symbolOf' = symbolOf
  BY <1>1 DEF Checks, CheckScope, CheckLeave, CheckMethodDecl, CheckerUnchanged
<1>5. Settled'
  BY <1>3, <1>4, StillSettles
<1>6. Scoped(ctx) /\ Len(ctx.scopes) \in Nat /\ ctx'.scopes = ctx.scopes
  BY <1>3 DEF MethodsInv, Scoped, Still
<1>7. \A t \in 1..Len(ctx.scopes) : ctx.scopes[t].parent \in 0..(t - 1)
  BY <1>6, ScopeIs
<1>8. ctx'.current \in 0..Len(ctx'.scopes)
  <2>1. CASE CheckScope(n)
    <3>1. Kind(n) \in {"Program", "Block"} /\ ctx' = SetCurrent(ctx, scopeOf[n])
      BY <2>1 DEF CheckScope
    <3>2. scopeOf[n] \in 1..Len(ctx.scopes)
      BY <1>2, <3>1, OwnScope DEF HasScope
    <3>3. ctx'.current = scopeOf[n]
      BY <1>6, <3>1 DEF SetCurrent, Scoped
    <3> QED
      BY <1>6, <3>2, <3>3
  <2>2. CASE CheckLeave(n)
    <3>1. Doing("check", "leave", n, 0)
          /\ ctx' = SetCurrent(ctx, ctx.scopes[scopeOf[n]].parent)
      BY <2>2 DEF CheckLeave
    <3>2. Kind(n) \in {"Program", "Block"}
      BY <1>2, <3>1, LeavesScope
    <3>3. scopeOf[n] \in 1..Len(ctx.scopes)
      BY <1>2, <3>2, OwnScope DEF HasScope
    <3>4. ctx'.current = ctx.scopes[scopeOf[n]].parent
      BY <1>6, <3>1 DEF SetCurrent, Scoped
    <3> QED
      BY <1>6, <1>7, <3>3, <3>4
  <2>3. CASE ctx' = ctx
    BY <2>3 DEF Placed
  <2> QED
    BY <1>1, <2>1, <2>2, <2>3 DEF Checks, CheckMethodDecl
<1>9. currentFunction' = NULL \/ Declared(ctx', currentFunction')
  <2>1. CASE currentFunction' = currentFunction
    BY <1>3, <2>1, StillSettled DEF Placed
  <2>2. CASE Kind(n) = "Method" /\ currentFunction' = symbolOf[n]
    <3>1. Own(n)
      BY <1>2, <2>2 DEF Settled
    <3>2. Declared(ctx, symbolOf[n])
      BY <3>1 DEF Own, Declared
    <3> QED
      BY <1>3, <2>2, <3>2, StillSettled
  <2> QED
    BY <1>1, <2>1, <2>2 DEF Checks, CheckScope, CheckLeave, CheckMethodDecl
<1>10. /\ DOMAIN scopeOf' = Nodes'
       /\ \A m \in Nodes : scopeOf'[m] \in Garbage \/ HasScope(ctx', scopeOf'[m], m)
       /\ \A m \in Nodes : symbolOf'[m] \in Garbage \/ Declared(ctx', symbolOf'[m])
       /\ Nodes' = Nodes
       /\ \A x \in Names : \A i \in DOMAIN methods'[x] : Declared(ctx', methods'[x][i].symbol)
  BY <1>3, <1>4, StillSettled DEF Placed
<1> QED
  BY <1>5, <1>8, <1>9, <1>10 DEF Placed

-----------------------------------------------------------------------------
LEMMA SettledInit == InitPasses => SettledInv
<1> SUFFICES ASSUME InitPasses PROVE SettledInv
  OBVIOUS
<1>1. /\ pass = "parse" /\ agenda = <<>> /\ prog = <<>>
      /\ ctx.scopes = <<>> /\ ctx.current = 0 /\ currentFunction = NULL
      /\ scopeOf = <<>> /\ symbolOf = <<>>
      /\ \A x \in Names : methods[x] = <<>>
  BY DEF InitPasses, NoContext, NoMethods
<1>2. Planned
  BY <1>1, NothingIsASequence DEF Planned
<1>3. Nodes = {} /\ DOMAIN scopeOf = {} /\ \A x \in Names : DOMAIN methods[x] = {}
  BY <1>1 DEF Nodes
<1>4. Placed
  BY <1>1, <1>3 DEF Placed
<1> QED
  BY <1>1, <1>2, <1>4, MethodsInit DEF SettledInv

LEMMA AnalysisSettled ==
    ASSUME SettledInv, Analysis
    PROVE  SettledInv'
<1>1. MethodsInv' /\ Planned'
  BY AnalysisMethods, AnalysisPlanned DEF SettledInv
<1>2. MethodsInv /\ Planned /\ Placed
  BY DEF SettledInv
<1>3. CASE Collect
  BY <1>1, <1>3, CollectCovers, CollectReports DEF SettledInv
<1>4. CASE Resolve
  <2>1. pass = "resolve" /\ pass' \in {"resolve", "crashed"}
    BY <1>4, ResolveReports
  <2> QED
    BY <1>1, <1>2, <1>4, <2>1, ResolveSettles DEF SettledInv
<1>5. CASE Check
  <2>1. pass = "check" /\ pass' \in {"check", "crashed"}
    BY <1>5, CheckReports
  <2> QED
    BY <1>1, <1>2, <1>5, <2>1, CheckSettles DEF SettledInv
<1>6. ASSUME UNCHANGED <<prog, ctx, methods, symbolOf, scopeOf, currentFunction>>
      PROVE  Placed' /\ (Settled => Settled')
  BY <1>2, <1>6 DEF Placed, Settled, Nodes, Kind, Own, Name
<1>7. CASE AfterCollector
  <2>1. /\ UNCHANGED <<prog, ctx, methods, symbolOf, scopeOf, currentFunction>>
        /\ pass = "collect" /\ agenda = <<>>
        /\ \/ pass' = "rejected"
           \/ pass' = "resolve" /\ ~ReportedBy("SymbolCollector")
    BY <1>7 DEF AfterCollector, PassOver, Finish, Begin
  <2>2. \A m : ~Ahead(m) /\ ~Declaring(m)
    BY <2>1 DEF Ahead, Declaring
  <2>3. ~ReportedBy("SymbolCollector") => Settled
    BY <2>1, <2>2 DEF SettledInv, Covered, Settled
  <2> QED
    BY <1>1, <1>6, <2>1, <2>3 DEF SettledInv
<1>8. CASE AfterResolver \/ AfterChecker
  <2>1. /\ UNCHANGED <<prog, ctx, methods, symbolOf, scopeOf, currentFunction>>
        /\ pass \in {"resolve", "check"}
        /\ pass' \in {"check", "rejected", "accepted"}
    BY <1>8 DEF AfterResolver, AfterChecker, PassOver, Finish, Begin
  <2> QED
    BY <1>1, <1>6, <2>1 DEF SettledInv
<1> QED
  BY <1>3, <1>4, <1>5, <1>7, <1>8 DEF Analysis

LEMMA ParserSettled ==
    ASSUME SettledInv, pass = "parse", NEW tree, IsProgram(tree), Analyze(tree)
    PROVE  SettledInv'
<1>1. MethodsInv' /\ Planned' /\ IsProgram(prog')
  BY ParserMethods, ParserPlanned DEF SettledInv
<1>3. /\ pass' = "collect" /\ prog' = tree
      /\ agenda' = <<Task("visit", 1, 0)>>
      /\ UNCHANGED <<ctx, methods, currentFunction>>
  BY DEF Analyze
<1>4. PICK garbage \in Garbage : symbolOf' = [n \in DOMAIN tree |-> garbage]
  BY DEF Analyze
<1>5. PICK g \in Garbage : scopeOf' = [n \in DOMAIN tree |-> g]
  BY DEF Analyze
<1>6. Nodes' = DOMAIN tree
  BY <1>3 DEF Nodes
<1>7. Placed'
  BY <1>3, <1>4, <1>5, <1>6 DEF Placed, SettledInv
<1>8. Covered'
  <2>1. 1 \in DOMAIN agenda' /\ agenda'[1][1] = "visit" /\ agenda'[1][2] = 1
    BY <1>3, OneTask DEF Task
  <2>2. \A n \in Nodes' : Ahead(n)'
    BY <1>1, <1>3, <1>6, <2>1, PathsGoUp DEF Ahead
  <2> QED
    BY <2>2 DEF Covered
<1> QED
  BY <1>1, <1>3, <1>7, <1>8 DEF SettledInv

LEMMA SettledSame ==
    ASSUME SettledInv, UNCHANGED semaVars
    PROVE  SettledInv'
<1>1. MethodsInv'
  <2>1. Registered'
    BY DEF semaVars, SettledInv, MethodsInv, Registered, Own, Listed, Nodes, Kind, Name,
                ParamTypes, ReportedBy
  <2>2. Rooted' /\ Begun' /\ Tabled' /\ Nodes' = Nodes
    BY DEF semaVars, SettledInv, MethodsInv, Rooted, Begun, Tabled, Nodes
  <2>3. ErrorsByPass'
    BY DEF semaVars, SettledInv, MethodsInv, ErrorsByPass, OnlyFrom
  <2> QED
    BY <2>1, <2>2, <2>3 DEF semaVars, SettledInv, MethodsInv
<1>2. Planned'
  BY DEF semaVars, SettledInv, Planned, AtRoot
<1>3. Placed'
  BY DEF semaVars, SettledInv, Placed, Nodes
<1>4. Covered => Covered'
  BY DEF semaVars, Covered, Nodes, Kind, Own, Name, Ahead, Declaring, ReportedBy
<1>5. Settled => Settled'
  BY DEF semaVars, Settled, Nodes, Kind, Own, Name
<1> QED
  BY <1>1, <1>2, <1>3, <1>4, <1>5 DEF semaVars, SettledInv

LEMMA SettledHolds == Spec => []SettledInv
<1>1. SettledInv /\ [Next]_semaVars => SettledInv'
  <2> SUFFICES ASSUME SettledInv, [Next]_semaVars PROVE SettledInv'
    OBVIOUS
  <2> QED
    BY SettledSame, ParserPrograms, ParserSettled, AnalysisSettled DEF Next
<1> QED
  BY <1>1, SettledInit, PTL DEF Spec

(* The annotations are functions on the tree, the types in them types; and *)
(* a return is waited for in a function.                                   *)
IsFunctionOn(f, S) == f = [x \in S |-> f[x]]

TypesOrNull == Types \union {NULL}

Returning == \A k \in DOMAIN agenda : agenda[k][1] = "return" => currentFunction # NULL

TypedInv ==
    /\ pass \in Passing \union Ends
    /\ IsFunctionOn(symbolOf, Nodes)
    /\ IsFunctionOn(scopeOf, Nodes)
    /\ typeOf \in [Nodes -> TypesOrNull]
    /\ result \in [Nodes -> TypesOrNull]
    /\ pass = "check" => Returning

LEMMA StaysFunction ==
    ASSUME NEW f, NEW S, IsFunctionOn(f, S), NEW x, NEW v
    PROVE  IsFunctionOn([f EXCEPT ![x] = v], S)
BY DEF IsFunctionOn

LEMMA HeadFits ==
    ASSUME Planned, NEW n \in Nodes, NEW p, NEW what, what # "visit", NEW i,
           Doing(p, what, n, i), pass # "parse"
    PROVE  Fits(p, prog, <<what, n, i>>)
<1>1. pass = p /\ agenda # <<>> /\ Head(agenda) = <<what, n, i>>
  BY DEF Doing, Task
<1>2. ~AtRoot
  BY <1>1 DEF AtRoot, Task
<1>3. IsSeq(agenda) /\ Head(agenda) = agenda[1] /\ 1 \in DOMAIN agenda
  <2>1. IsSeq(agenda)
    BY DEF Planned
  <2> QED
    BY <1>1, <2>1 DEF IsSeq
<1>4. Fits(pass, prog, agenda[1])
  BY <1>2, <1>3 DEF Planned
<1> QED
  BY <1>1, <1>3, <1>4

LEMMA SymbolsAre ==
    ASSUME NEW c, Scoped(c), NEW ref, Declared(c, ref)
    PROVE  SymbolAt(c, ref) \in Symbol /\ SymbolAt(c, ref).type \in Types
<1>1. ref[1] \in 1..Len(c.scopes) /\ ref[2] \in Names
  BY DEF Declared, Refs
<1>2. SymbolAt(c, ref) \in Symbol \union {NULL}
  BY <1>1, ScopeIs DEF SymbolAt
<1> QED
  BY <1>2 DEF Declared, Symbol

LEMMA OverloadIs ==
    ASSUME Placed, NEW x \in Names, NEW types, FindOverload(methods, x, types) # NULL
    PROVE  Declared(ctx, FindOverload(methods, x, types))
<1>1. HasOverload(methods, x, types)
  BY DEF FindOverload
<1> DEFINE i == CHOOSE i \in DOMAIN methods[x] : methods[x][i].params = types
<1>2. i \in DOMAIN methods[x]
  BY <1>1 DEF HasOverload
<1>3. FindOverload(methods, x, types) = methods[x][i].symbol
  BY <1>1 DEF FindOverload
<1> HIDE DEF i
<1> QED
  BY <1>2, <1>3 DEF Placed

LEMMA BinaryIsTyped ==
    ASSUME NEW op, NEW t, NEW u
    PROVE  BinaryType(op, t, u) \in Types
BY DEF BinaryType, Types

(* What the checker writes: a type, or where none is needed what the       *)
(* child has.                                                              *)
Sets(n) ==
    /\ \/ typeOf' = typeOf
       \/ \E x : \E t \in TypesOrNull :
             /\ typeOf' = [typeOf EXCEPT ![x] = t]
             /\ t = NULL => x = n /\ Kind(n) \in {"Arg", "ExprStmt"}
    /\ result' = result \/ \E t \in TypesOrNull : result' = [result EXCEPT ![n] = t]

Answers(n, what) ==
    \/ typeOf'[n] \in Types
    \/ ReportedBy("TypeChecker")'
    \/ what = "visit" /\ Kind(n) \in Operated /\ Then(Visits(Kids(n)) \o <<Task("type", n, 0)>>)

Reasons(n, what) ==
    \/ Kind(n) = "Ident" /\ symbolOf[n] \in Garbage
    \/ what = "test" /\ Missing(Kid(n, 1))
    \/ /\ what = "type" /\ Kind(n) \in {"VarDecl", "Assign"}
       /\ \E i \in DOMAIN Kids(n) : Missing(Kid(n, i))

LEMMA CheckSets ==
    ASSUME SettledInv, TypedInv, NEW n \in Pending, Checks(n)
    PROVE  /\ Sets(n)
           /\ \E what : /\ Doing("check", what, n, 0)
                        /\ pass' = "crashed" => Reasons(n, what)
                        /\ pass' = pass /\ Kind(n) \in ExprKinds /\ what \in {"visit", "type"} =>
                               Answers(n, what)
<1> DEFINE Goal == \E what : /\ Doing("check", what, n, 0)
                             /\ pass' = "crashed" => Reasons(n, what)
                             /\ pass' = pass /\ Kind(n) \in ExprKinds /\ what \in {"visit", "type"} =>
                                    Answers(n, what)
<1>1. n \in Nodes /\ pass = "check" /\ prog' = prog
  BY CheckAsks
<1>2. Planned /\ Placed /\ Settled /\ IsProgram(prog) /\ Scoped(ctx)
  BY <1>1 DEF SettledInv, Planned, MethodsInv
<1>3. ASSUME NEW what, Doing("check", what, n, 0),
             pass' = "crashed" => Reasons(n, what),
             pass' = pass /\ Kind(n) \in ExprKinds /\ what \in {"visit", "type"} =>
                 Answers(n, what)
      PROVE  Goal
  BY <1>3
<1> HIDE DEF Goal
<1>4. NULL \notin Types /\ Types \subseteq TypesOrNull /\ NULL \in TypesOrNull
  BY ScopesAssumption DEF TypesOrNull
<1>5. ASSUME NEW t \in TypesOrNull, Typed(n, t), t = NULL => Kind(n) \in {"Arg", "ExprStmt"}
      PROVE  /\ Sets(n) /\ pass' = pass
             /\ \A what : Kind(n) \in ExprKinds => Answers(n, what)
  <2>1. typeOf' = [typeOf EXCEPT ![n] = t] /\ result' = [result EXCEPT ![n] = t]
        /\ pass' = pass
    BY <1>5 DEF Typed
  <2>2. Kind(n) \in ExprKinds => typeOf'[n] \in Types
    BY <1>1, <1>5, <2>1 DEF ExprKinds, TypesOrNull, TypedInv
  <2> QED
    BY <1>5, <2>1, <2>2 DEF Sets, Answers
<1>6. ASSUME NEW m, Untyped(n, m)
      PROVE  Sets(n) /\ pass' = pass /\ \A what : Answers(n, what)
  <2>1. /\ typeOf' = typeOf /\ result' = [result EXCEPT ![n] = "void"] /\ pass' = pass
        /\ Report("TypeChecker", m, n)
    BY <1>6 DEF Untyped, Error
  <2>2. ReportedBy("TypeChecker")'
    <3>1. <<"TypeChecker", m, n>> \in errors'
      BY <2>1 DEF Report
    <3> QED
      BY <3>1 DEF ReportedBy
  <2>3. "void" \in TypesOrNull
    BY DEF TypesOrNull, Types
  <2> QED
    BY <2>1, <2>2, <2>3 DEF Sets, Answers
<1>7. ASSUME Dies PROVE Sets(n) /\ pass' = "crashed"
  BY <1>7 DEF Dies, Crash, Sets
<1>8. ASSUME NEW ts, Call(ts) PROVE Sets(n) /\ pass' = pass
  BY <1>8 DEF Call, Sets
<1>9. prog[n].type \in Types /\ Name(n) \in Names
  BY <1>1, NamesOfNodes DEF SettledInv, MethodsInv, Rooted
<1>10. pass # "crashed"
  BY <1>1
<1>11. \A i \in DOMAIN Kids(n) : Kid(n, i) \in Nodes
  BY <1>1, <1>2, KidsArePending
<1>12. CASE CheckScope(n) \/ CheckLeave(n) \/ CheckMethodDecl(n)
  <2>1. (\E ts : Call(ts)) \/ \E m : Untyped(n, m)
    BY <1>12 DEF CheckScope, CheckLeave, CheckMethodDecl
  <2>2. Sets(n) /\ pass' = pass
    BY <1>6, <1>8, <2>1
  <2>3. PICK what : Doing("check", what, n, 0) /\ (what = "leave" \/ Kind(n) \notin ExprKinds)
    BY <1>12 DEF CheckScope, CheckLeave, CheckMethodDecl, ExprKinds
  <2> QED
    BY <1>3, <1>10, <2>2, <2>3 DEF Goal
<1>13. CASE TestCondition(n)
  <2>1. Doing("check", "test", n, 0)
    BY <1>13 DEF TestCondition
  <2>2. \/ Dies /\ Missing(Kid(n, 1))
        \/ UNCHANGED <<pass, typeOf, result>>
        \/ \E ts : Call(ts)
    BY <1>13 DEF TestCondition
  <2>3. Sets(n)
    BY <1>7, <1>8, <2>2 DEF Sets
  <2>4. pass' = "crashed" => Missing(Kid(n, 1))
    BY <1>8, <1>10, <2>2
  <2> QED
    BY <1>3, <2>1, <2>3, <2>4 DEF Goal, Reasons
<1>14. CASE CheckReturn(n)
  <2>1. Doing("check", "visit", n, 0) /\ Kind(n) \notin ExprKinds
    BY <1>14 DEF CheckReturn, ExprKinds
  <2>2. UNCHANGED <<pass, typeOf, result>> \/ \E ts : Call(ts)
    BY <1>14 DEF CheckReturn
  <2>3. Sets(n) /\ pass' = pass
    BY <1>8, <2>2 DEF Sets
  <2> QED
    BY <1>3, <1>10, <2>1, <2>3 DEF Goal
<1>15. CASE ReturnType(n)
  <2> DEFINE t == SymbolAt(ctx, currentFunction).type
  <2>1. Doing("check", "return", n, 0) /\ pass' = pass /\ result' = result
    BY <1>15 DEF ReturnType
  <2>2. typeOf' = typeOf \/ typeOf' = [typeOf EXCEPT ![Kid(n, 1)] = t]
    BY <1>15 DEF ReturnType
  <2>3. currentFunction # NULL
    <3>1. IsSeq(agenda) /\ agenda # <<>> /\ Head(agenda)[1] = "return"
      BY <1>2, <2>1, HeadIs DEF Planned
    <3>2. 1 \in DOMAIN agenda /\ Head(agenda) = agenda[1]
      BY <3>1 DEF IsSeq
    <3> QED
      BY <1>1, <3>1, <3>2 DEF TypedInv, Returning
  <2>4. t \in Types
    BY <1>2, <2>3, SymbolsAre DEF Placed
  <2> HIDE DEF t
  <2>5. Sets(n)
    BY <1>4, <2>1, <2>2, <2>4 DEF Sets
  <2> QED
    BY <1>3, <1>10, <2>1, <2>5 DEF Goal
<1>16. CASE CheckLeaf(n)
  <2>1. Doing("check", "visit", n, 0) /\ Kind(n) \in {"Literal", "Ident", "Class"}
    BY <1>16 DEF CheckLeaf
  <2>2. CASE Dies /\ Kind(n) = "Ident" /\ symbolOf[n] = WILD
    BY <1>1, <1>3, <1>7, <2>1, <2>2 DEF Goal, Reasons, Garbage
  <2>3. CASE \E m : Untyped(n, m)
    BY <1>3, <1>6, <1>10, <2>1, <2>3 DEF Goal
  <2>4. CASE Typed(n, prog[n].type)
    BY <1>3, <1>4, <1>5, <1>9, <1>10, <2>1, <2>4 DEF Goal
  <2>5. CASE symbolOf[n] \notin Garbage /\ Typed(n, SymbolAt(ctx, symbolOf[n]).type)
    <3>1. SymbolAt(ctx, symbolOf[n]).type \in Types
      BY <1>1, <1>2, <2>5, SymbolsAre DEF Placed
    <3> QED
      BY <1>3, <1>4, <1>5, <1>10, <2>1, <2>5, <3>1 DEF Goal
  <2>6. \/ Typed(n, prog[n].type)
        \/ \E m : Untyped(n, m)
        \/ Dies /\ Kind(n) = "Ident" /\ symbolOf[n] = WILD
        \/ symbolOf[n] \notin Garbage /\ Typed(n, SymbolAt(ctx, symbolOf[n]).type)
    <3> DEFINE A == Typed(n, prog[n].type)
               B1 == Untyped(n, "Unknown statment type")
               C == Untyped(n, "Symbol not found for identifier")
               D == Typed(n, SymbolAt(ctx, symbolOf[n]).type)
    <3>1. (CASE Kind(n) = "Literal" -> A
             [] Kind(n) = "Class"   -> B1
             [] Kind(n) = "Ident" /\ symbolOf[n] = NULL -> C
             [] Kind(n) = "Ident" /\ symbolOf[n] = WILD -> Dies
             [] OTHER               -> D)
      BY <1>16 DEF CheckLeaf
    <3> HIDE DEF A, B1, C, D
    <3>2. \/ Kind(n) = "Literal" /\ A
          \/ Kind(n) = "Class" /\ B1
          \/ Kind(n) = "Ident" /\ symbolOf[n] = NULL /\ C
          \/ Kind(n) = "Ident" /\ symbolOf[n] = WILD /\ Dies
          \/ Kind(n) = "Ident" /\ symbolOf[n] # NULL /\ symbolOf[n] # WILD /\ D
      <4>1. CASE Kind(n) = "Literal"
        BY <3>1, <4>1
      <4>2. CASE Kind(n) = "Class"
        BY <3>1, <4>2
      <4>3. CASE Kind(n) = "Ident" /\ symbolOf[n] = NULL
        BY <3>1, <4>3, AstAssumption
      <4>4. CASE Kind(n) = "Ident" /\ symbolOf[n] = WILD
        BY <3>1, <4>4, AstAssumption
      <4>5. CASE Kind(n) = "Ident" /\ symbolOf[n] # NULL /\ symbolOf[n] # WILD
        BY <3>1, <4>5
      <4> QED
        BY <2>1, <4>1, <4>2, <4>3, <4>4, <4>5
    <3> QED
      BY <2>1, <3>2 DEF A, B1, C, D, Garbage
  <2> QED
    BY <2>2, <2>3, <2>4, <2>5, <2>6
<1>17. CASE CheckAssignment(n)
  <2>1. Doing("check", "visit", n, 0) /\ Kind(n) = "Assign"
    BY <1>17 DEF CheckAssignment
  <2>2. CASE \E m : Untyped(n, m)
    BY <1>3, <1>6, <1>10, <2>1, <2>2 DEF Goal
  <2>3. CASE Call(Visits(Kids(n)) \o <<Task("type", n, 0)>>)
    <3>1. Sets(n) /\ pass' = pass /\ Answers(n, "visit")
      BY <1>8, <2>1, <2>3 DEF Answers, Call, Operated
    <3> QED
      BY <1>3, <1>10, <2>1, <3>1 DEF Goal
  <2> QED
    BY <1>17, <2>2, <2>3 DEF CheckAssignment
<1>18. CASE CheckChildren(n)
  <2>1. Doing("check", "visit", n, 0)
    BY <1>18 DEF CheckChildren
  <2>2. CASE Kind(n) \in Operated /\ Call(Visits(Kids(n)) \o <<Task("type", n, 0)>>)
    <3>1. Sets(n) /\ pass' = pass /\ Answers(n, "visit")
      BY <1>8, <2>1, <2>2 DEF Answers, Call
    <3> QED
      BY <1>3, <1>10, <2>1, <3>1 DEF Goal
  <2>3. CASE Kind(n) \in {"If", "While"} /\ \E ts : Call(ts)
    <3>1. Sets(n) /\ pass' = pass /\ Kind(n) \notin ExprKinds
      BY <1>8, <2>3 DEF ExprKinds
    <3> QED
      BY <1>3, <1>10, <2>1, <3>1 DEF Goal
  <2> QED
    BY <1>18, <2>2, <2>3 DEF CheckChildren, Operated
<1>19. CASE TypeExpression(n)
  <2>1. Doing("check", "type", n, 0)
    BY <1>19 DEF TypeExpression
  <2>2. Kind(n) \in Operated
    <3>1. Fits("check", prog, <<"type", n, 0>>)
      BY <1>1, <1>2, <2>1, HeadFits
    <3> QED
      BY <3>1 DEF Fits, Operated, Kind
  <2>3. ASSUME \E m : Untyped(n, m) PROVE Sets(n) /\ Goal
    BY <1>3, <1>6, <1>10, <2>1, <2>3
  <2>4. ASSUME NEW t \in Types, Typed(n, t) PROVE Sets(n) /\ Goal
    BY <1>3, <1>4, <1>5, <1>10, <2>1, <2>4
  <2>5. ASSUME Dies, Kind(n) \in {"VarDecl", "Assign"},
               \E i \in DOMAIN Kids(n) : Missing(Kid(n, i))
        PROVE  Sets(n) /\ Goal
    BY <1>1, <1>3, <1>7, <2>1, <2>5 DEF Reasons
  <2>6. CASE Kind(n) = "VarDecl"
    <3>1. 1 \in DOMAIN Kids(n) \/ Kids(n) = <<>>
      BY <1>1, <1>2, KidsArePending
    <3>2. TypeVarDecl(n)
      BY <1>19, <2>6 DEF TypeExpression
    <3> QED
      BY <1>9, <2>3, <2>4, <2>5, <2>6, <3>1, <3>2 DEF TypeVarDecl, Goal
  <2>7. CASE Kind(n) = "Assign"
    <3>1. DOMAIN Kids(n) = {1, 2}
      BY <1>1, <1>2, <2>7, KindsOfKids
    <3>2. TypeAssignment(n)
      BY <1>19, <2>7 DEF TypeExpression
    <3>3. ~Missing(Kid(n, 1)) => typeOf[Kid(n, 1)] \in Types
      BY <1>11, <3>1 DEF TypedInv, TypesOrNull, Missing
    <3> QED
      BY <2>3, <2>4, <2>5, <2>7, <3>1, <3>2, <3>3 DEF TypeAssignment, Goal
  <2>8. CASE Kind(n) = "Binary"
    <3>1. TypeBinary(n)
      BY <1>19, <2>8 DEF TypeExpression
    <3> QED
      BY <2>3, <2>4, <3>1, BinaryIsTyped DEF TypeBinary, Goal
  <2>9. CASE Kind(n) = "Unary"
    <3>1. TypeUnary(n)
      BY <1>19, <2>9 DEF TypeExpression
    <3>2. TypeEquals(result[Kid(n, 1)], "int") => result[Kid(n, 1)] \in Types
      BY DEF TypeEquals, Types
    <3> QED
      BY <2>3, <2>4, <3>1, <3>2 DEF TypeUnary, Goal
  <2>10. CASE Kind(n) = "Call"
    <3> DEFINE types == [i \in DOMAIN Kids(n) |-> result[Kid(n, i)]]
               ref == FindOverload(methods, Name(n), types)
    <3>1. TypeCall(n)
      BY <1>19, <2>10 DEF TypeExpression
    <3>2. (\E m : Untyped(n, m)) \/ (ref # NULL /\ Typed(n, SymbolAt(ctx, ref).type))
      BY <3>1 DEF TypeCall
    <3>3. ref # NULL => SymbolAt(ctx, ref).type \in Types
      BY <1>2, <1>9, OverloadIs, SymbolsAre
    <3> HIDE DEF ref
    <3> QED
      BY <2>3, <2>4, <3>2, <3>3 DEF Goal
  <2>11. CASE Kind(n) = "Arg"
    <3>1. Typed(n, result[Kid(n, 1)])
      BY <1>19, <2>11 DEF TypeExpression
    <3>2. 1 \in DOMAIN Kids(n)
      BY <1>1, <1>2, <2>11, KindsOfKids
    <3>3. result[Kid(n, 1)] \in TypesOrNull
      BY <1>11, <3>2 DEF TypedInv
    <3>4. Sets(n) /\ pass' = pass
      BY <1>5, <2>11, <3>1, <3>3
    <3> QED
      BY <1>3, <1>10, <2>1, <2>11, <3>4 DEF Goal, ExprKinds
  <2>12. CASE Kind(n) = "ExprStmt"
    <3>1. TypeExprStmt(n)
      BY <1>19, <2>12 DEF TypeExpression
    <3>2. 1 \in DOMAIN Kids(n)
      BY <1>1, <1>2, <2>12, KindsOfKids
    <3>3. typeOf[Kid(n, 1)] \in TypesOrNull
      BY <1>11, <3>2 DEF TypedInv
    <3>4. Sets(n) /\ pass' = pass
      BY <2>12, <3>1, <3>3 DEF TypeExprStmt, Sets
    <3> QED
      BY <1>3, <1>10, <2>1, <2>12, <3>4 DEF Goal, ExprKinds
  <2> QED
    BY <2>2, <2>6, <2>7, <2>8, <2>9, <2>10, <2>11, <2>12 DEF Operated, Goal
<1> QED
  BY <1>12, <1>13, <1>14, <1>15, <1>16, <1>17, <1>18, <1>19 DEF Checks, Goal

LEMMA TypesFollow == SettledInv /\ TypedInv => TypeOK
<1> SUFFICES ASSUME SettledInv, TypedInv PROVE TypeOK
  OBVIOUS
<1>1. /\ Rooted /\ Scoped(ctx) /\ Tabled /\ Placed /\ DOMAIN symbolOf = Nodes
  BY DEF SettledInv, MethodsInv
<1>2. prog \in Seq(Node)
  <2>1. <<>> \in Seq(Node)
    OBVIOUS
  <2> QED
    BY <1>1, <2>1 DEF Rooted
<1>3. ctx.scopes \in Seq(Scope) /\ ctx.current \in 0..Len(ctx.scopes)
  BY <1>1 DEF Scoped, Placed
<1>4. \A ref : Declared(ctx, ref) => ref \in SymbolRefs
  BY DEF Declared, Refs, SymbolRefs
<1>5. methods \in [Names -> Seq([symbol : SymbolRefs, params : Seq(Types)])]
  <2> DEFINE E == [symbol : SymbolRefs, params : Seq(Types)]
  <2>1. ASSUME NEW x \in Names PROVE methods[x] \in Seq(E)
    <3>1. methods[x] \in Seq([symbol : Nat \X Names, params : Seq(Types)])
      BY <1>1 DEF Tabled
    <3>2. \A i \in DOMAIN methods[x] : methods[x][i].symbol \in SymbolRefs
      BY <1>1, <1>4 DEF Placed
    <3> PICK q : q = methods[x]
      OBVIOUS
    <3>0. q \in Seq([symbol : Nat \X Names, params : Seq(Types)])
      BY <3>1
    <3>3. \A i \in 1..Len(q) : q[i] \in E
      <4> SUFFICES ASSUME NEW i \in 1..Len(q) PROVE q[i] \in E
        OBVIOUS
      <4>1. i \in DOMAIN q /\ q[i] \in [symbol : Nat \X Names, params : Seq(Types)]
        BY <3>0, PlaceOf
      <4>2. q[i].symbol \in SymbolRefs
        BY <3>2, <4>1
      <4> QED
        BY <4>1, <4>2
    <3> HIDE DEF E
    <3>5. q \in Seq(E)
      BY <3>0, <3>3, PointwiseSeq
    <3> QED
      BY <3>5
  <2>2. methods = [x \in Names |-> methods[x]]
    BY <1>1 DEF Tabled
  <2> HIDE DEF E
  <2>3. methods \in [Names -> Seq(E)]
    BY <2>1, <2>2
  <2> QED
    BY <2>3 DEF E
<1>6. symbolOf \in [Nodes -> SymbolRefs \union Garbage]
  <2>1. \A n \in Nodes : symbolOf[n] \in SymbolRefs \union Garbage
    BY <1>1, <1>4 DEF Placed
  <2> QED
    BY <2>1 DEF TypedInv, IsFunctionOn
<1>7. scopeOf \in [Nodes -> (1..Len(ctx.scopes)) \union Garbage]
  <2>1. \A n \in Nodes : scopeOf[n] \in (1..Len(ctx.scopes)) \union Garbage
    BY <1>1 DEF Placed, HasScope
  <2> QED
    BY <2>1 DEF TypedInv, IsFunctionOn
<1>8. currentFunction \in SymbolRefs \union {NULL}
  BY <1>1, <1>4 DEF Placed
<1> QED
  BY <1>2, <1>3, <1>5, <1>6, <1>7, <1>8 DEF TypedInv, TypesOrNull, TypeOK

LEMMA SetsTypes ==
    ASSUME TypedInv, NEW n, Sets(n)
    PROVE  typeOf' \in [Nodes -> TypesOrNull] /\ result' \in [Nodes -> TypesOrNull]
BY DEF TypedInv, Sets

(* A handler leaves a return waiting only where it was called for one.     *)
LEMMA StillReturning ==
    ASSUME Planned, NEW n \in Nodes, NEW what, NEW ts, NEW a, NEW ks, NEW z, NEW w,
           Goes(n, what, ts, a, ks, z, w), NEW k \in DOMAIN agenda', agenda'[k][1] = "return"
    PROVE  \/ \E j \in DOMAIN agenda : agenda[j][1] = "return"
           \/ z = 1 /\ w = "return"
<1>1. /\ Len(ts) \in Nat /\ Len(agenda) \in Nat
      /\ DOMAIN ts = 1..Len(ts) /\ DOMAIN agenda = 1..Len(agenda)
      /\ DOMAIN agenda' = 1..(Len(ts) + Len(agenda) - 1)
      /\ \A j \in 1..Len(ts) : agenda'[j] = ts[j]
      /\ \A j \in (Len(ts) + 1)..(Len(ts) + Len(agenda) - 1) :
             agenda'[j] = agenda[j - Len(ts) + 1]
  <2>1. IsSeq(agenda) /\ agenda # <<>> /\ IsSeq(ts) /\ Then(ts)
    BY DEF Planned, Goes, Fans
  <2> QED
    BY <2>1, NextCalls
<1>2. /\ ks \in Seq(Nat) /\ a \in Nat /\ z \in {0, 1} /\ Len(ts) = a + Len(ks) + z
      /\ \A j \in 1..a : ts[j][1] \in {"param", "declare"}
      /\ \A j \in 1..Len(ks) : ts[a + j][1] = "visit"
      /\ z = 1 => ts[a + Len(ks) + 1][1] = w
  BY DEF Goes, Fans
<1>3. Len(ks) \in Nat
  BY <1>2
<1>4. CASE k \in (Len(ts) + 1)..(Len(ts) + Len(agenda) - 1)
  <2>1. k - Len(ts) + 1 \in DOMAIN agenda
    BY <1>1, <1>4
  <2> QED
    BY <1>1, <1>4, <2>1
<1>5. CASE k \in 1..Len(ts)
  <2>1. ts[k][1] = "return"
    BY <1>1, <1>5
  <2>2. k \notin 1..a
    BY <1>2, <2>1
  <2>3. ~(k \in (a + 1)..(a + Len(ks)))
    <3> SUFFICES ASSUME k \in (a + 1)..(a + Len(ks)) PROVE FALSE
      OBVIOUS
    <3>1. k - a \in 1..Len(ks) /\ a + (k - a) = k
      BY <1>2, <1>3
    <3>2. ts[a + (k - a)][1] = "visit"
      BY <1>2, <3>1
    <3> QED
      BY <2>1, <3>1, <3>2
  <2>4. z = 1 /\ k = a + Len(ks) + 1
    BY <1>2, <1>3, <1>5, <2>2, <2>3
  <2> QED
    BY <1>2, <2>1, <2>4
<1> QED
  BY <1>1, <1>4, <1>5

LEMMA CheckReturning ==
    ASSUME SettledInv, TypedInv, NEW n \in Pending, Checks(n), pass' = pass
    PROVE  Returning'
<1>1. n \in Nodes /\ pass = "check" /\ pass # "crashed"
  BY CheckAsks
<1>2. Planned /\ Settled /\ Returning
  BY <1>1 DEF SettledInv, TypedInv
<1>3. PICK what, ts, a, ks, z, w : Goes(n, what, ts, a, ks, z, w)
  BY <1>1, <1>2, CheckGoes
<1>4. currentFunction # NULL => currentFunction' # NULL
  <2>1. CASE currentFunction' = currentFunction
    BY <2>1
  <2>2. CASE Kind(n) = "Method" /\ currentFunction' = symbolOf[n]
    <3>1. symbolOf[n] \in Nat \X Names
      BY <1>1, <1>2, <2>2 DEF Settled, Own, Refs
    <3> QED
      BY <2>2, <3>1, ScopesAssumption
  <2> QED
    BY <2>1, <2>2 DEF Checks, CheckScope, CheckLeave, CheckMethodDecl
<1> SUFFICES ASSUME NEW k \in DOMAIN agenda', agenda'[k][1] = "return"
             PROVE  currentFunction' # NULL
  BY DEF Returning
<1>5. CASE \E j \in DOMAIN agenda : agenda[j][1] = "return"
  BY <1>2, <1>4, <1>5 DEF Returning
<1>6. CASE /\ z = 1 /\ w = "return"
           /\ ~(\E j \in DOMAIN agenda : agenda[j][1] = "return")
  <2>1. Kind(n) = "Return" /\ what = "visit"
    <3>1. Fits(pass, prog, <<w, n, 0>>) /\ what = "visit"
      BY <1>3, <1>6 DEF Goes
    <3>2. <<w, n, 0>>[1] = "return" /\ <<w, n, 0>>[2] = n
      BY <1>6
    <3> QED
      BY <3>1, <3>2 DEF Fits, Kind
  <2>2. Head(agenda)[1] = "visit"
    BY <1>3, <2>1 DEF Goes
  <2>3. CheckReturn(n) /\ currentFunction' = currentFunction
    <3>1. ~TestCondition(n) /\ ~ReturnType(n) /\ ~TypeExpression(n) /\ ~CheckLeave(n)
      BY <2>2, HeadIs DEF TestCondition, ReturnType, TypeExpression, CheckLeave
    <3>2. ~CheckScope(n) /\ ~CheckMethodDecl(n) /\ ~CheckLeaf(n) /\ ~CheckAssignment(n)
          /\ ~CheckChildren(n)
      BY <2>1 DEF CheckScope, CheckMethodDecl, CheckLeaf, CheckAssignment, CheckChildren
    <3> QED
      BY <3>1, <3>2 DEF Checks
  <2>4. CASE currentFunction = NULL
    <3>1. Then(<<>>) /\ Doing("check", "visit", n, 0)
      BY <2>3, <2>4 DEF CheckReturn
    <3>2. Goes(n, "visit", <<>>, 0, <<>>, 0, "leave")
      <4>1. Fans(<<>>, n, 0, <<>>, 0, "leave")
        BY NothingFans
      <4> QED
        BY <1>1, <1>3, <3>1, <4>1, HeadIs DEF Goes
    <3> QED
      BY <1>1, <1>2, <1>6, <3>2, StillReturning
  <2> QED
    BY <2>3, <2>4
<1> QED
  BY <1>1, <1>2, <1>3, <1>5, <1>6, StillReturning

LEMMA CheckTypes ==
    ASSUME SettledInv, TypedInv, Check
    PROVE  TypedInv'
<1>1. PICK n \in Pending : Checks(n)
  BY DEF Check, Checks
<1>2. pass = "check" /\ pass' \in {"check", "crashed"} /\ prog' = prog
  BY <1>1, CheckAsks, CheckReports
<1>3. symbolOf' = symbolOf /\ scopeOf' = scopeOf
  BY <1>1 DEF Checks, CheckScope, CheckLeave, CheckMethodDecl, CheckerUnchanged
<1>4. typeOf' \in [Nodes -> TypesOrNull] /\ result' \in [Nodes -> TypesOrNull]
  BY <1>1, CheckSets, SetsTypes
<1>5. pass' = "check" => Returning'
  BY <1>1, <1>2, CheckReturning
<1> QED
  BY <1>2, <1>3, <1>4, <1>5 DEF TypedInv, Passing, Ends, Nodes

LEMMA AnalysisTypes ==
    ASSUME SettledInv, TypedInv, Analysis
    PROVE  TypedInv'
<1>1. CASE Collect
  <2>1. PICK n \in Pending : Collects(n)
    BY <1>1 DEF Collect, Collects
  <2>2. pass = "collect" /\ pass' = "collect"
    BY <1>1, CollectReports
  <2>3. UNCHANGED <<prog, typeOf, result>>
    BY <2>1 DEF Collects, CollectScope, LeaveScope, CollectMethodDecl, CollectParam,
                DeclareMethod, CollectVarDecl, CollectOther, CollectorUnchanged
  <2>4. symbolOf' = symbolOf \/ \E x, v : symbolOf' = [symbolOf EXCEPT ![x] = v]
    BY <2>1 DEF Collects, CollectScope, LeaveScope, CollectMethodDecl, CollectParam,
                DeclareMethod, CollectVarDecl, CollectOther
  <2>5. scopeOf' = scopeOf \/ \E x, v : scopeOf' = [scopeOf EXCEPT ![x] = v]
    BY <2>1 DEF Collects, CollectScope, LeaveScope, CollectMethodDecl, CollectParam,
                DeclareMethod, CollectVarDecl, CollectOther
  <2>6. IsFunctionOn(symbolOf, Nodes)' /\ IsFunctionOn(scopeOf, Nodes)'
    <3>1. IsFunctionOn(symbolOf', Nodes) /\ IsFunctionOn(scopeOf', Nodes)
      BY <2>4, <2>5, StaysFunction DEF TypedInv
    <3> QED
      BY <2>3, <3>1 DEF Nodes
  <2> QED
    BY <2>2, <2>3, <2>6 DEF TypedInv, Nodes
<1>2. CASE Resolve
  <2>1. PICK n \in Pending : Resolves(n)
    BY <1>2 DEF Resolve, Resolves
  <2>2. pass = "resolve" /\ pass' \in {"resolve", "crashed"}
    BY <1>2, ResolveReports
  <2>3. UNCHANGED <<prog, scopeOf, typeOf, result>>
    BY <2>1 DEF Resolves, ResolveScope, ResolveLeave, ResolveIdentifier, ResolveUnknown,
                ResolveOther, ResolverUnchanged
  <2>4. symbolOf' = symbolOf \/ \E x, v : symbolOf' = [symbolOf EXCEPT ![x] = v]
    BY <2>1 DEF Resolves, ResolveScope, ResolveLeave, ResolveIdentifier, ResolveUnknown,
                ResolveOther
  <2>5. IsFunctionOn(symbolOf, Nodes)'
    <3>1. IsFunctionOn(symbolOf', Nodes)
      BY <2>4, StaysFunction DEF TypedInv
    <3> QED
      BY <2>3, <3>1 DEF Nodes
  <2> QED
    BY <2>2, <2>3, <2>5 DEF TypedInv, Nodes, Passing, Ends
<1>3. CASE Check
  BY <1>3, CheckTypes
<1>4. CASE AfterCollector \/ AfterResolver \/ AfterChecker
  <2>1. /\ UNCHANGED <<prog, symbolOf, scopeOf, typeOf, result>>
        /\ pass' \in {"resolve", "rejected", "accepted", "check"}
        /\ pass' = "check" => AtRoot'
    BY <1>4 DEF AfterCollector, AfterResolver, AfterChecker, PassOver, Finish, Begin, AtRoot
  <2>2. AtRoot' => Returning'
    <3> SUFFICES ASSUME AtRoot' PROVE Returning'
      OBVIOUS
    <3>1. DOMAIN agenda' = {1} /\ agenda'[1][1] = "visit"
      BY OneTask DEF AtRoot, Task
    <3> QED
      BY <3>1 DEF Returning
  <2> QED
    BY <2>1, <2>2 DEF TypedInv, Nodes, Passing, Ends
<1> QED
  BY <1>1, <1>2, <1>3, <1>4 DEF Analysis

LEMMA ParserTypes ==
    ASSUME ParserReturns
    PROVE  TypedInv'
<1>1. PICK tree \in Programs : Analyze(tree)
  BY DEF ParserReturns
<1>2. /\ pass' = "collect" /\ Nodes' = DOMAIN tree
      /\ typeOf' = [n \in DOMAIN tree |-> NULL] /\ result' = [n \in DOMAIN tree |-> NULL]
  BY <1>1 DEF Analyze, Nodes
<1>3. IsFunctionOn(symbolOf, Nodes)' /\ IsFunctionOn(scopeOf, Nodes)'
  <2>1. \A g : IsFunctionOn([n \in DOMAIN tree |-> g], DOMAIN tree)
    BY DEF IsFunctionOn
  <2>2. IsFunctionOn(symbolOf', DOMAIN tree) /\ IsFunctionOn(scopeOf', DOMAIN tree)
    BY <1>1, <2>1 DEF Analyze
  <2> QED
    BY <1>2, <2>2
<1> QED
  BY <1>2, <1>3 DEF TypedInv, TypesOrNull, Passing

LEMMA TypedHolds == Spec => []TypedInv
<1>1. InitPasses => TypedInv
  <2> SUFFICES ASSUME InitPasses PROVE TypedInv
    OBVIOUS
  <2>1. /\ pass = "parse" /\ Nodes = {}
        /\ symbolOf = <<>> /\ scopeOf = <<>> /\ typeOf = <<>> /\ result = <<>>
    BY DEF InitPasses, Nodes
  <2>2. \A f : f = <<>> => IsFunctionOn(f, {}) /\ f \in [{} -> TypesOrNull]
    BY DEF IsFunctionOn
  <2> QED
    BY <2>1, <2>2 DEF TypedInv, Passing
<1>2. SettledInv /\ TypedInv /\ [Next]_semaVars => TypedInv'
  <2> SUFFICES ASSUME SettledInv, TypedInv, [Next]_semaVars PROVE TypedInv'
    OBVIOUS
  <2>1. CASE UNCHANGED semaVars
    BY <2>1 DEF semaVars, TypedInv, Nodes, Returning
  <2> QED
    BY <2>1, ParserTypes, AnalysisTypes DEF Next
<1> QED
  BY <1>1, <1>2, SettledHolds, PTL DEF Spec

(* The three passes, for every program: each annotation is of its type,    *)
(* and no symbol or scope pointer that a pass has set, in a node, in the   *)
(* method table or in current_function, points to what is not declared.    *)
THEOREM AnalysisIsTyped == Spec => []TypeOK
BY SettledHolds, TypedHolds, TypesFollow, PTL

(* How the collector moves among the scopes, and what it adds.             *)
SameTree(c, d) ==
    /\ Len(d.scopes) = Len(c.scopes)
    /\ \A t \in 1..Len(c.scopes) : /\ d.scopes[t].owner = c.scopes[t].owner
                                   /\ d.scopes[t].parent = c.scopes[t].parent

Enters(n) ==
    /\ Head(agenda)[1] = "visit" /\ Kind(n) \in Scoping
    /\ ctx' = PushScope(ctx, n)

Leaves(n) ==
    /\ Head(agenda)[1] = "leave" /\ Current(ctx) /\ ctx'.scopes = ctx.scopes
    /\ LET up == ctx.scopes[ctx.current].parent
       IN  ctx'.current = IF up = 0 THEN ctx.current ELSE up

Stays(n) ==
    /\ Head(agenda)[1] # "leave"
    /\ Head(agenda)[1] = "visit" => Kind(n) \notin Scoping
    /\ Current(ctx) /\ ctx'.current = ctx.current
    /\ ctx' = ctx \/ \E s : \E x \in Names : ctx' = Declare(ctx, x, s)

LEMMA CollectMoves ==
    ASSUME SettledInv, NEW n \in Pending, Collects(n)
    PROVE  /\ Enters(n) \/ Leaves(n) \/ Stays(n)
           /\ Leaves(n) \/ Stays(n) => SameTree(ctx, ctx')
<1>1. pass = "collect" /\ n \in Nodes /\ MethodsInv /\ Planned
  BY CollectGoes DEF SettledInv
<1>2. IsProgram(prog) /\ Scoped(ctx) /\ agenda # <<>> /\ Head(agenda)[2] = n
  BY <1>1, CollectGoes DEF Planned, MethodsInv, Pending
<1>3. /\ Name(n) \in Names
      /\ \A i \in DOMAIN prog[n].params : prog[n].params[i].name \in Names
  BY <1>1, <1>2, NamesOfNodes DEF IsProgram
<1>4. Kind(n) \notin Scoping \/ Head(agenda)[1] # "visit" => Current(ctx)
  <2>1. CASE AtRoot
    <3>1. Head(agenda)[1] = "visit" /\ n = 1
      BY <1>2, <2>1 DEF AtRoot, Task
    <3> QED
      BY <1>2, <3>1 DEF IsProgram, Kind, Scoping
  <2>2. CASE ~AtRoot
    BY <1>1, <1>2, <2>2 DEF MethodsInv, Begun, AtRoot
  <2> QED
    BY <2>1, <2>2
<1>5. CASE CollectScope(n) \/ CollectMethodDecl(n)
  <2>1. Enters(n)
    BY <1>5, HeadIs DEF CollectScope, CollectMethodDecl, Enters, Scoping
  <2>2. ~Leaves(n) /\ ~Stays(n)
    BY <2>1 DEF Enters, Leaves, Stays
  <2> QED
    BY <2>1, <2>2
<1>6. CASE LeaveScope(n)
  <2>1. Head(agenda)[1] = "leave" /\ ctx' = PopScope(ctx)
    BY <1>6, HeadIs DEF LeaveScope
  <2>2. Current(ctx)
    BY <1>4, <2>1
  <2>3. /\ ctx'.scopes = ctx.scopes
        /\ ctx'.current = IF ctx.scopes[ctx.current].parent = 0 THEN ctx.current
                          ELSE ctx.scopes[ctx.current].parent
    BY <1>2, <2>1, <2>2, PopTree
  <2> QED
    BY <2>1, <2>2, <2>3 DEF Leaves, Stays, SameTree
<1>7. CASE \/ \E i \in DOMAIN prog[n].params : CollectParam(n, i)
           \/ DeclareMethod(n) \/ CollectVarDecl(n) \/ CollectOther(n)
  <2>1. /\ Head(agenda)[1] # "leave"
        /\ Head(agenda)[1] = "visit" => Kind(n) \notin Scoping
    <3>1. CASE \E i \in DOMAIN prog[n].params : CollectParam(n, i)
      <4>1. PICK i \in DOMAIN prog[n].params : CollectParam(n, i)
        BY <3>1
      <4>2. Doing("collect", "param", n, i)
        BY <4>1 DEF CollectParam
      <4>3. Head(agenda)[1] = "param"
        BY <4>2, HeadIs
      <4> QED
        BY <4>3
    <3>2. CASE DeclareMethod(n)
      <4>1. Doing("collect", "declare", n, 0)
        BY <3>2 DEF DeclareMethod
      <4>2. Head(agenda)[1] = "declare"
        BY <4>1, HeadIs
      <4> QED
        BY <4>2
    <3>3. CASE CollectVarDecl(n) \/ CollectOther(n)
      <4>1. Doing("collect", "visit", n, 0) /\ Kind(n) \notin Scoping
        BY <3>3 DEF CollectVarDecl, CollectOther, Scoping
      <4>2. Head(agenda)[1] = "visit"
        BY <4>1, HeadIs
      <4> QED
        BY <4>1, <4>2
    <3> QED
      BY <1>7, <3>1, <3>2, <3>3
  <2>2. ctx' = ctx \/ \E s : \E x \in Names : ctx' = Declare(ctx, x, s)
    BY <1>3, <1>7 DEF CollectParam, DeclareMethod, CollectVarDecl, CollectOther
  <2>3. Current(ctx)
    BY <1>4, <2>1
  <2>4. ASSUME NEW x \in Names, NEW s, ctx' = Declare(ctx, x, s)
        PROVE  SameTree(ctx, ctx') /\ ctx'.current = ctx.current
    BY <1>2, <2>3, <2>4, DeclareTree DEF SameTree
  <2>5. SameTree(ctx, ctx') /\ ctx'.current = ctx.current
    BY <2>2, <2>4 DEF SameTree
  <2> QED
    BY <2>1, <2>2, <2>3, <2>5 DEF Stays
<1> QED
  BY <1>5, <1>6, <1>7 DEF Collects

-----------------------------------------------------------------------------
(* Only the root's scope has none around it.                               *)
RootScope(c) ==
    /\ c.scopes # <<>> => c.scopes[1].owner = 1
    /\ \A s \in 2..Len(c.scopes) : c.scopes[s].parent # 0

LEMMA CollectRoots ==
    ASSUME SettledInv, RootScope(ctx), Collect
    PROVE  RootScope(ctx')
<1>1. PICK n \in Pending : Collects(n)
  BY DEF Collect, Collects
<1>2. pass = "collect" /\ MethodsInv /\ Scoped(ctx) /\ agenda # <<>> /\ Head(agenda)[2] = n
  BY <1>1, CollectGoes DEF SettledInv, MethodsInv, Pending
<1>3. Len(ctx.scopes) \in Nat /\ IsSeq(ctx.scopes)
  BY <1>2 DEF Scoped, IsSeq
<1>4. CASE SameTree(ctx, ctx')
  <2>1. /\ Scoped(ctx') /\ Len(ctx'.scopes) = Len(ctx.scopes)
    BY <1>1, <1>2, <1>4, CollectKeeps DEF SameTree, Collect, Collects
  <2>2. ctx'.scopes # <<>> => ctx.scopes # <<>> /\ 1 \in 1..Len(ctx.scopes)
    BY <1>2, <2>1 DEF Scoped
  <2> QED
    BY <1>4, <2>1, <2>2 DEF SameTree, RootScope
<1>5. CASE Enters(n)
  <2> DEFINE N == Len(ctx.scopes)
  <2>1. /\ ctx'.current = N + 1 /\ Len(ctx'.scopes) = N + 1
        /\ \A t \in 1..N : ctx'.scopes[t] = ctx.scopes[t]
        /\ ctx'.scopes[N + 1].owner = n /\ ctx'.scopes[N + 1].parent = ctx.current
    BY <1>2, <1>5, PushTree DEF Enters
  <2>2. CASE AtRoot /\ ctx.scopes = <<>>
    BY <1>2, <2>1, <2>2 DEF RootScope, AtRoot, Task
  <2>3. CASE Current(ctx)
    <3>1. N \in Nat /\ 1 \in 1..N /\ ctx.current # 0 /\ ctx.scopes # <<>>
      BY <1>3, <2>3 DEF Current
    <3>2. ctx'.scopes[1].owner = 1
      BY <2>1, <3>1 DEF RootScope
    <3>3. \A s \in 2..(N + 1) : s = N + 1 \/ (s \in 1..N /\ s \in 2..N)
      BY <3>1
    <3>4. \A s \in 2..(N + 1) : ctx'.scopes[s].parent # 0
      BY <2>1, <3>1, <3>3 DEF RootScope
    <3> QED
      BY <2>1, <3>2, <3>4 DEF RootScope
  <2> QED
    BY <1>2, <2>2, <2>3 DEF MethodsInv, Begun, AtRoot
<1> QED
  BY <1>1, <1>4, <1>5, CollectMoves

(* The scope of a node other than the root has one around it.              *)
LEMMA InnerScope ==
    ASSUME RootScope(ctx), NEW s, NEW n, HasScope(ctx, s, n), n # 1, Len(ctx.scopes) \in Nat
    PROVE  ctx.scopes[s].parent # 0
<1>1. s \in 1..Len(ctx.scopes) /\ ctx.scopes[s].owner = n
  BY DEF HasScope
<1>2. s # 1
  <2>1. Len(ctx.scopes) = 0 => s \notin 1..Len(ctx.scopes)
    OBVIOUS
  <2>2. ctx.scopes # <<>>
    <3>1. CASE ctx.scopes = <<>>
      BY <1>1, <2>1, <3>1
    <3> QED
      BY <3>1
  <2> QED
    BY <1>1, <2>2 DEF RootScope
<1> QED
  BY <1>1, <1>2 DEF RootScope

(* The resolver always has a current scope once it has begun.              *)
InsideScope == pass = "resolve" /\ agenda # <<>> => AtRoot \/ ctx.current # 0

LEMMA ResolveStands ==
    ASSUME SettledInv, RootScope(ctx), InsideScope, Resolve
    PROVE  pass' = "resolve" /\ InsideScope'
<1>1. PICK n \in Pending : Resolves(n)
  BY DEF Resolve, Resolves
<1>2. pass = "resolve" /\ n \in Nodes /\ Planned /\ Placed /\ Settled /\ Scoped(ctx)
      /\ agenda # <<>> /\ Head(agenda)[2] = n
  BY <1>1, ResolveGoes DEF SettledInv, MethodsInv, Pending
<1>3. IsProgram(prog) /\ Len(ctx.scopes) \in Nat
  BY <1>2 DEF Planned, Scoped
<1>4. ~(ResolveIdentifier(n) /\ ctx.current = 0)
  <2> SUFFICES ASSUME ResolveIdentifier(n), ctx.current = 0 PROVE FALSE
    OBVIOUS
  <2>1. AtRoot /\ Kind(n) = "Ident"
    BY <1>2 DEF InsideScope, ResolveIdentifier
  <2>2. n = 1
    BY <1>2, <2>1 DEF AtRoot, Task
  <2> QED
    BY <1>3, <2>1, <2>2 DEF IsProgram, Kind
<1>5. PICK what, ts, a, ks, z : /\ Goes(n, what, ts, a, ks, z, "leave")
                                /\ PassesOn(n, what, ks, z)
                                /\ n = 1 => what = "visit" \/ ts = <<>>
  BY <1>1, <1>2, <1>4, ResolveGoes
<1>6. pass' = "resolve"
  BY <1>2, <1>5 DEF Goes
<1>7. ctx.current # 0 \/ n = 1
  BY <1>2 DEF InsideScope, AtRoot, Task
<1>8. agenda' # <<>> => AtRoot' \/ ctx'.current # 0
  <2>1. CASE ResolveScope(n)
    <3>1. Kind(n) \in {"Program", "Block"} /\ ctx' = SetCurrent(ctx, scopeOf[n])
      BY <2>1 DEF ResolveScope
    <3>2. scopeOf[n] \in 1..Len(ctx.scopes)
      BY <1>2, <3>1, OwnScope DEF HasScope
    <3>3. ctx'.current = scopeOf[n]
      BY <1>2, <3>1 DEF SetCurrent, Scoped
    <3> QED
      BY <1>3, <3>2, <3>3
  <2>2. CASE ResolveLeave(n)
    <3>1. Doing("resolve", "leave", n, 0)
          /\ ctx' = SetCurrent(ctx, ctx.scopes[scopeOf[n]].parent)
      BY <2>2 DEF ResolveLeave
    <3>2. Kind(n) \in {"Program", "Block"}
      BY <1>2, <3>1, LeavesScope
    <3>3. HasScope(ctx, scopeOf[n], n)
      BY <1>2, <3>2, OwnScope
    <3>4. ctx'.current = ctx.scopes[scopeOf[n]].parent
      BY <1>2, <3>1 DEF SetCurrent, Scoped
    <3>5. CASE n # 1
      BY <1>3, <3>3, <3>4, <3>5, InnerScope
    <3>6. CASE n = 1
      <4>1. what = "leave" /\ ts = <<>>
        BY <1>5, <3>1, <3>6, HeadIs DEF Goes
      <4>2. agenda' = <<>>
        <5>1. ~AtRoot
          BY <3>1 DEF AtRoot, Doing, Task
        <5>2. IsSeq(agenda) /\ Head(agenda) = agenda[1] /\ 1 \in DOMAIN agenda
          BY <1>2 DEF Planned, IsSeq
        <5>3. Len(agenda) = 1
          BY <1>2, <3>6, <5>1, <5>2 DEF Planned
        <5>4. agenda' = <<>> \o Tail(agenda)
          BY <2>2 DEF ResolveLeave, Then
        <5> QED
          BY <5>2, <5>3, <5>4 DEF IsSeq
      <4> QED
        BY <4>2
    <3> QED
      BY <3>5, <3>6
  <2>3. CASE ctx' = ctx /\ Kind(n) \notin {"Program", "Block"}
    <3>1. n # 1
      BY <1>3, <2>3 DEF IsProgram, Kind
    <3> QED
      BY <1>7, <2>3, <3>1
  <2> QED
    BY <1>1, <2>1, <2>2, <2>3 DEF Resolves, ResolveIdentifier, ResolveUnknown, ResolveOther
<1> QED
  BY <1>6, <1>8 DEF InsideScope

(* The nodes whose types a pending call reads without looking at what the  *)
(* handler of the child has returned.                                      *)
Wants(t, x) ==
    \/ t[1] = "test" /\ x = Kid(t[2], 1)
    \/ /\ t[1] = "type" /\ Kind(t[2]) \in {"VarDecl", "Assign"}
       /\ \E i \in DOMAIN Kids(t[2]) : x = Kid(t[2], i)

Known(x) == typeOf[x] # NULL \/ ReportedBy("TypeChecker")

(* The call of q that will have set x's type before the k-th is made.      *)
Sooner(q, k, x) ==
    \E j \in DOMAIN q : j < k /\ q[j][1] \in {"visit", "type"} /\ q[j][2] = x

Promised ==
    \A k \in DOMAIN agenda : \A x : Wants(agenda[k], x) => Known(x) \/ Sooner(agenda, k, x)

LEMMA WantedAreExpressions ==
    ASSUME Planned, IsProgram(prog), NEW k \in DOMAIN agenda, NEW x, Wants(agenda[k], x)
    PROVE  x \in Nodes /\ Kind(x) \in ExprKinds
<1>1. agenda[k][1] # "visit"
  BY DEF Wants
<1>2. ~AtRoot
  <2> SUFFICES ASSUME AtRoot PROVE FALSE
    OBVIOUS
  <2>1. DOMAIN agenda = {1} /\ agenda[1] = Task("visit", 1, 0)
    BY OneTask DEF AtRoot
  <2>2. agenda[k][1] = "visit"
    BY <2>1 DEF Task
  <2> QED
    BY <1>1, <2>2
<1>3. Fits(pass, prog, agenda[k])
  BY <1>2 DEF Planned
<1> DEFINE m == agenda[k][2]
<1>4. m \in Nodes /\ (agenda[k][1] = "test" => Kind(m) \in {"If", "While"})
  BY <1>3 DEF Fits, Kind, Nodes
<1> HIDE DEF m
<1>5. CASE agenda[k][1] = "test" /\ x = Kid(m, 1)
  <2>1. 1 \in DOMAIN Kids(m) /\ Kind(Kid(m, 1)) \in ExprKinds
    BY <1>4, <1>5, KindsOfKids
  <2>2. Kid(m, 1) \in Nodes
    BY <1>4, <2>1, KidsArePending
  <2> QED
    BY <1>5, <2>1, <2>2
<1>6. ASSUME Kind(m) \in {"VarDecl", "Assign"}, NEW i \in DOMAIN Kids(m), x = Kid(m, i)
      PROVE  x \in Nodes /\ Kind(x) \in ExprKinds
  <2>1. Kind(Kid(m, i)) \in ExprKinds
    BY <1>4, <1>6, OperandsAreExpressions
  <2>2. Kid(m, i) \in Nodes
    BY <1>4, <1>6, KidsArePending
  <2> QED
    BY <1>6, <2>1, <2>2
<1> QED
  BY <1>5, <1>6 DEF Wants, m

(* What is known stays known: the only type a handler takes away is that   *)
(* of a statement.                                                         *)
LEMMA StillKnown ==
    ASSUME TypedInv, NEW n, Sets(n), Reports("TypeChecker"), NEW x \in Nodes,
           Kind(x) \in ExprKinds, Known(x), prog' = prog
    PROVE  Known(x)'
<1>1. CASE ReportedBy("TypeChecker")
  BY <1>1 DEF Reports, ReportedBy, Known
<1>2. CASE typeOf[x] # NULL
  <2>1. typeOf'[x] # NULL
    BY <1>2 DEF TypedInv, Sets, ExprKinds
  <2> QED
    BY <2>1 DEF Known
<1> QED
  BY <1>1, <1>2 DEF Known

(* A call that comes first is made, and leaves the type or the rest of     *)
(* itself, at the front.                                                   *)
LEMMA AnswerComes ==
    ASSUME SettledInv, TypedInv, NEW n \in Pending, Checks(n), pass' = pass,
           Kind(n) \in ExprKinds, Head(agenda)[1] \in {"visit", "type"},
           NEW ts, IsSeq(ts), Then(ts)
    PROVE  \/ Known(n)'
           \/ /\ Len(ts) \in DOMAIN agenda'
              /\ agenda'[Len(ts)][1] = "type" /\ agenda'[Len(ts)][2] = n
<1>1. n \in Nodes /\ pass = "check" /\ pass # "crashed" /\ IsProgram(prog)
  BY CheckAsks DEF SettledInv, Planned
<1>2. PICK what : /\ Doing("check", what, n, 0)
                  /\ what \in {"visit", "type"} => Answers(n, what)
  BY <1>1, CheckSets
<1>3. Answers(n, what) /\ agenda # <<>> /\ IsSeq(agenda)
  BY <1>2, HeadIs DEF SettledInv, Planned
<1>4. CASE typeOf'[n] \in Types \/ ReportedBy("TypeChecker")'
  <2>1. NULL \notin Types
    BY ScopesAssumption
  <2> QED
    BY <1>4, <2>1 DEF Known
<1>5. CASE Then(Visits(Kids(n)) \o <<Task("type", n, 0)>>)
  <2> DEFINE N == Len(Kids(n))
             us == Visits(Kids(n)) \o <<Task("type", n, 0)>>
  <2>1. IsSeq(us) /\ Len(us) = N + 1 /\ N \in Nat
        /\ us[N + 1][1] = "type" /\ us[N + 1][2] = n
    <3>1. Kids(n) \in Seq(Nat)
      BY <1>1, KidsAreNumbers
    <3>2. Fans(us, n, 0, Kids(n), 1, "type")
      BY <3>1, VisitsThenFan
    <3>3. N \in Nat
      BY <3>1
    <3> QED
      BY <3>2, <3>3 DEF Fans
  <2>2. Len(agenda') = N + 1 + Len(agenda) - 1 /\ agenda'[N + 1] = us[N + 1]
        /\ DOMAIN agenda' = 1..(N + 1 + Len(agenda) - 1) /\ 1 \in 1..Len(agenda)
        /\ Len(agenda) \in Nat
    <3> HIDE DEF us
    <3>1. Then(us)
      BY <1>5 DEF us
    <3>2. N + 1 \in 1..(N + 1)
      BY <2>1
    <3> QED
      BY <1>3, <2>1, <3>1, <3>2, NextCalls
  <2>3. Len(ts) \in Nat /\ Len(agenda') = Len(ts) + Len(agenda) - 1
    BY <1>3, NextCalls
  <2>4. Len(ts) = N + 1
    BY <2>1, <2>2, <2>3
  <2> QED
    BY <2>1, <2>2, <2>4
<1> QED
  BY <1>3, <1>4, <1>5 DEF Answers

LEMMA PromiseKept ==
    ASSUME SettledInv, TypedInv, Promised, NEW n \in Pending, Checks(n), pass' = pass
    PROVE  Promised'
<1>1. n \in Nodes /\ pass = "check" /\ pass # "crashed" /\ prog' = prog
      /\ Planned /\ IsProgram(prog)
  BY CheckAsks DEF SettledInv, Planned
<1>2. PICK what, ts, a, ks, z, w : /\ Goes(n, what, ts, a, ks, z, w)
                                   /\ n = 1 => what = "visit" \/ ts = <<>>
                                   /\ Supplies(n, ks, z, w)
  BY <1>1, CheckGoes
<1>3. /\ Sets(n) /\ Reports("TypeChecker")
  <2>1. Check
    BY DEF Check, Checks
  <2> QED
    BY <2>1, CheckSets, CheckReports
<1>4. /\ agenda # <<>> /\ IsSeq(agenda) /\ IsSeq(ts) /\ Then(ts) /\ Head(agenda)[2] = n
      /\ Fans(ts, n, a, ks, z, w)
  BY <1>1, <1>2 DEF Goes, Planned, Fans
<1>5. /\ Len(ts) \in Nat /\ Len(agenda) \in Nat
      /\ DOMAIN ts = 1..Len(ts) /\ DOMAIN agenda = 1..Len(agenda)
      /\ DOMAIN agenda' = 1..(Len(ts) + Len(agenda) - 1)
      /\ \A k \in 1..Len(ts) : agenda'[k] = ts[k]
      /\ \A k \in (Len(ts) + 1)..(Len(ts) + Len(agenda) - 1) :
             agenda'[k] = agenda[k - Len(ts) + 1]
      /\ Head(agenda) = agenda[1] /\ 1 \in 1..Len(agenda)
  BY <1>4, NextCalls
<1> SUFFICES ASSUME NEW k \in DOMAIN agenda', NEW x, Wants(agenda'[k], x)
             PROVE  Known(x)' \/ Sooner(agenda', k, x)
  BY <1>1 DEF Promised, Wants, Kind, Kids, Kid
<1>6. CASE k \in 1..Len(ts)
  <2>1. /\ a = 0 /\ ks \in Seq(Nat) /\ Len(ks) \in Nat /\ z \in {0, 1} /\ Len(ts) = Len(ks) + z
        /\ \A i \in 1..Len(ks) : ts[i][1] = "visit" /\ ts[i][2] = ks[i]
        /\ z = 1 => ts[Len(ks) + 1][1] = w /\ ts[Len(ks) + 1][2] = n
    <3>1. a = 0
      BY <1>1, <1>2 DEF Goes
    <3>2. Len(ks) \in Nat
      BY <1>4 DEF Fans
    <3> QED
      BY <1>4, <3>1, <3>2 DEF Fans
  <2>2. ts[k][1] \in {"test", "type"} /\ Wants(ts[k], x)
    BY <1>5, <1>6 DEF Wants
  <2>3. z = 1 /\ k = Len(ks) + 1
    BY <1>6, <2>1, <2>2
  <2>4. ts[k][1] = w /\ ts[k][2] = n
    BY <2>1, <2>3
  <2>5. PICK i \in DOMAIN ks : ks[i] = x
    BY <2>2, <2>3, <2>4, <1>2 DEF Wants, Supplies
  <2>6. i \in 1..Len(ks) /\ i \in 1..Len(ts) /\ i < k
    BY <2>1, <2>3
  <2>7. i \in DOMAIN agenda' /\ agenda'[i][1] = "visit" /\ agenda'[i][2] = x
    BY <1>5, <2>1, <2>5, <2>6
  <2> QED
    BY <2>6, <2>7 DEF Sooner
<1>7. CASE k \in (Len(ts) + 1)..(Len(ts) + Len(agenda) - 1)
  <2>1. PICK m : m = k - Len(ts) + 1
    OBVIOUS
  <2>2. m \in DOMAIN agenda /\ m # 1 /\ agenda'[k] = agenda[m] /\ k = m + Len(ts) - 1
    BY <1>5, <1>7, <2>1
  <2>3. Wants(agenda[m], x)
    BY <2>2
  <2>4. x \in Nodes /\ Kind(x) \in ExprKinds
    BY <1>1, <2>2, <2>3, WantedAreExpressions
  <2>5. CASE Known(x)
    BY <1>1, <1>3, <2>4, <2>5, StillKnown
  <2>6. ASSUME NEW j \in DOMAIN agenda, j < m, agenda[j][1] \in {"visit", "type"},
               agenda[j][2] = x
        PROVE  Known(x)' \/ Sooner(agenda', k, x)
    <3>1. CASE j # 1
      <4>1. PICK i \in DOMAIN agenda' : agenda'[i] = agenda[j] /\ i = j + Len(ts) - 1
        BY <1>4, <3>1, LaterCalls
      <4>2. i < k
        BY <1>5, <2>2, <2>6, <4>1
      <4> QED
        BY <2>6, <4>1, <4>2 DEF Sooner
    <3>2. CASE j = 1
      <4>1. x = n /\ Head(agenda)[1] \in {"visit", "type"}
        BY <1>4, <1>5, <2>6, <3>2
      <4>2. \/ Known(n)'
            \/ /\ Len(ts) \in DOMAIN agenda'
               /\ agenda'[Len(ts)][1] = "type" /\ agenda'[Len(ts)][2] = n
        BY <1>4, <2>4, <4>1, AnswerComes
      <4>3. Len(ts) < k
        BY <1>5, <1>7
      <4> QED
        BY <4>1, <4>2, <4>3 DEF Sooner
    <3> QED
      BY <3>1, <3>2
  <2> QED
    BY <2>2, <2>3, <2>5, <2>6 DEF Promised, Sooner
<1> QED
  BY <1>5, <1>6, <1>7

(* A handler that dies has found a type missing that its own pass has      *)
(* failed to set, or a name the resolver never reached.                    *)
LEMMA DiesExplained ==
    ASSUME SettledInv, TypedInv, Promised, NEW n \in Pending, Checks(n), pass' = "crashed"
    PROVE  CrashesExplained'
<1>1. n \in Nodes /\ pass = "check" /\ prog' = prog /\ Planned /\ IsProgram(prog)
  BY CheckAsks DEF SettledInv, Planned
<1>2. PICK what : Doing("check", what, n, 0) /\ Reasons(n, what)
  BY CheckSets
<1>3. /\ Reports("TypeChecker") /\ symbolOf' = symbolOf
  <2>1. Check
    BY DEF Check, Checks
  <2>2. symbolOf' = symbolOf
    BY DEF Checks, CheckScope, CheckLeave, CheckMethodDecl, CheckerUnchanged
  <2> QED
    BY <2>1, <2>2, CheckReports
<1>4. ReportedBy("TypeChecker") => ReportedBy("TypeChecker")'
  BY <1>3 DEF Reports, ReportedBy
<1>5. CASE Kind(n) = "Ident" /\ symbolOf[n] \in Garbage
  <2>1. Kind(n)' = "Ident" /\ symbolOf'[n] \in Garbage /\ Nodes' = Nodes
    BY <1>1, <1>3, <1>5 DEF Kind, Nodes
  <2> QED
    BY <1>1, <2>1 DEF CrashesExplained
<1>6. ASSUME NEW x, Wants(Task(what, n, 0), x), Missing(x)
      PROVE  CrashesExplained'
  <2>1. /\ agenda # <<>> /\ IsSeq(agenda) /\ Head(agenda) = Task(what, n, 0)
    BY <1>1, <1>2 DEF Doing, Planned
  <2>2. 1 \in DOMAIN agenda /\ agenda[1] = Task(what, n, 0) /\ DOMAIN agenda \subseteq Nat
    BY <2>1 DEF IsSeq
  <2>3. Known(x) \/ Sooner(agenda, 1, x)
    BY <1>6, <2>2 DEF Promised
  <2>4. ~Sooner(agenda, 1, x)
    <3>1. \A j \in DOMAIN agenda : ~(j < 1)
      BY <2>1 DEF IsSeq
    <3> QED
      BY <3>1 DEF Sooner
  <2> QED
    BY <1>4, <1>6, <2>3, <2>4 DEF Known, Missing, CrashesExplained
<1>7. CASE what = "test" /\ Missing(Kid(n, 1))
  <2>1. Wants(Task(what, n, 0), Kid(n, 1))
    BY <1>7 DEF Wants, Task
  <2> QED
    BY <1>6, <1>7, <2>1
<1>8. ASSUME what = "type", Kind(n) \in {"VarDecl", "Assign"}, NEW i \in DOMAIN Kids(n),
             Missing(Kid(n, i))
      PROVE  CrashesExplained'
  <2>1. Wants(Task(what, n, 0), Kid(n, i))
    BY <1>8 DEF Wants, Task
  <2> QED
    BY <1>6, <1>8, <2>1
<1> QED
  BY <1>2, <1>5, <1>7, <1>8 DEF Reasons

ExplainedInv ==
    /\ RootScope(ctx)
    /\ InsideScope
    /\ pass = "check" => Promised
    /\ CrashesExplained

LEMMA AnalysisExplains ==
    ASSUME SettledInv, TypedInv, ExplainedInv, Analysis
    PROVE  ExplainedInv'
<1>1. CASE Collect
  <2>1. pass' = "collect"
    BY <1>1, CollectReports
  <2>2. RootScope(ctx')
    BY <1>1, CollectRoots DEF ExplainedInv
  <2> QED
    BY <2>1, <2>2 DEF ExplainedInv, InsideScope, CrashesExplained
<1>2. CASE Resolve
  <2>1. pass' = "resolve" /\ InsideScope'
    BY <1>2, ResolveStands DEF ExplainedInv
  <2>2. ctx'.scopes = ctx.scopes
    BY <1>2, ResolveStill DEF SettledInv, MethodsInv, Still
  <2> QED
    BY <2>1, <2>2 DEF ExplainedInv, RootScope, CrashesExplained
<1>3. CASE Check
  <2>1. PICK n \in Pending : Checks(n)
    BY <1>3 DEF Check, Checks
  <2>2. pass = "check" /\ pass' \in {"check", "crashed"}
    BY <1>3, CheckReports
  <2>3. ctx'.scopes = ctx.scopes
    BY <1>3, CheckStill DEF SettledInv, MethodsInv, Still
  <2>4. pass' = "check" => Promised'
    BY <2>1, <2>2, PromiseKept DEF ExplainedInv
  <2>5. CrashesExplained'
    <3>1. CASE pass' = "crashed"
      BY <2>1, <2>2, <3>1, DiesExplained DEF ExplainedInv
    <3>2. CASE pass' = "check"
      BY <3>2 DEF CrashesExplained
    <3> QED
      BY <2>2, <3>1, <3>2
  <2> QED
    BY <2>2, <2>3, <2>4, <2>5 DEF ExplainedInv, RootScope, InsideScope
<1>4. CASE AfterCollector \/ AfterResolver \/ AfterChecker
  <2>1. /\ ctx' = ctx
        /\ pass' \in {"resolve", "rejected", "accepted", "check"}
        /\ pass' \in {"resolve", "check"} => AtRoot'
    BY <1>4 DEF AfterCollector, AfterResolver, AfterChecker, PassOver, Finish, Begin, AtRoot
  <2>2. AtRoot' => Promised'
    <3> SUFFICES ASSUME AtRoot' PROVE Promised'
      OBVIOUS
    <3>1. DOMAIN agenda' = {1} /\ agenda'[1] = Task("visit", 1, 0)
      BY OneTask DEF AtRoot
    <3>2. \A k \in DOMAIN agenda' : agenda'[k][1] = "visit"
      BY <3>1 DEF Task
    <3> QED
      BY <3>2 DEF Promised, Wants
  <2> QED
    BY <2>1, <2>2 DEF ExplainedInv, InsideScope, CrashesExplained, RootScope
<1> QED
  BY <1>1, <1>2, <1>3, <1>4 DEF Analysis

LEMMA ExplainedHolds == Spec => []ExplainedInv
<1>1. InitPasses => ExplainedInv
  BY DEF InitPasses, ExplainedInv, RootScope, InsideScope, CrashesExplained, NoContext
<1>2. SettledInv /\ TypedInv /\ ExplainedInv /\ [Next]_semaVars => ExplainedInv'
  <2> SUFFICES ASSUME SettledInv, TypedInv, ExplainedInv, [Next]_semaVars PROVE ExplainedInv'
    OBVIOUS
  <2>1. CASE UNCHANGED semaVars
    BY <2>1 DEF semaVars, ExplainedInv, RootScope, InsideScope, AtRoot, Promised, Wants, Known,
                Sooner, ReportedBy, CrashesExplained, Nodes, Kind, Kids, Kid
  <2>2. CASE ParserReturns
    BY <2>2 DEF ParserReturns, Analyze, ExplainedInv, RootScope, InsideScope, CrashesExplained
  <2> QED
    BY <2>1, <2>2, AnalysisExplains DEF Next
<1> QED
  BY <1>1, <1>2, SettledHolds, TypedHolds, PTL DEF Spec

(* The analysis dies only of a program it has something against: the       *)
(* resolver always has a current scope to look a name up in, and where the *)
(* checker uses a type pointer that nothing has set, it has reported an    *)
(* error before, or stands at a name the resolver never reached.           *)
THEOREM CrashesHaveReasons == Spec => []CrashesExplained
<1>1. ExplainedInv => CrashesExplained
  BY DEF ExplainedInv
<1> QED
  BY <1>1, ExplainedHolds, PTL

-----------------------------------------------------------------------------
(* The nodes that a pending call of the checker has still to deal with.    *)
Handles(t, m) ==
    \/ t[1] = "visit" /\ t[2] \in Path(prog, m)
    \/ t[1] = "type" /\ t[2] = m
    \/ /\ t[1] = "test" /\ Kind(t[2]) = "If"
       /\ \E i \in DOMAIN Kids(t[2]) : i # 1 /\ Kid(t[2], i) \in Path(prog, m)

(* No node is dealt with by two of them.                                   *)
HandledOnce ==
    \A j, k \in DOMAIN agenda : \A m \in Nodes :
        Handles(agenda[j], m) /\ Handles(agenda[k], m) => j = k

(* An operand is looked at when it has been dealt with.                    *)
Owing(t) ==
    t[1] \in {"visit", "type"} /\ t[2] # 1 /\ Kind(ParentOf(prog, t[2])) \in Operated

Answered ==
    \A k \in DOMAIN agenda : Owing(agenda[k]) =>
        \E l \in DOMAIN agenda :
            k < l /\ agenda[l][1] = "type" /\ agenda[l][2] = ParentOf(prog, agenda[k][2])

LEMMA KidsPart ==
    ASSUME IsProgram(prog), NEW n \in Nodes, NEW i \in DOMAIN Kids(n), NEW m \in Nodes,
           Kid(n, i) \in Path(prog, m)
    PROVE  /\ n \in Path(prog, m) /\ m # n
           /\ ParentOf(prog, Kid(n, i)) = n
           /\ \A j \in DOMAIN Kids(n) : Kid(n, j) \in Path(prog, m) => j = i
<1>1. /\ Kids(n) \in Seq(Nat) /\ DOMAIN Kids(n) = 1..Len(Kids(n)) /\ Len(Kids(n)) \in Nat
      /\ \A j \in DOMAIN Kids(n) : Kid(n, j) \in Nodes /\ Kid(n, j) > n
  BY KidsArePending
<1>2. /\ DOMAIN prog = Nodes /\ DOMAIN prog[n].kids = DOMAIN Kids(n)
      /\ \A j : prog[n].kids[j] = Kid(n, j)
  BY DEF Nodes, Kids, Kid
<1>3. Path(prog, Kid(n, i)) = {Kid(n, i)} \union Path(prog, n)
  BY <1>2, PathOfKid
<1>4. n \in Path(prog, n) /\ Path(prog, m) \subseteq 1..m
      /\ Path(prog, Kid(n, i)) \subseteq Path(prog, m)
  BY <1>2, PathsGoUp
<1>5. Nodes = 1..Len(prog) /\ Len(prog) \in Nat
  BY DEF IsProgram, Nodes
<1>6. m # n
  <2>1. Kid(n, i) \in 1..m /\ Kid(n, i) > n
    BY <1>1, <1>4
  <2> QED
    BY <1>5, <2>1
<1>7. ASSUME NEW j \in DOMAIN Kids(n), Kid(n, j) \in Path(prog, m), j # i PROVE FALSE
  <2>1. \A x, y \in DOMAIN Kids(n) :
            x < y /\ Kid(n, x) \in Path(prog, m) => m < Kid(n, y)
    BY <1>2, KidsApart
  <2>2. \A x \in DOMAIN Kids(n) : Kid(n, x) \in Path(prog, m) => ~(m < Kid(n, x))
    BY <1>1, <1>4, <1>5
  <2>3. i < j \/ j < i
    BY <1>1, <1>7
  <2> QED
    BY <1>7, <2>1, <2>2, <2>3
<1>8. ParentOf(prog, Kid(n, i)) = n
  BY <1>2, KidsInOrder
<1> QED
  BY <1>3, <1>4, <1>6, <1>7, <1>8

LEMMA SelectedKids ==
    ASSUME IsProgram(prog), NEW n \in Nodes, NEW what, NEW ks, NEW z, NEW w,
           Selects(n, what, ks, z, w)
    PROVE  \A k \in 1..Len(ks) :
              \E i \in DOMAIN Kids(n) :
                 /\ ks[k] = Kid(n, i)
                 /\ i = IF what = "test" THEN k + 1 ELSE k
                 /\ what = "visit" \/ (what = "test" /\ i # 1 /\ Kind(n) = "If")
<1>1. /\ Kids(n) \in Seq(Nat) /\ DOMAIN Kids(n) = 1..Len(Kids(n)) /\ Len(Kids(n)) \in Nat
      /\ \A i \in DOMAIN Kids(n) : Kids(n)[i] = Kid(n, i)
  BY KidsArePending
<1>2. CASE ks = <<>>
  BY <1>2
<1>3. CASE what = "visit" /\ ks = Kids(n)
  BY <1>1, <1>3
<1>4. CASE what = "visit" /\ ks = <<Kid(n, 1)>> /\ Kind(n) \in {"Return", "If", "While"}
  <2>1. 1 \in DOMAIN Kids(n)
    BY <1>4, KindsOfKids
  <2>2. Len(ks) = 1 /\ ks[1] = Kid(n, 1)
    BY <1>4
  <2> QED
    BY <1>4, <2>1, <2>2
<1>5. CASE what = "test" /\ Kind(n) = "If" /\ ks = Tail(Kids(n))
  <2>1. 1 \in DOMAIN Kids(n)
    BY <1>5, KindsOfKids
  <2> PICK q : q = Kids(n)
    OBVIOUS
  <2>2. q \in Seq(Nat) /\ q # <<>>
    BY <1>1, <2>1
  <2>3. Len(Tail(q)) = Len(q) - 1 /\ \A k \in 1..(Len(q) - 1) : Tail(q)[k] = q[k + 1]
    BY <2>2
  <2> QED
    BY <1>1, <1>5, <2>3
<1> QED
  BY <1>2, <1>3, <1>4, <1>5 DEF Selects

(* The calls a call makes share out among them what it had to deal with.   *)
LEMMA CallsShare ==
    ASSUME IsProgram(prog), NEW n \in Nodes, NEW what, NEW ts, NEW ks, NEW z, NEW w,
           Fans(ts, n, 0, ks, z, w), Selects(n, what, ks, z, w),
           NEW t, t[1] = what, t[2] = n, NEW m \in Nodes
    PROVE  /\ \A k \in 1..Len(ts) : Handles(ts[k], m) => Handles(t, m)
           /\ \A j, k \in 1..Len(ts) : Handles(ts[j], m) /\ Handles(ts[k], m) => j = k
<1>1. /\ ks \in Seq(Nat) /\ z \in {0, 1} /\ Len(ks) \in Nat /\ Len(ts) = Len(ks) + z
      /\ \A k \in 1..Len(ks) : ts[k][1] = "visit" /\ ts[k][2] = ks[k]
      /\ z = 1 => ts[Len(ks) + 1][1] = w /\ ts[Len(ks) + 1][2] = n
  BY DEF Fans
<1>2. \A k \in 1..Len(ks) :
         \E i \in DOMAIN Kids(n) :
            /\ ks[k] = Kid(n, i)
            /\ i = IF what = "test" THEN k + 1 ELSE k
            /\ what = "visit" \/ (what = "test" /\ i # 1 /\ Kind(n) = "If")
  BY SelectedKids
<1>3. n \in Path(prog, n)
  BY PathsGoUp DEF Nodes
<1>4. \A i \in DOMAIN Kids(n) : Kid(n, i) \in Path(prog, m) =>
         /\ n \in Path(prog, m) /\ m # n
         /\ \A j \in DOMAIN Kids(n) : Kid(n, j) \in Path(prog, m) => j = i
  BY KidsPart
<1>5. ASSUME NEW k \in 1..Len(ks)
      PROVE  Handles(ts[k], m) <=> ks[k] \in Path(prog, m)
  BY <1>1 DEF Handles
<1>6. z = 1 => what = "visit" /\ w \in {"leave", "type", "return", "test"}
  BY DEF Selects
<1>7. z = 1 /\ w = "test" => ks = <<Kid(n, 1)>> /\ 1 \in DOMAIN Kids(n)
  <2>1. z = 1 /\ w = "test" => ks = <<Kid(n, 1)>> /\ Kind(n) \in {"If", "While"}
    BY DEF Selects
  <2> QED
    BY <2>1, KindsOfKids
<1>8. ASSUME NEW k \in 1..Len(ts), Handles(ts[k], m) PROVE Handles(t, m)
  <2>1. CASE k \in 1..Len(ks)
    <3>1. PICK i \in DOMAIN Kids(n) :
             /\ ks[k] = Kid(n, i)
             /\ what = "visit" \/ (what = "test" /\ i # 1 /\ Kind(n) = "If")
      BY <1>2, <2>1
    <3>2. Kid(n, i) \in Path(prog, m)
      BY <1>5, <1>8, <2>1, <3>1
    <3> QED
      BY <1>4, <3>1, <3>2 DEF Handles
  <2>2. CASE z = 1 /\ k = Len(ks) + 1
    <3>1. ts[k][1] = w /\ ts[k][2] = n
      BY <1>1, <2>2
    <3>2. m = n \/ \E i \in DOMAIN Kids(n) : Kid(n, i) \in Path(prog, m)
      BY <1>6, <1>8, <2>2, <3>1 DEF Handles
    <3>3. n \in Path(prog, m)
      BY <1>3, <1>4, <3>2
    <3> QED
      BY <1>6, <2>2, <3>3 DEF Handles
  <2> QED
    BY <1>1, <2>1, <2>2
<1>9. ASSUME NEW j \in 1..Len(ks), NEW k \in 1..Len(ts), j < k,
             Handles(ts[j], m), Handles(ts[k], m)
      PROVE  FALSE
  <2>1. PICK i \in DOMAIN Kids(n) :
           ks[j] = Kid(n, i) /\ i = IF what = "test" THEN j + 1 ELSE j
    BY <1>2
  <2>2. Kid(n, i) \in Path(prog, m)
    BY <1>5, <1>9, <2>1
  <2>3. CASE k \in 1..Len(ks)
    <3>1. PICK l \in DOMAIN Kids(n) :
             ks[k] = Kid(n, l) /\ l = IF what = "test" THEN k + 1 ELSE k
      BY <1>2, <2>3
    <3>2. Kid(n, l) \in Path(prog, m)
      BY <1>5, <1>9, <2>3, <3>1
    <3>3. l = i
      BY <1>4, <2>2, <3>2
    <3> QED
      BY <1>9, <2>1, <2>3, <3>1, <3>3
  <2>4. CASE z = 1 /\ k = Len(ks) + 1
    <3>1. ts[k][1] = w /\ ts[k][2] = n
      BY <1>1, <2>4
    <3>2. w = "test" /\ \E l \in DOMAIN Kids(n) : l # 1 /\ Kid(n, l) \in Path(prog, m)
      BY <1>4, <1>6, <1>9, <2>2, <2>4, <3>1 DEF Handles
    <3>3. ks = <<Kid(n, 1)>> /\ 1 \in DOMAIN Kids(n)
      BY <1>7, <2>4, <3>2
    <3>4. Len(ks) = 1 /\ ks[1] = Kid(n, 1)
      BY <3>3
    <3>5. Kid(n, 1) \in Path(prog, m)
      BY <1>5, <1>9, <3>4
    <3> QED
      BY <1>4, <3>2, <3>3, <3>5
  <2> QED
    BY <1>1, <2>3, <2>4
<1>10. ASSUME NEW j \in 1..Len(ts), NEW k \in 1..Len(ts), j < k,
              Handles(ts[j], m), Handles(ts[k], m)
       PROVE  FALSE
  <2>1. j \in 1..Len(ks)
    BY <1>1, <1>10
  <2> QED
    BY <1>9, <1>10, <2>1
<1>11. ASSUME NEW j \in 1..Len(ts), NEW k \in 1..Len(ts), Handles(ts[j], m), Handles(ts[k], m)
       PROVE  j = k
  <2>1. j = k \/ j < k \/ k < j
    BY <1>1
  <2> QED
    BY <1>10, <1>11, <2>1
<1> QED
  BY <1>8, <1>11

(* Where the pending calls are after a handler of the checker has run.     *)
LEMMA CallsAfter ==
    ASSUME Planned, NEW n \in Nodes, NEW what, NEW ts, NEW ks, NEW z, NEW w,
           Goes(n, what, ts, 0, ks, z, w)
    PROVE  /\ Len(ts) \in Nat /\ Len(agenda) \in Nat
           /\ DOMAIN ts = 1..Len(ts) /\ DOMAIN agenda = 1..Len(agenda)
           /\ DOMAIN agenda' = 1..(Len(ts) + Len(agenda) - 1)
           /\ \A k \in 1..Len(ts) : agenda'[k] = ts[k]
           /\ \A k \in (Len(ts) + 1)..(Len(ts) + Len(agenda) - 1) :
                  agenda'[k] = agenda[k - Len(ts) + 1] /\ k - Len(ts) + 1 \in 2..Len(agenda)
           /\ \A k \in 2..Len(agenda) :
                  /\ k - 1 + Len(ts) \in DOMAIN agenda'
                  /\ agenda'[k - 1 + Len(ts)] = agenda[k]
           /\ 1 \in 1..Len(agenda) /\ agenda[1][1] = what /\ agenda[1][2] = n
<1>1. /\ Len(ts) \in Nat /\ Len(agenda) \in Nat
      /\ DOMAIN ts = 1..Len(ts) /\ DOMAIN agenda = 1..Len(agenda)
      /\ DOMAIN agenda' = 1..(Len(ts) + Len(agenda) - 1)
      /\ \A k \in 1..Len(ts) : agenda'[k] = ts[k]
      /\ \A k \in (Len(ts) + 1)..(Len(ts) + Len(agenda) - 1) :
             agenda'[k] = agenda[k - Len(ts) + 1]
      /\ Head(agenda) = agenda[1] /\ 1 \in 1..Len(agenda)
  BY NextCalls DEF Planned, Goes, Fans
<1>2. \A k \in (Len(ts) + 1)..(Len(ts) + Len(agenda) - 1) : k - Len(ts) + 1 \in 2..Len(agenda)
  BY <1>1
<1>3. ASSUME NEW k \in 2..Len(agenda)
      PROVE  k - 1 + Len(ts) \in DOMAIN agenda' /\ agenda'[k - 1 + Len(ts)] = agenda[k]
  <2>1. /\ k - 1 + Len(ts) \in (Len(ts) + 1)..(Len(ts) + Len(agenda) - 1)
        /\ (k - 1 + Len(ts)) - Len(ts) + 1 = k
    BY <1>1
  <2> QED
    BY <1>1, <2>1
<1> QED
  BY <1>1, <1>2, <1>3 DEF Goes

LEMMA HandlesStays ==
    ASSUME prog' = prog
    PROVE  \A t, m : Handles(t, m)' = Handles(t, m)
BY DEF Handles, Kind, Kids, Kid

LEMMA StillOnce ==
    ASSUME Planned, IsProgram(prog), HandledOnce, NEW n \in Nodes, NEW what, NEW ts, NEW ks,
           NEW z, NEW w, Goes(n, what, ts, 0, ks, z, w), Selects(n, what, ks, z, w)
    PROVE  HandledOnce'
<1>1. /\ Len(ts) \in Nat /\ Len(agenda) \in Nat
      /\ DOMAIN ts = 1..Len(ts) /\ DOMAIN agenda = 1..Len(agenda)
      /\ DOMAIN agenda' = 1..(Len(ts) + Len(agenda) - 1)
      /\ \A k \in 1..Len(ts) : agenda'[k] = ts[k]
      /\ \A k \in (Len(ts) + 1)..(Len(ts) + Len(agenda) - 1) :
             agenda'[k] = agenda[k - Len(ts) + 1] /\ k - Len(ts) + 1 \in 2..Len(agenda)
      /\ 1 \in 1..Len(agenda) /\ agenda[1][1] = what /\ agenda[1][2] = n
  BY CallsAfter
<1>2. prog' = prog /\ Nodes' = Nodes
  BY DEF Goes, Nodes
<1>3. \A t, m : Handles(t, m)' = Handles(t, m)
  BY <1>2, HandlesStays
<1>4. ASSUME NEW m \in Nodes, NEW j \in DOMAIN agenda', NEW k \in DOMAIN agenda',
             Handles(agenda'[j], m), Handles(agenda'[k], m)
      PROVE  j = k
  <2>1. /\ \A i \in 1..Len(ts) : Handles(ts[i], m) => Handles(agenda[1], m)
        /\ \A i, l \in 1..Len(ts) : Handles(ts[i], m) /\ Handles(ts[l], m) => i = l
    <3>1. Fans(ts, n, 0, ks, z, w)
      BY DEF Goes
    <3> PICK t : t = agenda[1]
      OBVIOUS
    <3>2. t[1] = what /\ t[2] = n
      BY <1>1
    <3>3. /\ \A i \in 1..Len(ts) : Handles(ts[i], m) => Handles(t, m)
          /\ \A i, l \in 1..Len(ts) : Handles(ts[i], m) /\ Handles(ts[l], m) => i = l
      BY <3>1, <3>2, CallsShare
    <3> QED
      BY <3>3
  <2>2. \A i, l \in DOMAIN agenda : Handles(agenda[i], m) /\ Handles(agenda[l], m) => i = l
    BY DEF HandledOnce
  <2>3. ASSUME NEW i \in DOMAIN agenda', Handles(agenda'[i], m)
        PROVE  \/ i \in 1..Len(ts) /\ Handles(ts[i], m) /\ Handles(agenda[1], m)
               \/ /\ i \in (Len(ts) + 1)..(Len(ts) + Len(agenda) - 1)
                  /\ i - Len(ts) + 1 \in 2..Len(agenda)
                  /\ Handles(agenda[i - Len(ts) + 1], m)
    <3>1. i \in 1..Len(ts) \/ i \in (Len(ts) + 1)..(Len(ts) + Len(agenda) - 1)
      BY <1>1
    <3>2. CASE i \in 1..Len(ts)
      BY <1>1, <2>1, <2>3, <3>2
    <3>3. CASE i \in (Len(ts) + 1)..(Len(ts) + Len(agenda) - 1)
      BY <1>1, <2>3, <3>3
    <3> QED
      BY <3>1, <3>2, <3>3
  <2>4. CASE j \in 1..Len(ts) /\ k \in 1..Len(ts)
    BY <1>1, <1>4, <2>1, <2>4
  <2>5. \A i \in 2..Len(agenda) : Handles(agenda[i], m) => ~Handles(agenda[1], m)
    <3> SUFFICES ASSUME NEW i \in 2..Len(agenda), Handles(agenda[i], m), Handles(agenda[1], m)
                 PROVE  FALSE
      OBVIOUS
    <3>1. i \in DOMAIN agenda /\ 1 \in DOMAIN agenda /\ i # 1
      BY <1>1
    <3> QED
      BY <2>2, <3>1
  <2>6. CASE j \notin 1..Len(ts) /\ k \notin 1..Len(ts)
    <3>1. /\ j - Len(ts) + 1 \in 2..Len(agenda) /\ Handles(agenda[j - Len(ts) + 1], m)
          /\ k - Len(ts) + 1 \in 2..Len(agenda) /\ Handles(agenda[k - Len(ts) + 1], m)
      BY <1>4, <2>3, <2>6
    <3>2. j - Len(ts) + 1 \in DOMAIN agenda /\ k - Len(ts) + 1 \in DOMAIN agenda
      BY <1>1, <3>1
    <3>3. j - Len(ts) + 1 = k - Len(ts) + 1
      BY <2>2, <3>1, <3>2
    <3> QED
      BY <1>1, <3>3
  <2> QED
    BY <1>4, <2>3, <2>4, <2>5, <2>6
<1> QED
  BY <1>2, <1>3, <1>4 DEF HandledOnce

LEMMA StillAnswered ==
    ASSUME Planned, IsProgram(prog), Answered, NEW n \in Nodes, NEW what, NEW ts, NEW ks,
           NEW z, NEW w, Goes(n, what, ts, 0, ks, z, w), Selects(n, what, ks, z, w)
    PROVE  Answered'
<1>1. /\ Len(ts) \in Nat /\ Len(agenda) \in Nat
      /\ DOMAIN ts = 1..Len(ts) /\ DOMAIN agenda = 1..Len(agenda)
      /\ DOMAIN agenda' = 1..(Len(ts) + Len(agenda) - 1)
      /\ \A k \in 1..Len(ts) : agenda'[k] = ts[k]
      /\ \A k \in (Len(ts) + 1)..(Len(ts) + Len(agenda) - 1) :
             agenda'[k] = agenda[k - Len(ts) + 1] /\ k - Len(ts) + 1 \in 2..Len(agenda)
      /\ \A k \in 2..Len(agenda) :
             k - 1 + Len(ts) \in DOMAIN agenda' /\ agenda'[k - 1 + Len(ts)] = agenda[k]
      /\ 1 \in 1..Len(agenda) /\ agenda[1][1] = what /\ agenda[1][2] = n
  BY CallsAfter
<1>2. prog' = prog
  BY DEF Goes
<1>3. \A t : Owing(t)' = Owing(t)
  BY <1>2 DEF Owing, Kind
<1>4. /\ ks \in Seq(Nat) /\ z \in {0, 1} /\ Len(ks) \in Nat /\ Len(ts) = Len(ks) + z
      /\ \A k \in 1..Len(ks) : ts[k][1] = "visit" /\ ts[k][2] = ks[k]
      /\ z = 1 => ts[Len(ks) + 1][1] = w /\ ts[Len(ks) + 1][2] = n
  BY DEF Goes, Fans
<1>5. ASSUME NEW k \in 2..Len(agenda), Owing(agenda[k])
      PROVE  \E l \in DOMAIN agenda' :
                /\ k - 1 + Len(ts) < l /\ agenda'[l][1] = "type"
                /\ agenda'[l][2] = ParentOf(prog, agenda[k][2])
  <2>1. PICK l \in DOMAIN agenda :
           k < l /\ agenda[l][1] = "type" /\ agenda[l][2] = ParentOf(prog, agenda[k][2])
    BY <1>1, <1>5 DEF Answered
  <2>2. l \in 2..Len(agenda) /\ k - 1 + Len(ts) < l - 1 + Len(ts)
    BY <1>1, <2>1
  <2>3. l - 1 + Len(ts) \in DOMAIN agenda' /\ agenda'[l - 1 + Len(ts)] = agenda[l]
    BY <1>1, <2>2
  <2> QED
    BY <2>1, <2>2, <2>3
<1>6. Owing(agenda[1]) =>
         \E l \in DOMAIN agenda' :
            /\ Len(ts) < l /\ agenda'[l][1] = "type" /\ agenda'[l][2] = ParentOf(prog, n)
  <2> SUFFICES ASSUME Owing(agenda[1])
               PROVE  \E l \in DOMAIN agenda' :
                         /\ Len(ts) < l /\ agenda'[l][1] = "type"
                         /\ agenda'[l][2] = ParentOf(prog, n)
    OBVIOUS
  <2>1. PICK l \in DOMAIN agenda :
           1 < l /\ agenda[l][1] = "type" /\ agenda[l][2] = ParentOf(prog, n)
    BY <1>1 DEF Answered
  <2>2. l \in 2..Len(agenda) /\ Len(ts) < l - 1 + Len(ts)
    BY <1>1, <2>1
  <2> QED
    BY <1>1, <2>1, <2>2
<1>7. ASSUME NEW k \in 1..Len(ts), Owing(ts[k])
      PROVE  \E l \in DOMAIN agenda' :
                k < l /\ agenda'[l][1] = "type" /\ agenda'[l][2] = ParentOf(prog, ts[k][2])
  <2>1. CASE k \in 1..Len(ks)
    <3>1. PICK i \in DOMAIN Kids(n) :
             /\ ks[k] = Kid(n, i)
             /\ what = "visit" \/ (what = "test" /\ i # 1 /\ Kind(n) = "If")
      BY <2>1, SelectedKids
    <3>2. ts[k][2] = Kid(n, i) /\ ParentOf(prog, Kid(n, i)) = n
      <4>1. n \in DOMAIN prog /\ i \in DOMAIN prog[n].kids /\ prog[n].kids[i] = Kid(n, i)
        BY DEF Nodes, Kids, Kid
      <4> QED
        BY <1>4, <2>1, <3>1, <4>1, KidsInOrder
    <3>3. Kind(n) \in Operated
      BY <1>7, <3>2 DEF Owing
    <3>4. ks # <<>>
      BY <1>4, <2>1
    <3>5. z = 1 /\ w = "type"
      BY <3>3, <3>4 DEF Selects, Operated
    <3>6. Len(ks) + 1 \in DOMAIN agenda' /\ agenda'[Len(ks) + 1] = ts[Len(ks) + 1]
          /\ k < Len(ks) + 1
      BY <1>1, <1>4, <2>1, <3>5
    <3> QED
      BY <1>4, <3>2, <3>5, <3>6
  <2>2. CASE k = Len(ks) + 1 /\ z = 1
    <3>1. ts[k][1] = w /\ ts[k][2] = n
      BY <1>4, <2>2
    <3>2. what = "visit"
      BY <2>2 DEF Selects
    <3>3. Owing(agenda[1])
      BY <1>1, <1>7, <3>1, <3>2 DEF Owing
    <3> QED
      BY <1>1, <1>4, <1>6, <2>2, <3>1, <3>3
  <2> QED
    BY <1>4, <2>1, <2>2
<1>8. ASSUME NEW k \in DOMAIN agenda', Owing(agenda'[k])
      PROVE  \E l \in DOMAIN agenda' :
                k < l /\ agenda'[l][1] = "type" /\ agenda'[l][2] = ParentOf(prog, agenda'[k][2])
  <2>1. CASE k \in 1..Len(ts)
    BY <1>1, <1>7, <1>8, <2>1
  <2>2. CASE k \in (Len(ts) + 1)..(Len(ts) + Len(agenda) - 1)
    <3> DEFINE j == k - Len(ts) + 1
    <3>1. j \in 2..Len(agenda) /\ agenda'[k] = agenda[j] /\ j - 1 + Len(ts) = k
      BY <1>1, <2>2
    <3> HIDE DEF j
    <3> QED
      BY <1>5, <1>8, <3>1
  <2> QED
    BY <1>1, <2>1, <2>2
<1> QED
  BY <1>2, <1>3, <1>8 DEF Answered

Typable == Operated \union {"Literal", "Ident"}

LEMMA MeaningIs ==
    ASSUME NEW f, NEW n
    PROVE  /\ Kind(n) \in {"Literal", "VarDecl"} => MeaningOf(f, n) = prog[n].type
           /\ Kind(n) = "Ident" => MeaningOf(f, n) = SymbolAt(ctx, symbolOf[n]).type
           /\ Kind(n) = "Binary" =>
                  MeaningOf(f, n) = BinaryType(prog[n].op, f[Kid(n, 1)], f[Kid(n, 2)])
           /\ Kind(n) \in {"Unary", "Assign", "Arg", "ExprStmt"} =>
                  MeaningOf(f, n) = f[Kid(n, 1)]
           /\ Kind(n) = "Call" =>
                  MeaningOf(f, n) =
                      SymbolAt(ctx, FindOverload(methods, Name(n),
                                                 [i \in DOMAIN Kids(n) |-> f[Kid(n, i)]])).type
           /\ Kind(n) \notin Typable => MeaningOf(f, n) = "void"
<1> DEFINE A == prog[n].type
           B == SymbolAt(ctx, symbolOf[n]).type
           C == BinaryType(prog[n].op, f[Kid(n, 1)], f[Kid(n, 2)])
           D == f[Kid(n, 1)]
           E == SymbolAt(ctx, FindOverload(methods, Name(n),
                                           [i \in DOMAIN Kids(n) |-> f[Kid(n, i)]])).type
           kind == Kind(n)
<1>1. MeaningOf(f, n) = CASE kind \in {"Literal", "VarDecl"} -> A
                          [] kind = "Ident"  -> B
                          [] kind = "Binary" -> C
                          [] kind \in {"Unary", "Assign", "Arg", "ExprStmt"} -> D
                          [] kind = "Call" -> E
                          [] OTHER -> "void"
  BY DEF MeaningOf
<1> HIDE DEF A, B, C, D, E, kind
<1>2. CASE kind \in {"Literal", "VarDecl"}
  BY <1>1, <1>2 DEF A, kind, Typable, Operated
<1>3. CASE kind = "Ident"
  BY <1>1, <1>3 DEF B, kind, Typable, Operated
<1>4. CASE kind = "Binary"
  BY <1>1, <1>4 DEF C, kind, Typable, Operated
<1>5. CASE kind \in {"Unary", "Assign", "Arg", "ExprStmt"}
  BY <1>1, <1>5 DEF D, kind, Typable, Operated
<1>6. CASE kind = "Call"
  BY <1>1, <1>6 DEF E, kind, Typable, Operated
<1>7. CASE kind \notin Typable
  BY <1>1, <1>7 DEF kind, Typable, Operated
<1> QED
  BY <1>2, <1>3, <1>4, <1>5, <1>6, <1>7 DEF Typable, Operated

LEMMA MeaningDepends ==
    ASSUME IsProgram(prog), NEW n \in Nodes, NEW f, NEW g,
           \A i \in DOMAIN Kids(n) : f[Kid(n, i)] = g[Kid(n, i)]
    PROVE  MeaningOf(f, n) = MeaningOf(g, n)
<1>1. Kind(n) \in {"Unary", "Assign", "Arg", "ExprStmt"} => 1 \in DOMAIN Kids(n)
  BY KindsOfKids
<1>2. Kind(n) = "Binary" => 1 \in DOMAIN Kids(n) /\ 2 \in DOMAIN Kids(n)
  BY KindsOfKids
<1>3. [i \in DOMAIN Kids(n) |-> f[Kid(n, i)]] = [i \in DOMAIN Kids(n) |-> g[Kid(n, i)]]
  OBVIOUS
<1>4. CASE Kind(n) \in {"Literal", "VarDecl", "Ident"}
  BY <1>4, MeaningIs
<1>5. CASE Kind(n) = "Binary"
  <2>1. f[Kid(n, 1)] = g[Kid(n, 1)] /\ f[Kid(n, 2)] = g[Kid(n, 2)]
    BY <1>2, <1>5
  <2>2. MeaningOf(f, n) = BinaryType(prog[n].op, f[Kid(n, 1)], f[Kid(n, 2)])
    BY <1>5, MeaningIs
  <2>3. MeaningOf(g, n) = BinaryType(prog[n].op, g[Kid(n, 1)], g[Kid(n, 2)])
    BY <1>5, MeaningIs
  <2> QED
    BY <2>1, <2>2, <2>3
<1>6. CASE Kind(n) \in {"Unary", "Assign", "Arg", "ExprStmt"}
  BY <1>1, <1>6, MeaningIs
<1>7. CASE Kind(n) = "Call"
  <2> DEFINE F == [i \in DOMAIN Kids(n) |-> f[Kid(n, i)]]
             G == [i \in DOMAIN Kids(n) |-> g[Kid(n, i)]]
  <2>1. MeaningOf(f, n) = SymbolAt(ctx, FindOverload(methods, Name(n), F)).type
    BY <1>7, MeaningIs
  <2>2. MeaningOf(g, n) = SymbolAt(ctx, FindOverload(methods, Name(n), G)).type
    BY <1>7, MeaningIs
  <2>3. F = G
    BY <1>3
  <2> HIDE DEF F, G
  <2> QED
    BY <2>1, <2>2, <2>3
<1>8. CASE Kind(n) \notin Typable
  BY <1>8, MeaningIs
<1> QED
  BY <1>4, <1>5, <1>6, <1>7, <1>8 DEF Typable, Operated

(* There is such a meaning for every node: that of a node depends only on  *)
(* nodes of higher numbers.                                                *)
LEMMA MeaningExists ==
    ASSUME IsProgram(prog)
    PROVE  \E f : f = [n \in Nodes |-> MeaningOf(f, n)]
<1> DEFINE N == Len(prog)
           Means(f, k) == /\ f = [n \in Nodes |-> f[n]]
                          /\ \A n \in Nodes : N - n < k => f[n] = MeaningOf(f, n)
           Without == {k \in 0..N : ~\E f : Means(f, k)}
<1>1. Nodes = 1..N /\ N \in Nat
  BY DEF IsProgram, Nodes
<1>2. CASE Without = {}
  <2>1. N \in 0..N
    BY <1>1
  <2>2. PICK f : Means(f, N)
    <3> HIDE DEF Means
    <3> QED
      BY <1>2, <2>1
  <2>3. \A n \in Nodes : f[n] = MeaningOf(f, n)
    BY <1>1, <2>2
  <2>4. f = [n \in Nodes |-> MeaningOf(f, n)]
    BY <2>2, <2>3
  <2> QED
    BY <2>4
<1> SUFFICES ASSUME Without # {} PROVE FALSE
  BY <1>2
<1>3. PICK k \in Without : \A j \in Without : k <= j
  <2>1. Without \subseteq Nat
    <3> HIDE DEF Means
    <3> QED
      BY <1>1
  <2> HIDE DEF Without
  <2> QED
    BY <2>1, LeastOf
<1>4. k # 0
  <2>1. Means([n \in Nodes |-> 0], 0)
    BY <1>1
  <2> HIDE DEF Means
  <2> QED
    BY <1>3, <2>1
<1>5. k \in 1..N /\ k - 1 \in 0..N
  <2>1. k \in 0..N
    <3> HIDE DEF Means
    <3> QED
      BY <1>3
  <2> QED
    BY <1>1, <1>4, <2>1
<1>6. PICK f : Means(f, k - 1)
  <2>1. ~(k <= k - 1)
    BY <1>1, <1>5
  <2>2. k - 1 \notin Without
    <3> HIDE DEF Without
    <3> QED
      BY <1>3, <2>1
  <2> HIDE DEF Means
  <2> QED
    BY <1>5, <2>2
<1> DEFINE m == N - (k - 1)
           g == [n \in Nodes |-> IF n = m THEN MeaningOf(f, m) ELSE f[n]]
<1>7. m \in Nodes /\ N - m = k - 1
  BY <1>1, <1>5
<1> HIDE DEF m
<1>8. ASSUME NEW n \in Nodes, N - n < k
      PROVE  g[n] = MeaningOf(g, n)
  <2>1. \A i \in DOMAIN Kids(n) : Kid(n, i) \in Nodes /\ Kid(n, i) > n
    BY KidsArePending
  <2>2. n >= m
    BY <1>1, <1>5, <1>7, <1>8
  <2>3. \A i \in DOMAIN Kids(n) : f[Kid(n, i)] = g[Kid(n, i)]
    BY <1>1, <1>7, <2>1, <2>2
  <2>4. MeaningOf(f, n) = MeaningOf(g, n)
    <3> HIDE DEF g
    <3> QED
      BY <2>3, MeaningDepends
  <2>5. CASE n = m
    BY <2>4, <2>5
  <2>6. CASE n # m
    <3>1. N - n < k - 1
      BY <1>1, <1>5, <1>7, <1>8, <2>6
    <3>2. f[n] = MeaningOf(f, n)
      BY <1>6, <3>1
    <3> QED
      BY <2>4, <2>6, <3>2
  <2> QED
    BY <2>5, <2>6
<1>9. Means(g, k)
  <2>1. g = [n \in Nodes |-> g[n]]
    OBVIOUS
  <2> HIDE DEF g
  <2> QED
    BY <1>8, <2>1
<1> QED
  <2> HIDE DEF Means, g
  <2> QED
    BY <1>3, <1>9

LEMMA MeaningFits ==
    ASSUME IsProgram(prog)
    PROVE  \A n \in Nodes : Meaning[n] = MeaningOf(Meaning, n)
<1> DEFINE type == CHOOSE type : type = [n \in Nodes |-> MeaningOf(type, n)]
<1>1. type = [n \in Nodes |-> MeaningOf(type, n)]
  BY MeaningExists
<1>2. Meaning = type
  BY DEF Meaning
<1> HIDE DEF type
<1> QED
  BY <1>1, <1>2

(* The calls of a handler that has reported nothing.                       *)
AsksAll(n, what) ==
    \/ what \in {"leave", "return", "type"}
    \/ what = "test" /\ Kind(n) = "While"
    \/ what = "visit" /\ Kind(n) \in {"Literal", "Ident"}
    \/ /\ what = "visit" /\ Kind(n) \in {"Program", "Block"}
       /\ Then(Visits(Kids(n)) \o <<Task("leave", n, 0)>>)
    \/ what = "visit" /\ Kind(n) = "Method" /\ Then(Visits(Kids(n)))
    \/ /\ what = "visit" /\ Kind(n) = "Return"
       /\ Then(<<Task("visit", Kid(n, 1), 0), Task("return", n, 0)>>)
    \/ /\ what = "visit" /\ Kind(n) \in Operated
       /\ Then(Visits(Kids(n)) \o <<Task("type", n, 0)>>)
    \/ /\ what = "visit" /\ Kind(n) \in {"If", "While"}
       /\ Then(<<Task("visit", Kid(n, 1), 0), Task("test", n, 0)>>)
    \/ what = "test" /\ Kind(n) = "If" /\ Then(Visits(Tail(Kids(n))))

LEMMA KidsCounted ==
    ASSUME IsProgram(prog), NEW n \in Nodes
    PROVE  /\ Kind(n) = "Return" => DOMAIN Kids(n) = {1}
           /\ Kind(n) = "While" => DOMAIN Kids(n) = {1, 2}
           /\ Kind(n) \in {"Literal", "Ident"} => DOMAIN Kids(n) = {}
<1>1. DOMAIN Kids(n) = 1..Len(Kids(n)) /\ Len(Kids(n)) \in Nat
  BY KidsArePending
<1>2. CASE Kind(n) \in {"Return", "While", "Literal", "Ident"}
  <2>1. PICK allowed \in ChildKinds(Kind(n)) : Len(Kids(n)) = Len(allowed)
    BY <1>2, KidsFit
  <2> DEFINE E == ExprKinds
             S == StmtKinds
  <2>2. /\ Kind(n) = "Return" => allowed = <<E>>
        /\ Kind(n) = "While" => allowed = <<E, S>>
        /\ Kind(n) \in {"Literal", "Ident"} => allowed = <<>>
    BY <1>2, <2>1 DEF ChildKinds
  <2> HIDE DEF E, S
  <2>3. /\ Kind(n) = "Return" => Len(Kids(n)) = 1
        /\ Kind(n) = "While" => Len(Kids(n)) = 2
        /\ Kind(n) \in {"Literal", "Ident"} => Len(Kids(n)) = 0
    BY <2>1, <2>2
  <2> QED
    BY <1>1, <2>3
<1> QED
  BY <1>2

(* What is below a node is reached through one of its children.            *)
LEMMA ThroughKid ==
    ASSUME IsProgram(prog), NEW n \in Nodes, NEW m \in Nodes, m # n, n \in Path(prog, m)
    PROVE  \E i \in DOMAIN Kids(n) : Kid(n, i) \in Path(prog, m)
BY PathsGoUp DEF Nodes, Kids, Kid

LEMMA StillComing ==
    ASSUME Planned, IsProgram(prog), NEW n \in Nodes, NEW what, pass = "check",
           agenda # <<>>, Head(agenda)[1] = what, Head(agenda)[2] = n, AsksAll(n, what),
           NEW m \in Nodes, m # n, ~InLoopBody(m), Handles(Head(agenda), m)
    PROVE  \E k \in DOMAIN agenda' : Handles(agenda'[k], m)
<1>1. IsSeq(agenda)
  BY DEF Planned
<1>2. /\ Kids(n) \in Seq(Nat) /\ DOMAIN Kids(n) = 1..Len(Kids(n)) /\ Len(Kids(n)) \in Nat
      /\ \A i \in DOMAIN Kids(n) : Kids(n)[i] \in Nodes /\ Kids(n)[i] = Kid(n, i)
  BY KidsArePending
<1>3. ASSUME NEW ts, NEW ks, NEW z, NEW w, Then(ts), Fans(ts, n, 0, ks, z, w)
      PROVE  /\ \A k \in DOMAIN ks : /\ k \in DOMAIN agenda'
                                     /\ agenda'[k][1] = "visit" /\ agenda'[k][2] = ks[k]
             /\ z = 1 => /\ Len(ks) + 1 \in DOMAIN agenda'
                         /\ agenda'[Len(ks) + 1][1] = w /\ agenda'[Len(ks) + 1][2] = n
  <2>1. /\ IsSeq(ts) /\ ks \in Seq(Nat) /\ Len(ks) \in Nat /\ DOMAIN ks = 1..Len(ks)
        /\ z \in {0, 1} /\ Len(ts) = Len(ks) + z
        /\ \A k \in 1..Len(ks) : ts[k][1] = "visit" /\ ts[k][2] = ks[k]
        /\ z = 1 => ts[Len(ks) + 1][1] = w /\ ts[Len(ks) + 1][2] = n
    BY <1>3 DEF Fans
  <2>2. /\ Len(ts) \in Nat /\ Len(agenda) \in Nat /\ 1 \in 1..Len(agenda)
        /\ DOMAIN agenda' = 1..(Len(ts) + Len(agenda) - 1)
        /\ \A k \in 1..Len(ts) : agenda'[k] = ts[k]
    BY <1>1, <1>3, <2>1, NextCalls
  <2>3. \A k \in 1..Len(ts) : k \in DOMAIN agenda'
    BY <2>2
  <2>4. \A k \in DOMAIN ks : k \in 1..Len(ts)
    BY <2>1, <2>2
  <2>5. z = 1 => Len(ks) + 1 \in 1..Len(ts)
    BY <2>1, <2>2
  <2> QED
    BY <2>1, <2>2, <2>3, <2>4, <2>5
<1>4. ASSUME NEW k \in DOMAIN agenda', NEW i \in DOMAIN Kids(n), Kid(n, i) \in Path(prog, m),
             agenda'[k][1] = "visit", agenda'[k][2] = Kid(n, i)
      PROVE  \E j \in DOMAIN agenda' : Handles(agenda'[j], m)
  BY <1>4 DEF Handles
<1>5. \/ what = "visit" /\ n \in Path(prog, m)
      \/ /\ what = "test" /\ Kind(n) = "If"
         /\ \E i \in DOMAIN Kids(n) : i # 1 /\ Kid(n, i) \in Path(prog, m)
  BY DEF Handles
<1>6. PICK i \in DOMAIN Kids(n) : /\ Kid(n, i) \in Path(prog, m)
                                  /\ what # "visit" => i # 1
  BY <1>5, ThroughKid
<1>7. what \in {"visit", "test"} /\ (what = "test" => Kind(n) = "If")
  BY <1>5
<1>8. CASE Kind(n) \in {"Literal", "Ident"}
  BY <1>6, <1>8, KidsCounted
<1>9. ASSUME NEW w, Then(Visits(Kids(n)) \o <<Task(w, n, 0)>>)
      PROVE  \E j \in DOMAIN agenda' : Handles(agenda'[j], m)
  <2> PICK ts : ts = Visits(Kids(n)) \o <<Task(w, n, 0)>>
    OBVIOUS
  <2> PICK ks : ks = Kids(n)
    OBVIOUS
  <2>1. Fans(ts, n, 0, ks, 1, w)
    BY <1>2, VisitsThenFan
  <2>2. Then(ts)
    BY <1>9
  <2>3. \A k \in DOMAIN ks : /\ k \in DOMAIN agenda'
                             /\ agenda'[k][1] = "visit" /\ agenda'[k][2] = ks[k]
    BY <1>3, <2>1, <2>2
  <2> QED
    BY <1>2, <1>4, <1>6, <2>3
<1>0. ASSUME NEW ks \in Seq(Nat), NEW ts, ts = Visits(ks), Then(ts)
      PROVE  \A k \in DOMAIN ks : /\ k \in DOMAIN agenda'
                                  /\ agenda'[k][1] = "visit" /\ agenda'[k][2] = ks[k]
  <2>1. Fans(ts, n, 0, ks, 0, "leave")
    BY <1>0, VisitsFan
  <2> QED
    BY <1>0, <1>3, <2>1
<1>10. CASE Then(Visits(Kids(n)))
  <2>1. i \in DOMAIN agenda' /\ agenda'[i][1] = "visit" /\ agenda'[i][2] = Kid(n, i)
    BY <1>0, <1>2, <1>10
  <2> QED
    BY <1>4, <1>6, <2>1
<1>11. ASSUME NEW w, Then(<<Task("visit", Kid(n, 1), 0), Task(w, n, 0)>>),
              1 \in DOMAIN Kids(n)
       PROVE  /\ 1 \in DOMAIN agenda' /\ agenda'[1][1] = "visit" /\ agenda'[1][2] = Kid(n, 1)
              /\ 2 \in DOMAIN agenda' /\ agenda'[2][1] = w /\ agenda'[2][2] = n
  <2>1. Kid(n, 1) \in Nat
    BY <1>2, <1>11
  <2>2. Fans(<<Task("visit", Kid(n, 1), 0), Task(w, n, 0)>>, n, 0, <<Kid(n, 1)>>, 1, w)
    BY <2>1, VisitThenFan
  <2> PICK ks : ks = <<Kid(n, 1)>>
    OBVIOUS
  <2>3. DOMAIN ks = {1} /\ ks[1] = Kid(n, 1) /\ Len(ks) = 1
    OBVIOUS
  <2>4. Fans(<<Task("visit", Kid(n, 1), 0), Task(w, n, 0)>>, n, 0, ks, 1, w)
    BY <2>2
  <2>5. /\ \A k \in DOMAIN ks : /\ k \in DOMAIN agenda'
                                /\ agenda'[k][1] = "visit" /\ agenda'[k][2] = ks[k]
        /\ Len(ks) + 1 \in DOMAIN agenda'
        /\ agenda'[Len(ks) + 1][1] = w /\ agenda'[Len(ks) + 1][2] = n
    BY <1>3, <1>11, <2>4
  <2>6. Len(ks) + 1 = 2
    BY <2>3
  <2> QED
    BY <2>3, <2>5, <2>6
<1>12. CASE Kind(n) = "Return" /\ Then(<<Task("visit", Kid(n, 1), 0), Task("return", n, 0)>>)
  <2>1. i = 1 /\ 1 \in DOMAIN Kids(n)
    BY <1>6, <1>12, KidsCounted
  <2> QED
    BY <1>4, <1>6, <1>11, <1>12, <2>1
<1>13. CASE /\ what = "visit" /\ Kind(n) \in {"If", "While"}
            /\ Then(<<Task("visit", Kid(n, 1), 0), Task("test", n, 0)>>)
  <2>1. 1 \in DOMAIN Kids(n)
    BY <1>13, KindsOfKids
  <2>2. CASE i = 1
    BY <1>4, <1>6, <1>11, <1>13, <2>1, <2>2
  <2>3. CASE i # 1 /\ Kind(n) = "If"
    <3>1. 2 \in DOMAIN agenda' /\ agenda'[2][1] = "test" /\ agenda'[2][2] = n
      BY <1>11, <1>13, <2>1
    <3>2. Handles(agenda'[2], m)
      BY <1>6, <2>3, <3>1 DEF Handles
    <3> QED
      BY <3>1, <3>2
  <2>4. CASE i # 1 /\ Kind(n) = "While"
    <3>1. Kid(n, 2) \in Path(prog, m)
      BY <1>6, <2>4, KidsCounted
    <3>2. n \in Path(prog, m)
      BY <1>5, <1>13
    <3> QED
      BY <2>4, <3>1, <3>2 DEF InLoopBody
  <2> QED
    BY <1>13, <2>2, <2>3, <2>4
<1>14. CASE what = "test" /\ Kind(n) = "If" /\ Then(Visits(Tail(Kids(n))))
  <2> PICK q : q = Kids(n)
    OBVIOUS
  <2>1. q \in Seq(Nat) /\ i \in DOMAIN q /\ i # 1 /\ DOMAIN q = 1..Len(q) /\ Len(q) \in Nat
        /\ q # <<>> /\ q[i] = Kid(n, i)
    BY <1>2, <1>6, <1>14
  <2> PICK ks : ks = Tail(q)
    OBVIOUS
  <2>2. ks \in Seq(Nat) /\ i - 1 \in DOMAIN ks /\ ks[i - 1] = q[i]
    BY <2>1
  <2> PICK ts : ts = Visits(ks)
    OBVIOUS
  <2>4. Then(ts)
    BY <1>14
  <2>5. \A k \in DOMAIN ks : /\ k \in DOMAIN agenda'
                             /\ agenda'[k][1] = "visit" /\ agenda'[k][2] = ks[k]
    BY <1>0, <2>2, <2>4
  <2> QED
    BY <1>4, <1>6, <2>1, <2>2, <2>5
<1> QED
  BY <1>7, <1>8, <1>9, <1>10, <1>12, <1>13, <1>14 DEF AsksAll

(* What a handler that has reported nothing leaves on the nodes.           *)
Writes(n, what) ==
    \/ /\ what # "type" /\ (what = "visit" => Kind(n) \notin {"Literal", "Ident"})
       /\ typeOf' = typeOf /\ result' = result
    \/ /\ what = "return" /\ Kind(n) = "Return" /\ result' = result
       /\ \E t : typeOf' = [typeOf EXCEPT ![Kid(n, 1)] = t]
    \/ /\ \/ what = "type" /\ Kind(n) \in Operated
          \/ what = "visit" /\ Kind(n) \in {"Literal", "Ident"}
       /\ Kind(n) = "Ident" => symbolOf[n] \notin Garbage
       /\ Kind(n) = "VarDecl" =>
              \A i \in DOMAIN Kids(n) : TypeEquals(prog[n].type, typeOf[Kid(n, i)])
       /\ \E t : /\ t = MeaningOf(typeOf, n) \/ t = MeaningOf(result, n)
                 /\ typeOf' = [typeOf EXCEPT ![n] = t]
                 /\ IF Kind(n) = "ExprStmt" THEN result' = result
                                            ELSE result' = [result EXCEPT ![n] = t]

LEMMA CheckWrites ==
    ASSUME SettledInv, TypedInv, NEW n \in Pending, Checks(n), pass' = pass,
           ~ReportedBy("TypeChecker")'
    PROVE  \E what : Doing("check", what, n, 0) /\ AsksAll(n, what) /\ Writes(n, what)
<1> DEFINE Goal == \E what : Doing("check", what, n, 0) /\ AsksAll(n, what) /\ Writes(n, what)
<1>1. n \in Nodes /\ pass = "check" /\ pass # "crashed" /\ prog' = prog
  BY CheckAsks
<1>2. Planned /\ IsProgram(prog)
  BY <1>1 DEF SettledInv, Planned
<1>3. ASSUME NEW what, Doing("check", what, n, 0), AsksAll(n, what), Writes(n, what)
      PROVE  Goal
  BY <1>3
<1> HIDE DEF Goal
<1>4. ASSUME NEW m, Report("TypeChecker", m, n) PROVE FALSE
  <2>1. <<"TypeChecker", m, n>> \in errors'
    BY <1>4 DEF Report
  <2> QED
    BY <2>1 DEF ReportedBy
<1>5. ASSUME NEW m, Untyped(n, m) PROVE FALSE
  BY <1>4, <1>5 DEF Untyped, Error
<1>6. ASSUME Dies PROVE FALSE
  BY <1>1, <1>6 DEF Dies, Crash
<1>7. ASSUME NEW ts, Call(ts) PROVE Then(ts) /\ typeOf' = typeOf /\ result' = result
  BY <1>7 DEF Call
<1>8. /\ DOMAIN Kids(n) = 1..Len(Kids(n)) /\ Len(Kids(n)) \in Nat
      /\ \A i \in DOMAIN Kids(n) : Kid(n, i) \in Nodes
  BY <1>1, <1>2, KidsArePending
<1>9. \A f : /\ Kind(n) \in {"Literal", "VarDecl"} => MeaningOf(f, n) = prog[n].type
             /\ Kind(n) = "Ident" => MeaningOf(f, n) = SymbolAt(ctx, symbolOf[n]).type
             /\ Kind(n) = "Binary" =>
                    MeaningOf(f, n) = BinaryType(prog[n].op, f[Kid(n, 1)], f[Kid(n, 2)])
             /\ Kind(n) \in {"Unary", "Assign", "Arg", "ExprStmt"} =>
                    MeaningOf(f, n) = f[Kid(n, 1)]
  BY MeaningIs
<1>10. ASSUME CheckScope(n) PROVE Goal
  <2>1. /\ Doing("check", "visit", n, 0) /\ Kind(n) \in {"Program", "Block"}
        /\ Call(Visits(Kids(n)) \o <<Task("leave", n, 0)>>)
    BY <1>10 DEF CheckScope
  <2>2. AsksAll(n, "visit") /\ Writes(n, "visit")
    BY <1>7, <2>1 DEF AsksAll, Writes
  <2> QED
    BY <1>3, <2>1, <2>2
<1>11. ASSUME CheckLeave(n) PROVE Goal
  <2>1. Doing("check", "leave", n, 0) /\ Call(<<>>)
    BY <1>11 DEF CheckLeave
  <2>2. AsksAll(n, "leave") /\ Writes(n, "leave")
    BY <1>7, <2>1 DEF AsksAll, Writes
  <2> QED
    BY <1>3, <2>1, <2>2
<1>12. ASSUME CheckMethodDecl(n) PROVE Goal
  <2>1. Doing("check", "visit", n, 0) /\ Kind(n) = "Method" /\ Call(Visits(Kids(n)))
    BY <1>5, <1>12 DEF CheckMethodDecl
  <2>2. AsksAll(n, "visit") /\ Writes(n, "visit")
    BY <1>7, <2>1 DEF AsksAll, Writes
  <2> QED
    BY <1>3, <2>1, <2>2
<1>13. ASSUME TestCondition(n) PROVE Goal
  <2>1. Doing("check", "test", n, 0)
    BY <1>13 DEF TestCondition
  <2>2. Call(IF Kind(n) = "If" THEN Visits(Tail(Kids(n))) ELSE <<>>)
    BY <1>4, <1>6, <1>13 DEF TestCondition, Error
  <2>3. Kind(n) \in {"If", "While"}
    <3>1. Fits("check", prog, <<"test", n, 0>>)
      BY <1>1, <1>2, <2>1, HeadFits
    <3> QED
      BY <3>1 DEF Fits, Kind
  <2>4. AsksAll(n, "test") /\ Writes(n, "test")
    <3>1. typeOf' = typeOf /\ result' = result
      BY <1>7, <2>2
    <3>2. Kind(n) = "If" => Then(Visits(Tail(Kids(n))))
      BY <1>7, <2>2
    <3> QED
      BY <2>3, <3>1, <3>2 DEF AsksAll, Writes
  <2> QED
    BY <1>3, <2>1, <2>4
<1>14. ASSUME CheckReturn(n) PROVE Goal
  <2>1. Doing("check", "visit", n, 0) /\ Kind(n) = "Return"
    BY <1>14 DEF CheckReturn
  <2>2. Call(<<Task("visit", Kid(n, 1), 0), Task("return", n, 0)>>)
    BY <1>4, <1>14 DEF CheckReturn, Error
  <2>3. AsksAll(n, "visit") /\ Writes(n, "visit")
    BY <1>7, <2>1, <2>2 DEF AsksAll, Writes
  <2> QED
    BY <1>3, <2>1, <2>3
<1>15. ASSUME ReturnType(n) PROVE Goal
  <2>1. Doing("check", "return", n, 0)
    BY <1>15 DEF ReturnType
  <2>2. result' = result /\ \E t : typeOf' = [typeOf EXCEPT ![Kid(n, 1)] = t]
    BY <1>4, <1>15 DEF ReturnType, Error
  <2>3. Kind(n) = "Return"
    <3>1. Fits("check", prog, <<"return", n, 0>>)
      BY <1>1, <1>2, <2>1, HeadFits
    <3> QED
      BY <3>1 DEF Fits, Kind
  <2>4. AsksAll(n, "return") /\ Writes(n, "return")
    BY <2>2, <2>3 DEF AsksAll, Writes
  <2> QED
    BY <1>3, <2>1, <2>4
<1>16. ASSUME CheckLeaf(n) PROVE Goal
  <2> DEFINE A == Typed(n, prog[n].type)
             B1 == Untyped(n, "Unknown statment type")
             C == Untyped(n, "Symbol not found for identifier")
             D == Typed(n, SymbolAt(ctx, symbolOf[n]).type)
  <2>1. Doing("check", "visit", n, 0) /\ Kind(n) \in {"Literal", "Ident", "Class"}
    BY <1>16 DEF CheckLeaf
  <2>2. (CASE Kind(n) = "Literal" -> A
           [] Kind(n) = "Class"   -> B1
           [] Kind(n) = "Ident" /\ symbolOf[n] = NULL -> C
           [] Kind(n) = "Ident" /\ symbolOf[n] = WILD -> Dies
           [] OTHER               -> D)
    BY <1>16 DEF CheckLeaf
  <2>3. ~B1 /\ ~C /\ ~Dies
    BY <1>5, <1>6
  <2> HIDE DEF A, B1, C, D
  <2>4. \/ Kind(n) = "Literal" /\ A
        \/ Kind(n) = "Ident" /\ symbolOf[n] # NULL /\ symbolOf[n] # WILD /\ D
    <3>1. CASE Kind(n) = "Literal"
      BY <2>2, <3>1
    <3>2. CASE Kind(n) = "Class"
      BY <2>2, <2>3, <3>2
    <3>3. CASE Kind(n) = "Ident" /\ symbolOf[n] = NULL
      BY <2>2, <2>3, <3>3, AstAssumption
    <3>4. CASE Kind(n) = "Ident" /\ symbolOf[n] = WILD
      BY <2>2, <2>3, <3>4, AstAssumption
    <3>5. CASE Kind(n) = "Ident" /\ symbolOf[n] # NULL /\ symbolOf[n] # WILD
      BY <2>2, <3>5
    <3> QED
      BY <2>1, <3>1, <3>2, <3>3, <3>4, <3>5
  <2>5. ASSUME NEW t, Typed(n, t), t = MeaningOf(typeOf, n), Kind(n) \in {"Literal", "Ident"},
               Kind(n) = "Ident" => symbolOf[n] \notin Garbage
        PROVE  AsksAll(n, "visit") /\ Writes(n, "visit")
    <3>1. typeOf' = [typeOf EXCEPT ![n] = t] /\ result' = [result EXCEPT ![n] = t]
      BY <2>5 DEF Typed
    <3> HIDE DEF A, B1, C, D
    <3> QED
      BY <2>5, <3>1 DEF AsksAll, Writes
  <2>6. CASE Kind(n) = "Literal" /\ A
    <3>1. prog[n].type = MeaningOf(typeOf, n)
      BY <1>9, <2>6
    <3> QED
      BY <1>3, <2>1, <2>5, <2>6, <3>1 DEF A
  <2>7. CASE Kind(n) = "Ident" /\ symbolOf[n] # NULL /\ symbolOf[n] # WILD /\ D
    <3>1. SymbolAt(ctx, symbolOf[n]).type = MeaningOf(typeOf, n) /\ symbolOf[n] \notin Garbage
      BY <1>9, <2>7 DEF Garbage
    <3> QED
      BY <1>3, <2>1, <2>5, <2>7, <3>1 DEF D
  <2> QED
    BY <2>4, <2>6, <2>7
<1>17. ASSUME CheckAssignment(n) PROVE Goal
  <2>1. Doing("check", "visit", n, 0) /\ Kind(n) = "Assign"
    BY <1>17 DEF CheckAssignment
  <2>2. Call(Visits(Kids(n)) \o <<Task("type", n, 0)>>)
    BY <1>5, <1>17 DEF CheckAssignment
  <2>3. AsksAll(n, "visit") /\ Writes(n, "visit")
    BY <1>7, <2>1, <2>2 DEF AsksAll, Writes, Operated
  <2> QED
    BY <1>3, <2>1, <2>3
<1>18. ASSUME CheckChildren(n) PROVE Goal
  <2>1. Doing("check", "visit", n, 0)
    BY <1>18 DEF CheckChildren
  <2>2. AsksAll(n, "visit") /\ Writes(n, "visit")
    BY <1>7, <1>18 DEF CheckChildren, AsksAll, Writes, Operated
  <2> QED
    BY <1>3, <2>1, <2>2
<1>19. ASSUME TypeExpression(n) PROVE Goal
  <2>1. Doing("check", "type", n, 0)
    BY <1>19 DEF TypeExpression
  <2>2. Kind(n) \in Operated
    <3>1. Fits("check", prog, <<"type", n, 0>>)
      BY <1>1, <1>2, <2>1, HeadFits
    <3> QED
      BY <3>1 DEF Fits, Operated, Kind
  <2>3. AsksAll(n, "type")
    BY DEF AsksAll
  <2>4. ASSUME NEW t, Typed(n, t), t = MeaningOf(typeOf, n) \/ t = MeaningOf(result, n),
               Kind(n) # "ExprStmt",
               Kind(n) = "VarDecl" =>
                   \A i \in DOMAIN Kids(n) : TypeEquals(prog[n].type, typeOf[Kid(n, i)])
        PROVE  Goal
    <3>1. typeOf' = [typeOf EXCEPT ![n] = t] /\ result' = [result EXCEPT ![n] = t]
      BY <2>4 DEF Typed
    <3>2. Kind(n) # "Ident"
      BY <2>2 DEF Operated
    <3>3. Writes(n, "type")
      BY <2>2, <2>4, <3>1, <3>2 DEF Writes
    <3> QED
      BY <1>3, <2>1, <2>3, <3>3
  <2>5. CASE Kind(n) = "VarDecl"
    <3>1. TypeVarDecl(n)
      BY <1>19, <2>5 DEF TypeExpression
    <3>2. Len(Kids(n)) \in {0, 1}
      BY <1>1, <1>2, <2>5, VarDeclKids
    <3>3. /\ Typed(n, prog[n].type)
          /\ Kids(n) = <<>> \/ TypeEquals(prog[n].type, typeOf[Kid(n, 1)])
      BY <1>5, <1>6, <3>1 DEF TypeVarDecl
    <3>4. \A i \in DOMAIN Kids(n) : TypeEquals(prog[n].type, typeOf[Kid(n, i)])
      <4>1. \A i \in DOMAIN Kids(n) : i = 1
        BY <1>8, <3>2
      <4> QED
        BY <3>3, <4>1
    <3>5. prog[n].type = MeaningOf(typeOf, n)
      BY <1>9, <2>5
    <3> QED
      BY <2>4, <2>5, <3>3, <3>4, <3>5
  <2>6. CASE Kind(n) = "Assign"
    <3>1. TypeAssignment(n)
      BY <1>19, <2>6 DEF TypeExpression
    <3>2. Typed(n, typeOf[Kid(n, 1)])
      BY <1>5, <1>6, <3>1 DEF TypeAssignment
    <3>3. typeOf[Kid(n, 1)] = MeaningOf(typeOf, n)
      BY <1>9, <2>6
    <3> QED
      BY <2>4, <2>6, <3>2, <3>3
  <2>7. CASE Kind(n) = "Binary"
    <3> DEFINE t == BinaryType(prog[n].op, result[Kid(n, 1)], result[Kid(n, 2)])
    <3>1. TypeBinary(n)
      BY <1>19, <2>7 DEF TypeExpression
    <3>2. Typed(n, t)
      BY <1>5, <3>1 DEF TypeBinary
    <3>3. t = MeaningOf(result, n)
      BY <1>9, <2>7
    <3> HIDE DEF t
    <3> QED
      BY <2>4, <2>7, <3>2, <3>3
  <2>8. CASE Kind(n) = "Unary"
    <3>1. TypeUnary(n)
      BY <1>19, <2>8 DEF TypeExpression
    <3>2. Typed(n, result[Kid(n, 1)])
      BY <1>5, <3>1 DEF TypeUnary
    <3>3. result[Kid(n, 1)] = MeaningOf(result, n)
      BY <1>9, <2>8
    <3> QED
      BY <2>4, <2>8, <3>2, <3>3
  <2>9. CASE Kind(n) = "Call"
    <3> DEFINE types == [i \in DOMAIN Kids(n) |-> result[Kid(n, i)]]
               ref == FindOverload(methods, Name(n), types)
               t == SymbolAt(ctx, ref).type
    <3>1. TypeCall(n)
      BY <1>19, <2>9 DEF TypeExpression
    <3>2. Typed(n, t)
      BY <1>5, <3>1 DEF TypeCall
    <3>3. t = MeaningOf(result, n)
      BY <2>9, MeaningIs
    <3> HIDE DEF t
    <3> QED
      BY <2>4, <2>9, <3>2, <3>3
  <2>10. CASE Kind(n) = "Arg"
    <3>1. Typed(n, result[Kid(n, 1)])
      BY <1>19, <2>10 DEF TypeExpression
    <3>2. result[Kid(n, 1)] = MeaningOf(result, n)
      BY <1>9, <2>10
    <3> QED
      BY <2>4, <2>10, <3>1, <3>2
  <2>11. CASE Kind(n) = "ExprStmt"
    <3>1. TypeExprStmt(n)
      BY <1>19, <2>11 DEF TypeExpression
    <3>2. typeOf' = [typeOf EXCEPT ![n] = typeOf[Kid(n, 1)]] /\ result' = result
      BY <3>1 DEF TypeExprStmt
    <3>3. typeOf[Kid(n, 1)] = MeaningOf(typeOf, n)
      BY <1>9, <2>11
    <3>4. Writes(n, "type")
      BY <2>2, <2>11, <3>2, <3>3 DEF Writes
    <3> QED
      BY <1>3, <2>1, <2>3, <3>4
  <2> QED
    BY <2>2, <2>5, <2>6, <2>7, <2>8, <2>9, <2>10, <2>11 DEF Operated
<1> QED
  BY <1>10, <1>11, <1>12, <1>13, <1>14, <1>15, <1>16, <1>17, <1>18, <1>19 DEF Checks, Goal

Right(n) ==
    /\ Kind(n) = "Ident" => symbolOf[n] \notin Garbage
    /\ Kind(n) = "VarDecl" =>
           \A i \in DOMAIN Kids(n) : TypeEquals(prog[n].type, typeOf[Kid(n, i)])
    /\ Kind(n) \in Typable /\ Kind(ParentOf(prog, n)) # "Return" =>
           /\ typeOf[n] = MeaningOf(typeOf, n)
           /\ Kind(n) # "ExprStmt" => result[n] = typeOf[n]

Coming(n) == \E k \in DOMAIN agenda : Handles(agenda[k], n)

RightOrComing == \A n \in Nodes \ {1} : ~InLoopBody(n) => Coming(n) \/ Right(n)

(* A node that no handler writes to, nor to its children, stays as it is.  *)
LEMMA RightKeeps ==
    ASSUME IsProgram(prog), NEW n \in Nodes, Right(n),
           UNCHANGED <<prog, methods, symbolOf>>, ctx'.scopes = ctx.scopes,
           \A i \in DOMAIN Kids(n) : typeOf'[Kid(n, i)] = typeOf[Kid(n, i)],
           Kind(ParentOf(prog, n)) # "Return" =>
               typeOf'[n] = typeOf[n] /\ result'[n] = result[n]
    PROVE  Right(n)'
<1>1. Kind(n)' = Kind(n) /\ Kids(n)' = Kids(n) /\ (\A i : Kid(n, i)' = Kid(n, i))
      /\ Kind(ParentOf(prog, n))' = Kind(ParentOf(prog, n))
  BY DEF Kind, Kids, Kid
<1> PICK g : g = typeOf'
  OBVIOUS
<1>2. MeaningOf(typeOf, n)' = MeaningOf(g, n)
  <2>1. MeaningOf(typeOf, n)' = MeaningOf(typeOf', n)
    BY DEF MeaningOf, Kind, Kids, Kid, Name, SymbolAt
  <2> QED
    BY <2>1
<1>3. \A i \in DOMAIN Kids(n) : g[Kid(n, i)] = typeOf[Kid(n, i)]
  OBVIOUS
<1>4. MeaningOf(g, n) = MeaningOf(typeOf, n)
  BY <1>3, MeaningDepends
<1>5. Kind(n) \in Typable /\ Kind(ParentOf(prog, n)) # "Return" =>
          /\ typeOf'[n] = MeaningOf(g, n)
          /\ Kind(n) # "ExprStmt" => result'[n] = typeOf'[n]
  BY <1>4 DEF Right
<1>6. Kind(n) = "VarDecl" =>
          \A i \in DOMAIN Kids(n) : TypeEquals(prog[n].type, typeOf'[Kid(n, i)])
  BY DEF Right
<1>7. Kind(n) = "Ident" => symbolOf'[n] \notin Garbage
  BY DEF Right
<1> QED
  BY <1>1, <1>2, <1>5, <1>6, <1>7 DEF Right, Garbage

(* The operands of an expression outside a loop are outside it too.        *)
LEMMA KidOutside ==
    ASSUME IsProgram(prog), NEW n \in Nodes, Kind(n) \in Operated, ~InLoopBody(n),
           NEW i \in DOMAIN Kids(n)
    PROVE  /\ Kid(n, i) \in Nodes \ {1} /\ ~InLoopBody(Kid(n, i))
           /\ ParentOf(prog, Kid(n, i)) = n /\ Kind(Kid(n, i)) \in Typable
           /\ Kind(Kid(n, i)) # "ExprStmt" /\ Kid(n, i) > n
           /\ Path(prog, Kid(n, i)) = {Kid(n, i)} \union Path(prog, n)
<1> DEFINE c == Kid(n, i)
<1>1. c \in Nodes /\ c # 1 /\ c > n
  BY KidsArePending
<1>2. n \in DOMAIN prog /\ i \in DOMAIN prog[n].kids /\ prog[n].kids[i] = c
  BY DEF Nodes, Kids, Kid
<1>3. Path(prog, c) = {c} \union Path(prog, n) /\ ParentOf(prog, c) = n
  BY <1>2, PathOfKid, KidsInOrder
<1>4. Kind(c) \in ExprKinds \union {"Arg"}
  <2>1. Kind(n) \notin {"Program", "Block", "Method", "If", "While"}
    BY DEF Operated
  <2> QED
    BY <2>1, KindsOfKids DEF Expression
<1>5. Kind(c) \in Typable /\ Kind(c) # "ExprStmt" /\ Kind(c) # "While"
  BY <1>4 DEF ExprKinds, Typable, Operated
<1>6. \A m \in DOMAIN prog : \A j \in DOMAIN prog[m].kids :
          prog[m].kids[j] = c => m = n
  BY <1>3, KidsInOrder
<1>7. ASSUME NEW m \in Path(prog, c), Kind(m) = "While", Kid(m, 2) \in Path(prog, c)
      PROVE  FALSE
  <2>1. m \in Path(prog, n) /\ m \in Nodes
    <3>1. m # c
      BY <1>5, <1>7
    <3>2. Path(prog, n) \subseteq 1..n /\ 1..n \subseteq Nodes
      <4>1. Nodes = 1..Len(prog) /\ Len(prog) \in Nat
        BY DEF IsProgram, Nodes
      <4> QED
        BY <1>2, <4>1, PathsGoUp
    <3> QED
      BY <1>3, <1>7, <3>1, <3>2
  <2>2. 2 \in DOMAIN Kids(m)
    BY <1>7, <2>1, KidsCounted
  <2>3. Kid(m, 2) # c
    <3>1. Kid(m, 2) = c => m = n
      BY <1>6, <2>1, <2>2 DEF Nodes, Kids, Kid
    <3>2. m # n
      BY <1>7 DEF Operated
    <3> QED
      BY <3>1, <3>2
  <2> QED
    BY <1>3, <1>7, <2>1, <2>3 DEF InLoopBody
<1>8. ~InLoopBody(c)
  BY <1>7 DEF InLoopBody
<1> QED
  BY <1>1, <1>3, <1>5, <1>8

(* When an expression is looked at, its operands have been dealt with.     *)
LEMMA OperandsDone ==
    ASSUME Planned, IsProgram(prog), HandledOnce, Answered, agenda # <<>>,
           NEW n \in Nodes, Kind(n) \in Operated, ~InLoopBody(n),
           agenda[1][1] = "type", agenda[1][2] = n,
           NEW i \in DOMAIN Kids(n)
    PROVE  ~Coming(Kid(n, i))
<1> DEFINE c == Kid(n, i)
<1>1. c \in Nodes /\ c # 1 /\ ParentOf(prog, c) = n
      /\ Path(prog, c) = {c} \union Path(prog, n)
  BY KidOutside
<1>2. IsSeq(agenda) /\ 1 \in DOMAIN agenda /\ DOMAIN agenda \subseteq Nat
  <2>1. IsSeq(agenda)
    BY DEF Planned
  <2> QED
    BY <2>1 DEF IsSeq
<1>3. \A k \in DOMAIN agenda : Handles(agenda[k], n) => k = 1
  <2>1. Handles(agenda[1], n)
    BY DEF Handles
  <2> QED
    BY <1>2, <2>1 DEF HandledOnce
<1>4. ASSUME NEW k \in DOMAIN agenda, agenda[k][1] \in {"visit", "type"}, agenda[k][2] = c
      PROVE  FALSE
  <2>1. Owing(agenda[k])
    BY <1>1, <1>4 DEF Owing
  <2>2. PICK l \in DOMAIN agenda : k < l /\ agenda[l][1] = "type" /\ agenda[l][2] = n
    BY <1>1, <1>4, <2>1 DEF Answered
  <2>3. l = 1
    BY <1>3, <2>2 DEF Handles
  <2>4. DOMAIN agenda = 1..Len(agenda) /\ Len(agenda) \in Nat
    BY <1>2 DEF IsSeq
  <2> QED
    BY <2>2, <2>3, <2>4
<1>5. ASSUME NEW k \in DOMAIN agenda, agenda[k][1] = "visit", agenda[k][2] \in Path(prog, n)
      PROVE  FALSE
  <2>1. k = 1
    BY <1>3, <1>5 DEF Handles
  <2> QED
    BY <1>5, <2>1
<1>6. ASSUME NEW k \in DOMAIN agenda, agenda[k][1] = "test", Kind(agenda[k][2]) = "If",
             NEW j \in DOMAIN Kids(agenda[k][2]), j # 1, Kid(agenda[k][2], j) \in Path(prog, c)
      PROVE  FALSE
  <2>1. Fits(pass, prog, agenda[k])
    <3>1. ~AtRoot
      <4> SUFFICES ASSUME AtRoot PROVE FALSE
        OBVIOUS
      <4>1. agenda[1] = Task("visit", 1, 0)
        BY OneTask DEF AtRoot
      <4>2. agenda[1][1] = "visit"
        BY <4>1 DEF Task
      <4> QED
        BY <4>2
    <3> QED
      BY <3>1 DEF Planned
  <2> PICK m : m = agenda[k][2]
    OBVIOUS
  <2>2. m \in Nodes /\ Kind(m) = "If" /\ j \in DOMAIN Kids(m) /\ Kid(m, j) \in Path(prog, c)
    BY <1>6, <2>1 DEF Fits, Nodes
  <2>3. CASE Kid(m, j) = c
    <3>1. m = n
      BY <1>1, <2>2, <2>3, KidsInOrder DEF Nodes, Kids, Kid
    <3> QED
      BY <2>2, <3>1 DEF Operated
  <2>4. CASE Kid(m, j) \in Path(prog, n)
    <3>1. Handles(agenda[k], n)
      BY <1>6, <2>4 DEF Handles
    <3>2. k = 1
      BY <1>3, <3>1
    <3> QED
      BY <1>6, <3>2
  <2> QED
    BY <1>1, <2>2, <2>3, <2>4
<1> SUFFICES ASSUME NEW k \in DOMAIN agenda, Handles(agenda[k], c) PROVE FALSE
  BY DEF Coming
<1>7. CASE agenda[k][1] = "visit" /\ agenda[k][2] \in Path(prog, c)
  BY <1>1, <1>4, <1>5, <1>7
<1>8. CASE agenda[k][1] = "type" /\ agenda[k][2] = c
  BY <1>4, <1>8
<1>9. CASE /\ agenda[k][1] = "test" /\ Kind(agenda[k][2]) = "If"
           /\ \E j \in DOMAIN Kids(agenda[k][2]) :
                 j # 1 /\ Kid(agenda[k][2], j) \in Path(prog, c)
  BY <1>6, <1>9
<1> QED
  BY <1>7, <1>8, <1>9 DEF Handles

(* A handler that ends with a type leaves the one its node means.          *)
LEMMA RightNow ==
    ASSUME Planned, IsProgram(prog), TypedInv, HandledOnce, Answered, RightOrComing,
           agenda # <<>>, NEW n \in Nodes, ~InLoopBody(n), NEW what,
           agenda[1][1] = what, agenda[1][2] = n,
           UNCHANGED <<prog, methods, symbolOf>>, ctx'.scopes = ctx.scopes,
           Writes(n, what), what = "type" \/ Kind(n) \in {"Literal", "Ident"},
           what \in {"visit", "type"}
    PROVE  Right(n)'
<1>1. /\ \/ what = "type" /\ Kind(n) \in Operated
         \/ what = "visit" /\ Kind(n) \in {"Literal", "Ident"}
      /\ Kind(n) = "Ident" => symbolOf[n] \notin Garbage
      /\ Kind(n) = "VarDecl" =>
             \A i \in DOMAIN Kids(n) : TypeEquals(prog[n].type, typeOf[Kid(n, i)])
      /\ \E t : /\ t = MeaningOf(typeOf, n) \/ t = MeaningOf(result, n)
                /\ typeOf' = [typeOf EXCEPT ![n] = t]
                /\ IF Kind(n) = "ExprStmt" THEN result' = result
                                           ELSE result' = [result EXCEPT ![n] = t]
  BY DEF Writes
<1>2. PICK t : /\ t = MeaningOf(typeOf, n) \/ t = MeaningOf(result, n)
               /\ typeOf' = [typeOf EXCEPT ![n] = t]
               /\ IF Kind(n) = "ExprStmt" THEN result' = result
                                          ELSE result' = [result EXCEPT ![n] = t]
  BY <1>1
<1>3. DOMAIN typeOf = Nodes /\ DOMAIN result = Nodes
  BY DEF TypedInv
<1>4. \A i \in DOMAIN Kids(n) : Kid(n, i) \in Nodes /\ Kid(n, i) # n
  <2>1. n \in Nat
    BY DEF IsProgram, Nodes
  <2> QED
    BY <2>1, KidsArePending
<1>5. \A i \in DOMAIN Kids(n) : result[Kid(n, i)] = typeOf[Kid(n, i)]
  <2>1. CASE Kind(n) \in {"Literal", "Ident"}
    BY <2>1, KidsCounted
  <2>2. CASE what = "type" /\ Kind(n) \in Operated
    <3> SUFFICES ASSUME NEW i \in DOMAIN Kids(n)
                 PROVE  result[Kid(n, i)] = typeOf[Kid(n, i)]
      OBVIOUS
    <3>1. /\ Kid(n, i) \in Nodes \ {1} /\ ~InLoopBody(Kid(n, i))
          /\ ParentOf(prog, Kid(n, i)) = n /\ Kind(Kid(n, i)) \in Typable
          /\ Kind(Kid(n, i)) # "ExprStmt"
      BY <2>2, KidOutside
    <3>2. ~Coming(Kid(n, i))
      BY <2>2, OperandsDone
    <3>3. Right(Kid(n, i))
      BY <3>1, <3>2 DEF RightOrComing
    <3>4. Kind(n) # "Return"
      BY <2>2 DEF Operated
    <3> QED
      BY <3>1, <3>3, <3>4 DEF Right
  <2> QED
    BY <1>1, <2>1, <2>2
<1>6. MeaningOf(result, n) = MeaningOf(typeOf, n)
  BY <1>5, MeaningDepends
<1> PICK g : g = typeOf'
  OBVIOUS
<1>7. \A i \in DOMAIN Kids(n) : g[Kid(n, i)] = typeOf[Kid(n, i)]
  BY <1>2, <1>4
<1>8. MeaningOf(g, n) = MeaningOf(typeOf, n)
  BY <1>7, MeaningDepends
<1>9. MeaningOf(typeOf, n)' = MeaningOf(g, n)
  <2>1. MeaningOf(typeOf, n)' = MeaningOf(typeOf', n)
    BY DEF MeaningOf, Kind, Kids, Kid, Name, SymbolAt
  <2> QED
    BY <2>1
<1>10. Kind(n)' = Kind(n) /\ Kids(n)' = Kids(n) /\ (\A i : Kid(n, i)' = Kid(n, i))
       /\ Kind(ParentOf(prog, n))' = Kind(ParentOf(prog, n))
  BY DEF Kind, Kids, Kid
<1>11. typeOf'[n] = MeaningOf(g, n)
  BY <1>2, <1>3, <1>6, <1>8
<1>12. Kind(n) # "ExprStmt" => result'[n] = typeOf'[n]
  BY <1>2, <1>3
<1>13. Kind(n) = "VarDecl" =>
           \A i \in DOMAIN Kids(n) : TypeEquals(prog[n].type, typeOf'[Kid(n, i)])
  BY <1>1, <1>7
<1>14. Kind(n) = "Ident" => symbolOf'[n] \notin Garbage
  BY <1>1
<1> QED
  BY <1>9, <1>10, <1>11, <1>12, <1>13, <1>14 DEF Right, Garbage

(* What it writes disturbs no node that has been dealt with.               *)
LEMMA OthersStayRight ==
    ASSUME Planned, IsProgram(prog), TypedInv, Answered, agenda # <<>>,
           NEW n \in Nodes, NEW what, agenda[1][1] = what, agenda[1][2] = n,
           UNCHANGED <<prog, methods, symbolOf>>, ctx'.scopes = ctx.scopes,
           Writes(n, what), NEW m \in Nodes, m # n, Right(m),
           \A l \in DOMAIN agenda : l > 1 => ~Handles(agenda[l], m)
    PROVE  Right(m)'
<1>1. DOMAIN typeOf = Nodes /\ DOMAIN result = Nodes
  BY DEF TypedInv
<1>2. \A j \in DOMAIN Kids(m) : /\ Kid(m, j) \in Nodes /\ Kid(m, j) # 1
                                /\ ParentOf(prog, Kid(m, j)) = m
  BY KidsArePending, KidsInOrder DEF Nodes, Kids, Kid
<1>3. CASE typeOf' = typeOf /\ result' = result
  BY <1>3, RightKeeps
<1>4. ASSUME Kind(n) = "Return", result' = result, NEW t,
             typeOf' = [typeOf EXCEPT ![Kid(n, 1)] = t]
      PROVE  Right(m)'
  <2>1. ParentOf(prog, Kid(n, 1)) = n
    <3>1. 1 \in DOMAIN Kids(n)
      BY <1>4, KidsCounted
    <3> QED
      BY <3>1, KidsInOrder DEF Nodes, Kids, Kid
  <2>2. \A j \in DOMAIN Kids(m) : typeOf'[Kid(m, j)] = typeOf[Kid(m, j)]
    BY <1>1, <1>2, <1>4, <2>1
  <2>3. Kind(ParentOf(prog, m)) # "Return" => typeOf'[m] = typeOf[m]
    BY <1>1, <1>4, <2>1
  <2> QED
    BY <1>4, <2>2, <2>3, RightKeeps
<1>5. ASSUME what \in {"type", "visit"}, NEW t, typeOf' = [typeOf EXCEPT ![n] = t],
             result' = result \/ result' = [result EXCEPT ![n] = t]
      PROVE  Right(m)'
  <2>1. typeOf'[m] = typeOf[m] /\ result'[m] = result[m]
    BY <1>1, <1>5
  <2>2. CASE \A j \in DOMAIN Kids(m) : Kid(m, j) # n
    <3>1. \A j \in DOMAIN Kids(m) : typeOf'[Kid(m, j)] = typeOf[Kid(m, j)]
      BY <1>1, <1>2, <1>5, <2>2
    <3> QED
      BY <2>1, <3>1, RightKeeps
  <2>3. ASSUME NEW j \in DOMAIN Kids(m), Kid(m, j) = n PROVE Right(m)'
    <3>1. CASE Kind(m) \in Operated
      <4>1. IsSeq(agenda)
        BY DEF Planned
      <4>2. 1 \in DOMAIN agenda
        BY <4>1 DEF IsSeq
      <4>3. Owing(agenda[1])
        BY <1>2, <1>5, <2>3, <3>1 DEF Owing
      <4>4. PICK l \in DOMAIN agenda : 1 < l /\ agenda[l][1] = "type" /\ agenda[l][2] = m
        BY <1>2, <2>3, <4>2, <4>3 DEF Answered
      <4>5. Handles(agenda[l], m) /\ l > 1
        BY <4>1, <4>4 DEF Handles, IsSeq
      <4> QED
        BY <4>5
    <3>2. CASE Kind(m) \in {"Literal", "Ident"}
      BY <2>3, <3>2, KidsCounted
    <3>3. CASE Kind(m) \notin Typable
      <4>1. Kind(m)' = Kind(m) /\ Kind(m) # "Ident" /\ Kind(m) # "VarDecl"
        BY <3>3 DEF Typable, Operated, Kind
      <4> QED
        BY <3>3, <4>1 DEF Right, Typable, Operated
    <3> QED
      BY <3>1, <3>2, <3>3 DEF Typable
  <2> QED
    BY <2>2, <2>3
<1> QED
  BY <1>3, <1>4, <1>5 DEF Writes

LEMMA RightStays ==
    ASSUME SettledInv, TypedInv, HandledOnce, Answered, RightOrComing,
           NEW n \in Pending, Checks(n), pass' = pass, ~ReportedBy("TypeChecker")'
    PROVE  RightOrComing'
<1>1. n \in Nodes /\ pass = "check" /\ pass # "crashed" /\ prog' = prog
      /\ Planned /\ IsProgram(prog)
  BY CheckAsks DEF SettledInv, Planned
<1>2. PICK what : Doing("check", what, n, 0) /\ AsksAll(n, what) /\ Writes(n, what)
  BY CheckWrites
<1>3. UNCHANGED <<prog, methods, symbolOf>> /\ ctx'.scopes = ctx.scopes
  <2>1. Check
    BY DEF Check, Checks
  <2>2. symbolOf' = symbolOf
    BY DEF Checks, CheckScope, CheckLeave, CheckMethodDecl, CheckerUnchanged
  <2> QED
    BY <2>1, <2>2, CheckStill DEF SettledInv, MethodsInv, Still
<1>4. PICK ts, ks, z, w : Goes(n, what, ts, 0, ks, z, w)
  <2>1. PICK what2, ts, a, ks, z, w : Goes(n, what2, ts, a, ks, z, w)
    BY <1>1, CheckGoes
  <2>2. what2 = what /\ a = 0
    BY <1>1, <1>2, <2>1, HeadIs DEF Goes
  <2> QED
    BY <2>1, <2>2
<1>5. /\ 1 \in 1..Len(agenda) /\ agenda[1][1] = what /\ agenda[1][2] = n
      /\ DOMAIN agenda = 1..Len(agenda) /\ Len(agenda) \in Nat
      /\ \A k \in 2..Len(agenda) :
             /\ k - 1 + Len(ts) \in DOMAIN agenda'
             /\ agenda'[k - 1 + Len(ts)] = agenda[k]
  BY <1>1, <1>4, CallsAfter
<1>6. agenda # <<>> /\ IsSeq(agenda) /\ Head(agenda) = agenda[1]
  <2>1. agenda # <<>> /\ IsSeq(agenda)
    BY <1>1, <1>2 DEF Doing, Planned
  <2> QED
    BY <2>1 DEF IsSeq
<1>7. \A t, m : Handles(t, m)' = Handles(t, m)
  BY <1>1, HandlesStays
<1>8. Nodes' = Nodes /\ \A m : InLoopBody(m)' = InLoopBody(m)
  BY <1>1 DEF Nodes, InLoopBody, Kind, Kid
<1>9. \A m : Coming(m)' <=> \E k \in DOMAIN agenda' : Handles(agenda'[k], m)
  <2>1. \A m : Coming(m)' <=> \E k \in DOMAIN agenda' : Handles(agenda[k], m)'
    BY DEF Coming
  <2>2. \A m, k : Handles(agenda[k], m)' <=> Handles(agenda'[k], m)
    BY <1>1 DEF Handles, Kind, Kids, Kid
  <2> QED
    BY <2>1, <2>2
<1>10. ASSUME NEW m \in Nodes \ {1}, ~InLoopBody(m),
              \A k \in DOMAIN agenda' : ~Handles(agenda'[k], m)
       PROVE  Right(m)'
  <2>1. \A l \in DOMAIN agenda : l > 1 => ~Handles(agenda[l], m)
    <3> SUFFICES ASSUME NEW l \in DOMAIN agenda, l > 1, Handles(agenda[l], m) PROVE FALSE
      OBVIOUS
    <3>1. l \in 2..Len(agenda)
      BY <1>5
    <3> QED
      BY <1>5, <1>10, <3>1
  <2>2. CASE m # n
    <3>1. ~Handles(agenda[1], m)
      <4> SUFFICES ASSUME Handles(agenda[1], m) PROVE FALSE
        OBVIOUS
      <4>1. Head(agenda)[1] = what /\ Head(agenda)[2] = n /\ Handles(Head(agenda), m)
        BY <1>5, <1>6
      <4>2. \E k \in DOMAIN agenda' : Handles(agenda'[k], m)
        BY <1>1, <1>2, <1>6, <1>10, <2>2, <4>1, StillComing
      <4> QED
        BY <1>10, <4>2
    <3>2. ~Coming(m)
      <4>1. \A l \in DOMAIN agenda : l = 1 \/ l > 1
        BY <1>5
      <4> QED
        BY <2>1, <3>1, <4>1 DEF Coming
    <3>3. Right(m)
      BY <1>10, <3>2 DEF RightOrComing
    <3> QED
      BY <1>1, <1>2, <1>3, <1>5, <1>6, <2>1, <2>2, <3>3, OthersStayRight
  <2>3. CASE m = n
    <3>1. CASE Kind(n) \notin Typable
      <4>1. Kind(n)' = Kind(n) /\ Kind(n) # "Ident" /\ Kind(n) # "VarDecl"
        BY <1>1, <3>1 DEF Typable, Operated, Kind
      <4> QED
        BY <2>3, <3>1, <4>1 DEF Right, Typable, Operated
    <3>2. what = "visit" \/ (what = "type" /\ Kind(n) \in Operated) \/ Kind(n) \notin Typable
      <4>1. what # "visit" => Fits("check", prog, <<what, n, 0>>)
        BY <1>1, <1>2, HeadFits
      <4> QED
        BY <4>1 DEF Fits, Kind, Typable, Operated
    <3>3. CASE what = "visit" /\ Kind(n) \in Operated
      <4>1. Then(Visits(Kids(n)) \o <<Task("type", n, 0)>>)
        BY <1>2, <3>3 DEF AsksAll, Operated
      <4> PICK us : us = Visits(Kids(n)) \o <<Task("type", n, 0)>>
        OBVIOUS
      <4>2. Kids(n) \in Seq(Nat)
        BY <1>1, KidsArePending
      <4> PICK qs : qs = Kids(n)
        OBVIOUS
      <4>3. Fans(us, n, 0, qs, 1, "type")
        BY <4>2, VisitsThenFan
      <4>4. /\ IsSeq(us) /\ Len(us) = Len(qs) + 1 /\ Len(qs) \in Nat
            /\ us[Len(qs) + 1][1] = "type" /\ us[Len(qs) + 1][2] = n
        BY <4>2, <4>3 DEF Fans
      <4>5. Then(us)
        BY <4>1
      <4>6. /\ DOMAIN agenda' = 1..(Len(us) + Len(agenda) - 1)
            /\ \A k \in 1..Len(us) : agenda'[k] = us[k]
        BY <1>6, <4>4, <4>5, NextCalls
      <4>7. Len(us) \in DOMAIN agenda' /\ agenda'[Len(us)] = us[Len(us)]
        BY <1>5, <4>4, <4>6
      <4>8. Handles(agenda'[Len(us)], n)
        BY <4>4, <4>7 DEF Handles
      <4> QED
        BY <1>10, <2>3, <4>7, <4>8
    <3>4. CASE \/ what = "type" /\ Kind(n) \in Operated
               \/ what = "visit" /\ Kind(n) \in {"Literal", "Ident"}
      BY <1>1, <1>2, <1>3, <1>5, <1>6, <1>10, <2>3, <3>4, RightNow
    <3> QED
      BY <3>1, <3>2, <3>3, <3>4 DEF Typable
  <2> QED
    BY <2>2, <2>3
<1> QED
  BY <1>8, <1>9, <1>10 DEF RightOrComing

RightInv ==
    /\ pass = "check" => /\ HandledOnce /\ Answered
                         /\ ReportedBy("TypeChecker") \/ RightOrComing
    /\ pass = "accepted" => \A n \in Nodes \ {1} : ~InLoopBody(n) => Right(n)

LEMMA CheckRights ==
    ASSUME SettledInv, TypedInv, RightInv, Check, pass' = "check"
    PROVE  HandledOnce' /\ Answered' /\ (ReportedBy("TypeChecker")' \/ RightOrComing')
<1>1. PICK n \in Pending : Checks(n)
  BY DEF Check, Checks
<1>2. n \in Nodes /\ pass = "check" /\ pass # "crashed" /\ Planned /\ IsProgram(prog)
  BY <1>1, CheckAsks DEF SettledInv, Planned
<1>3. PICK what, ts, a, ks, z, w : Goes(n, what, ts, a, ks, z, w) /\ Selects(n, what, ks, z, w)
  BY <1>1, <1>2, CheckGoes
<1>4. Goes(n, what, ts, 0, ks, z, w) /\ Selects(n, what, ks, z, w)
  <2>1. a = 0
    BY <1>2, <1>3 DEF Goes
  <2> QED
    BY <1>3, <2>1
<1>5. HandledOnce' /\ Answered'
  BY <1>2, <1>4, StillOnce, StillAnswered DEF RightInv
<1>6. ASSUME ~ReportedBy("TypeChecker")' PROVE RightOrComing'
  <2>1. ~ReportedBy("TypeChecker")
    <3>1. errors \subseteq errors'
      BY CheckReports DEF Reports
    <3> QED
      BY <1>6, <3>1 DEF ReportedBy
  <2> QED
    BY <1>1, <1>2, <1>6, <2>1, RightStays DEF RightInv
<1> QED
  BY <1>5, <1>6

(* Before the checker begins, its one call has everything to deal with.    *)
LEMMA AllComing ==
    IsProgram(prog) /\ AtRoot => HandledOnce /\ Answered /\ RightOrComing
<1> SUFFICES ASSUME IsProgram(prog), AtRoot
             PROVE  HandledOnce /\ Answered /\ RightOrComing
  OBVIOUS
<1>1. DOMAIN agenda = {1} /\ agenda[1] = Task("visit", 1, 0)
  BY OneTask DEF AtRoot
<1>2. agenda[1][1] = "visit" /\ agenda[1][2] = 1
  BY <1>1 DEF Task
<1>3. \A n \in Nodes : 1 \in Path(prog, n)
  BY PathsGoUp DEF Nodes
<1>4. \A n \in Nodes : Coming(n)
  BY <1>1, <1>2, <1>3 DEF Coming, Handles
<1>5. Answered
  BY <1>1, <1>2 DEF Answered, Owing
<1> QED
  BY <1>1, <1>4, <1>5 DEF HandledOnce, RightOrComing

LEMMA SameRight ==
    ASSUME UNCHANGED <<prog, agenda, ctx, methods, symbolOf, typeOf, result>>
    PROVE  /\ HandledOnce' = HandledOnce /\ Answered' = Answered
           /\ RightOrComing' = RightOrComing
           /\ (\A n \in Nodes \ {1} : ~InLoopBody(n) => Right(n))' =
              (\A n \in Nodes \ {1} : ~InLoopBody(n) => Right(n))
<1>1. \A t, m : Handles(t, m)' = Handles(t, m)
  BY HandlesStays
<1>2. \A j, m : Handles(agenda[j], m)' = Handles(agenda[j], m)
  BY DEF Handles, Kind, Kids, Kid
<1>3. Nodes' = Nodes /\ (\A m : InLoopBody(m)' = InLoopBody(m))
  BY DEF Nodes, InLoopBody, Kind, Kid
<1>4. \A m : Right(m)' = Right(m)
  BY DEF Right, MeaningOf, Kind, Kids, Kid, Name, SymbolAt, Garbage
<1>5. \A m : Coming(m)' = Coming(m)
  BY <1>2 DEF Coming
<1> HIDE DEF Nodes
<1>6. HandledOnce' = HandledOnce
  BY DEF HandledOnce, Handles, Nodes, Kind, Kids, Kid
<1>7. Answered' = Answered
  BY DEF Answered, Owing, Kind
<1>8. RightOrComing' = RightOrComing
  BY <1>3, <1>4, <1>5 DEF RightOrComing
<1> QED
  BY <1>3, <1>4, <1>6, <1>7, <1>8

LEMMA AnalysisRights ==
    ASSUME SettledInv, TypedInv, RightInv, Analysis
    PROVE  RightInv'
<1>1. CASE Collect
  <2>1. pass' = "collect"
    BY <1>1, CollectReports
  <2> QED
    BY <2>1 DEF RightInv
<1>2. CASE Resolve
  <2>1. pass' \in {"resolve", "crashed"}
    BY <1>2, ResolveReports
  <2> QED
    BY <2>1 DEF RightInv
<1>3. CASE Check
  <2>1. pass' \in {"check", "crashed"}
    BY <1>3, CheckReports
  <2>2. pass' = "check" => HandledOnce' /\ Answered' /\ (ReportedBy("TypeChecker")' \/ RightOrComing')
    BY <1>3, CheckRights
  <2> QED
    BY <2>1, <2>2 DEF RightInv
<1>4. CASE AfterCollector
  <2>1. pass' \in {"resolve", "rejected"}
    BY <1>4 DEF AfterCollector, Finish, Begin
  <2> QED
    BY <2>1 DEF RightInv
<1>5. CASE AfterResolver
  <2>1. pass' = "rejected" \/ (pass' = "check" /\ AtRoot')
    BY <1>5 DEF AfterResolver, Finish, Begin, AtRoot
  <2>2. IsProgram(prog) /\ prog' = prog
    BY <1>5 DEF AfterResolver, PassOver, SettledInv, Planned
  <2>3. (IsProgram(prog) /\ AtRoot)' => (HandledOnce /\ Answered /\ RightOrComing)'
    BY AllComing, PTL
  <2> QED
    BY <2>1, <2>2, <2>3 DEF RightInv
<1>6. CASE AfterChecker
  <2>1. /\ UNCHANGED <<prog, agenda, ctx, methods, symbolOf, typeOf, result>>
        /\ pass = "check" /\ agenda = <<>>
        /\ pass' = IF ReportedBy("TypeChecker") THEN "rejected" ELSE "accepted"
    BY <1>6 DEF AfterChecker, Finish, PassOver
  <2>2. ASSUME pass' = "accepted"
        PROVE  \A n \in Nodes \ {1} : ~InLoopBody(n) => Right(n)
    <3>1. RightOrComing
      BY <2>1, <2>2 DEF RightInv
    <3>2. \A n : ~Coming(n)
      BY <2>1 DEF Coming
    <3> QED
      BY <3>1, <3>2 DEF RightOrComing
  <2>3. (\A n \in Nodes \ {1} : ~InLoopBody(n) => Right(n))' =
              (\A n \in Nodes \ {1} : ~InLoopBody(n) => Right(n))
    BY <2>1, SameRight
  <2> QED
    BY <2>1, <2>2, <2>3 DEF RightInv
<1> QED
  BY <1>1, <1>2, <1>3, <1>4, <1>5, <1>6 DEF Analysis

LEMMA RightHolds == Spec => []RightInv
<1>1. InitPasses => RightInv
  BY DEF InitPasses, RightInv
<1>2. SettledInv /\ TypedInv /\ RightInv /\ [Next]_semaVars => RightInv'
  <2> SUFFICES ASSUME SettledInv, TypedInv, RightInv, [Next]_semaVars PROVE RightInv'
    OBVIOUS
  <2>1. CASE UNCHANGED semaVars
    <3>1. UNCHANGED <<prog, agenda, ctx, methods, symbolOf, typeOf, result, pass, errors>>
      BY <2>1 DEF semaVars
    <3>2. /\ HandledOnce' = HandledOnce /\ Answered' = Answered
          /\ RightOrComing' = RightOrComing
          /\ (\A n \in Nodes \ {1} : ~InLoopBody(n) => Right(n))' =
             (\A n \in Nodes \ {1} : ~InLoopBody(n) => Right(n))
      BY <3>1, SameRight
    <3>3. ReportedBy("TypeChecker")' = ReportedBy("TypeChecker")
      BY <3>1 DEF ReportedBy
    <3> QED
      BY <3>1, <3>2, <3>3 DEF RightInv
  <2>2. CASE ParserReturns
    BY <2>2 DEF ParserReturns, Analyze, RightInv
  <2> QED
    BY <2>1, <2>2, AnalysisRights DEF Next
<1> QED
  BY <1>1, <1>2, SettledHolds, TypedHolds, PTL DEF Spec

(* Types that fit locally are the types the nodes mean, from the leaves up.*)
LEMMA RightIsMeant ==
    ASSUME IsProgram(prog), \A n \in Nodes \ {1} : ~InLoopBody(n) => Right(n)
    PROVE  \A n \in Nodes \ {1} :
              ~InLoopBody(n) /\ Kind(n) \in Typable /\ Kind(ParentOf(prog, n)) # "Return" =>
                  typeOf[n] = Meaning[n]
<1> DEFINE Wrong == {n \in Nodes \ {1} : /\ ~InLoopBody(n) /\ Kind(n) \in Typable
                                         /\ Kind(ParentOf(prog, n)) # "Return"
                                         /\ typeOf[n] # Meaning[n]}
<1>1. SUFFICES ASSUME Wrong # {} PROVE FALSE
  OBVIOUS
<1>2. Nodes = 1..Len(prog) /\ Len(prog) \in Nat
  BY DEF IsProgram, Nodes
<1>3. PICK n \in Wrong : \A m \in Wrong : m <= n
  <2>1. Wrong \subseteq Nat /\ \A m \in Wrong : m <= Len(prog)
    BY <1>2
  <2> HIDE DEF Wrong
  <2> QED
    BY <1>1, <1>2, <2>1, GreatestOf
<1>4. /\ n \in Nodes /\ ~InLoopBody(n) /\ Kind(n) \in Typable /\ typeOf[n] # Meaning[n]
      /\ typeOf[n] = MeaningOf(typeOf, n)
  BY DEF Right
<1>5. ASSUME NEW i \in DOMAIN Kids(n)
      PROVE  typeOf[Kid(n, i)] = Meaning[Kid(n, i)]
  <2>1. Kind(n) \in Operated
    BY <1>4, KidsCounted DEF Typable
  <2>2. /\ Kid(n, i) \in Nodes \ {1} /\ ~InLoopBody(Kid(n, i))
        /\ ParentOf(prog, Kid(n, i)) = n /\ Kind(Kid(n, i)) \in Typable /\ Kid(n, i) > n
    BY <1>4, <2>1, KidOutside
  <2>3. Kid(n, i) \notin Wrong
    <3>1. ~(Kid(n, i) <= n)
      BY <1>2, <1>4, <2>2
    <3> HIDE DEF Wrong
    <3> QED
      BY <1>3, <3>1
  <2>4. Kind(ParentOf(prog, Kid(n, i))) # "Return"
    BY <2>1, <2>2 DEF Operated
  <2> QED
    BY <2>2, <2>3, <2>4
<1>6. MeaningOf(typeOf, n) = MeaningOf(Meaning, n)
  <2> PICK g : g = Meaning
    OBVIOUS
  <2> QED
    BY <1>4, <1>5, MeaningDepends
<1>7. Meaning[n] = MeaningOf(Meaning, n)
  BY <1>4, MeaningFits
<1> QED
  BY <1>4, <1>6, <1>7

LEMMA RightIsTyped == SettledInv /\ RightInv => AcceptedIsTyped
<1> SUFFICES ASSUME SettledInv, RightInv, pass = "accepted",
                    NEW n \in Nodes \ {1}, ~InLoopBody(n)
             PROVE  /\ Kind(n) = "Ident" => symbolOf[n] \notin Garbage
                    /\ Kind(n) = "VarDecl" =>
                           \A i \in DOMAIN Kids(n) : TypeEquals(prog[n].type, Meaning[Kid(n, i)])
                    /\ Kind(n) \in {"Literal", "Ident", "Binary", "Unary", "VarDecl",
                                    "Assign", "Call", "Arg", "ExprStmt"} =>
                           \/ typeOf[n] = Meaning[n]
                           \/ Kind(ParentOf(prog, n)) = "Return"
  BY DEF AcceptedIsTyped
<1>1. IsProgram(prog)
  BY DEF SettledInv, Planned
<1>2. \A m \in Nodes \ {1} : ~InLoopBody(m) => Right(m)
  BY DEF RightInv
<1>3. \A m \in Nodes \ {1} :
          ~InLoopBody(m) /\ Kind(m) \in Typable /\ Kind(ParentOf(prog, m)) # "Return" =>
              typeOf[m] = Meaning[m]
  BY <1>1, <1>2, RightIsMeant
<1>4. Right(n)
  BY <1>2
<1>5. ASSUME Kind(n) = "VarDecl", NEW i \in DOMAIN Kids(n)
      PROVE  TypeEquals(prog[n].type, Meaning[Kid(n, i)])
  <2>1. Kind(n) \in Operated /\ Kind(n) # "Return"
    BY <1>5 DEF Operated
  <2>2. /\ Kid(n, i) \in Nodes \ {1} /\ ~InLoopBody(Kid(n, i))
        /\ ParentOf(prog, Kid(n, i)) = n /\ Kind(Kid(n, i)) \in Typable
    BY <1>1, <2>1, KidOutside
  <2>3. typeOf[Kid(n, i)] = Meaning[Kid(n, i)]
    BY <1>3, <2>1, <2>2
  <2>4. TypeEquals(prog[n].type, typeOf[Kid(n, i)])
    BY <1>4, <1>5 DEF Right
  <2> QED
    BY <2>3, <2>4
<1> QED
  BY <1>3, <1>4, <1>5 DEF Right, Typable, Operated

(* What analysis hands on is typed all through.  While nothing has been    *)
(* reported, every node outside a loop's body either lies ahead of one     *)
(* pending call of the checker, and of only one, or has the type that the  *)
(* types of its children give it; at the end none lies ahead, and from the *)
(* leaves up those types are the ones the program means.                   *)
THEOREM AcceptedTreesAreTyped == Spec => []AcceptedIsTyped
BY SettledHolds, RightHolds, RightIsTyped, PTL

-----------------------------------------------------------------------------
(* The node whose scope is the innermost of those of a set, 0 for none.    *)
Deepest(S) == IF S = {} THEN 0 ELSE Nearest(S)

(* The node whose scope n lies in, and the one whose scope is the current  *)
(* one inside n.                                                           *)
ScopeOver(n) == Deepest(Around(n))
ScopeIn(n) == Deepest(ScopeNodes(n))

LEMMA DeepestIs ==
    ASSUME NEW N \in Nat, NEW S, S \subseteq 1..N
    PROVE  /\ S = {} => Deepest(S) = 0
           /\ S # {} => Deepest(S) \in S /\ \A x \in S : x <= Deepest(S)
           /\ \A m \in S : (\A x \in S : x <= m) => Deepest(S) = m
<1>1. CASE S = {}
  BY <1>1 DEF Deepest
<1>2. CASE S # {}
  <2>1. S \subseteq Nat /\ \A x \in S : x <= N
    OBVIOUS
  <2>2. \E m \in S : \A x \in S : x <= m
    BY <1>2, <2>1, GreatestOf
  <2>3. PICK m : m = Deepest(S)
    OBVIOUS
  <2>4. m = CHOOSE y \in S : \A x \in S : x <= y
    BY <1>2, <2>3 DEF Deepest, Nearest
  <2>5. m \in S /\ \A x \in S : x <= m
    BY <2>2, <2>4
  <2>6. \A y \in S : (\A x \in S : x <= y) => y = m
    BY <2>1, <2>5
  <2> QED
    BY <1>2, <2>3, <2>5, <2>6
<1> QED
  BY <1>1, <1>2

(* The scopes around the nodes of a tree.                                  *)
LEMMA AroundIs ==
    ASSUME IsProgram(prog), NEW n \in Nodes
    PROVE  /\ ScopeNodes(n) \subseteq 1..n /\ Around(n) \subseteq 1..n /\ n \notin Around(n)
           /\ n \in Nat /\ ScopeNodes(n) \subseteq Nodes
           /\ Kind(n) \in Scoping => ScopeIn(n) = n
           /\ Kind(n) \notin Scoping => ScopeIn(n) = ScopeOver(n)
           /\ n = 1 => ScopeOver(n) = 0
           /\ n # 1 => ScopeOver(n) \in Around(n) /\ \A x \in Around(n) : x <= ScopeOver(n)
           /\ 1 \in ScopeNodes(n)
<1>1. Nodes = 1..Len(prog) /\ n \in Nat /\ Kind(1) = "Program"
  BY DEF IsProgram, Nodes, Kind
<1>2. n \in Path(prog, n) /\ 1 \in Path(prog, n) /\ Path(prog, n) \subseteq 1..n
  BY PathsGoUp DEF Nodes
<1>3. /\ ScopeNodes(n) = {m \in Path(prog, n) : Kind(m) \in Scoping}
      /\ Around(n) = ScopeNodes(n) \ {n}
  BY DEF ScopeNodes, Around, Scoping
<1>4. /\ ScopeNodes(n) \subseteq 1..n /\ Around(n) \subseteq 1..n /\ n \notin Around(n)
      /\ 1 \in ScopeNodes(n) /\ ScopeNodes(n) \subseteq Nodes
  BY <1>1, <1>2, <1>3 DEF Scoping
<1>5. Kind(n) \in Scoping => ScopeIn(n) = n
  <2> SUFFICES ASSUME Kind(n) \in Scoping PROVE ScopeIn(n) = n
    OBVIOUS
  <2>1. n \in ScopeNodes(n) /\ \A x \in ScopeNodes(n) : x <= n
    BY <1>2, <1>3, <1>4
  <2> QED
    BY <1>1, <1>4, <2>1, DeepestIs DEF ScopeIn
<1>6. Kind(n) \notin Scoping => ScopeIn(n) = ScopeOver(n)
  BY <1>3 DEF ScopeIn, ScopeOver
<1>7. n = 1 => ScopeOver(n) = 0
  <2> SUFFICES ASSUME n = 1 PROVE ScopeOver(n) = 0
    OBVIOUS
  <2>1. Around(n) = {}
    BY <1>4
  <2> QED
    BY <2>1 DEF ScopeOver, Deepest
<1>8. n # 1 => ScopeOver(n) \in Around(n) /\ \A x \in Around(n) : x <= ScopeOver(n)
  <2> SUFFICES ASSUME n # 1
               PROVE  ScopeOver(n) \in Around(n) /\ \A x \in Around(n) : x <= ScopeOver(n)
    OBVIOUS
  <2>1. Around(n) # {}
    BY <1>3, <1>4
  <2> QED
    BY <1>1, <1>4, <2>1, DeepestIs DEF ScopeOver
<1> QED
  BY <1>1, <1>4, <1>5, <1>6, <1>7, <1>8

LEMMA KidsScope ==
    ASSUME IsProgram(prog), NEW n \in Nodes, NEW i \in DOMAIN Kids(n)
    PROVE  /\ Around(Kid(n, i)) = ScopeNodes(n)
           /\ ScopeOver(Kid(n, i)) = ScopeIn(n)
<1>1. Path(prog, Kid(n, i)) = {Kid(n, i)} \union Path(prog, n) /\ Path(prog, n) \subseteq 1..n
  BY PathOfKid, PathsGoUp DEF Kid, Kids, Nodes
<1>2. Kid(n, i) > n /\ n \in Nat /\ Kid(n, i) \in Nat
  BY KidsArePending DEF IsProgram, Nodes
<1>3. Around(Kid(n, i)) = ScopeNodes(n)
  BY <1>1, <1>2 DEF Around, ScopeNodes
<1> QED
  BY <1>3 DEF ScopeOver, ScopeIn

(* The scopes around a node are that of the nearest and those around it.   *)
LEMMA AroundChains ==
    ASSUME IsProgram(prog), NEW n \in Nodes, n # 1
    PROVE  Around(n) = {ScopeOver(n)} \union Around(ScopeOver(n))
<1>1. PICK m : m = ScopeOver(n)
  OBVIOUS
<1>2. m \in Around(n) /\ \A x \in Around(n) : x <= m
  BY <1>1, AroundIs
<1>3. m \in Path(prog, n) /\ Kind(m) \in Scoping /\ m \in Nodes /\ m # n
  BY <1>2, AroundIs DEF Around, ScopeNodes, Scoping
<1>4. /\ Path(prog, m) \subseteq Path(prog, n) /\ Path(prog, m) \subseteq 1..m /\ m \in Path(prog, m)
      /\ Path(prog, n) \subseteq 1..n
  BY <1>3, PathsGoUp DEF Nodes
<1>5. m < n /\ m \in Nat /\ n \in Nat /\ Nodes = 1..Len(prog)
  BY <1>3, <1>4 DEF IsProgram, Nodes
<1>6. Around(m) \union {m} \subseteq Around(n)
  <2>1. \A x \in Path(prog, m) : x \in Path(prog, n) /\ x # n
    BY <1>4, <1>5
  <2> QED
    BY <1>2, <2>1 DEF Around, ScopeNodes
<1>7. ASSUME NEW x \in Around(n), x # m PROVE x \in Around(m)
  <2>1. x \in Path(prog, n) /\ x <= m /\ x \in Nodes
        /\ Kind(x) \in {"Program", "Block", "Method"}
    BY <1>2, <1>7, AroundIs DEF Around, ScopeNodes
  <2>2. m \in x..n
    BY <1>5, <2>1
  <2>3. x \in Path(prog, m)
    BY <2>1, <2>2, Convex DEF Nodes
  <2> QED
    BY <1>7, <2>1, <2>3 DEF Around, ScopeNodes
<1> QED
  BY <1>1, <1>6, <1>7

(* The resolver comes back from a method to the method's own scope.  Of    *)
(* the nodes with a scope right under that of o, S is passed: the owner of *)
(* the current scope.                                                      *)
Peers(o, S) == {k \in S : Kind(k) \in Scoping /\ k > o /\ ScopeOver(k) = o}

Standing(o, S) ==
    LET last == Deepest(Peers(o, S))
    IN  IF Peers(o, S) # {} /\ Kind(last) = "Method" THEN last ELSE o

Passed(n) == {k \in Nodes : k < n \/ n \in Path(prog, k)}

(* The body of a method is met where the method is.                        *)
Unit(n) == IF n # 1 /\ Kind(ParentOf(prog, n)) = "Method" THEN ParentOf(prog, n) ELSE n

(* The owner of the current scope when a pending call is made, and when it *)
(* has returned.                                                           *)
ScopeBefore(p, t) ==
    LET n == t[2]
    IN  IF p = "resolve"
        THEN IF t[1] = "visit" THEN Standing(ScopeOver(Unit(n)), 1..(Unit(n) - 1))
                               ELSE Standing(n, Passed(n))
        ELSE IF t[1] = "visit" THEN ScopeOver(n) ELSE ScopeIn(n)

ScopeAfter(p, t) ==
    LET n == t[2]
    IN  IF p = "resolve" THEN Standing(ScopeOver(n), Passed(n))
        ELSE IF t[1] \in {"visit", "leave"} THEN ScopeOver(n) ELSE ScopeIn(n)

Linked(p, q) ==
    \A k \in DOMAIN q : k + 1 \in DOMAIN q => ScopeAfter(p, q[k]) = ScopeBefore(p, q[k + 1])

(* Calls that lead from one scope to another.                              *)
Leads(p, ts, m, o) ==
    /\ Linked(p, ts)
    /\ ts = <<>> => m = o
    /\ ts # <<>> => ScopeBefore(p, ts[1]) = m /\ ScopeAfter(p, ts[Len(ts)]) = o

LEMMA LinkedGoes ==
    ASSUME NEW p, NEW q, IsSeq(q), q # <<>>, NEW ts, IsSeq(ts), Linked(p, q), NEW m,
           Leads(p, ts, m, ScopeAfter(p, q[1]))
    PROVE  LET r == ts \o Tail(q)
           IN  Linked(p, r) /\ (r # <<>> => ScopeBefore(p, r[1]) = m)
<1> PICK r : r = ts \o Tail(q)
  OBVIOUS
<1>1. /\ IsSeq(r) /\ Len(ts) \in Nat /\ Len(q) \in Nat
      /\ DOMAIN ts = 1..Len(ts) /\ DOMAIN q = 1..Len(q)
      /\ Len(r) = Len(ts) + Len(q) - 1
      /\ DOMAIN r = 1..(Len(ts) + Len(q) - 1)
      /\ \A k \in 1..Len(ts) : r[k] = ts[k]
      /\ \A k \in (Len(ts) + 1)..(Len(ts) + Len(q) - 1) : r[k] = q[k - Len(ts) + 1]
      /\ q[1] = q[1] /\ Len(q) >= 1
  <2>1. Len(q) >= 1
    BY DEF IsSeq
  <2> QED
    BY <2>1, CallsBefore
<1>2. Len(ts) = 0 <=> ts = <<>>
  BY DEF IsSeq
<1>3. ASSUME NEW k \in DOMAIN r, k + 1 \in DOMAIN r
      PROVE  ScopeAfter(p, r[k]) = ScopeBefore(p, r[k + 1])
  <2>1. CASE k + 1 \in 1..Len(ts)
    <3>1. k \in DOMAIN ts /\ k + 1 \in DOMAIN ts /\ r[k] = ts[k] /\ r[k + 1] = ts[k + 1]
      BY <1>1, <1>3, <2>1
    <3> QED
      BY <3>1 DEF Leads, Linked
  <2>2. CASE k = Len(ts)
    <3>1. /\ ts # <<>> /\ r[k] = ts[Len(ts)] /\ r[k + 1] = q[2]
          /\ 1 \in DOMAIN q /\ 1 + 1 \in DOMAIN q /\ 1 + 1 = 2
      BY <1>1, <1>2, <1>3, <2>2
    <3>2. ScopeAfter(p, r[k]) = ScopeAfter(p, q[1])
      BY <3>1 DEF Leads
    <3>3. ScopeAfter(p, q[1]) = ScopeBefore(p, q[1 + 1])
      BY <3>1 DEF Linked
    <3> QED
      BY <3>1, <3>2, <3>3
  <2>3. CASE k > Len(ts)
    <3>1. PICK j : j = k - Len(ts) + 1
      OBVIOUS
    <3>2. /\ j \in DOMAIN q /\ j + 1 \in DOMAIN q
          /\ r[k] = q[j] /\ r[k + 1] = q[j + 1]
      <4>1. k + 1 \in (Len(ts) + 1)..(Len(ts) + Len(q) - 1)
            /\ (k + 1) - Len(ts) + 1 = j + 1
        BY <1>1, <1>3, <2>3, <3>1
      <4> QED
        BY <1>1, <1>3, <2>3, <3>1, <4>1
    <3> QED
      BY <3>2 DEF Linked
  <2> QED
    BY <1>1, <1>3, <2>1, <2>2, <2>3
<1>4. r # <<>> => ScopeBefore(p, r[1]) = m
  <2>1. CASE ts # <<>>
    <3>1. r[1] = ts[1]
      BY <1>1, <1>2, <2>1
    <3> QED
      BY <2>1, <3>1 DEF Leads
  <2>2. CASE ts = <<>> /\ r # <<>>
    <3>1. 1 \in DOMAIN r
      BY <1>1, <2>2 DEF IsSeq
    <3>2. r[1] = q[2] /\ 1 \in DOMAIN q /\ 1 + 1 \in DOMAIN q /\ 1 + 1 = 2
      BY <1>1, <1>2, <2>2, <3>1
    <3>3. ScopeAfter(p, q[1]) = ScopeBefore(p, q[1 + 1])
      BY <3>2 DEF Linked
    <3> QED
      BY <2>2, <3>2, <3>3 DEF Leads
  <2> QED
    BY <2>1, <2>2
<1> QED
  BY <1>3, <1>4 DEF Linked

-----------------------------------------------------------------------------
(* The scope s is that of the node o, or there is neither.                 *)
Sits(c, s, o) ==
    IF o = 0 THEN s = 0 ELSE s \in 1..Len(c.scopes) /\ c.scopes[s].owner = o

(* The scopes follow the tree.                                             *)
FollowsTree(c) ==
    \A s \in 1..Len(c.scopes) :
        /\ c.scopes[s].owner \in Nodes /\ Kind(c.scopes[s].owner) \in Scoping
        /\ Sits(c, c.scopes[s].parent, ScopeOver(c.scopes[s].owner))

NearInv ==
    /\ FollowsTree(ctx)
    /\ pass = "collect" /\ agenda # <<>> =>
           /\ Linked("collect", agenda)
           /\ Sits(ctx, ctx.current, ScopeBefore("collect", agenda[1]))

(* The scope the collector is in when the handler of n has run.            *)
Moved(n, what) ==
    IF what = "leave" THEN ScopeOver(n) ELSE ScopeIn(n)

LEMMA CollectLeads ==
    ASSUME IsProgram(prog), NEW n \in Nodes, NEW what, NEW ts, NEW a, NEW ks, NEW z,
           Goes(n, what, ts, a, ks, z, "leave"), Covers(n, what, a, ks, z), IsSeq(agenda),
           what # "visit" /\ what # "leave" => Kind(n) = "Method"
    PROVE  Leads("collect", ts, Moved(n, what), ScopeAfter("collect", agenda[1]))
<1>1. Head(agenda) = agenda[1] /\ agenda[1][1] = what /\ agenda[1][2] = n
  BY DEF Goes, IsSeq
<1>2. /\ Fans(ts, n, a, ks, z, "leave") /\ IsSeq(ts)
      /\ what # "visit" => z = 0 /\ a = 0
      /\ a # 0 => Kind(n) = "Method"
  BY DEF Goes, Fans
<1>3. CASE what # "visit"
  <2>1. ts = <<>>
    <3>1. ks = <<>> /\ Len(ks) = 0
      BY <1>3 DEF Covers
    <3>2. Len(ts) = 0
      BY <1>2, <1>3, <3>1 DEF Fans
    <3> QED
      BY <1>2, <3>2 DEF IsSeq
  <2>2. DOMAIN <<>> = {}
    OBVIOUS
  <2>3. ScopeAfter("collect", agenda[1]) = Moved(n, what)
    BY <1>1, <1>3 DEF ScopeAfter, Moved
  <2> QED
    BY <2>1, <2>2, <2>3 DEF Leads, Linked
<1>4. CASE what = "visit"
  <2> DEFINE o == ScopeIn(n)
  <2>1. Moved(n, what) = o /\ ScopeAfter("collect", agenda[1]) = ScopeOver(n)
    BY <1>1, <1>4 DEF Moved, ScopeAfter
  <2>2. /\ ks \in Seq(Nat) /\ Len(ks) \in Nat /\ DOMAIN ks = 1..Len(ks)
        /\ a \in Nat /\ z \in {0, 1}
        /\ DOMAIN ts = 1..Len(ts) /\ Len(ts) = a + Len(ks) + z
    BY <1>2 DEF Fans, IsSeq
  <2>3. \A i \in DOMAIN ks : ScopeOver(ks[i]) = o
    <3>1. \A i \in DOMAIN Kids(n) : ScopeOver(Kids(n)[i]) = o
      BY KidsScope DEF Kid, Kids
    <3> QED
      BY <1>4, <3>1 DEF Covers
  <2>4. ASSUME NEW k \in 1..Len(ts)
        PROVE  /\ ScopeBefore("collect", ts[k]) = o
               /\ ScopeAfter("collect", ts[k]) = IF z = 1 /\ k = Len(ts) THEN ScopeOver(n) ELSE o
    <3>1. CASE k \in 1..a
      <4>1. ts[k][1] \in {"param", "declare"} /\ ts[k][2] = n
        BY <1>2, <3>1 DEF Fans
      <4>2. ~(z = 1 /\ k = Len(ts))
        BY <2>2, <3>1
      <4> QED
        BY <4>1, <4>2 DEF ScopeBefore, ScopeAfter
    <3>2. CASE k \in (a + 1)..(a + Len(ks))
      <4>1. PICK i : i = k - a
        OBVIOUS
      <4>2. i \in 1..Len(ks) /\ k = a + i
        BY <2>2, <3>2, <4>1
      <4>3. ts[k][1] = "visit" /\ ts[k][2] = ks[i]
        BY <1>2, <4>2 DEF Fans
      <4>4. ~(z = 1 /\ k = Len(ts))
        BY <2>2, <3>2
      <4> QED
        BY <2>2, <2>3, <4>2, <4>3, <4>4 DEF ScopeBefore, ScopeAfter
    <3>3. CASE z = 1 /\ k = a + Len(ks) + 1
      <4>1. ts[k][1] = "leave" /\ ts[k][2] = n
        BY <1>2, <3>3 DEF Fans
      <4> QED
        BY <2>2, <3>3, <4>1 DEF ScopeBefore, ScopeAfter
    <3> QED
      BY <2>2, <3>1, <3>2, <3>3
  <2>5. z = 0 => o = ScopeOver(n)
    <3> SUFFICES ASSUME z = 0 PROVE o = ScopeOver(n)
      OBVIOUS
    <3>1. Kind(n) \notin Scoping
      BY <1>4 DEF Covers
    <3> QED
      BY <3>1, AroundIs
  <2> HIDE DEF o
  <2>6. Linked("collect", ts)
    <3> SUFFICES ASSUME NEW k \in DOMAIN ts, k + 1 \in DOMAIN ts
                 PROVE  ScopeAfter("collect", ts[k]) = ScopeBefore("collect", ts[k + 1])
      BY DEF Linked
    <3>1. k \in 1..Len(ts) /\ k + 1 \in 1..Len(ts) /\ k # Len(ts)
      BY <2>2
    <3> QED
      BY <2>4, <3>1
  <2>7. ts = <<>> => o = ScopeOver(n)
    <3> SUFFICES ASSUME ts = <<>> PROVE o = ScopeOver(n)
      OBVIOUS
    <3>1. Len(ts) = 0
      OBVIOUS
    <3> QED
      BY <2>2, <2>5, <3>1
  <2>8. ts # <<>> => /\ ScopeBefore("collect", ts[1]) = o
                     /\ ScopeAfter("collect", ts[Len(ts)]) = ScopeOver(n)
    <3> SUFFICES ASSUME ts # <<>>
                 PROVE  /\ ScopeBefore("collect", ts[1]) = o
                        /\ ScopeAfter("collect", ts[Len(ts)]) = ScopeOver(n)
      OBVIOUS
    <3>1. 1 \in 1..Len(ts) /\ Len(ts) \in 1..Len(ts)
      BY <1>2 DEF IsSeq
    <3> QED
      BY <2>2, <2>4, <2>5, <3>1
  <2> QED
    BY <2>1, <2>6, <2>7, <2>8 DEF Leads
<1> QED
  BY <1>3, <1>4

(* While the tree is the same, so are the scopes around its nodes.         *)
LEMMA SamePlaces ==
    ASSUME prog' = prog
    PROVE  /\ \A n : Kind(n)' = Kind(n) /\ ScopeNodes(n)' = ScopeNodes(n)
           /\ \A n : ScopeOver(n)' = ScopeOver(n) /\ ScopeIn(n)' = ScopeIn(n)
           /\ Nodes' = Nodes
<1>1. Nodes' = Nodes /\ \A n : Kind(n)' = Kind(n)
  BY DEF Nodes, Kind
<1>2. \A n : ScopeNodes(n)' = ScopeNodes(n)
  BY <1>1 DEF ScopeNodes
<1>3. \A n : ScopeOver(n)' = ScopeOver(n) /\ ScopeIn(n)' = ScopeIn(n)
  BY <1>2 DEF ScopeOver, ScopeIn, Around
<1> QED
  BY <1>1, <1>2, <1>3

LEMMA SameLinks ==
    ASSUME prog' = prog, NEW p
    PROVE  /\ \A t : ScopeBefore(p, t)' = ScopeBefore(p, t) /\ ScopeAfter(p, t)' = ScopeAfter(p, t)
           /\ Linked(p, agenda') => Linked(p, agenda)'
<1>1. /\ \A n : Kind(n)' = Kind(n) /\ ScopeOver(n)' = ScopeOver(n) /\ ScopeIn(n)' = ScopeIn(n)
      /\ Nodes' = Nodes
  BY SamePlaces
<1>2. \A o, S : Peers(o, S)' = Peers(o, S)
  BY <1>1 DEF Peers
<1>3. \A o, S : Standing(o, S)' = Standing(o, S)
  BY <1>1, <1>2 DEF Standing
<1>4. \A n : Passed(n)' = Passed(n) /\ Unit(n)' = Unit(n)
  BY <1>1 DEF Passed, Unit, Nodes
<1>5. \A t : ScopeBefore(p, t)' = ScopeBefore(p, t) /\ ScopeAfter(p, t)' = ScopeAfter(p, t)
  BY <1>1, <1>3, <1>4 DEF ScopeBefore, ScopeAfter
<1> QED
  BY <1>1, <1>3, <1>4 DEF Linked, ScopeBefore, ScopeAfter

LEMMA SitsStill ==
    ASSUME NEW c, NEW d, SameTree(c, d), NEW s, NEW o
    PROVE  Sits(c, s, o) <=> Sits(d, s, o)
BY DEF Sits, SameTree

LEMMA StillFollows ==
    ASSUME NEW c, NEW d, SameTree(c, d), FollowsTree(c)
    PROVE  FollowsTree(d)
<1> SUFFICES ASSUME NEW s \in 1..Len(d.scopes)
             PROVE  /\ d.scopes[s].owner \in Nodes /\ Kind(d.scopes[s].owner) \in Scoping
                    /\ Sits(d, d.scopes[s].parent, ScopeOver(d.scopes[s].owner))
  BY DEF FollowsTree
<1>1. s \in 1..Len(c.scopes) /\ d.scopes[s].owner = c.scopes[s].owner
      /\ d.scopes[s].parent = c.scopes[s].parent
  BY DEF SameTree
<1>2. /\ c.scopes[s].owner \in Nodes /\ Kind(c.scopes[s].owner) \in Scoping
      /\ Sits(c, c.scopes[s].parent, ScopeOver(c.scopes[s].owner))
  BY <1>1 DEF FollowsTree
<1> QED
  BY <1>1, <1>2, SitsStill

LEMMA EntersFollows ==
    ASSUME NEW c, Scoped(c), FollowsTree(c), NEW n \in Nodes, Kind(n) \in Scoping, n # 0,
           Sits(c, c.current, ScopeOver(n))
    PROVE  FollowsTree(PushScope(c, n)) /\ Sits(PushScope(c, n), PushScope(c, n).current, n)
<1> DEFINE N == Len(c.scopes)
<1> PICK d : d = PushScope(c, n)
  OBVIOUS
<1>1. /\ N \in Nat /\ d.current = N + 1 /\ Len(d.scopes) = N + 1
      /\ \A t \in 1..N : d.scopes[t] = c.scopes[t]
      /\ d.scopes[N + 1].owner = n /\ d.scopes[N + 1].parent = c.current
  BY PushTree
<1> HIDE DEF N
<1>2. \A s, o : Sits(c, s, o) => Sits(d, s, o)
  <2>1. Len(c.scopes) = N
    BY DEF N
  <2> QED
    BY <1>1, <2>1 DEF Sits
<1>3. Sits(d, d.current, n)
  BY <1>1 DEF Sits
<1>4. ASSUME NEW s \in 1..Len(d.scopes)
      PROVE  /\ d.scopes[s].owner \in Nodes /\ Kind(d.scopes[s].owner) \in Scoping
             /\ Sits(d, d.scopes[s].parent, ScopeOver(d.scopes[s].owner))
  <2>1. CASE s = N + 1
    BY <1>1, <1>2, <2>1
  <2>2. CASE s # N + 1
    <3>1. s \in 1..N
      BY <1>1, <2>2
    <3>2. s \in 1..Len(c.scopes)
      BY <3>1 DEF N
    <3>3. /\ c.scopes[s].owner \in Nodes /\ Kind(c.scopes[s].owner) \in Scoping
          /\ Sits(c, c.scopes[s].parent, ScopeOver(c.scopes[s].owner))
      BY <3>2 DEF FollowsTree
    <3>4. d.scopes[s] = c.scopes[s]
      BY <1>1, <3>1
    <3> QED
      BY <1>2, <3>3, <3>4
  <2> QED
    BY <2>1, <2>2
<1> QED
  BY <1>3, <1>4 DEF FollowsTree

LEMMA CollectNear ==
    ASSUME SettledInv, NearInv, Collect
    PROVE  NearInv'
<1>1. PICK n \in Pending : Collects(n)
  BY DEF Collect, Collects
<1>2. /\ pass = "collect" /\ n \in Nodes /\ Planned /\ MethodsInv
  BY <1>1, CollectGoes DEF SettledInv
<1>3. PICK what, ts, a, ks, z : /\ Goes(n, what, ts, a, ks, z, "leave")
                                /\ n = 1 => what = "visit" \/ ts = <<>>
                                /\ Covers(n, what, a, ks, z)
  BY <1>1, <1>2, CollectGoes
<1>4. /\ IsProgram(prog) /\ Scoped(ctx) /\ IsSeq(agenda) /\ agenda # <<>> /\ prog' = prog
      /\ Head(agenda) = agenda[1] /\ agenda[1][1] = what /\ agenda[1][2] = n
      /\ agenda' = ts \o Tail(agenda) /\ IsSeq(ts) /\ pass' = "collect"
  <2>1. IsSeq(agenda) /\ IsProgram(prog) /\ Scoped(ctx)
    BY <1>2 DEF Planned, MethodsInv
  <2>2. IsSeq(ts)
    BY <1>3 DEF Goes, Fans
  <2>3. agenda # <<>> /\ Head(agenda) = agenda[1]
    BY <1>3, <2>1 DEF Goes, IsSeq
  <2> QED
    BY <1>2, <1>3, <2>1, <2>2, <2>3 DEF Goes, Then
<1>5. ~AtRoot => Fits(pass, prog, agenda[1]) /\ (n = 1 => Len(agenda) = 1)
  <2>1. 1 \in DOMAIN agenda
    BY <1>4 DEF IsSeq
  <2> QED
    BY <1>2, <1>4, <2>1 DEF Planned
<1>6. what # "visit" => ~AtRoot /\ Kind(n) \in Scoping /\ what \in {"leave", "param", "declare"}
      /\ (what # "leave" => Kind(n) = "Method")
  <2> SUFFICES ASSUME what # "visit"
               PROVE  /\ ~AtRoot /\ Kind(n) \in Scoping /\ what \in {"leave", "param", "declare"}
                      /\ what # "leave" => Kind(n) = "Method"
    OBVIOUS
  <2>1. ~AtRoot
    BY <1>4 DEF AtRoot, Task
  <2> QED
    BY <1>2, <1>4, <1>5, <2>1 DEF Fits, Scoping, Kind
<1>7. /\ FollowsTree(ctx) /\ Linked("collect", agenda)
      /\ Sits(ctx, ctx.current, ScopeBefore("collect", agenda[1]))
  BY <1>2, <1>4 DEF NearInv
<1>8. Leads("collect", ts, Moved(n, what), ScopeAfter("collect", agenda[1]))
  BY <1>2, <1>3, <1>4, <1>6, CollectLeads
<1>9. /\ Linked("collect", agenda')
      /\ agenda' # <<>> => ScopeBefore("collect", agenda'[1]) = Moved(n, what)
  BY <1>4, <1>7, <1>8, LinkedGoes
<1>10. /\ FollowsTree(ctx')
       /\ agenda' # <<>> => Sits(ctx', ctx'.current, Moved(n, what))
  <2>1. CASE Enters(n)
    <3>1. what = "visit" /\ Kind(n) \in Scoping /\ ctx' = PushScope(ctx, n)
      BY <1>4, <2>1 DEF Enters
    <3>2. Sits(ctx, ctx.current, ScopeOver(n))
      BY <1>4, <1>7, <3>1 DEF ScopeBefore
    <3>3. Moved(n, what) = n /\ n # 0
      BY <1>2, <1>4, <3>1, AroundIs DEF Moved, IsProgram, Nodes
    <3> QED
      BY <1>2, <1>4, <1>7, <3>1, <3>2, <3>3, EntersFollows
  <2>2. CASE Stays(n)
    <3>1. SameTree(ctx, ctx') /\ ctx'.current = ctx.current
      BY <1>1, <2>2, CollectMoves DEF Stays
    <3>2. Moved(n, what) = ScopeBefore("collect", agenda[1])
      <4>1. what # "leave" /\ (what = "visit" => Kind(n) \notin Scoping)
        BY <1>4, <2>2 DEF Stays
      <4> QED
        BY <1>2, <1>4, <4>1, AroundIs DEF Moved, ScopeBefore
    <3> QED
      BY <1>7, <3>1, <3>2, StillFollows, SitsStill
  <2>3. CASE Leaves(n)
    <3>1. SameTree(ctx, ctx') /\ what = "leave"
          /\ ctx'.current = IF ctx.scopes[ctx.current].parent = 0 THEN ctx.current
                            ELSE ctx.scopes[ctx.current].parent
      BY <1>1, <1>4, <2>3, CollectMoves DEF Leaves
    <3>2. CASE n = 1
      <4>1. ts = <<>> /\ Len(agenda) = 1
        BY <1>3, <1>5, <1>6, <3>1, <3>2
      <4>2. agenda' = <<>>
        BY <1>4, <4>1 DEF IsSeq
      <4> QED
        BY <1>7, <3>1, <4>2, StillFollows
    <3>3. CASE n # 1
      <4>1. ScopeBefore("collect", agenda[1]) = n /\ n # 0
        BY <1>2, <1>4, <1>6, <3>1, AroundIs DEF ScopeBefore, IsProgram, Nodes
      <4>2. ctx.current \in 1..Len(ctx.scopes) /\ ctx.scopes[ctx.current].owner = n
        BY <1>7, <4>1 DEF Sits
      <4>3. Sits(ctx, ctx.scopes[ctx.current].parent, ScopeOver(n))
        BY <1>7, <4>2 DEF FollowsTree
      <4>4. ScopeOver(n) # 0
        BY <1>2, <1>4, <3>3, AroundIs
      <4>5. ctx.scopes[ctx.current].parent # 0
        BY <1>4, <4>3, <4>4 DEF Sits
      <4>6. Sits(ctx, ctx'.current, Moved(n, what))
        BY <3>1, <4>3, <4>5 DEF Moved
      <4> QED
        BY <1>7, <3>1, <4>6, StillFollows, SitsStill
    <3> QED
      BY <3>2, <3>3
  <2> QED
    BY <1>1, <2>1, <2>2, <2>3, CollectMoves
<1>11. FollowsTree(ctx)'
  BY <1>4, <1>10, SamePlaces DEF FollowsTree
<1>12. agenda' # <<>> => /\ Linked("collect", agenda)'
                         /\ Sits(ctx, ctx.current, ScopeBefore("collect", agenda[1]))'
  <2> SUFFICES ASSUME agenda' # <<>>
               PROVE  /\ Linked("collect", agenda)'
                      /\ Sits(ctx, ctx.current, ScopeBefore("collect", agenda[1]))'
    OBVIOUS
  <2>1. PICK t : t = agenda'[1]
    OBVIOUS
  <2>2. ScopeBefore("collect", t)' = ScopeBefore("collect", t)
    BY <1>4, SameLinks
  <2>3. ScopeBefore("collect", agenda[1])' = Moved(n, what)
    BY <1>9, <2>1, <2>2
  <2> QED
    BY <1>4, <1>9, <1>10, <2>3, SameLinks DEF Sits
<1> QED
  BY <1>4, <1>11, <1>12 DEF NearInv

LEMMA KeepsNear ==
    ASSUME NearInv, ctx'.scopes = ctx.scopes, prog' = prog, pass' # "collect"
    PROVE  NearInv'
<1>1. SameTree(ctx, ctx')
  BY DEF SameTree
<1>2. FollowsTree(ctx')
  BY <1>1, StillFollows DEF NearInv
<1>3. FollowsTree(ctx)'
  BY <1>2, SamePlaces DEF FollowsTree
<1> QED
  BY <1>3 DEF NearInv

LEMMA ParserNear ==
    ASSUME SettledInv, ParserReturns
    PROVE  NearInv'
<1>1. PICK tree \in Programs : Analyze(tree)
  BY DEF ParserReturns
<1>2. /\ prog' = tree /\ IsProgram(tree) /\ ctx' = ctx /\ AtRoot' /\ pass = "parse"
  BY <1>1, AstAssumption DEF Analyze, AtRoot, ParserReturns
<1>3. ctx.scopes = <<>> /\ ctx.current = 0
  BY <1>2 DEF SettledInv, MethodsInv, Rooted
<1>4. DOMAIN agenda' = {1} /\ agenda'[1] = Task("visit", 1, 0)
  BY <1>2, OneTask DEF AtRoot
<1>5. Linked("collect", agenda)'
  BY <1>4 DEF Linked
<1>6. ScopeBefore("collect", agenda[1])' = 0
  <2>1. \A n : Around(n)' = {m \in Path(tree, n) : tree[m].kind \in {"Program", "Block", "Method"}} \ {n}
    BY <1>2 DEF Around, ScopeNodes, Kind
  <2>2. Path(tree, 1) = {1}
    BY <1>2, PathIs
  <2>3. Around(1)' = {}
    BY <2>1, <2>2
  <2>4. Deepest({}) = 0
    BY DEF Deepest
  <2>5. ScopeOver(1)' = 0
    BY <2>3, <2>4 DEF ScopeOver
  <2>6. agenda'[1][1] = "visit" /\ agenda'[1][2] = 1
    BY <1>4 DEF Task
  <2> QED
    BY <2>5, <2>6 DEF ScopeBefore
<1>7. FollowsTree(ctx)'
  <2>1. Len(ctx'.scopes) = 0
    BY <1>2, <1>3
  <2> QED
    BY <2>1 DEF FollowsTree
<1> QED
  BY <1>2, <1>3, <1>5, <1>6, <1>7 DEF NearInv, Sits

LEMMA NearHolds == Spec => []NearInv
<1>1. InitPasses => NearInv
  <2> SUFFICES ASSUME InitPasses PROVE NearInv
    OBVIOUS
  <2>1. Len(ctx.scopes) = 0 /\ pass # "collect"
    BY DEF InitPasses, NoContext
  <2> QED
    BY <2>1 DEF NearInv, FollowsTree
<1>2. SettledInv /\ NearInv /\ [Next]_semaVars => NearInv'
  <2> SUFFICES ASSUME SettledInv, NearInv, [Next]_semaVars PROVE NearInv'
    OBVIOUS
  <2>1. CASE UNCHANGED semaVars
    <3>1. prog' = prog /\ ctx' = ctx /\ pass' = pass /\ agenda' = agenda
      BY <2>1 DEF semaVars
    <3>2. FollowsTree(ctx)'
      BY <3>1, SamePlaces DEF FollowsTree, Sits, NearInv
    <3>3. pass = "collect" /\ agenda # <<>> =>
              /\ Linked("collect", agenda)'
              /\ Sits(ctx, ctx.current, ScopeBefore("collect", agenda[1]))'
      <4> SUFFICES ASSUME pass = "collect", agenda # <<>>
                   PROVE  /\ Linked("collect", agenda)'
                          /\ Sits(ctx, ctx.current, ScopeBefore("collect", agenda[1]))'
        OBVIOUS
      <4>1. ScopeBefore("collect", agenda[1])' = ScopeBefore("collect", agenda[1])
        <5>1. PICK t : t = agenda[1]
          OBVIOUS
        <5>2. ScopeBefore("collect", t)' = ScopeBefore("collect", t)
          BY <3>1, SameLinks
        <5> QED
          BY <3>1, <5>1, <5>2
      <4> QED
        BY <3>1, <4>1, SameLinks DEF NearInv, Sits
    <3> QED
      BY <3>1, <3>2, <3>3 DEF NearInv
  <2>2. CASE ParserReturns
    BY <2>2, ParserNear
  <2>3. CASE Collect
    BY <2>3, CollectNear
  <2>4. CASE Resolve
    <3>1. Still /\ pass' \in {"resolve", "crashed"}
      BY <2>4, ResolveStill, ResolveReports DEF SettledInv, MethodsInv
    <3> QED
      BY <3>1, KeepsNear DEF Still
  <2>5. CASE Check
    <3>1. Still /\ pass' \in {"check", "crashed"}
      BY <2>5, CheckStill, CheckReports DEF SettledInv, MethodsInv
    <3> QED
      BY <3>1, KeepsNear DEF Still
  <2>6. CASE AfterCollector \/ AfterResolver \/ AfterChecker
    <3>1. prog' = prog /\ ctx' = ctx /\ pass' # "collect"
      BY <2>6 DEF AfterCollector, AfterResolver, AfterChecker, PassOver, Finish, Begin
    <3> QED
      BY <3>1, KeepsNear
  <2> QED
    BY <2>1, <2>2, <2>3, <2>4, <2>5, <2>6 DEF Next, Analysis
<1> QED
  BY <1>1, <1>2, SettledHolds, PTL DEF Spec

(* push_scope and pop_scope stay in step with the tree, whatever program   *)
(* is collected: before any handler of the collector runs, the current     *)
(* scope is that of the nearest program, block or method around it.        *)
THEOREM CollectorInItsScope == Spec => []CollectorScopeIsNearest
<1>1. SettledInv /\ NearInv => CollectorScopeIsNearest
  <2> SUFFICES ASSUME SettledInv, NearInv, pass = "collect", agenda # <<>>
               PROVE  LET n    == Head(agenda)[2]
                          here == IF Head(agenda)[1] = "visit" THEN Around(n) ELSE ScopeNodes(n)
                      IN  IF here = {} THEN ctx.current = 0
                                       ELSE OwnerOf(ctx.current) = Nearest(here)
    BY DEF CollectorScopeIsNearest
  <2> DEFINE n    == Head(agenda)[2]
             here == IF Head(agenda)[1] = "visit" THEN Around(n) ELSE ScopeNodes(n)
  <2>1. IsSeq(agenda) /\ IsProgram(prog)
    BY DEF SettledInv, Planned
  <2>2. Head(agenda) = agenda[1] /\ 1 \in DOMAIN agenda
    BY <2>1 DEF IsSeq
  <2>3. Sits(ctx, ctx.current, Deepest(here))
    BY <2>2 DEF NearInv, ScopeBefore, ScopeOver, ScopeIn
  <2>4. n \in Nodes
    <3>1. CASE AtRoot
      BY <2>1, <2>2, <3>1 DEF AtRoot, Task, IsProgram, Nodes
    <3>2. CASE ~AtRoot
      BY <2>2, <3>2 DEF SettledInv, Planned, Fits, Nodes
    <3> QED
      BY <3>1, <3>2
  <2>5. here \subseteq 1..n /\ n \in Nat
    BY <2>1, <2>4, AroundIs
  <2>6. CASE here = {}
    BY <2>3, <2>6 DEF Deepest, Sits
  <2>7. CASE here # {}
    <3>1. Deepest(here) \in 1..n /\ Deepest(here) = Nearest(here)
      <4> HIDE DEF here, n
      <4> QED
        BY <2>5, <2>7, DeepestIs DEF Deepest
    <3>2. Deepest(here) # 0
      BY <3>1
    <3> QED
      BY <2>3, <2>7, <3>1, <3>2 DEF Sits, OwnerOf
  <2> QED
    BY <2>6, <2>7
<1> QED
  BY <1>1, SettledHolds, NearHolds, PTL

(* The nodes a pending call is for.                                        *)
Spans(t) ==
    IF t[1] = "visit" THEN {m \in Nodes : t[2] \in Path(prog, m)}
    ELSE IF t[1] = "leave" THEN {} ELSE {t[2]}

(* The node m is met before the call t is made.                            *)
Precedes(m, t) ==
    IF t[1] = "visit" THEN m < t[2]
    ELSE IF t[1] = "leave" THEN TRUE ELSE m <= t[2]

(* The collector meets the nodes in their order.                           *)
Ordered ==
    \A j, k \in DOMAIN agenda : j < k => \A m \in Spans(agenda[j]) : Precedes(m, agenda[k])

Behind(m) == \A k \in DOMAIN agenda : Precedes(m, agenda[k])

(* What a call asks for lies within its own span and is in order.          *)
LEMMA FanSpans ==
    ASSUME IsProgram(prog), NEW n \in Nodes, NEW ts, NEW a, NEW ks, NEW z,
           Fans(ts, n, a, ks, z, "leave"), ks = Kids(n) \/ ks = <<>>,
           NEW k \in 1..Len(ts)
    PROVE  /\ Spans(ts[k]) \subseteq {m \in Nodes : n \in Path(prog, m)}
           /\ \A m \in Spans(ts[k]) : \A l \in 1..Len(ts) : k < l => Precedes(m, ts[l])
           /\ Precedes(n, ts[k]) /\ ts[k][2] \in Nat
<1>1. /\ ks \in Seq(Nat) /\ Len(ks) \in Nat /\ DOMAIN ks = 1..Len(ks)
      /\ a \in Nat /\ z \in {0, 1} /\ Len(ts) = a + Len(ks) + z
  BY DEF Fans
<1>2. /\ n \in Nat /\ n \in Path(prog, n) /\ Nodes = DOMAIN prog
      /\ \A m \in Nodes : m \in Nat
  BY PathsGoUp DEF IsProgram, Nodes
<1>3. ASSUME NEW l \in 1..a
      PROVE  /\ ts[l][1] # "visit" /\ ts[l][1] # "leave" /\ ts[l][2] = n
             /\ Spans(ts[l]) = {n} /\ Precedes(n, ts[l])
  <2>1. ts[l][1] \in {"param", "declare"} /\ ts[l][2] = n
    BY DEF Fans
  <2> QED
    BY <1>2, <2>1 DEF Spans, Precedes
<1>4. ASSUME NEW l \in 1..Len(ks)
      PROVE  /\ l \in DOMAIN Kids(n) /\ ts[a + l][1] = "visit" /\ ts[a + l][2] = Kid(n, l)
             /\ Spans(ts[a + l]) = {m \in Nodes : Kid(n, l) \in Path(prog, m)}
             /\ n < Kid(n, l) /\ Kid(n, l) \in Nodes
  <2>1. ts[a + l][1] = "visit" /\ ts[a + l][2] = ks[l]
    BY DEF Fans
  <2>2. ks = Kids(n)
    BY <1>1
  <2>3. l \in DOMAIN Kids(n) /\ ks[l] = Kid(n, l) /\ n < Kid(n, l) /\ Kid(n, l) \in Nodes
    BY <1>1, <1>2, <2>2, KidsArePending DEF Kid, Kids
  <2> QED
    BY <2>1, <2>3 DEF Spans
<1>5. ASSUME NEW l, l = a + Len(ks) + 1, z = 1
      PROVE  Spans(ts[l]) = {} /\ ts[l][2] \in Nat /\ \A m : Precedes(m, ts[l])
  <2>1. ts[l][1] = "leave" /\ ts[l][2] = n
    BY <1>5 DEF Fans
  <2> QED
    BY <1>2, <2>1 DEF Spans, Precedes
<1>6. ASSUME NEW l \in 1..Len(ts)
      PROVE  \/ l \in 1..a
             \/ l - a \in 1..Len(ks) /\ l = a + (l - a)
             \/ l = a + Len(ks) + 1 /\ z = 1
  BY <1>1
<1>7. CASE k \in 1..a
  <2>1. \A l \in 1..Len(ts) : Precedes(n, ts[l])
    <3> SUFFICES ASSUME NEW l \in 1..Len(ts) PROVE Precedes(n, ts[l])
      OBVIOUS
    <3>1. CASE l - a \in 1..Len(ks) /\ l = a + (l - a)
      BY <1>4, <3>1 DEF Precedes
    <3> QED
      BY <1>3, <1>5, <1>6, <3>1
  <2> QED
    BY <1>2, <1>3, <1>7, <2>1
<1>8. CASE k - a \in 1..Len(ks) /\ k = a + (k - a)
  <2>1. PICK i : i = k - a
    OBVIOUS
  <2>2. i \in 1..Len(ks) /\ k = a + i
    BY <1>8, <2>1
  <2>3. /\ i \in DOMAIN Kids(n) /\ ts[k][1] = "visit" /\ ts[k][2] = Kid(n, i)
        /\ Spans(ts[k]) = {m \in Nodes : Kid(n, i) \in Path(prog, m)}
        /\ n < Kid(n, i) /\ Kid(n, i) \in Nodes
    BY <1>4, <2>2
  <2>4. n \in Path(prog, Kid(n, i))
    <3>1. Path(prog, Kid(n, i)) = {Kid(n, i)} \union Path(prog, n)
      BY <2>3, PathOfKid DEF Kid, Kids, Nodes
    <3> QED
      BY <1>2, <3>1
  <2>5. Spans(ts[k]) \subseteq {m \in Nodes : n \in Path(prog, m)}
    <3>1. \A m \in Nodes : Kid(n, i) \in Path(prog, m) => Path(prog, Kid(n, i)) \subseteq Path(prog, m)
      BY PathsGoUp DEF Nodes
    <3> QED
      BY <2>3, <2>4, <3>1
  <2>6. ASSUME NEW m \in Spans(ts[k]), NEW l \in 1..Len(ts), k < l
        PROVE  Precedes(m, ts[l])
    <3>1. CASE l - a \in 1..Len(ks) /\ l = a + (l - a)
      <4>1. PICK j : j = l - a
        OBVIOUS
      <4>2. j \in 1..Len(ks) /\ l = a + j /\ i < j
        BY <1>1, <2>2, <2>6, <3>1, <4>1
      <4>3. j \in DOMAIN Kids(n) /\ ts[l][1] = "visit" /\ ts[l][2] = Kid(n, j)
        BY <1>4, <4>2
      <4>4. m < Kid(n, j)
        BY <2>3, <2>6, <4>2, <4>3, KidsApart DEF Kid, Kids, Nodes
      <4> QED
        BY <4>3, <4>4 DEF Precedes
    <3>2. l \notin 1..a
      BY <1>1, <2>2, <2>6
    <3> QED
      BY <1>5, <1>6, <3>1, <3>2
  <2>7. Precedes(n, ts[k]) /\ ts[k][2] \in Nat
    BY <1>2, <2>3 DEF Precedes
  <2> QED
    BY <2>5, <2>6, <2>7
<1>9. CASE k = a + Len(ks) + 1 /\ z = 1
  BY <1>5, <1>9
<1> QED
  BY <1>6, <1>7, <1>8, <1>9

(* The calls a handler makes come in order, before the ones that wait.     *)
LEMMA OrderedGoes ==
    ASSUME Ordered, IsProgram(prog), NEW n \in Nodes, NEW what, NEW ts, NEW a, NEW ks, NEW z,
           Goes(n, what, ts, a, ks, z, "leave"), Covers(n, what, a, ks, z), IsSeq(agenda)
    PROVE  /\ Ordered'
           /\ \A m \in Nat : Behind(m) => Behind(m)'
           /\ what # "leave" => Behind(n)'
<1>1. /\ Fans(ts, n, a, ks, z, "leave") /\ IsSeq(ts) /\ Then(ts) /\ prog' = prog
      /\ agenda # <<>> /\ Head(agenda)[1] = what /\ Head(agenda)[2] = n
      /\ ks = Kids(n) \/ ks = <<>>
      /\ what # "visit" => a = 0 /\ z = 0 /\ ks = <<>>
  BY DEF Goes, Fans, Covers
<1>2. /\ Len(ts) \in Nat /\ Len(agenda) \in Nat
      /\ DOMAIN ts = 1..Len(ts) /\ DOMAIN agenda = 1..Len(agenda)
      /\ DOMAIN agenda' = 1..(Len(ts) + Len(agenda) - 1)
      /\ \A k \in 1..Len(ts) : agenda'[k] = ts[k]
      /\ \A k \in (Len(ts) + 1)..(Len(ts) + Len(agenda) - 1) :
             agenda'[k] = agenda[k - Len(ts) + 1]
      /\ Head(agenda) = agenda[1] /\ 1 \in 1..Len(agenda)
  BY <1>1, NextCalls
<1>3. what # "visit" => Len(ts) = 0
  <2> SUFFICES ASSUME what # "visit" PROVE Len(ts) = 0
    OBVIOUS
  <2>1. a = 0 /\ z = 0 /\ Len(ks) = 0
    BY <1>1
  <2> QED
    BY <1>1, <2>1 DEF Fans
<1>4. \A t : Spans(t)' = Spans(t)
  BY <1>1 DEF Spans, Nodes
<1>5. what = "visit" => Spans(agenda[1]) = {m \in Nodes : n \in Path(prog, m)}
  BY <1>1, <1>2 DEF Spans
<1>6. ASSUME NEW k \in 1..Len(ts)
      PROVE  /\ Spans(ts[k]) \subseteq Spans(agenda[1])
             /\ \A m \in Spans(ts[k]) : \A l \in 1..Len(ts) : k < l => Precedes(m, ts[l])
             /\ Precedes(n, ts[k]) /\ ts[k][2] \in Nat /\ what = "visit"
  <2>1. what = "visit"
    BY <1>2, <1>3
  <2> QED
    BY <1>1, <1>5, <2>1, FanSpans
<1>7. ASSUME NEW k \in DOMAIN agenda', k \notin 1..Len(ts)
      PROVE  k - Len(ts) + 1 \in DOMAIN agenda /\ k - Len(ts) + 1 > 1
             /\ agenda'[k] = agenda[k - Len(ts) + 1]
  BY <1>2, <1>7
<1>8. Ordered'
  <2> SUFFICES ASSUME NEW j \in DOMAIN agenda', NEW k \in DOMAIN agenda', j < k,
                      NEW m \in Spans(agenda'[j])
               PROVE  Precedes(m, agenda'[k])
    BY <1>1 DEF Ordered, Spans, Precedes, Nodes
  <2>1. CASE k \in 1..Len(ts)
    <3>1. j \in 1..Len(ts)
      BY <1>2, <2>1
    <3> QED
      BY <1>2, <1>6, <2>1, <3>1
  <2>2. CASE j \in 1..Len(ts) /\ k \notin 1..Len(ts)
    <3>1. m \in Spans(agenda[1])
      BY <1>2, <1>6, <2>2
    <3> QED
      BY <1>2, <1>7, <2>2, <3>1 DEF Ordered
  <2>3. CASE j \notin 1..Len(ts) /\ k \notin 1..Len(ts)
    <3>1. j - Len(ts) + 1 < k - Len(ts) + 1
      BY <1>2
    <3> QED
      BY <1>7, <2>3, <3>1 DEF Ordered
  <2> QED
    BY <2>1, <2>2, <2>3
<1>9. ASSUME NEW m, \A k \in DOMAIN agenda : k > 1 => Precedes(m, agenda[k]),
             \A k \in 1..Len(ts) : Precedes(m, ts[k])
      PROVE  Behind(m)'
  <2> SUFFICES ASSUME NEW k \in DOMAIN agenda' PROVE Precedes(m, agenda'[k])
    BY DEF Behind, Precedes
  <2> QED
    BY <1>2, <1>7, <1>9
<1>10. n \in Nat
  BY DEF IsProgram, Nodes
<1>11. ASSUME NEW m \in Nat, Behind(m) PROVE Behind(m)'
  <2>1. Precedes(m, agenda[1])
    BY <1>2, <1>11 DEF Behind
  <2>2. ASSUME NEW k \in 1..Len(ts) PROVE Precedes(m, ts[k])
    <3>1. what = "visit" /\ Precedes(n, ts[k]) /\ ts[k][2] \in Nat
      BY <1>6
    <3>2. m < n
      BY <1>1, <1>2, <2>1, <3>1 DEF Precedes
    <3> QED
      BY <1>10, <1>11, <3>1, <3>2 DEF Precedes
  <2> QED
    BY <1>9, <1>11, <2>2 DEF Behind
<1>12. what # "leave" => Behind(n)'
  <2> SUFFICES ASSUME what # "leave" PROVE Behind(n)'
    OBVIOUS
  <2>1. n \in Spans(agenda[1])
    <3>1. n \in Path(prog, n)
      BY PathsGoUp DEF Nodes
    <3> QED
      BY <1>1, <1>2, <3>1 DEF Spans
  <2>2. \A k \in DOMAIN agenda : k > 1 => Precedes(n, agenda[k])
    BY <1>2, <2>1 DEF Ordered
  <2> QED
    BY <1>6, <1>9, <2>2
<1> QED
  BY <1>8, <1>11, <1>12

NoShadows(c) ==
    \A s, t \in 1..Len(c.scopes), x \in Names :
        (/\ s \in Chain(c, t) \ {t}
         /\ c.scopes[s].symbols[x] # NULL
         /\ c.scopes[t].symbols[x] # NULL
         /\ c.scopes[t].symbols[x].kind = "var")
        => c.scopes[t].symbols[x].decl < c.scopes[s].symbols[x].decl

(* A new declaration hides nothing: what lies inside its scope is older,   *)
(* and a variable's name is not visible yet.                               *)
LEMMA DeclareHidesNothing ==
    ASSUME NEW c, Scoped(c), Current(c), NoShadows(c), NEW x \in Names, NEW sym, NEW n,
           sym.decl = n, sym.kind = "var" => Lookup(c, x) = NULL,
           \A t \in 1..Len(c.scopes) : \A y \in Names :
               c.scopes[t].symbols[y] # NULL /\ c.scopes[t].symbols[y].kind = "var" =>
                   c.scopes[t].symbols[y].decl < n
    PROVE  NoShadows(Declare(c, x, sym))
<1> PICK d : d = Declare(c, x, sym)
  OBVIOUS
<1>1. /\ Len(d.scopes) = Len(c.scopes) /\ d.current = c.current
      /\ \A t \in 1..Len(c.scopes) :
             /\ d.scopes[t].parent = c.scopes[t].parent
             /\ \A y \in Names : d.scopes[t].symbols[y] =
                                     IF t = c.current /\ y = x /\ CanDeclare(c, x)
                                     THEN sym ELSE c.scopes[t].symbols[y]
  BY DeclareTree
<1>2. Len(c.scopes) \in Nat /\ \A t \in 1..Len(c.scopes) : c.scopes[t].parent \in 0..(t - 1)
  BY ScopeIs DEF Scoped
<1>3. \A t \in 1..Len(c.scopes) : Chain(d, t) = Chain(c, t)
  <2>1. Len(d.scopes) \in Nat /\ Len(c.scopes) <= Len(d.scopes)
    BY <1>1, <1>2
  <2>2. \A t \in 1..Len(d.scopes) : d.scopes[t].parent \in 0..(t - 1)
    BY <1>1, <1>2
  <2>3. \A t \in 1..Len(c.scopes) : d.scopes[t].parent = c.scopes[t].parent
    BY <1>1
  <2>4. \A t \in 0..Len(c.scopes) : Chain(d, t) = Chain(c, t)
    BY <1>2, <2>1, <2>2, <2>3, SameChain
  <2> QED
    BY <1>2, <2>4
<1> SUFFICES ASSUME NEW s \in 1..Len(c.scopes), NEW t \in 1..Len(c.scopes), NEW y \in Names,
                    s \in Chain(c, t), s # t,
                    d.scopes[s].symbols[y] # NULL, d.scopes[t].symbols[y] # NULL,
                    d.scopes[t].symbols[y].kind = "var"
             PROVE  d.scopes[t].symbols[y].decl < d.scopes[s].symbols[y].decl
  BY <1>1, <1>3 DEF NoShadows
<1>4. CASE ~(y = x /\ CanDeclare(c, x))
  <2>1. /\ d.scopes[s].symbols[y] = c.scopes[s].symbols[y]
        /\ d.scopes[t].symbols[y] = c.scopes[t].symbols[y]
    BY <1>1, <1>4
  <2> QED
    BY <2>1 DEF NoShadows
<1>5. CASE y = x /\ CanDeclare(c, x) /\ t # c.current /\ s # c.current
  <2>1. /\ d.scopes[s].symbols[y] = c.scopes[s].symbols[y]
        /\ d.scopes[t].symbols[y] = c.scopes[t].symbols[y]
    BY <1>1, <1>5
  <2> QED
    BY <2>1 DEF NoShadows
<1>6. CASE y = x /\ CanDeclare(c, x) /\ s = c.current
  <2>1. /\ d.scopes[s].symbols[y] = sym
        /\ d.scopes[t].symbols[y] = c.scopes[t].symbols[y]
    BY <1>1, <1>6
  <2> QED
    BY <2>1
<1>7. CASE y = x /\ CanDeclare(c, x) /\ t = c.current
  <2>1. /\ d.scopes[t].symbols[y] = sym
        /\ d.scopes[s].symbols[y] = c.scopes[s].symbols[y]
    BY <1>1, <1>7
  <2>2. LookupFrom(c, t, x) = NULL
    BY <1>7, <2>1 DEF Lookup
  <2>3. t \in 0..Len(c.scopes)
    BY <1>2
  <2>4. c.scopes[s].symbols[x] = NULL
    BY <1>2, <2>2, <2>3, LookupFinds
  <2> QED
    BY <1>7, <2>1, <2>4
<1> QED
  BY <1>4, <1>5, <1>6, <1>7

LEMMA PushHidesNothing ==
    ASSUME NEW c, Scoped(c), c.current \in 0..Len(c.scopes), NoShadows(c), NEW n
    PROVE  NoShadows(PushScope(c, n))
<1> DEFINE N == Len(c.scopes)
<1> PICK d : d = PushScope(c, n)
  OBVIOUS
<1>1. /\ N \in Nat /\ Len(d.scopes) = N + 1
      /\ \A t \in 1..N : d.scopes[t] = c.scopes[t]
      /\ d.scopes[N + 1].parent = c.current
      /\ \A y \in Names : d.scopes[N + 1].symbols[y] = NULL
  BY PushTree
<1>2. \A t \in 1..N : c.scopes[t].parent \in 0..(t - 1)
  BY ScopeIs
<1>3. \A t \in 1..(N + 1) : t = N + 1 \/ t \in 1..N
  BY <1>1
<1>4. \A t \in 1..(N + 1) : d.scopes[t].parent \in 0..(t - 1)
  <2> SUFFICES ASSUME NEW t \in 1..(N + 1) PROVE d.scopes[t].parent \in 0..(t - 1)
    OBVIOUS
  <2>1. CASE t = N + 1
    BY <1>1, <2>1
  <2>2. CASE t \in 1..N
    BY <1>1, <1>2, <2>2
  <2> QED
    BY <1>3, <2>1, <2>2
<1>5. \A t \in 1..N : Chain(d, t) = Chain(c, t)
  <2>1. Len(c.scopes) \in Nat /\ Len(d.scopes) \in Nat /\ Len(c.scopes) <= Len(d.scopes)
    BY <1>1
  <2>2. \A t \in 1..Len(d.scopes) : d.scopes[t].parent \in 0..(t - 1)
    BY <1>1, <1>4
  <2>3. \A t \in 1..Len(c.scopes) : d.scopes[t].parent = c.scopes[t].parent
    BY <1>1
  <2>4. \A t \in 1..Len(c.scopes) : c.scopes[t].parent \in 0..(t - 1)
    BY <1>2
  <2>5. \A t \in 0..Len(c.scopes) : Chain(d, t) = Chain(c, t)
    BY <2>1, <2>2, <2>3, <2>4, SameChain
  <2> QED
    BY <1>1, <2>5
<1>6. \A t \in 1..N : Chain(c, t) \subseteq 1..t
  BY <1>1, <1>2, ChainIs
<1> SUFFICES ASSUME NEW s \in 1..(N + 1), NEW t \in 1..(N + 1), NEW y \in Names,
                    s \in Chain(d, t), s # t,
                    d.scopes[s].symbols[y] # NULL, d.scopes[t].symbols[y] # NULL,
                    d.scopes[t].symbols[y].kind = "var"
             PROVE  d.scopes[t].symbols[y].decl < d.scopes[s].symbols[y].decl
  BY <1>1 DEF NoShadows
<1>7. s \in 1..N /\ t \in 1..N
  BY <1>1, <1>3
<1> QED
  BY <1>1, <1>5, <1>7 DEF NoShadows

(* Any change but a declaration or a new scope.                            *)
LEMMA SameShadows ==
    ASSUME NEW c, NEW d, c.scopes = d.scopes
    PROVE  NoShadows(c) <=> NoShadows(d)
<1>1. \A s : Chain(c, s) = Chain(d, s)
  BY DEF Chain
<1> QED
  BY <1>1 DEF NoShadows

(* Scopes are pushed in the order of their nodes.                          *)
OwnersGrow(c) ==
    \A s, t \in 1..Len(c.scopes) : s < t => c.scopes[s].owner < c.scopes[t].owner

DeclarersKnown(c) ==
    \A s \in 1..Len(c.scopes), x \in Names :
        LET symbol == c.scopes[s].symbols[x]
        IN  symbol # NULL =>
                /\ symbol.decl \in Nodes
                /\ symbol.kind = "var" => Kind(symbol.decl) = "VarDecl"

AllBehind(c) ==
    \A s \in 1..Len(c.scopes) :
        /\ Behind(c.scopes[s].owner)
        /\ \A x \in Names : c.scopes[s].symbols[x] # NULL => Behind(c.scopes[s].symbols[x].decl)

OrderInv ==
    /\ OwnersGrow(ctx)
    /\ DeclarersKnown(ctx)
    /\ NoShadows(ctx)
    /\ pass = "collect" => Ordered /\ AllBehind(ctx)

LEMMA CollectAdds ==
    ASSUME SettledInv, NEW n \in Pending, Collects(n), Stays(n)
    PROVE  \/ ctx' = ctx
           \/ \E sym : \E x \in Names :
                 /\ ctx' = Declare(ctx, x, sym) /\ sym.decl = n
                 /\ sym.kind = "var" => Kind(n) = "VarDecl" /\ Lookup(ctx, x) = NULL
<1>1. pass = "collect" /\ n \in Nodes /\ Planned
  BY CollectGoes DEF SettledInv
<1>2. IsProgram(prog)
  BY <1>1 DEF Planned
<1>3. /\ Name(n) \in Names
      /\ \A i \in DOMAIN prog[n].params : prog[n].params[i].name \in Names
  BY <1>1, <1>2, NamesOfNodes DEF IsProgram
<1>4. CASE CollectScope(n) \/ CollectMethodDecl(n)
  <2>1. Head(agenda)[1] = "visit" /\ Kind(n) \in Scoping
    BY <1>4, HeadIs DEF CollectScope, CollectMethodDecl, Scoping
  <2> QED
    BY <2>1 DEF Stays
<1>5. CASE LeaveScope(n)
  <2>1. Head(agenda)[1] = "leave"
    BY <1>5, HeadIs DEF LeaveScope
  <2> QED
    BY <2>1 DEF Stays
<1>6. CASE \E i \in DOMAIN prog[n].params : CollectParam(n, i)
  <2>1. PICK i \in DOMAIN prog[n].params : CollectParam(n, i)
    BY <1>6
  <2>2. PICK sym : sym = [kind |-> "param", type |-> prog[n].params[i].type,
                          params |-> <<>>, decl |-> n]
    OBVIOUS
  <2>3. ctx' = Declare(ctx, prog[n].params[i].name, sym)
    BY <2>1, <2>2 DEF CollectParam
  <2>4. sym.decl = n /\ sym.kind # "var"
    BY <2>2
  <2> QED
    BY <1>3, <2>3, <2>4
<1>7. CASE DeclareMethod(n)
  <2>1. PICK sym : sym = [kind |-> "func", type |-> prog[n].type,
                          params |-> ParamTypes(n), decl |-> n]
    OBVIOUS
  <2>2. ctx' = ctx \/ ctx' = Declare(ctx, Name(n), sym)
    BY <1>7, <2>1 DEF DeclareMethod
  <2>3. sym.decl = n /\ sym.kind # "var"
    BY <2>1
  <2> QED
    BY <1>3, <2>2, <2>3
<1>8. CASE CollectVarDecl(n)
  <2>1. PICK sym : sym = [kind |-> "var", type |-> prog[n].type,
                          params |-> <<>>, decl |-> n]
    OBVIOUS
  <2>2. ctx' = ctx \/ (ctx' = Declare(ctx, Name(n), sym) /\ Lookup(ctx, Name(n)) = NULL)
    BY <1>8, <2>1 DEF CollectVarDecl
  <2>3. sym.decl = n /\ Kind(n) = "VarDecl"
    BY <1>8, <2>1 DEF CollectVarDecl
  <2> QED
    BY <1>3, <2>2, <2>3
<1>9. CASE CollectOther(n)
  BY <1>9 DEF CollectOther
<1> QED
  BY <1>4, <1>5, <1>6, <1>7, <1>8, <1>9 DEF Collects

LEMMA CollectOrders ==
    ASSUME SettledInv, OrderInv, Collect
    PROVE  OrderInv'
<1>1. PICK n \in Pending : Collects(n)
  BY DEF Collect, Collects
<1>2. pass = "collect" /\ n \in Nodes /\ Planned /\ MethodsInv
  BY <1>1, CollectGoes DEF SettledInv
<1>3. PICK what, ts, a, ks, z : /\ Goes(n, what, ts, a, ks, z, "leave")
                                /\ n = 1 => what = "visit" \/ ts = <<>>
                                /\ Covers(n, what, a, ks, z)
  BY <1>1, <1>2, CollectGoes
<1>4. /\ IsProgram(prog) /\ Scoped(ctx) /\ IsSeq(agenda) /\ agenda # <<>> /\ prog' = prog
      /\ Head(agenda) = agenda[1] /\ agenda[1][1] = what /\ agenda[1][2] = n
      /\ 1 \in DOMAIN agenda /\ pass' = "collect" /\ n \in Nat
  <2>1. IsSeq(agenda) /\ IsProgram(prog) /\ Scoped(ctx)
    BY <1>2 DEF Planned, MethodsInv
  <2>2. agenda # <<>> /\ Head(agenda) = agenda[1] /\ 1 \in DOMAIN agenda
    BY <1>3, <2>1 DEF Goes, IsSeq
  <2>3. n \in Nat
    BY <1>2, <2>1 DEF IsProgram, Nodes
  <2> QED
    BY <1>2, <1>3, <2>1, <2>2, <2>3 DEF Goes
<1>5. /\ OwnersGrow(ctx) /\ DeclarersKnown(ctx) /\ NoShadows(ctx) /\ Ordered /\ AllBehind(ctx)
  BY <1>2 DEF OrderInv
<1>6. /\ Ordered' /\ (\A m \in Nat : Behind(m) => Behind(m)')
      /\ what # "leave" => Behind(n)'
  BY <1>2, <1>3, <1>4, <1>5, OrderedGoes
<1>7. /\ Nodes' = Nodes /\ \A m : Kind(m)' = Kind(m)
      /\ Nodes \subseteq Nat
  BY <1>4 DEF Nodes, Kind, IsProgram
<1>8. PICK c, d : c = ctx /\ d = ctx'
  OBVIOUS
<1>9. /\ Len(c.scopes) \in Nat
      /\ \A t \in 1..Len(c.scopes) :
             c.scopes[t].owner \in Nat /\ c.scopes[t].parent \in 0..(t - 1)
  BY <1>4, <1>8, ScopeIs DEF Scoped
<1>10. /\ \A t \in 1..Len(c.scopes) : Behind(c.scopes[t].owner)'
       /\ \A t \in 1..Len(c.scopes), x \in Names :
              c.scopes[t].symbols[x] # NULL => /\ c.scopes[t].symbols[x].decl \in Nodes
                                               /\ Behind(c.scopes[t].symbols[x].decl)'
  <2>1. ASSUME NEW t \in 1..Len(c.scopes) PROVE Behind(c.scopes[t].owner)'
    <3>1. PICK m : m = c.scopes[t].owner
      OBVIOUS
    <3>2. m \in Nat /\ Behind(m)
      BY <1>5, <1>8, <1>9, <2>1, <3>1 DEF AllBehind
    <3> QED
      BY <1>6, <3>1, <3>2
  <2>2. ASSUME NEW t \in 1..Len(c.scopes), NEW x \in Names, c.scopes[t].symbols[x] # NULL
        PROVE  c.scopes[t].symbols[x].decl \in Nodes /\ Behind(c.scopes[t].symbols[x].decl)'
    <3>1. PICK m : m = c.scopes[t].symbols[x].decl
      OBVIOUS
    <3>2. m \in Nodes /\ Behind(m)
      BY <1>5, <1>8, <2>2, <3>1 DEF AllBehind, DeclarersKnown
    <3> QED
      BY <1>6, <1>7, <3>1, <3>2
  <2> QED
    BY <2>1, <2>2
<1> DEFINE Goal == /\ OwnersGrow(d) /\ NoShadows(d) /\ DeclarersKnown(d)
                   /\ \A s \in 1..Len(d.scopes) :
                          /\ Behind(d.scopes[s].owner)'
                          /\ \A x \in Names : d.scopes[s].symbols[x] # NULL =>
                                                  Behind(d.scopes[s].symbols[x].decl)'
<1>11. ASSUME d.scopes = c.scopes PROVE Goal
  <2>1. OwnersGrow(d) /\ DeclarersKnown(d)
    BY <1>5, <1>8, <1>11 DEF OwnersGrow, DeclarersKnown
  <2>2. NoShadows(d)
    BY <1>5, <1>8, <1>11, SameShadows
  <2> QED
    BY <1>10, <1>11, <2>1, <2>2 DEF Goal
<1>12. ASSUME Enters(n) PROVE Goal
  <2> DEFINE N == Len(c.scopes)
  <2>1. what = "visit" /\ d = PushScope(c, n)
    BY <1>4, <1>8, <1>12 DEF Enters
  <2>2. /\ N \in Nat /\ Len(d.scopes) = N + 1
        /\ \A t \in 1..N : d.scopes[t] = c.scopes[t]
        /\ d.scopes[N + 1].owner = n
        /\ \A y \in Names : d.scopes[N + 1].symbols[y] = NULL
    BY <1>4, <1>8, <2>1, PushTree
  <2>3. \A t \in 1..N : c.scopes[t].owner < n
    <3>1. \A t \in 1..N : Precedes(c.scopes[t].owner, agenda[1])
      BY <1>4, <1>5, <1>8 DEF AllBehind, Behind
    <3> QED
      BY <1>4, <2>1, <3>1 DEF Precedes
  <2>4. c.current \in 0..Len(c.scopes)
    BY <1>2, <1>8 DEF MethodsInv
  <2>5. NoShadows(d)
    BY <1>4, <1>5, <1>8, <2>1, <2>4, PushHidesNothing
  <2>6. /\ Behind(n)'
        /\ \A t \in 1..N : Behind(c.scopes[t].owner)'
        /\ \A t \in 1..N, x \in Names :
              c.scopes[t].symbols[x] # NULL => Behind(c.scopes[t].symbols[x].decl)'
    BY <1>6, <1>10, <2>1
  <2>7. /\ \A s, t \in 1..N : s < t => c.scopes[s].owner < c.scopes[t].owner
        /\ \A s \in 1..N, x \in Names :
              c.scopes[s].symbols[x] # NULL =>
                  /\ c.scopes[s].symbols[x].decl \in Nodes
                  /\ c.scopes[s].symbols[x].kind = "var" =>
                         Kind(c.scopes[s].symbols[x].decl) = "VarDecl"
    BY <1>5, <1>8 DEF OwnersGrow, DeclarersKnown
  <2> HIDE DEF N
  <2>8. \A t \in 1..(N + 1) : t \in 1..N \/ t = N + 1
    BY <2>2
  <2>9. OwnersGrow(d)
    <3> SUFFICES ASSUME NEW s \in 1..(N + 1), NEW t \in 1..(N + 1), s < t
                 PROVE  d.scopes[s].owner < d.scopes[t].owner
      BY <2>2 DEF OwnersGrow
    <3>1. s \in 1..N
      BY <2>2
    <3> QED
      BY <2>2, <2>3, <2>7, <2>8, <3>1
  <2>10. DeclarersKnown(d)
    BY <2>2, <2>7, <2>8 DEF DeclarersKnown
  <2>11. ASSUME NEW s \in 1..(N + 1)
         PROVE  /\ Behind(d.scopes[s].owner)'
                /\ \A x \in Names : d.scopes[s].symbols[x] # NULL =>
                                        Behind(d.scopes[s].symbols[x].decl)'
    <3>1. CASE s \in 1..N
      BY <2>2, <2>6, <3>1
    <3>2. CASE s = N + 1
      BY <2>2, <2>6, <3>2
    <3> QED
      BY <2>8, <3>1, <3>2
  <2> QED
    BY <2>2, <2>5, <2>9, <2>10, <2>11 DEF Goal
<1>13. ASSUME NEW x \in Names, NEW sym, d = Declare(c, x, sym), sym.decl = n,
              sym.kind = "var" => Kind(n) = "VarDecl" /\ Lookup(c, x) = NULL, Stays(n)
       PROVE  Goal
  <2>1. what # "leave" /\ Current(c)
    BY <1>4, <1>8, <1>13 DEF Stays
  <2>2. /\ Len(d.scopes) = Len(c.scopes)
        /\ \A t \in 1..Len(c.scopes) :
               /\ d.scopes[t].owner = c.scopes[t].owner
               /\ \A y \in Names : \/ d.scopes[t].symbols[y] = c.scopes[t].symbols[y]
                                   \/ d.scopes[t].symbols[y] = sym
    BY <1>4, <1>8, <1>13, <2>1, DeclareTree
  <2>3. ASSUME NEW t \in 1..Len(c.scopes), NEW y \in Names, c.scopes[t].symbols[y] # NULL,
               c.scopes[t].symbols[y].kind = "var"
        PROVE  c.scopes[t].symbols[y].decl < n
    <3>1. PICK m : m = c.scopes[t].symbols[y].decl
      OBVIOUS
    <3>2. m \in Nodes /\ Kind(m) = "VarDecl" /\ Behind(m)
      BY <1>5, <1>8, <2>3, <3>1 DEF DeclarersKnown, AllBehind
    <3>3. Precedes(m, agenda[1]) /\ m \in Nat
      BY <1>4, <1>7, <3>2 DEF Behind
    <3>4. CASE what = "visit"
      BY <1>4, <3>1, <3>3, <3>4 DEF Precedes
    <3>5. CASE what # "visit"
      <4>1. ~AtRoot
        BY <1>4, <3>5 DEF AtRoot, Task
      <4>2. Kind(n) = "Method"
        BY <1>2, <1>4, <2>1, <3>5, <4>1 DEF Planned, Fits, Kind
      <4>3. m <= n /\ m # n
        BY <1>4, <2>1, <3>2, <3>3, <3>5, <4>2 DEF Precedes
      <4> QED
        BY <1>4, <3>1, <3>3, <4>3
    <3> QED
      BY <3>4, <3>5
  <2>4. NoShadows(d)
    BY <1>4, <1>5, <1>8, <1>13, <2>1, <2>3, DeclareHidesNothing
  <2>5. OwnersGrow(d)
    BY <1>5, <1>8, <2>2 DEF OwnersGrow
  <2>6. DeclarersKnown(d)
    <3> SUFFICES ASSUME NEW s \in 1..Len(c.scopes), NEW y \in Names, d.scopes[s].symbols[y] # NULL
                 PROVE  /\ d.scopes[s].symbols[y].decl \in Nodes
                        /\ d.scopes[s].symbols[y].kind = "var" =>
                               Kind(d.scopes[s].symbols[y].decl) = "VarDecl"
      BY <2>2 DEF DeclarersKnown
    <3>1. CASE d.scopes[s].symbols[y] = c.scopes[s].symbols[y]
      BY <1>5, <1>8, <3>1 DEF DeclarersKnown
    <3>2. CASE d.scopes[s].symbols[y] = sym
      BY <1>2, <1>13, <3>2
    <3> QED
      BY <2>2, <3>1, <3>2
  <2>7. ASSUME NEW s \in 1..Len(c.scopes)
        PROVE  /\ Behind(d.scopes[s].owner)'
               /\ \A y \in Names : d.scopes[s].symbols[y] # NULL =>
                                       Behind(d.scopes[s].symbols[y].decl)'
    <3>1. Behind(d.scopes[s].owner)'
      BY <1>10, <2>2
    <3>2. ASSUME NEW y \in Names, d.scopes[s].symbols[y] # NULL
          PROVE  Behind(d.scopes[s].symbols[y].decl)'
      <4>1. CASE d.scopes[s].symbols[y] = c.scopes[s].symbols[y]
        BY <1>10, <3>2, <4>1
      <4>2. CASE d.scopes[s].symbols[y] = sym
        BY <1>6, <1>13, <2>1, <4>2
      <4> QED
        BY <2>2, <4>1, <4>2
    <3> QED
      BY <3>1, <3>2
  <2> QED
    BY <2>2, <2>4, <2>5, <2>6, <2>7 DEF Goal
<1>14. Goal
  <2> HIDE DEF Goal
  <2>1. CASE Leaves(n)
    BY <1>8, <1>11, <2>1 DEF Leaves
  <2>2. CASE Stays(n)
    <3>1. \/ ctx' = ctx
          \/ \E sym : \E x \in Names :
                 /\ ctx' = Declare(ctx, x, sym) /\ sym.decl = n
                 /\ sym.kind = "var" => Kind(n) = "VarDecl" /\ Lookup(ctx, x) = NULL
      BY <1>1, <2>2, CollectAdds
    <3> QED
      BY <1>8, <1>11, <1>13, <2>2, <3>1
  <2> QED
    BY <1>1, <1>12, <2>1, <2>2, CollectMoves
<1>15. DeclarersKnown(ctx)'
  BY <1>7, <1>8, <1>14 DEF DeclarersKnown, Goal
<1>16. AllBehind(ctx)'
  BY <1>8, <1>14 DEF AllBehind, Goal
<1> QED
  BY <1>6, <1>8, <1>14, <1>15, <1>16 DEF OrderInv, Goal

LEMMA KeepsOrder ==
    ASSUME OrderInv, ctx'.scopes = ctx.scopes, prog' = prog, pass' # "collect"
    PROVE  OrderInv'
<1>1. OwnersGrow(ctx)' /\ DeclarersKnown(ctx)'
  BY DEF OrderInv, OwnersGrow, DeclarersKnown, Nodes, Kind
<1>2. NoShadows(ctx')
  BY SameShadows DEF OrderInv
<1> QED
  BY <1>1, <1>2 DEF OrderInv

LEMMA NothingOrdered ==
    ASSUME NEW c, c.scopes = <<>>
    PROVE  OwnersGrow(c) /\ DeclarersKnown(c) /\ NoShadows(c) /\ AllBehind(c)
<1>1. Len(c.scopes) = 0 /\ \A s \in 1..0 : FALSE
  OBVIOUS
<1> QED
  BY <1>1 DEF OwnersGrow, DeclarersKnown, NoShadows, AllBehind

LEMMA OrderHolds == Spec => []OrderInv
<1>1. InitPasses => OrderInv
  <2> SUFFICES ASSUME InitPasses PROVE OrderInv
    OBVIOUS
  <2>1. ctx.scopes = <<>> /\ pass # "collect"
    BY DEF InitPasses, NoContext
  <2> QED
    BY <2>1, NothingOrdered DEF OrderInv
<1>2. SettledInv /\ OrderInv /\ [Next]_semaVars => OrderInv'
  <2> SUFFICES ASSUME SettledInv, OrderInv, [Next]_semaVars PROVE OrderInv'
    OBVIOUS
  <2>1. CASE UNCHANGED semaVars
    <3>1. /\ prog' = prog /\ ctx' = ctx /\ pass' = pass /\ agenda' = agenda
      BY <2>1 DEF semaVars
    <3>2. OwnersGrow(ctx)' /\ DeclarersKnown(ctx)' /\ NoShadows(ctx)'
      BY <3>1 DEF OrderInv, OwnersGrow, DeclarersKnown, Nodes, Kind
    <3>3. pass = "collect" => Ordered' /\ AllBehind(ctx)'
      BY <3>1 DEF OrderInv, Ordered, AllBehind, Behind, Spans, Precedes, Nodes
    <3> QED
      BY <3>1, <3>2, <3>3 DEF OrderInv
  <2>2. CASE ParserReturns
    <3>1. PICK tree \in Programs : Analyze(tree)
      BY <2>2 DEF ParserReturns
    <3>2. ctx' = ctx /\ AtRoot' /\ pass = "parse"
      BY <2>2, <3>1 DEF Analyze, AtRoot, ParserReturns
    <3>3. ctx'.scopes = <<>> /\ Len(ctx'.scopes) = 0 /\ \A s \in 1..0 : FALSE
      BY <3>2 DEF SettledInv, MethodsInv, Rooted
    <3>4. DOMAIN agenda' = {1}
      BY <3>2, OneTask DEF AtRoot
    <3>5. Ordered'
      BY <3>4 DEF Ordered
    <3>6. OwnersGrow(ctx)' /\ DeclarersKnown(ctx)' /\ NoShadows(ctx)' /\ AllBehind(ctx)'
      BY <3>3 DEF OwnersGrow, DeclarersKnown, NoShadows, AllBehind
    <3> QED
      BY <3>5, <3>6 DEF OrderInv
  <2>3. CASE Collect
    BY <2>3, CollectOrders
  <2>4. CASE Resolve
    <3>1. Still /\ pass' \in {"resolve", "crashed"}
      BY <2>4, ResolveStill, ResolveReports DEF SettledInv, MethodsInv
    <3> QED
      BY <3>1, KeepsOrder DEF Still
  <2>5. CASE Check
    <3>1. Still /\ pass' \in {"check", "crashed"}
      BY <2>5, CheckStill, CheckReports DEF SettledInv, MethodsInv
    <3> QED
      BY <3>1, KeepsOrder DEF Still
  <2>6. CASE AfterCollector \/ AfterResolver \/ AfterChecker
    <3>1. prog' = prog /\ ctx' = ctx /\ pass' # "collect"
      BY <2>6 DEF AfterCollector, AfterResolver, AfterChecker, PassOver, Finish, Begin
    <3> QED
      BY <3>1, KeepsOrder
  <2> QED
    BY <2>1, <2>2, <2>3, <2>4, <2>5, <2>6 DEF Next, Analysis
<1> QED
  BY <1>1, <1>2, SettledHolds, PTL DEF Spec

(* collectVarDecl lets no variable hide a declaration that is visible, in  *)
(* no program whatever: where an inner scope has a variable and one around *)
(* it the same name, the variable was declared before the other was.       *)
THEOREM VariablesHideNothing == Spec => []NoVariableShadows
<1>1. OrderInv => NoVariableShadows
  BY DEF OrderInv, NoShadows, NoVariableShadows, DeclOf
<1> QED
  BY <1>1, OrderHolds, PTL

(* The nodes up to the end of a node's subtree.                            *)
LEMMA PassedIs ==
    ASSUME IsProgram(prog), NEW n \in Nodes
    PROVE  /\ \A i \in DOMAIN Kids(n) :
                  Passed(Kid(n, i)) = IF i + 1 \in DOMAIN Kids(n) THEN 1..(Kid(n, i + 1) - 1)
                                      ELSE Passed(n)
           /\ 1 \in DOMAIN Kids(n) => Kid(n, 1) = n + 1
           /\ 1 \notin DOMAIN Kids(n) => Passed(n) = 1..n
           /\ Passed(n) \subseteq Nodes
<1>1. Nodes = 1..Len(prog) /\ Len(prog) \in Nat /\ n \in Nat /\ Nodes = DOMAIN prog
  BY DEF IsProgram, Nodes
<1>2. /\ \A m \in Nodes : m \in Path(prog, m) /\ Path(prog, m) \subseteq 1..m
      /\ \A m \in Nodes : \A x \in Path(prog, m) : Path(prog, x) \subseteq Path(prog, m)
  BY PathsGoUp DEF Nodes
<1>3. DOMAIN Kids(n) = 1..Len(Kids(n)) /\ Len(Kids(n)) \in Nat
  BY KidsArePending
<1>4. ASSUME NEW i \in DOMAIN Kids(n)
      PROVE  Kid(n, i) \in Nodes /\ n < Kid(n, i) /\ n \in Path(prog, Kid(n, i))
  <2>1. Kid(n, i) \in Nodes /\ n < Kid(n, i)
    BY <1>1, <1>4, KidsArePending DEF Kid, Kids
  <2>2. Path(prog, Kid(n, i)) = {Kid(n, i)} \union Path(prog, n)
    BY <1>1, <1>4, PathOfKid DEF Kid, Kids
  <2> QED
    BY <1>2, <2>1, <2>2
<1>5. ASSUME NEW i \in DOMAIN Kids(n), NEW k \in Nodes, n <= k, k < Kid(n, i)
      PROVE  n \in Path(prog, k)
  <2>1. /\ n \in DOMAIN prog /\ Kid(n, i) \in DOMAIN prog /\ n \in Path(prog, Kid(n, i))
        /\ Kid(n, i) \in Nat /\ k \in Nat
    BY <1>1, <1>4, <1>5
  <2>2. \A x \in n..Kid(n, i) : n \in Path(prog, x)
    BY <2>1, Convex
  <2>3. k \in n..Kid(n, i)
    BY <1>1, <1>5, <2>1
  <2> QED
    BY <2>2, <2>3
<1>6. ASSUME NEW i \in DOMAIN Kids(n), i + 1 \in DOMAIN Kids(n)
      PROVE  Passed(Kid(n, i)) = 1..(Kid(n, i + 1) - 1)
  <2>1. ASSUME NEW k \in Passed(Kid(n, i)) PROVE k \in 1..(Kid(n, i + 1) - 1)
    <3>1. Kid(n, i) < Kid(n, i + 1) /\ k \in Nodes
      BY <1>1, <1>3, <1>6, KidsInOrder DEF Kid, Kids, Passed
    <3>2. CASE k < Kid(n, i)
      BY <1>1, <1>4, <1>6, <3>1, <3>2
    <3>3. CASE Kid(n, i) \in Path(prog, k)
      <4>1. i < i + 1
        BY <1>3
      <4>2. k < Kid(n, i + 1)
        BY <1>1, <1>6, <3>1, <3>3, <4>1, KidsApart DEF Kid, Kids
      <4> QED
        BY <1>1, <1>4, <1>6, <3>1, <4>2
    <3> QED
      BY <3>2, <3>3 DEF Passed
  <2>2. ASSUME NEW k \in 1..(Kid(n, i + 1) - 1) PROVE k \in Passed(Kid(n, i))
    <3>1. k \in Nodes /\ k < Kid(n, i + 1)
      BY <1>1, <1>4, <1>6
    <3>2. CASE Kid(n, i) <= k
      <4>1. n \in Path(prog, k)
        BY <1>1, <1>4, <1>5, <1>6, <3>1, <3>2
      <4>2. Kid(n, i) \in Path(prog, k)
        BY <1>1, <1>6, <3>1, <3>2, <4>1, BelowKid DEF Kid, Kids
      <4> QED
        BY <3>1, <4>2 DEF Passed
    <3>3. CASE ~(Kid(n, i) <= k)
      BY <1>1, <1>4, <3>1, <3>3 DEF Passed
    <3> QED
      BY <3>2, <3>3
  <2> QED
    BY <2>1, <2>2
<1>7. ASSUME NEW i \in DOMAIN Kids(n), i + 1 \notin DOMAIN Kids(n)
      PROVE  Passed(Kid(n, i)) = Passed(n)
  <2>1. ASSUME NEW k \in Passed(Kid(n, i)) PROVE k \in Passed(n)
    <3>1. k \in Nodes
      BY <2>1 DEF Passed
    <3>2. CASE Kid(n, i) \in Path(prog, k)
      <4>1. n \in Path(prog, k)
        BY <1>2, <1>4, <1>7, <3>1, <3>2
      <4> QED
        BY <3>1, <4>1 DEF Passed
    <3>3. CASE k < Kid(n, i) /\ n <= k
      BY <1>5, <1>7, <3>1, <3>3 DEF Passed
    <3>4. CASE ~(n <= k)
      BY <1>1, <3>1, <3>4 DEF Passed
    <3> QED
      BY <2>1, <3>2, <3>3, <3>4 DEF Passed
  <2>2. ASSUME NEW k \in Passed(n) PROVE k \in Passed(Kid(n, i))
    <3>1. k \in Nodes /\ (k < n \/ n \in Path(prog, k))
      BY <2>2 DEF Passed
    <3>2. CASE k < Kid(n, i)
      BY <3>1, <3>2 DEF Passed
    <3>3. CASE Kid(n, i) <= k
      <4>1. n \in Path(prog, k)
        BY <1>1, <1>4, <1>7, <3>1, <3>3
      <4>2. Kid(n, i) \in Path(prog, k)
        BY <1>1, <1>7, <3>1, <3>3, <4>1, BelowKid DEF Kid, Kids
      <4> QED
        BY <3>1, <4>2 DEF Passed
    <3> QED
      BY <1>1, <1>4, <1>7, <3>1, <3>2, <3>3
  <2> QED
    BY <2>1, <2>2
<1>8. 1 \in DOMAIN Kids(n) => Kid(n, 1) = n + 1
  BY <1>1, FirstKid DEF Kid, Kids
<1>9. 1 \notin DOMAIN Kids(n) => Passed(n) = 1..n
  <2> SUFFICES ASSUME 1 \notin DOMAIN Kids(n) PROVE Passed(n) = 1..n
    OBVIOUS
  <2>1. DOMAIN Kids(n) = {}
    BY <1>3
  <2>2. ASSUME NEW k \in Nodes, n \in Path(prog, k) PROVE k = n
    <3>1. n # k => \E i \in DOMAIN prog[n].kids : prog[n].kids[i] \in Path(prog, k)
      BY <1>1, <2>2, PathsGoUp
    <3> QED
      BY <2>1, <3>1 DEF Kids
  <2>3. \A k \in Passed(n) : k \in 1..n
    BY <1>1, <2>2 DEF Passed
  <2>4. ASSUME NEW k \in 1..n PROVE k \in Passed(n)
    <3>1. k \in Nodes /\ (k < n \/ k = n)
      BY <1>1
    <3> QED
      BY <1>2, <3>1 DEF Passed
  <2> QED
    BY <2>3, <2>4
<1> QED
  BY <1>6, <1>7, <1>8, <1>9 DEF Passed

-----------------------------------------------------------------------------
(* Where the resolver stands.                                              *)
LEMMA StandsIn ==
    ASSUME IsProgram(prog), NEW n \in Nodes
    PROVE  Standing(n, 1..n) = n
<1>1. n \in Nat
  BY DEF IsProgram, Nodes
<1>2. Peers(n, 1..n) = {}
  BY <1>1 DEF Peers
<1> QED
  BY <1>2 DEF Standing

LEMMA StandsOn ==
    ASSUME IsProgram(prog), NEW n \in Nodes, Kind(n) \notin Scoping, NEW o
    PROVE  Standing(o, 1..n) = Standing(o, 1..(n - 1))
<1>1. n \in Nat /\ n # 0
  BY DEF IsProgram, Nodes
<1>2. \A k : k \in 1..n <=> k = n \/ k \in 1..(n - 1)
  BY <1>1
<1>3. Peers(o, 1..n) = Peers(o, 1..(n - 1))
  BY <1>2 DEF Peers
<1> QED
  BY <1>3 DEF Standing

(* The last with a scope of those next to n is n itself.                   *)
LEMMA StandsAfter ==
    ASSUME IsProgram(prog), NEW n \in Nodes, Kind(n) \in Scoping
    PROVE  Standing(ScopeOver(n), Passed(n)) = IF Kind(n) = "Method" THEN n ELSE ScopeOver(n)
<1>1. n \in Nat /\ n # 0 /\ Nodes = 1..Len(prog) /\ Len(prog) \in Nat
  BY DEF IsProgram, Nodes
<1> DEFINE o == ScopeOver(n)
           S == Peers(o, Passed(n))
<1>2. o \in Nat /\ o < n
  <2>1. n = 1 => o = 0
    BY AroundIs
  <2>2. n # 1 => o \in Around(n)
    BY AroundIs
  <2>3. Around(n) \subseteq 1..n /\ n \notin Around(n)
    BY AroundIs
  <2> HIDE DEF o
  <2> QED
    BY <1>1, <2>1, <2>2, <2>3
<1>3. n \in S
  <2>1. n \in Passed(n)
    BY PathsGoUp DEF Passed, Nodes
  <2> QED
    BY <1>2, <2>1 DEF Peers
<1>4. ASSUME NEW k \in S PROVE k <= n
  <2>1. k \in Nodes /\ ScopeOver(k) = o /\ (k < n \/ n \in Path(prog, k))
    BY <1>4 DEF Peers, Passed
  <2>2. CASE n \in Path(prog, k) /\ k # n
    <3>1. n \in Around(k)
      BY <2>2 DEF Around, ScopeNodes, Scoping
    <3>2. k # 1
      <4>1. Path(prog, k) \subseteq 1..k
        BY <2>1, PathsGoUp DEF Nodes
      <4> QED
        BY <1>1, <2>1, <2>2, <4>1
    <3>3. n <= ScopeOver(k)
      BY <2>1, <3>1, <3>2, AroundIs
    <3> QED
      BY <1>1, <1>2, <2>1, <3>3
  <2> QED
    BY <1>1, <2>1, <2>2
<1>5. S \subseteq 1..n
  <2>1. S \subseteq Nodes
    BY DEF Peers, Passed
  <2> QED
    BY <1>1, <1>4, <2>1
<1> HIDE DEF S, o
<1>6. Deepest(S) = n
  BY <1>1, <1>3, <1>4, <1>5, DeepestIs
<1>7. S # {}
  BY <1>3
<1> QED
  BY <1>6, <1>7 DEF Standing, S, o

(* Within an expression nothing has a scope.                               *)
LEMMA StandsStill ==
    ASSUME IsProgram(prog), NEW n \in Nodes, Kind(n) \notin Scoping,
           \A i \in DOMAIN Kids(n) : Expression(Kid(n, i)), NEW o
    PROVE  /\ Standing(o, Passed(n)) = Standing(o, 1..(n - 1))
           /\ \A m \in Nodes : n \in Path(prog, m) =>
                  /\ Standing(o, Passed(m)) = Standing(o, 1..(n - 1))
                  /\ Standing(o, 1..(m - 1)) = Standing(o, 1..(n - 1))
                  /\ Kind(m) \notin Scoping
<1>1. n \in Nat /\ n # 0 /\ Nodes = 1..Len(prog) /\ Len(prog) \in Nat /\ Nodes = DOMAIN prog
  BY DEF IsProgram, Nodes
<1>2. ASSUME NEW m \in Nodes, n \in Path(prog, m) PROVE Kind(m) \notin Scoping
  <2>1. CASE m # n
    <3>1. PICK i \in DOMAIN Kids(n) : Kid(n, i) \in Path(prog, m)
      BY <1>1, <1>2, <2>1, PathsGoUp DEF Kid, Kids
    <3>2. Kid(n, i) \in Nodes /\ Expression(Kid(n, i))
      BY <1>1, KidsArePending DEF Kid, Kids
    <3>3. Expression(m)
      BY <1>2, <3>1, <3>2, InExpressions
    <3> QED
      BY <3>3 DEF Expression, ExprKinds, Scoping
  <2> QED
    BY <2>1
<1>3. ASSUME NEW S, S \subseteq Nodes, 1..(n - 1) \subseteq S,
             \A k \in S : k < n \/ n \in Path(prog, k)
      PROVE  Standing(o, S) = Standing(o, 1..(n - 1))
  <2>1. Peers(o, S) = Peers(o, 1..(n - 1))
    <3>1. \A k \in S : Kind(k) \in Scoping => k \in 1..(n - 1)
      BY <1>1, <1>2, <1>3
    <3> QED
      BY <1>3, <3>1 DEF Peers
  <2> QED
    BY <2>1 DEF Standing
<1>4. ASSUME NEW m \in Nodes, n \in Path(prog, m)
      PROVE  /\ Standing(o, Passed(m)) = Standing(o, 1..(n - 1))
             /\ Standing(o, 1..(m - 1)) = Standing(o, 1..(n - 1))
  <2>1. n <= m
    BY <1>1, <1>4, PathsGoUp
  <2>2. ASSUME NEW k \in Nodes, k < m PROVE k < n \/ n \in Path(prog, k)
    <3>1. n <= k => n \in Path(prog, k)
      <4>1. \A x \in n..m : n \in Path(prog, x)
        BY <1>1, <1>4, Convex
      <4> QED
        BY <1>1, <2>2, <4>1
    <3> QED
      BY <1>1, <3>1
  <2>3. ASSUME NEW k \in Nodes, m \in Path(prog, k) PROVE n \in Path(prog, k)
    <3>1. Path(prog, m) \subseteq Path(prog, k)
      BY <1>1, <2>3, PathsGoUp
    <3> QED
      BY <1>4, <3>1
  <2>4. Standing(o, Passed(m)) = Standing(o, 1..(n - 1))
    <3>1. Passed(m) \subseteq Nodes /\ \A k \in Passed(m) : k < n \/ n \in Path(prog, k)
      BY <2>2, <2>3 DEF Passed
    <3>2. 1..(n - 1) \subseteq Passed(m)
      BY <1>1, <2>1 DEF Passed
    <3> QED
      BY <1>3, <3>1, <3>2
  <2>5. Standing(o, 1..(m - 1)) = Standing(o, 1..(n - 1))
    <3>1. 1..(m - 1) \subseteq Nodes /\ \A k \in 1..(m - 1) : k < n \/ n \in Path(prog, k)
      BY <1>1, <2>2
    <3>2. 1..(n - 1) \subseteq 1..(m - 1)
      BY <1>1, <2>1
    <3> QED
      BY <1>3, <3>1, <3>2
  <2> QED
    BY <2>4, <2>5
<1>5. n \in Path(prog, n)
  BY <1>1, PathsGoUp
<1> QED
  BY <1>2, <1>4, <1>5

LEMMA UnitIs ==
    ASSUME IsProgram(prog), NEW n \in Nodes
    PROVE  /\ Kind(n) # "Block" => Unit(n) = n
           /\ \A i \in DOMAIN Kids(n) :
                  Unit(Kid(n, i)) = IF Kind(n) = "Method" THEN n ELSE Kid(n, i)
<1>1. Nodes = DOMAIN prog
  BY DEF Nodes
<1>2. ASSUME Kind(n) # "Block", n # 1 PROVE Kind(ParentOf(prog, n)) # "Method"
  <2>1. PICK m : m = ParentOf(prog, n)
    OBVIOUS
  <2>2. m \in Nodes /\ \E i \in DOMAIN Kids(m) : Kid(m, i) = n
    BY <1>1, <1>2, <2>1, ParentStep DEF Kids, Kid
  <2> QED
    BY <1>2, <2>1, <2>2, KindsOfKids
<1>3. ASSUME NEW i \in DOMAIN Kids(n)
      PROVE  Kid(n, i) # 1 /\ ParentOf(prog, Kid(n, i)) = n
  <2>1. Kid(n, i) # 1
    BY KidsArePending
  <2> QED
    BY <1>1, <2>1, KidsInOrder DEF Kids, Kid
<1> QED
  BY <1>2, <1>3 DEF Unit

(* Below a node with expressions only, the scopes around are those of the  *)
(* node itself.                                                            *)
LEMMA ScopesWithin ==
    ASSUME IsProgram(prog), NEW n \in Nodes, Kind(n) \notin Scoping,
           \A i \in DOMAIN Kids(n) : Expression(Kid(n, i)),
           NEW x \in Nodes, n \in Path(prog, x), n < x
    PROVE  ScopeOver(x) = ScopeOver(n) /\ Unit(x) = x
<1>1. Nodes = 1..Len(prog) /\ Len(prog) \in Nat /\ n \in Nat /\ x \in Nat /\ Nodes = DOMAIN prog
  BY DEF IsProgram, Nodes
<1>2. \A m \in Nodes : n \in Path(prog, m) => Kind(m) \notin Scoping
  BY StandsStill
<1>3. /\ Path(prog, x) \subseteq 1..x /\ Path(prog, n) \subseteq 1..n
      /\ Path(prog, n) \subseteq Path(prog, x) /\ x \in Path(prog, x) /\ n \in Path(prog, n)
  BY <1>1, PathsGoUp
<1>4. ASSUME NEW m \in Path(prog, x), Kind(m) \in Scoping PROVE m \in Path(prog, n) /\ m # x
  <2>1. m \in Nodes /\ m \in Nat /\ m <= x
    BY <1>1, <1>3
  <2>2. CASE n <= m
    <3>1. \A y \in n..x : n \in Path(prog, y)
      BY <1>1, Convex
    <3> QED
      BY <1>1, <1>2, <1>4, <2>1, <2>2, <3>1
  <2>3. CASE m < n
    <3>1. \A y \in m..x : m \in Path(prog, y)
      BY <1>1, <2>1, Convex
    <3> QED
      BY <1>1, <2>1, <2>3, <3>1
  <2> QED
    BY <1>1, <2>1, <2>2, <2>3
<1>5. Around(x) = Around(n)
  <2>1. n \notin Around(x) /\ n \notin ScopeNodes(n) /\ x \notin ScopeNodes(x)
    BY <1>2, <1>3 DEF Around, ScopeNodes, Scoping
  <2>2. \A m : m \in ScopeNodes(x) <=> m \in ScopeNodes(n)
    BY <1>3, <1>4 DEF ScopeNodes, Scoping
  <2> QED
    BY <2>1, <2>2 DEF Around
<1>6. Kind(x) # "Block"
  BY <1>2 DEF Scoping
<1> QED
  BY <1>5, <1>6, UnitIs DEF ScopeOver

-----------------------------------------------------------------------------
(* The scope the resolver is in when the handler of n has run.             *)
Arrived(n, t) ==
    IF t[1] = "leave" THEN ScopeOver(n)
    ELSE IF Kind(n) \in {"Program", "Block"} THEN n
    ELSE ScopeBefore("resolve", t)

(* Calls that visit one after the other, with one call in the end or none. *)
LEMMA VisitsLead ==
    ASSUME NEW ts, IsSeq(ts), NEW ks \in Seq(Nat), NEW z \in {0, 1}, NEW p, NEW m, NEW o,
           Len(ts) = Len(ks) + z, Len(ts) # 0,
           \A k \in 1..Len(ks) : ScopeBefore(p, ts[k]) = m \/ k # 1,
           \A k \in 1..Len(ks) : k + 1 \in 1..Len(ks) =>
               ScopeAfter(p, ts[k]) = ScopeBefore(p, ts[k + 1]),
           z = 0 => ScopeAfter(p, ts[Len(ts)]) = o,
           z = 1 /\ Len(ks) # 0 =>
               ScopeAfter(p, ts[Len(ks)]) = ScopeBefore(p, ts[Len(ts)]),
           z = 1 /\ Len(ks) = 0 => ScopeBefore(p, ts[1]) = m,
           z = 1 => ScopeAfter(p, ts[Len(ts)]) = o
    PROVE  Leads(p, ts, m, o)
<1>1. Len(ks) \in Nat /\ Len(ts) \in Nat /\ DOMAIN ts = 1..Len(ts)
  BY DEF IsSeq
<1>2. Linked(p, ts)
  <2> SUFFICES ASSUME NEW k \in DOMAIN ts, k + 1 \in DOMAIN ts
               PROVE  ScopeAfter(p, ts[k]) = ScopeBefore(p, ts[k + 1])
    BY DEF Linked
  <2>1. k \in 1..Len(ks)
    BY <1>1
  <2>2. CASE k + 1 \in 1..Len(ks)
    BY <2>1, <2>2
  <2>3. CASE k + 1 \notin 1..Len(ks)
    <3>1. z = 1 /\ k = Len(ks) /\ k + 1 = Len(ts) /\ Len(ks) # 0
      BY <1>1, <2>1, <2>3
    <3> QED
      BY <3>1
  <2> QED
    BY <2>2, <2>3
<1>3. ScopeBefore(p, ts[1]) = m
  <2>1. CASE Len(ks) = 0
    BY <1>1, <2>1
  <2>2. CASE Len(ks) # 0
    <3>1. 1 \in 1..Len(ks)
      BY <1>1, <2>2
    <3> QED
      BY <3>1
  <2> QED
    BY <2>1, <2>2
<1>4. ScopeAfter(p, ts[Len(ts)]) = o
  OBVIOUS
<1>5. ts # <<>>
  <2>1. Len(<<>>) = 0
    OBVIOUS
  <2> QED
    BY <2>1
<1> QED
  BY <1>2, <1>3, <1>4, <1>5 DEF Leads

(* Where the visits of the children of n are made.                         *)
LEMMA KidsLead ==
    ASSUME IsProgram(prog), NEW n \in Nodes, NEW t, NEW i \in DOMAIN Kids(n),
           t[1] = "visit", t[2] = Kid(n, i), Kind(n) # "Method"
    PROVE  /\ ScopeBefore("resolve", t) = Standing(ScopeIn(n), 1..(Kid(n, i) - 1))
           /\ ScopeAfter("resolve", t) = Standing(ScopeIn(n), Passed(Kid(n, i)))
<1>1. Unit(Kid(n, i)) = Kid(n, i) /\ ScopeOver(Kid(n, i)) = ScopeIn(n)
  BY UnitIs, KidsScope
<1> QED
  BY <1>1 DEF ScopeBefore, ScopeAfter

LEMMA ResolveLeads ==
    ASSUME IsProgram(prog), NEW n \in Nodes, NEW what, NEW ts, NEW a, NEW ks, NEW z,
           Goes(n, what, ts, a, ks, z, "leave"), PassesOn(n, what, ks, z), IsSeq(agenda),
           pass = "resolve", what # "visit" => what = "leave" /\ Kind(n) \in {"Program", "Block"}
    PROVE  Leads("resolve", ts, Arrived(n, agenda[1]), ScopeAfter("resolve", agenda[1]))
<1>1. Head(agenda) = agenda[1] /\ agenda[1][1] = what /\ agenda[1][2] = n
  BY DEF Goes, IsSeq
<1>2. /\ Fans(ts, n, a, ks, z, "leave") /\ IsSeq(ts) /\ a = 0
      /\ what # "visit" => z = 0
      /\ n \in Nat /\ n # 0 /\ Nodes = DOMAIN prog
  BY DEF Goes, Fans, IsProgram, Nodes
<1>3. /\ ks \in Seq(Nat) /\ Len(ks) \in Nat /\ DOMAIN ks = 1..Len(ks) /\ z \in {0, 1}
      /\ Len(ts) = Len(ks) + z /\ Len(ts) \in Nat
      /\ \A k \in 1..Len(ks) : ts[k][1] = "visit" /\ ts[k][2] = ks[k]
      /\ z = 1 => ts[Len(ts)][1] = "leave" /\ ts[Len(ts)][2] = n
  <2>1. /\ ks \in Seq(Nat) /\ z \in {0, 1} /\ Len(ts) = 0 + Len(ks) + z
        /\ \A k \in 1..Len(ks) : ts[0 + k][1] = "visit" /\ ts[0 + k][2] = ks[k]
        /\ z = 1 => ts[0 + Len(ks) + 1][1] = "leave" /\ ts[0 + Len(ks) + 1][2] = n
    BY <1>2 DEF Fans
  <2>2. Len(ks) \in Nat /\ DOMAIN ks = 1..Len(ks)
    BY <2>1
  <2>3. \A k \in 1..Len(ks) : 0 + k = k
    BY <2>2
  <2>4. 0 + Len(ks) + 1 = Len(ks) + 1 /\ 0 + Len(ks) + z = Len(ks) + z
    BY <2>1, <2>2
  <2> QED
    BY <2>1, <2>2, <2>3, <2>4
<1>4. Len(ts) = 0 <=> ts = <<>>
  BY <1>2 DEF IsSeq
<1>5. \A m : Leads("resolve", <<>>, m, m)
  <2>1. DOMAIN <<>> = {}
    OBVIOUS
  <2> QED
    BY <2>1 DEF Leads, Linked
<1>6. ScopeAfter("resolve", agenda[1]) = Standing(ScopeOver(n), Passed(n))
  BY <1>1 DEF ScopeAfter
<1>7. CASE what # "visit"
  <2>1. ks = <<>> /\ Len(ks) = 0 /\ Kind(n) \in {"Program", "Block"} /\ what = "leave"
    BY <1>7 DEF PassesOn
  <2>2. ts = <<>>
    BY <1>2, <1>3, <1>4, <1>7, <2>1
  <2>3. Standing(ScopeOver(n), Passed(n)) = ScopeOver(n)
    BY <2>1, StandsAfter DEF Scoping
  <2>4. Arrived(n, agenda[1]) = ScopeOver(n)
    BY <1>1, <2>1 DEF Arrived
  <2> QED
    BY <1>5, <1>6, <2>2, <2>3, <2>4
<1>8. ASSUME Kind(n) \notin {"Program", "Block"}, what = "visit"
      PROVE  Arrived(n, agenda[1]) = Standing(ScopeOver(n), 1..(n - 1))
  <2>1. Unit(n) = n
    BY <1>8, UnitIs
  <2> QED
    BY <1>1, <1>8, <2>1 DEF Arrived, ScopeBefore
<1>9. CASE what = "visit" /\ Kind(n) = "Method"
  <2>1. DOMAIN Kids(n) = {1}
    BY <1>9, OnlyKid
  <2>2. ks = Kids(n) /\ z = 0
    BY <1>3, <1>9 DEF PassesOn, Scoping
  <2>3. Len(ks) = 1 /\ Len(ts) = 1 /\ 1 \in DOMAIN Kids(n)
    <3>5. 1..Len(ks) = {1}
      BY <1>3, <2>1, <2>2
    <3> PICK l : l = Len(ks)
      OBVIOUS
    <3>6. l \in Nat /\ 1..l = {1}
      BY <1>3, <3>5
    <3>1. Len(ks) # 0
      <4>1. 1 \in 1..l
        BY <3>6
      <4> QED
        BY <3>6, <4>1
    <3>2. \A k \in 1..Len(ks) : k = 1
      BY <3>5
    <3>3. Len(ks) \in 1..Len(ks)
      BY <1>3, <3>1
    <3>4. Len(ks) = 1
      BY <3>2, <3>3
    <3> QED
      BY <1>3, <2>1, <2>2, <3>4
  <2>4. PICK b : b = Kid(n, 1)
    OBVIOUS
  <2>5. ts[1][1] = "visit" /\ ts[1][2] = b
    BY <1>3, <2>2, <2>3, <2>4 DEF Kid, Kids
  <2>6. Unit(b) = n /\ ScopeOver(b) = n /\ Kind(b) = "Block" /\ b \in Nodes
    BY <1>9, <2>3, <2>4, UnitIs, KidsScope, AroundIs, KindsOfKids, KidsArePending DEF Scoping
  <2>7. ScopeBefore("resolve", ts[1]) = Standing(ScopeOver(n), 1..(n - 1))
    BY <2>5, <2>6 DEF ScopeBefore
  <2>8. ScopeAfter("resolve", ts[1]) = Standing(n, Passed(b))
    BY <2>5, <2>6 DEF ScopeAfter
  <2>9. Standing(ScopeOver(b), Passed(b)) = ScopeOver(b)
    BY <2>6, StandsAfter DEF Scoping
  <2>10. Standing(ScopeOver(n), Passed(n)) = n
    BY <1>9, StandsAfter DEF Scoping
  <2>11. /\ ScopeBefore("resolve", ts[1]) = Arrived(n, agenda[1])
         /\ ScopeAfter("resolve", ts[Len(ts)]) = ScopeAfter("resolve", agenda[1])
    BY <1>6, <1>8, <1>9, <2>3, <2>6, <2>7, <2>8, <2>9, <2>10
  <2>12. Linked("resolve", ts)
    <3>1. DOMAIN ts = 1..1
      BY <1>2, <2>3 DEF IsSeq
    <3> QED
      BY <3>1 DEF Linked
  <2>13. ts # <<>>
    BY <1>4, <2>3
  <2> QED
    BY <2>3, <2>11, <2>12, <2>13 DEF Leads
<1>10. CASE /\ what = "visit" /\ ks = Kids(n) /\ Kind(n) # "Method"
            /\ z = 1 <=> Kind(n) \in {"Program", "Block"}
  <2> DEFINE o == ScopeIn(n)
             m == Standing(o, 1..n)
             q == Standing(o, Passed(n))
  <2>1. ASSUME NEW k \in 1..Len(ks)
        PROVE  /\ k \in DOMAIN Kids(n)
               /\ ScopeBefore("resolve", ts[k]) = Standing(o, 1..(Kid(n, k) - 1))
               /\ ScopeAfter("resolve", ts[k]) = Standing(o, Passed(Kid(n, k)))
    <3>1. k \in DOMAIN Kids(n) /\ ts[k][1] = "visit" /\ ts[k][2] = Kid(n, k)
      BY <1>3, <1>10, <2>1 DEF Kid, Kids
    <3> QED
      BY <1>10, <3>1, KidsLead
  <2>2. /\ \A i \in DOMAIN Kids(n) :
               Passed(Kid(n, i)) = IF i + 1 \in DOMAIN Kids(n) THEN 1..(Kid(n, i + 1) - 1)
                                   ELSE Passed(n)
        /\ 1 \in DOMAIN Kids(n) => Kid(n, 1) = n + 1
        /\ 1 \notin DOMAIN Kids(n) => Passed(n) = 1..n
    BY PassedIs
  <2>3. DOMAIN Kids(n) = 1..Len(ks)
    BY <1>3, <1>10
  <2> HIDE DEF o
  <2>4. \A k \in 1..Len(ks) : ScopeBefore("resolve", ts[k]) = m \/ k # 1
    <3> SUFFICES ASSUME 1 \in 1..Len(ks) PROVE ScopeBefore("resolve", ts[1]) = m
      OBVIOUS
    <3>1. Kid(n, 1) - 1 = n
      BY <1>2, <2>2, <2>3
    <3> QED
      BY <2>1, <3>1
  <2>5. \A k \in 1..Len(ks) : k + 1 \in 1..Len(ks) =>
            ScopeAfter("resolve", ts[k]) = ScopeBefore("resolve", ts[k + 1])
    BY <2>1, <2>2, <2>3
  <2>6. Len(ks) # 0 => ScopeAfter("resolve", ts[Len(ks)]) = q
    <3> SUFFICES ASSUME Len(ks) # 0 PROVE ScopeAfter("resolve", ts[Len(ks)]) = q
      OBVIOUS
    <3>1. Len(ks) \in 1..Len(ks) /\ Len(ks) + 1 \notin 1..Len(ks)
      BY <1>3
    <3> QED
      BY <2>1, <2>2, <2>3, <3>1
  <2>7. Len(ks) = 0 => q = m
    <3> SUFFICES ASSUME Len(ks) = 0 PROVE q = m
      OBVIOUS
    <3>1. 1 \notin DOMAIN Kids(n)
      BY <2>3
    <3> QED
      BY <2>2, <3>1
  <2>8. CASE z = 1
    <3>1. Kind(n) \in {"Program", "Block"}
      BY <1>10, <2>8
    <3>2. o = n
      BY <3>1, AroundIs DEF Scoping, o
    <3>3. m = n
      BY <3>2, StandsIn
    <3>4. Arrived(n, agenda[1]) = m
      BY <1>1, <1>10, <3>1, <3>3 DEF Arrived
    <3>5. /\ ScopeBefore("resolve", ts[Len(ts)]) = q
          /\ ScopeAfter("resolve", ts[Len(ts)]) = ScopeAfter("resolve", agenda[1])
      BY <1>3, <1>6, <2>8, <3>2 DEF ScopeBefore, ScopeAfter
    <3>6. Len(ts) # 0 /\ (Len(ks) = 0 => Len(ts) = 1)
      BY <1>3, <2>8
    <3> HIDE DEF m, q
    <3>7. Leads("resolve", ts, m, ScopeAfter("resolve", agenda[1]))
      BY <1>2, <1>3, <2>4, <2>5, <2>6, <2>7, <2>8, <3>5, <3>6, VisitsLead
    <3> QED
      BY <3>4, <3>7
  <2>9. CASE z = 0
    <3>1. Kind(n) \notin Scoping
      BY <1>10, <2>9 DEF Scoping
    <3>2. o = ScopeOver(n)
      BY <3>1, AroundIs DEF o
    <3>3. m = Standing(o, 1..(n - 1))
      BY <3>1, StandsOn
    <3>4. Arrived(n, agenda[1]) = m
      BY <1>8, <1>10, <3>1, <3>2, <3>3 DEF Scoping
    <3>5. ScopeAfter("resolve", agenda[1]) = q
      BY <1>6, <3>2
    <3>6. Len(ts) = Len(ks)
      BY <1>3, <2>9
    <3> HIDE DEF m, q
    <3>7. CASE Len(ks) = 0
      BY <1>4, <1>5, <2>7, <3>4, <3>5, <3>6, <3>7
    <3>8. CASE Len(ks) # 0
      <4>0. /\ z = 0 => ScopeAfter("resolve", ts[Len(ts)]) = q
            /\ Len(ts) # 0 /\ z # 1
        BY <2>6, <2>9, <3>6, <3>8
      <4>1. Leads("resolve", ts, m, q)
        BY <1>2, <1>3, <2>4, <2>5, <4>0, VisitsLead
      <4> QED
        BY <3>4, <3>5, <4>1
    <3> QED
      BY <3>7, <3>8
  <2> QED
    BY <1>3, <2>8, <2>9
<1>11. CASE /\ what = "visit" /\ z = 0 /\ Kind(n) \notin Scoping
            /\ \A i \in DOMAIN Kids(n) : Expression(Kid(n, i))
            /\ \A i \in DOMAIN ks : n \in Path(prog, ks[i]) /\ n < ks[i]
  <2> DEFINE m == Standing(ScopeOver(n), 1..(n - 1))
  <2>1. ASSUME NEW k \in 1..Len(ks)
        PROVE  ScopeBefore("resolve", ts[k]) = m /\ ScopeAfter("resolve", ts[k]) = m
    <3>1. ts[k][1] = "visit" /\ ts[k][2] = ks[k]
      BY <1>3, <2>1
    <3>2. n \in Path(prog, ks[k]) /\ n < ks[k] /\ ks[k] \in Nodes
      BY <1>3, <1>11, <2>1 DEF Goes
    <3>3. ScopeOver(ks[k]) = ScopeOver(n) /\ Unit(ks[k]) = ks[k]
      BY <1>11, <3>2, ScopesWithin
    <3>4. /\ Standing(ScopeOver(n), Passed(ks[k])) = m
          /\ Standing(ScopeOver(n), 1..(ks[k] - 1)) = m
      BY <1>11, <3>2, StandsStill
    <3> QED
      BY <3>1, <3>3, <3>4 DEF ScopeBefore, ScopeAfter
  <2>2. Standing(ScopeOver(n), Passed(n)) = m
    BY <1>11, StandsStill
  <2>3. Arrived(n, agenda[1]) = m
    BY <1>8, <1>11 DEF Scoping
  <2> HIDE DEF m
  <2>4. Len(ts) = Len(ks)
    BY <1>3, <1>11
  <2>5. CASE Len(ks) = 0
    BY <1>4, <1>5, <1>6, <2>2, <2>3, <2>4, <2>5
  <2>6. CASE Len(ks) # 0
    <3>1. Len(ks) \in 1..Len(ks)
      BY <1>3, <2>6
    <3>2. Leads("resolve", ts, m, m)
      BY <1>2, <1>3, <1>11, <2>1, <2>4, <2>6, <3>1, VisitsLead
    <3> QED
      BY <1>6, <2>2, <2>3, <3>2
  <2> QED
    BY <2>5, <2>6
<1> QED
  BY <1>7, <1>9, <1>10, <1>11 DEF PassesOn

(* The scopes from one outwards are those of its node and the nodes around *)
(* that.                                                                   *)
LEMMA ChainOwners ==
    ASSUME IsProgram(prog), Scoped(ctx), FollowsTree(ctx), NEW s \in 1..Len(ctx.scopes)
    PROVE  /\ \A t \in Chain(ctx, s) : OwnerOf(t) \in ScopeNodes(OwnerOf(s))
           /\ \A x \in ScopeNodes(OwnerOf(s)) : \E t \in Chain(ctx, s) : OwnerOf(t) = x
<1> DEFINE Owners(r) == /\ \A t \in Chain(ctx, r) : OwnerOf(t) \in ScopeNodes(OwnerOf(r))
                        /\ \A x \in ScopeNodes(OwnerOf(r)) :
                               \E t \in Chain(ctx, r) : OwnerOf(t) = x
           S == {r \in 1..Len(ctx.scopes) : Owners(r)}
<1>1. Len(ctx.scopes) \in Nat /\ \A t \in 1..Len(ctx.scopes) : ctx.scopes[t].parent \in 0..(t - 1)
  <2>1. Len(ctx.scopes) \in Nat
    BY DEF Scoped
  <2> QED
    BY <2>1, ScopeIs
<1>2. ASSUME NEW r \in 1..Len(ctx.scopes), \A t \in 1..(r - 1) : t \in S
      PROVE  r \in S
  <2>1. PICK q : q = ctx.scopes[r].parent
    OBVIOUS
  <2>2. PICK o : o = OwnerOf(r)
    OBVIOUS
  <2>3. /\ q \in 0..(r - 1) /\ Chain(ctx, r) = {r} \union Chain(ctx, q) /\ Chain(ctx, 0) = {}
    BY <1>1, <2>1, ChainIs
  <2>4. /\ o \in Nodes /\ Kind(o) \in Scoping /\ Sits(ctx, q, ScopeOver(o))
    BY <1>2, <2>1, <2>2 DEF FollowsTree, OwnerOf
  <2>5. ScopeNodes(o) = {o} \union Around(o)
    <3>1. o \in Path(prog, o)
      BY <2>4, PathsGoUp DEF Nodes
    <3>2. o \in ScopeNodes(o)
      BY <2>4, <3>1 DEF ScopeNodes, Scoping
    <3> QED
      BY <3>2 DEF Around
  <2>6. CASE o = 1
    <3>1. Around(o) = {} /\ q = 0
      BY <2>4, <2>6, AroundIs DEF Sits
    <3>2. Chain(ctx, r) = {r} /\ ScopeNodes(o) = {o}
      BY <2>3, <2>5, <3>1
    <3>3. Owners(r)
      BY <2>2, <3>2
    <3> QED
      BY <1>2, <3>3
  <2>7. CASE o # 1
    <3>1. PICK m : m = ScopeOver(o)
      OBVIOUS
    <3>2. m \in Around(o) /\ m \in Nodes /\ m # 0 /\ Kind(m) \in Scoping
      <4>1. m \in Around(o)
        BY <2>4, <2>7, <3>1, AroundIs
      <4>2. m \in ScopeNodes(o) /\ Around(o) \subseteq 1..o
        BY <2>4, <4>1, AroundIs DEF Around
      <4> QED
        BY <2>4, <4>1, <4>2, AroundIs DEF ScopeNodes, Scoping
    <3>3. q \in 1..Len(ctx.scopes) /\ OwnerOf(q) = m
      BY <2>4, <3>1, <3>2 DEF Sits, OwnerOf
    <3>4. q \in 1..(r - 1)
      BY <1>1, <2>3, <3>3
    <3>5. Owners(q)
      BY <1>2, <3>4
    <3>6. Around(o) = ScopeNodes(m)
      <4>1. Around(o) = {m} \union Around(m)
        BY <2>4, <2>7, <3>1, AroundChains
      <4>2. m \in Path(prog, m)
        BY <3>2, PathsGoUp DEF Nodes
      <4>3. m \in ScopeNodes(m)
        BY <3>2, <4>2 DEF ScopeNodes, Scoping
      <4> QED
        BY <4>1, <4>3 DEF Around
    <3>7. \A t \in Chain(ctx, r) : OwnerOf(t) \in ScopeNodes(o)
      BY <2>2, <2>3, <2>5, <3>3, <3>5, <3>6
    <3>8. \A x \in ScopeNodes(o) : \E t \in Chain(ctx, r) : OwnerOf(t) = x
      BY <2>2, <2>3, <2>5, <3>3, <3>5, <3>6
    <3>9. Owners(r)
      BY <2>2, <3>7, <3>8
    <3> QED
      BY <1>2, <3>9
  <2> QED
    BY <2>6, <2>7
<1>3. 1..Len(ctx.scopes) \subseteq S
  <2> HIDE DEF S
  <2> QED
    BY <1>1, <1>2, UpTo
<1>4. s \in S
  BY <1>3
<1> QED
  BY <1>4

-----------------------------------------------------------------------------
(* What the binding of n to ref has to be.                                 *)
Binding(n, ref) ==
    \/ /\ OwnerOf(ref[1]) \in Around(n)
       /\ \A t \in (ref[1] + 1)..Len(ctx.scopes) :
              OwnerOf(t) \in Around(n) => ctx.scopes[t].symbols[Name(n)] = NULL
    \/ LeaksInto(OwnerOf(ref[1]), n)

(* The method whose scope the resolver stands in has leaked into it.       *)
LEMMA StandingLeaks ==
    ASSUME IsProgram(prog), NEW n \in Nodes, n # 1, NEW m,
           m = Standing(ScopeOver(n), 1..(n - 1)), m # ScopeOver(n)
    PROVE  LeaksInto(m, n) /\ ScopeOver(m) = ScopeOver(n) /\ m \in Nodes
<1> PICK q : q = ScopeOver(n)
  OBVIOUS
<1> DEFINE S == Peers(q, 1..(n - 1))
<1>1. /\ Nodes = 1..Len(prog) /\ Len(prog) \in Nat /\ n \in Nat
      /\ q \in Around(n) /\ \A x \in Around(n) : x <= q
      /\ q \in 1..n
  BY AroundIs DEF IsProgram, Nodes
<1>2. S # {} /\ m = Deepest(S) /\ Kind(m) = "Method"
  BY DEF Standing
<1>3. S \subseteq 1..n
  BY <1>1 DEF Peers
<1>4. m = Nearest(S)
  BY <1>2 DEF Deepest
<1>5. m \in S
  <2> HIDE DEF S
  <2> QED
    BY <1>1, <1>2, <1>3, DeepestIs
<1>6. m \in 1..(n - 1) /\ m > q /\ ScopeOver(m) = q
  BY <1>5 DEF Peers
<1>7. m \notin Path(prog, n)
  <2> SUFFICES ASSUME m \in Path(prog, n) PROVE FALSE
    OBVIOUS
  <2>1. m # n
    BY <1>1, <1>6
  <2>2. m \in Around(n)
    BY <1>2, <2>1 DEF Around, ScopeNodes
  <2> QED
    BY <1>1, <1>6, <2>2
<1>8. Nearest(Around(n)) = q
  BY <1>1 DEF ScopeOver, Deepest
<1>9. ASSUME NEW k \in 1..(n - 1), k > q
      PROVE  Nearest(Around(k)) = ScopeOver(k)
  <2>1. k \in Nodes /\ k # 1
    BY <1>1, <1>9
  <2>2. Around(k) # {}
    BY <2>1, AroundIs
  <2> QED
    BY <2>2 DEF ScopeOver, Deepest
<1>10. S = {k \in 1..(n - 1) : /\ Kind(k) \in {"Program", "Block", "Method"}
                               /\ k > Nearest(Around(n))
                               /\ Nearest(Around(k)) = Nearest(Around(n))}
  BY <1>8, <1>9 DEF Peers, Scoping
<1> HIDE DEF S
<1>11. LeaksInto(m, n)
  BY <1>2, <1>4, <1>7, <1>10 DEF LeaksInto
<1> QED
  BY <1>1, <1>6, <1>11

LEMMA LookupBinds ==
    ASSUME IsProgram(prog), Scoped(ctx), FollowsTree(ctx), OwnersGrow(ctx),
           NEW n \in Nodes, n # 1, Name(n) \in Names,
           ctx.current \in 1..Len(ctx.scopes),
           OwnerOf(ctx.current) = Standing(ScopeOver(n), 1..(n - 1)),
           NEW ref, ref = Lookup(ctx, Name(n)), ref # NULL
    PROVE  Binding(n, ref)
<1> DEFINE N == Len(ctx.scopes)
<1> PICK q : q = ScopeOver(n)
  OBVIOUS
<1> PICK m : m = OwnerOf(ctx.current)
  OBVIOUS
<1>1. N \in Nat /\ \A t \in 1..N : /\ ctx.scopes[t].parent \in 0..(t - 1)
                                   /\ OwnerOf(t) \in Nat
  <2>1. N \in Nat
    BY DEF Scoped
  <2> QED
    BY <2>1, ScopeIs DEF OwnerOf
<1>2. PICK t \in Chain(ctx, ctx.current) :
         /\ ref = <<t, Name(n)>> /\ t \in 1..N
         /\ \A u \in Chain(ctx, ctx.current) : ctx.scopes[u].symbols[Name(n)] # NULL => u <= t
  BY <1>1, LookupFinds DEF Lookup
<1>3. ref[1] = t
  BY <1>2
<1>4. q \in Around(n) /\ q \in Nodes /\ q # 0 /\ Around(n) = ScopeNodes(q)
  <2>1. q \in Around(n) /\ Around(n) = {q} \union Around(q) /\ Around(n) \subseteq 1..n
    BY AroundIs, AroundChains
  <2>2. q \in ScopeNodes(n)
    BY <2>1 DEF Around
  <2>3. q \in Nodes /\ Kind(q) \in Scoping
    BY <2>2, AroundIs DEF ScopeNodes, Scoping
  <2>4. q \in Path(prog, q)
    BY <2>3, PathsGoUp DEF Nodes
  <2>5. q \in ScopeNodes(q)
    BY <2>3, <2>4 DEF ScopeNodes, Scoping
  <2> QED
    BY <2>1, <2>3, <2>5 DEF Around
<1>5. ASSUME NEW r \in 1..N, OwnerOf(r) = q, Chain(ctx, r) \subseteq Chain(ctx, ctx.current),
             t \in Chain(ctx, r)
      PROVE  Binding(n, ref)
  <2>1. /\ \A u \in Chain(ctx, r) : OwnerOf(u) \in Around(n)
        /\ \A x \in Around(n) : \E u \in Chain(ctx, r) : OwnerOf(u) = x
    BY <1>4, <1>5, ChainOwners
  <2>2. Chain(ctx, r) \subseteq 1..N
    <3>1. Chain(ctx, r) \subseteq 1..r
      BY <1>1, <1>5, ChainIs
    <3> QED
      BY <1>1, <1>5, <3>1
  <2>3. ASSUME NEW u \in (t + 1)..N, OwnerOf(u) \in Around(n)
        PROVE  ctx.scopes[u].symbols[Name(n)] = NULL
    <3>1. PICK v \in Chain(ctx, r) : OwnerOf(v) = OwnerOf(u)
      BY <2>1, <2>3
    <3>2. u \in 1..N /\ v \in 1..N /\ ~(u <= t)
      BY <1>1, <1>2, <2>2, <2>3, <3>1
    <3>3. u = v
      <4>1. u < v => OwnerOf(u) < OwnerOf(v)
        BY <3>2 DEF OwnersGrow, OwnerOf
      <4>2. v < u => OwnerOf(v) < OwnerOf(u)
        BY <3>2 DEF OwnersGrow, OwnerOf
      <4> QED
        BY <1>1, <3>1, <3>2, <4>1, <4>2
    <3> QED
      BY <1>2, <1>5, <3>1, <3>2, <3>3
  <2> QED
    BY <1>3, <1>5, <2>1, <2>3 DEF Binding
<1>6. CASE m = q
  BY <1>2, <1>5, <1>6
<1>7. CASE m # q
  <2>1. LeaksInto(m, n) /\ ScopeOver(m) = q /\ m \in Nodes
    BY <1>7, StandingLeaks
  <2>2. CASE t = ctx.current
    BY <1>3, <2>1, <2>2 DEF Binding
  <2>3. CASE t # ctx.current
    <3>1. PICK r : r = ctx.scopes[ctx.current].parent
      OBVIOUS
    <3>2. Sits(ctx, r, q)
      BY <2>1, <3>1 DEF FollowsTree, OwnerOf
    <3>3. r \in 1..N /\ OwnerOf(r) = q
      BY <1>4, <3>2 DEF Sits, OwnerOf
    <3>4. Chain(ctx, ctx.current) = {ctx.current} \union Chain(ctx, r)
      BY <1>1, <3>1, ChainIs
    <3> QED
      BY <1>2, <1>5, <2>3, <3>3, <3>4
  <2> QED
    BY <2>2, <2>3
<1> QED
  BY <1>6, <1>7

Unbound == \A n \in Nodes : Kind(n) = "Ident" => symbolOf[n] \in Garbage

Bound == \A n \in Nodes : Kind(n) = "Ident" /\ symbolOf[n] \notin Garbage =>
             Binding(n, symbolOf[n])

BindInv ==
    /\ pass = "collect" => Unbound
    /\ pass = "resolve" /\ agenda # <<>> =>
           /\ Linked("resolve", agenda)
           /\ AtRoot \/ Sits(ctx, ctx.current, ScopeBefore("resolve", agenda[1]))
    /\ Bound

LEMMA StillBinds ==
    ASSUME prog' = prog, ctx'.scopes = ctx.scopes
    PROVE  \A n, ref : Binding(n, ref) => Binding(n, ref)'
<1>1. /\ \A n : Kind(n)' = Kind(n) /\ ScopeNodes(n)' = ScopeNodes(n)
      /\ Nodes' = Nodes
  BY SamePlaces
<1>2. \A n : Around(n)' = Around(n)
  BY <1>1 DEF Around
<1>3. \A s : OwnerOf(s)' = OwnerOf(s)
  BY DEF OwnerOf
<1>4. \A n : Name(n)' = Name(n)
  BY DEF Name
<1>5. ASSUME NEW m, NEW n, LeaksInto(m, n) PROVE LeaksInto(m, n)'
  <2> DEFINE S == {k \in 1..(n - 1) : /\ Kind(k) \in {"Program", "Block", "Method"}
                                     /\ k > Nearest(Around(n))
                                     /\ Nearest(Around(k)) = Nearest(Around(n))}
  <2>1. S' = S
    BY <1>1, <1>2
  <2>2. Kind(m) = "Method" /\ m \notin Path(prog, n) /\ m = Nearest(S)
    BY <1>5 DEF LeaksInto
  <2>3. m = Nearest(S')
    BY <2>1, <2>2
  <2>4. Kind(m)' = "Method" /\ m \notin Path(prog', n)
    BY <1>1, <2>2
  <2> QED
    BY <2>3, <2>4 DEF LeaksInto
<1>6. ASSUME NEW n, NEW ref, Binding(n, ref) PROVE Binding(n, ref)'
  <2>1. CASE LeaksInto(OwnerOf(ref[1]), n)
    <3>1. PICK m : m = OwnerOf(ref[1])
      OBVIOUS
    <3>2. LeaksInto(m, n)'
      BY <1>5, <2>1, <3>1
    <3>3. OwnerOf(ref[1])' = m
      BY <1>3, <3>1
    <3> QED
      BY <3>2, <3>3 DEF Binding
  <2>2. CASE /\ OwnerOf(ref[1]) \in Around(n)
             /\ \A t \in (ref[1] + 1)..Len(ctx.scopes) :
                    OwnerOf(t) \in Around(n) => ctx.scopes[t].symbols[Name(n)] = NULL
    <3>1. OwnerOf(ref[1])' \in Around(n)'
      BY <1>2, <1>3, <2>2
    <3>2. \A t \in (ref[1] + 1)..Len(ctx'.scopes) :
              OwnerOf(t)' \in Around(n)' => ctx'.scopes[t].symbols[Name(n)'] = NULL
      BY <1>2, <1>3, <1>4, <2>2
    <3> QED
      BY <3>1, <3>2 DEF Binding
  <2> QED
    BY <1>6, <2>1, <2>2 DEF Binding
<1> QED
  BY <1>6

LEMMA StillBound ==
    ASSUME Bound, prog' = prog, ctx'.scopes = ctx.scopes, symbolOf' = symbolOf
    PROVE  Bound'
<1>1. ASSUME NEW n \in Nodes', Kind(n)' = "Ident", symbolOf'[n] \notin Garbage
      PROVE  Binding(n, symbolOf[n])'
  <2>1. PICK ref : ref = symbolOf[n]
    OBVIOUS
  <2>2. n \in Nodes /\ Kind(n) = "Ident" /\ ref \notin Garbage
    BY <1>1, <2>1 DEF Nodes, Kind
  <2>3. Binding(n, ref)
    BY <2>1, <2>2 DEF Bound
  <2>4. Binding(n, ref)'
    BY <2>3, StillBinds
  <2> QED
    BY <2>1, <2>4
<1> QED
  BY <1>1 DEF Bound

(* An identifier is bound where it stands.                                 *)
LEMMA IdentifierBinds ==
    ASSUME SettledInv, NearInv, OrderInv, BindInv, NEW n \in Nodes, ResolveIdentifier(n),
           ctx.current # 0, NEW ref, ref = Lookup(ctx, Name(n)), ref # NULL
    PROVE  Binding(n, ref)
<1>1. /\ pass = "resolve" /\ agenda # <<>> /\ Head(agenda) = Task("visit", n, 0)
      /\ Kind(n) = "Ident"
  BY DEF ResolveIdentifier, Doing
<1>2. IsProgram(prog) /\ Scoped(ctx) /\ IsSeq(agenda)
  BY <1>1 DEF SettledInv, MethodsInv, Planned
<1>3. agenda[1] = <<"visit", n, 0>>
  BY <1>1, <1>2 DEF IsSeq, Task
<1>4. n # 1
  BY <1>1, <1>2 DEF IsProgram, Kind
<1>5. ~AtRoot
  BY <1>1, <1>4 DEF AtRoot, Task
<1>6. Unit(n) = n
  BY <1>1, <1>2, UnitIs
<1>7. ScopeBefore("resolve", agenda[1]) = Standing(ScopeOver(n), 1..(n - 1))
  BY <1>3, <1>6 DEF ScopeBefore
<1>8. Sits(ctx, ctx.current, Standing(ScopeOver(n), 1..(n - 1)))
  BY <1>1, <1>5, <1>7 DEF BindInv
<1>9. /\ ctx.current \in 1..Len(ctx.scopes)
      /\ OwnerOf(ctx.current) = Standing(ScopeOver(n), 1..(n - 1))
  BY <1>8 DEF Sits, OwnerOf
<1>10. Name(n) \in Names
  <2>1. prog[n] \in Node
    BY <1>2 DEF IsProgram, Nodes
  <2> QED
    BY <2>1 DEF Node, Name
<1> QED
  BY <1>2, <1>4, <1>9, <1>10, LookupBinds DEF NearInv, OrderInv

LEMMA ResolveBound ==
    ASSUME SettledInv, NearInv, OrderInv, BindInv, Resolve
    PROVE  Bound'
<1>1. PICK n \in Pending : Resolves(n)
  BY DEF Resolve, Resolves
<1>2. n \in Nodes
  BY DEF Pending
<1>3. Still /\ prog' = prog /\ ctx'.scopes = ctx.scopes /\ DOMAIN symbolOf = Nodes
  BY ResolveStill DEF Still, SettledInv, MethodsInv
<1>4. CASE symbolOf' = symbolOf
  BY <1>3, <1>4, StillBound DEF BindInv
<1>5. CASE symbolOf' # symbolOf
  <2>1. PICK ref : ref = Lookup(ctx, Name(n))
    OBVIOUS
  <2>2. /\ ResolveIdentifier(n) /\ ctx.current # 0 /\ ref # NULL
        /\ symbolOf' = [symbolOf EXCEPT ![n] = ref]
    BY <1>1, <1>5, <2>1 DEF Resolves, ResolveScope, ResolveLeave, ResolveIdentifier,
                            ResolveUnknown, ResolveOther, Crash
  <2>3. Binding(n, ref)'
    <3>1. Binding(n, ref)
      BY <1>2, <2>1, <2>2, IdentifierBinds
    <3> QED
      BY <1>3, <3>1, StillBinds
  <2>4. ASSUME NEW m \in Nodes', Kind(m)' = "Ident", symbolOf'[m] \notin Garbage
        PROVE  Binding(m, symbolOf[m])'
    <3>1. CASE m = n
      BY <1>2, <1>3, <2>2, <2>3, <3>1
    <3>2. CASE m # n
      <4>1. PICK r : r = symbolOf[m]
        OBVIOUS
      <4>2. m \in Nodes /\ Kind(m) = "Ident" /\ symbolOf'[m] = r /\ r \notin Garbage
        BY <1>3, <2>2, <2>4, <3>2, <4>1 DEF Nodes, Kind
      <4>3. Binding(m, r)
        BY <4>1, <4>2 DEF BindInv, Bound
      <4>4. Binding(m, r)'
        BY <1>3, <4>3, StillBinds
      <4> QED
        BY <4>2, <4>4
    <3> QED
      BY <3>1, <3>2
  <2> QED
    BY <2>4 DEF Bound
<1> QED
  BY <1>4, <1>5

LEMMA ResolveNear ==
    ASSUME SettledInv, NearInv, BindInv, Resolve, agenda' # <<>>
    PROVE  /\ Linked("resolve", agenda)'
           /\ Sits(ctx, ctx.current, ScopeBefore("resolve", agenda[1]))'
<1>1. PICK n \in Pending : Resolves(n)
  BY DEF Resolve, Resolves
<1>2. /\ pass = "resolve" /\ n \in Nodes /\ Planned /\ Placed /\ Settled /\ Scoped(ctx)
      /\ FollowsTree(ctx) /\ agenda # <<>> /\ Head(agenda)[2] = n
  BY <1>1, ResolveGoes DEF SettledInv, MethodsInv, NearInv, Pending
<1>3. ~(ResolveIdentifier(n) /\ ctx.current = 0)
  BY DEF ResolveIdentifier, Crash
<1>4. PICK what, ts, a, ks, z : /\ Goes(n, what, ts, a, ks, z, "leave")
                                /\ PassesOn(n, what, ks, z)
                                /\ n = 1 => what = "visit" \/ ts = <<>>
  BY <1>1, <1>2, <1>3, ResolveGoes
<1>5. /\ IsProgram(prog) /\ IsSeq(agenda) /\ prog' = prog
      /\ Head(agenda) = agenda[1] /\ agenda[1][1] = what /\ agenda[1][2] = n
      /\ agenda' = ts \o Tail(agenda) /\ IsSeq(ts)
  <2>1. IsSeq(agenda) /\ IsProgram(prog)
    BY <1>2 DEF Planned
  <2>2. IsSeq(ts)
    BY <1>4 DEF Goes, Fans
  <2>3. Head(agenda) = agenda[1]
    BY <1>2, <2>1 DEF IsSeq
  <2> QED
    BY <1>4, <2>1, <2>2, <2>3 DEF Goes, Then
<1>6. what # "visit" => what = "leave" /\ Kind(n) \in {"Program", "Block"}
  <2> SUFFICES ASSUME what # "visit"
               PROVE  what = "leave" /\ Kind(n) \in {"Program", "Block"}
    OBVIOUS
  <2>1. ~AtRoot
    BY <1>5 DEF AtRoot, Task
  <2>2. 1 \in DOMAIN agenda
    BY <1>2, <1>5 DEF IsSeq
  <2>3. Fits(pass, prog, agenda[1])
    BY <1>2, <2>1, <2>2 DEF Planned
  <2> QED
    BY <1>2, <1>5, <2>3 DEF Fits, Kind
<1>7. Linked("resolve", agenda)
      /\ (AtRoot \/ Sits(ctx, ctx.current, ScopeBefore("resolve", agenda[1])))
  BY <1>2 DEF BindInv
<1>8. Leads("resolve", ts, Arrived(n, agenda[1]), ScopeAfter("resolve", agenda[1]))
  BY <1>2, <1>4, <1>5, <1>6, ResolveLeads
<1>9. /\ Linked("resolve", agenda')
      /\ ScopeBefore("resolve", agenda'[1]) = Arrived(n, agenda[1])
  BY <1>2, <1>5, <1>7, <1>8, LinkedGoes
<1>10. Sits(ctx', ctx'.current, Arrived(n, agenda[1]))
  <2>1. CASE ResolveScope(n)
    <3>1. /\ Kind(n) \in {"Program", "Block"} /\ ctx' = SetCurrent(ctx, scopeOf[n])
          /\ Doing("resolve", "visit", n, 0)
      BY <2>1 DEF ResolveScope
    <3>2. HasScope(ctx, scopeOf[n], n)
      BY <1>2, <3>1, OwnScope
    <3>3. ctx'.current = scopeOf[n] /\ ctx'.scopes = ctx.scopes
      BY <1>2, <3>1 DEF SetCurrent, Scoped
    <3>4. what = "visit"
      BY <1>5, <3>1, HeadIs
    <3>5. Arrived(n, agenda[1]) = n /\ n # 0
      BY <1>2, <1>5, <3>1, <3>4 DEF Arrived, IsProgram, Nodes
    <3> QED
      BY <3>2, <3>3, <3>5 DEF Sits, HasScope
  <2>2. CASE ResolveLeave(n)
    <3>1. Doing("resolve", "leave", n, 0)
          /\ ctx' = SetCurrent(ctx, ctx.scopes[scopeOf[n]].parent)
      BY <2>2 DEF ResolveLeave
    <3>2. what = "leave" /\ Kind(n) \in {"Program", "Block"}
      BY <1>5, <1>6, <3>1, HeadIs
    <3>3. HasScope(ctx, scopeOf[n], n)
      BY <1>2, <3>2, OwnScope
    <3>4. ctx'.current = ctx.scopes[scopeOf[n]].parent /\ ctx'.scopes = ctx.scopes
      BY <1>2, <3>1 DEF SetCurrent, Scoped
    <3>5. Sits(ctx, ctx.scopes[scopeOf[n]].parent, ScopeOver(n))
      BY <1>2, <3>3 DEF FollowsTree, HasScope
    <3>6. Arrived(n, agenda[1]) = ScopeOver(n)
      BY <1>5, <3>2 DEF Arrived
    <3> QED
      BY <3>4, <3>5, <3>6 DEF Sits
  <2>3. CASE ctx' = ctx /\ Kind(n) \notin {"Program", "Block"}
    <3>1. n # 1
      BY <1>5, <2>3 DEF IsProgram, Kind
    <3>2. ~AtRoot
      BY <1>5, <3>1 DEF AtRoot, Task
    <3>3. Arrived(n, agenda[1]) = ScopeBefore("resolve", agenda[1])
      BY <1>5, <1>6, <2>3 DEF Arrived
    <3> QED
      BY <1>7, <2>3, <3>2, <3>3
  <2> QED
    BY <1>1, <2>1, <2>2, <2>3 DEF Resolves, ResolveIdentifier, ResolveUnknown, ResolveOther
<1>11. Sits(ctx, ctx.current, ScopeBefore("resolve", agenda[1]))'
  <2>1. PICK t : t = agenda'[1]
    OBVIOUS
  <2>2. ScopeBefore("resolve", t)' = ScopeBefore("resolve", t)
    BY <1>5, SameLinks
  <2>3. ScopeBefore("resolve", agenda[1])' = Arrived(n, agenda[1])
    BY <1>9, <2>1, <2>2
  <2> QED
    BY <1>10, <2>3 DEF Sits
<1> QED
  BY <1>5, <1>9, <1>11, SameLinks

LEMMA UnboundIsBound == Unbound => Bound
BY DEF Unbound, Bound

(* The collector gives symbols to methods and variables only.              *)
LEMMA CollectUnbound ==
    ASSUME SettledInv, Unbound, Collect
    PROVE  Unbound'
<1>1. PICK n \in Pending : Collects(n)
  BY DEF Collect, Collects
<1>2. pass = "collect" /\ n \in Nodes /\ Planned /\ DOMAIN symbolOf = Nodes
  BY <1>1, CollectGoes DEF SettledInv, MethodsInv
<1>3. prog' = prog
  BY <1>1 DEF Collects, CollectScope, LeaveScope, CollectMethodDecl, CollectParam, DeclareMethod,
              CollectVarDecl, CollectOther, CollectorUnchanged
<1>4. ASSUME DeclareMethod(n) PROVE Kind(n) = "Method"
  <2>1. Doing("collect", "declare", n, 0)
    BY <1>4 DEF DeclareMethod
  <2>2. IsSeq(agenda) /\ agenda # <<>> /\ Head(agenda) = <<"declare", n, 0>>
    BY <1>2, <2>1 DEF Doing, Task, Planned
  <2>3. 1 \in DOMAIN agenda /\ agenda[1] = <<"declare", n, 0>>
    BY <2>2 DEF IsSeq
  <2>4. ~AtRoot
    BY <2>3 DEF AtRoot, Task
  <2>5. Fits(pass, prog, agenda[1])
    BY <1>2, <2>3, <2>4 DEF Planned
  <2> QED
    BY <1>2, <2>3, <2>5 DEF Fits, Kind
<1>5. \/ symbolOf' = symbolOf
      \/ Kind(n) # "Ident" /\ \E v : symbolOf' = [symbolOf EXCEPT ![n] = v]
  <2>1. CASE DeclareMethod(n)
    BY <1>4, <2>1 DEF DeclareMethod
  <2>2. CASE CollectVarDecl(n)
    BY <2>2 DEF CollectVarDecl
  <2>3. CASE ~DeclareMethod(n) /\ ~CollectVarDecl(n)
    BY <1>1, <2>3 DEF Collects, CollectScope, LeaveScope, CollectMethodDecl, CollectParam,
                      CollectOther
  <2> QED
    BY <2>1, <2>2, <2>3
<1>6. \A m \in Nodes : Kind(m) = "Ident" => symbolOf'[m] = symbolOf[m]
  BY <1>2, <1>5
<1> QED
  BY <1>3, <1>6 DEF Unbound, Nodes, Kind

LEMMA BindHolds == Spec => []BindInv
<1>1. InitPasses => BindInv
  <2> SUFFICES ASSUME InitPasses PROVE BindInv
    OBVIOUS
  <2>1. Nodes = {} /\ pass = "parse"
    BY DEF InitPasses, Nodes
  <2> QED
    BY <2>1 DEF BindInv, Bound
<1>2. SettledInv /\ NearInv /\ OrderInv /\ BindInv /\ [Next]_semaVars => BindInv'
  <2> SUFFICES ASSUME SettledInv, NearInv, OrderInv, BindInv, [Next]_semaVars PROVE BindInv'
    OBVIOUS
  <2>1. CASE UNCHANGED semaVars
    <3>1. /\ prog' = prog /\ ctx' = ctx /\ pass' = pass /\ agenda' = agenda
          /\ symbolOf' = symbolOf
      BY <2>1 DEF semaVars
    <3>2. Bound'
      BY <3>1, StillBound DEF BindInv
    <3>3. pass = "collect" => Unbound'
      BY <3>1 DEF BindInv, Unbound, Nodes, Kind
    <3>4. pass = "resolve" /\ agenda # <<>> =>
              /\ Linked("resolve", agenda)'
              /\ AtRoot' \/ Sits(ctx, ctx.current, ScopeBefore("resolve", agenda[1]))'
      <4> SUFFICES ASSUME pass = "resolve", agenda # <<>>
                   PROVE  /\ Linked("resolve", agenda)'
                          /\ AtRoot' \/ Sits(ctx, ctx.current, ScopeBefore("resolve", agenda[1]))'
        OBVIOUS
      <4>1. ScopeBefore("resolve", agenda[1])' = ScopeBefore("resolve", agenda[1])
        <5>1. PICK t : t = agenda[1]
          OBVIOUS
        <5>2. ScopeBefore("resolve", t)' = ScopeBefore("resolve", t)
          BY <3>1, SameLinks
        <5> QED
          BY <3>1, <5>1, <5>2
      <4> QED
        BY <3>1, <4>1, SameLinks DEF BindInv, Sits, AtRoot
    <3> QED
      BY <3>1, <3>2, <3>3, <3>4 DEF BindInv
  <2>2. CASE ParserReturns
    <3>1. PICK tree \in Programs : Analyze(tree)
      BY <2>2 DEF ParserReturns
    <3>2. PICK garbage \in Garbage : symbolOf' = [n \in DOMAIN tree |-> garbage]
      BY <3>1 DEF Analyze
    <3>3. pass' = "collect" /\ prog' = tree
      BY <3>1 DEF Analyze
    <3>4. Unbound'
      BY <3>2, <3>3 DEF Unbound, Nodes, Garbage
    <3>5. Bound'
      BY <3>4, UnboundIsBound, PTL
    <3> QED
      BY <3>3, <3>4, <3>5 DEF BindInv
  <2>3. CASE Collect
    <3>1. pass = "collect" /\ pass' = "collect"
      BY <2>3, CollectReports
    <3>2. Unbound'
      BY <2>3, <3>1, CollectUnbound DEF BindInv
    <3>3. Bound'
      BY <3>2, UnboundIsBound, PTL
    <3> QED
      BY <3>1, <3>2, <3>3 DEF BindInv
  <2>4. CASE Resolve
    <3>1. pass' \in {"resolve", "crashed"}
      BY <2>4, ResolveReports
    <3>2. Bound'
      BY <2>4, ResolveBound
    <3>3. agenda' # <<>> => /\ Linked("resolve", agenda)'
                            /\ Sits(ctx, ctx.current, ScopeBefore("resolve", agenda[1]))'
      BY <2>4, ResolveNear
    <3> QED
      BY <3>1, <3>2, <3>3 DEF BindInv
  <2>5. CASE Check
    <3>1. Still /\ pass' \in {"check", "crashed"}
      BY <2>5, CheckStill, CheckReports DEF SettledInv, MethodsInv
    <3>2. symbolOf' = symbolOf
      BY <2>5 DEF Check, CheckScope, CheckLeave, CheckMethodDecl, TestCondition, CheckReturn,
                  ReturnType, CheckLeaf, CheckAssignment, CheckChildren, TypeExpression,
                  CheckerUnchanged
    <3>3. Bound'
      BY <3>1, <3>2, StillBound DEF Still, BindInv
    <3> QED
      BY <3>1, <3>3 DEF BindInv
  <2>6. CASE AfterCollector \/ AfterResolver \/ AfterChecker
    <3>1. /\ prog' = prog /\ ctx' = ctx /\ symbolOf' = symbolOf /\ pass' # "collect"
          /\ pass' = "resolve" => agenda' = <<Task("visit", 1, 0)>>
      BY <2>6 DEF AfterCollector, AfterResolver, AfterChecker, PassOver, Finish, Begin
    <3>2. Bound'
      BY <3>1, StillBound DEF BindInv
    <3>3. pass' = "resolve" => AtRoot' /\ Linked("resolve", agenda)'
      <4> SUFFICES ASSUME pass' = "resolve" PROVE AtRoot' /\ Linked("resolve", agenda)'
        OBVIOUS
      <4>1. AtRoot'
        BY <3>1 DEF AtRoot
      <4>2. DOMAIN agenda' = {1}
        BY <3>1, OneTask
      <4> QED
        BY <4>1, <4>2 DEF Linked
    <3> QED
      BY <3>1, <3>2, <3>3 DEF BindInv
  <2> QED
    BY <2>1, <2>2, <2>3, <2>4, <2>5, <2>6 DEF Next, Analysis
<1> QED
  BY <1>1, <1>2, SettledHolds, NearHolds, OrderHolds, PTL DEF Spec

(* NameResolver binds a name to its nearest declaration, in every program: *)
(* of the scopes around a bound identifier none further in declares it.    *)
(* The one exception is what the method before it declares in its scope.   *)
THEOREM NamesBoundToNearest == Spec => []BoundToNearest
<1>1. BindInv => BoundToNearest
  BY DEF BindInv, Bound, Binding, BoundToNearest
<1> QED
  BY <1>1, BindHolds, PTL
=============================================================================
