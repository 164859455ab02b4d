------------------------------- MODULE Passes_proofs -------------------------------
(***************************************************************************)
(* What holds of every walk over every well-formed tree: induction over    *)
(* the numbers of its nodes, what the calls of a handler make of the       *)
(* pending ones, which children a node has, what is above and below it,    *)
(* and what the scopes around a scope are.                                 *)
(***************************************************************************)
EXTENDS Passes, WellFoundedInduction, TLAPS

-----------------------------------------------------------------------------
(* Induction as a fact about sets of natural numbers, in which form it can *)
(* be cited: the theorems of the library that speak of a predicate cannot. *)
Below == {ij \in Nat \X Nat : ij[1] < ij[2]}

LEMMA BelowIsWellFounded == IsWellFoundedOn(Below, Nat)
BY NatLessThanWellFounded, SMT DEF Below, OpToRel

(* A set of numbers that is not empty has a least one.                     *)
LEMMA LeastOf ==
    ASSUME NEW T, T \subseteq Nat, T # {}
    PROVE  \E x \in T : \A y \in T : x <= y
<1>1. PICK x \in T : \A y \in T : <<y, x>> \notin Below
  BY BelowIsWellFounded, WFMin
<1>2. ASSUME NEW y \in T PROVE x <= y
  <2>1. <<y, x>> \in Nat \X Nat /\ <<y, x>>[1] = y /\ <<y, x>>[2] = x
    OBVIOUS
  <2>2. ~(y < x)
    BY <1>1, <2>1 DEF Below
  <2> QED
    BY <2>2
<1> QED
  BY <1>2

(* And one that is bounded has a greatest.                                 *)
LEMMA GreatestOf ==
    ASSUME NEW T, T \subseteq Nat, T # {}, NEW top \in Nat, \A y \in T : y <= top
    PROVE  \E x \in T : \A y \in T : y <= x
<1> DEFINE U == {top - y : y \in T}
<1>1. U \subseteq Nat /\ U # {}
  <2>1. \A y \in T : top - y \in Nat
    OBVIOUS
  <2>2. PICK y \in T : TRUE
    OBVIOUS
  <2> QED
    BY <2>1, <2>2
<1> HIDE DEF U
<1>2. PICK d \in U : \A e \in U : d <= e
  BY <1>1, LeastOf
<1>3. PICK x \in T : d = top - x
  BY <1>2 DEF U
<1>4. ASSUME NEW y \in T PROVE y <= x
  <2>1. d <= top - y
    BY <1>2 DEF U
  <2> QED
    BY <1>3, <2>1
<1> QED
  BY <1>4

(* What holds of a number when it holds of all below it holds of them all. *)
LEMMA UpTo ==
    ASSUME NEW top \in Nat, NEW S,
           \A n \in 1..top : (\A m \in 1..(n - 1) : m \in S) => n \in S
    PROVE  1..top \subseteq S
<1> DEFINE T == (1..top) \ S
<1>1. CASE T = {}
  BY <1>1
<1>2. CASE T # {}
  <2>1. T \subseteq Nat
    OBVIOUS
  <2>2. PICK x \in T : \A y \in T : x <= y
    <3> HIDE DEF T
    <3> QED
      BY <1>2, <2>1, LeastOf
  <2>3. ASSUME NEW m \in 1..(x - 1) PROVE m \in S
    <3>1. ~(x <= m) /\ m \in 1..top
      BY <2>2
    <3>2. m \notin T
      <4> HIDE DEF T
      <4> QED
        BY <2>2, <3>1
    <3> QED
      BY <3>1, <3>2
  <2> QED
    BY <2>2, <2>3
<1> QED
  BY <1>1, <1>2

-----------------------------------------------------------------------------
IsSeq(q) == \E S : q \in Seq(S)

LEMMA AppendTo ==
    ASSUME NEW q, IsSeq(q), NEW e
    PROVE  LET r == Append(q, e)
           IN  /\ IsSeq(r)
               /\ Len(q) \in Nat /\ Len(r) = Len(q) + 1
               /\ DOMAIN q = 1..Len(q) /\ DOMAIN r = 1..Len(r)
               /\ \A i \in 1..Len(q) : r[i] = q[i]
               /\ r[Len(q) + 1] = e
<1> PICK S : q \in Seq(S)
  BY DEF IsSeq
<1>1. q \in Seq(S \union {e}) /\ e \in S \union {e}
  OBVIOUS
<1> DEFINE T == S \union {e}
<1> HIDE DEF T
<1>2. q \in Seq(T) /\ e \in T
  BY <1>1 DEF T
<1>3. Append(q, e) \in Seq(T)
  BY <1>2
<1> QED
  BY <1>2, <1>3 DEF IsSeq

(* The calls a handler makes come before those that are left.              *)
LEMMA CallsBefore ==
    ASSUME NEW ts, IsSeq(ts), NEW q, IsSeq(q), q # <<>>
    PROVE  LET r == ts \o Tail(q)
           IN  /\ IsSeq(r)
               /\ Len(ts) \in Nat /\ Len(q) \in Nat
               /\ DOMAIN ts = 1..Len(ts) /\ DOMAIN q = 1..Len(q)
               /\ Len(r) = Len(ts) + Len(q) - 1
               /\ DOMAIN r = 1..(Len(ts) + Len(q) - 1)
               /\ \A k \in 1..Len(ts) : r[k] = ts[k]
               /\ \A k \in (Len(ts) + 1)..(Len(ts) + Len(q) - 1) :
                      r[k] = q[k - Len(ts) + 1]
<1> PICK S : ts \in Seq(S)
  BY DEF IsSeq
<1> PICK R : q \in Seq(R)
  BY DEF IsSeq
<1> DEFINE T == S \union R
<1>1. ts \in Seq(T) /\ q \in Seq(T)
  OBVIOUS
<1> HIDE DEF T
<1>2. ts \o Tail(q) \in Seq(T)
  BY <1>1
<1> QED
  BY <1>1, <1>2 DEF IsSeq

LEMMA VisitsOf ==
    ASSUME NEW ns \in Seq(Nat)
    PROVE  /\ IsSeq(Visits(ns))
           /\ DOMAIN Visits(ns) = DOMAIN ns /\ Len(Visits(ns)) = Len(ns)
           /\ \A i \in DOMAIN ns : Visits(ns)[i] = <<"visit", ns[i], 0>>
<1> DEFINE S == {<<"visit", ns[i], 0>> : i \in DOMAIN ns}
<1>1. Visits(ns) = [i \in 1..Len(ns) |-> <<"visit", ns[i], 0>>] /\ Len(ns) \in Nat
  BY DEF Visits, Task
<1>2. \A i \in 1..Len(ns) : <<"visit", ns[i], 0>> \in S
  OBVIOUS
<1> HIDE DEF S
<1>3. Visits(ns) \in Seq(S)
  BY <1>1, <1>2
<1>4. IsSeq(Visits(ns))
  BY <1>3 DEF IsSeq
<1>5. DOMAIN ns = 1..Len(ns)
  OBVIOUS
<1> QED
  BY <1>1, <1>4, <1>5

LEMMA VisitsThenAt ==
    ASSUME NEW ns \in Seq(Nat), NEW t
    PROVE  LET ts == Visits(ns) \o <<t>>
           IN  /\ IsSeq(ts)
               /\ Len(ns) \in Nat /\ DOMAIN ns = 1..Len(ns)
               /\ Len(ts) = Len(ns) + 1 /\ DOMAIN ts = 1..(Len(ns) + 1)
               /\ \A i \in DOMAIN ns : ts[i] = <<"visit", ns[i], 0>>
               /\ ts[Len(ns) + 1] = t
<1> DEFINE vs == Visits(ns)
<1>1. IsSeq(vs) /\ DOMAIN vs = DOMAIN ns /\ Len(vs) = Len(ns)
      /\ \A i \in DOMAIN ns : vs[i] = <<"visit", ns[i], 0>>
  BY VisitsOf
<1> HIDE DEF vs
<1> PICK S : vs \in Seq(S)
  BY <1>1 DEF IsSeq
<1> DEFINE T == S \union {t}
<1>2. vs \in Seq(T) /\ <<t>> \in Seq(T)
  OBVIOUS
<1> HIDE DEF T
<1>3. vs \o <<t>> \in Seq(T)
  BY <1>2
<1>4. /\ DOMAIN vs = 1..Len(vs) /\ Len(vs) \in Nat
      /\ DOMAIN (vs \o <<t>>) = 1..(Len(vs) + 1)
      /\ Len(vs \o <<t>>) = Len(vs) + 1
      /\ \A k \in 1..Len(vs) : (vs \o <<t>>)[k] = vs[k]
      /\ (vs \o <<t>>)[Len(vs) + 1] = t
  BY <1>2, <1>3
<1>5. Len(vs) = Len(ns) /\ Len(ns) \in Nat /\ DOMAIN ns = 1..Len(ns)
  BY <1>1
<1> QED
  BY <1>1, <1>3, <1>4, <1>5 DEF IsSeq, vs

LEMMA VisitsThen ==
    ASSUME NEW ns \in Seq(Nat), NEW t
    PROVE  LET ts == Visits(ns) \o <<t>>
           IN  /\ IsSeq(ts)
               /\ \A k \in DOMAIN ts :
                      ts[k] = t \/ \E i \in DOMAIN ns : ts[k] = <<"visit", ns[i], 0>>
<1> DEFINE ts == Visits(ns) \o <<t>>
<1>1. /\ IsSeq(ts)
      /\ Len(ns) \in Nat /\ DOMAIN ns = 1..Len(ns)
      /\ DOMAIN ts = 1..(Len(ns) + 1)
      /\ \A i \in DOMAIN ns : ts[i] = <<"visit", ns[i], 0>>
      /\ ts[Len(ns) + 1] = t
  BY VisitsThenAt
<1> HIDE DEF ts
<1>2. \A k \in DOMAIN ts : k = Len(ns) + 1 \/ k \in 1..Len(ns)
  BY <1>1
<1> QED
  BY <1>1, <1>2 DEF ts

LEMMA NextCalls ==
    ASSUME IsSeq(agenda), agenda # <<>>, NEW ts, IsSeq(ts), Then(ts)
    PROVE  /\ IsSeq(agenda')
           /\ Len(ts) \in Nat /\ Len(agenda) \in Nat
           /\ DOMAIN ts = 1..Len(ts) /\ DOMAIN agenda = 1..Len(agenda)
           /\ Len(agenda') = Len(ts) + Len(agenda) - 1
           /\ DOMAIN agenda' = 1..(Len(ts) + Len(agenda) - 1)
           /\ \A k \in 1..Len(ts) : agenda'[k] = ts[k]
           /\ \A k \in (Len(ts) + 1)..(Len(ts) + Len(agenda) - 1) :
                  agenda'[k] = agenda[k - Len(ts) + 1]
           /\ Head(agenda) = agenda[1] /\ 1 \in 1..Len(agenda)
<1>1. agenda' = ts \o Tail(agenda)
  BY DEF Then
<1>2. Head(agenda) = agenda[1] /\ 1 \in 1..Len(agenda)
  BY DEF IsSeq
<1> QED
  BY <1>1, <1>2, CallsBefore

-----------------------------------------------------------------------------
(* The shape of the tree, as the handlers rely on it.                      *)
LEMMA KidsAreNumbers ==
    ASSUME IsProgram(prog), NEW n \in Nodes
    PROVE  Kids(n) \in Seq(Nat)
<1>1. prog \in Seq(Node) /\ prog[n] \in Node
  BY DEF IsProgram, Nodes
<1> QED
  BY <1>1 DEF Node, Kids

(* The operands of an expression are expressions.                          *)
LEMMA OperandsAreExpressions ==
    ASSUME IsProgram(prog), NEW n \in Nodes,
           Kind(n) \in {"Binary", "Unary", "VarDecl", "Assign"}
    PROVE  /\ \A i \in DOMAIN Kids(n) : Kind(Kid(n, i)) \in ExprKinds
           /\ Kind(n) = "Assign" => Len(Kids(n)) = 2
<1> DEFINE kinds == [i \in DOMAIN prog[n].kids |-> prog[prog[n].kids[i]].kind]
<1>1. WellFormed(prog, n)
  BY DEF IsProgram, Nodes
<1>2. PICK allowed \in ChildKinds(prog[n].kind) :
         Len(kinds) = Len(allowed) /\ \A i \in DOMAIN kinds : kinds[i] \in allowed[i]
  BY <1>1 DEF WellFormed, Kind
<1>4. Kids(n) \in Seq(Nat)
  BY KidsAreNumbers
<1>5. /\ DOMAIN kinds = 1..Len(Kids(n))
      /\ Len(kinds) = Len(Kids(n))
      /\ \A i \in 1..Len(Kids(n)) : kinds[i] = Kind(Kid(n, i))
  BY <1>4 DEF Kids, Kid, Kind
<1> HIDE DEF kinds
<1>6. \/ allowed = <<>>
      \/ allowed = <<ExprKinds>>
      \/ allowed = <<ExprKinds, ExprKinds>>
  BY <1>2 DEF ChildKinds, Kind
<1>7. Kind(n) = "Assign" => allowed = <<ExprKinds, ExprKinds>>
  BY <1>2 DEF ChildKinds, Kind
<1>8. ASSUME NEW i \in 1..Len(Kids(n))
      PROVE  Kind(Kid(n, i)) \in ExprKinds
  <2>1. i \in 1..Len(allowed) /\ Kind(Kid(n, i)) \in allowed[i]
    BY <1>2, <1>5
  <2> HIDE DEF ExprKinds
  <2>2. allowed[i] = ExprKinds
    BY <1>6, <2>1
  <2> QED
    BY <2>1, <2>2
<1>9. Kind(n) = "Assign" => Len(Kids(n)) = 2
  BY <1>2, <1>5, <1>7
<1> QED
  BY <1>4, <1>8, <1>9

LEMMA KidsFit ==
    ASSUME IsProgram(prog), NEW n \in Nodes, Kind(n) \notin {"Program", "Block", "Call"}
    PROVE  \E allowed \in ChildKinds(Kind(n)) :
               /\ Len(Kids(n)) = Len(allowed)
               /\ \A i \in 1..Len(Kids(n)) : Kind(Kid(n, i)) \in allowed[i]
<1> DEFINE kinds == [i \in DOMAIN prog[n].kids |-> prog[prog[n].kids[i]].kind]
<1>1. WellFormed(prog, n)
  BY DEF IsProgram, Nodes
<1>2. PICK allowed \in ChildKinds(prog[n].kind) :
         Len(kinds) = Len(allowed) /\ \A i \in DOMAIN kinds : kinds[i] \in allowed[i]
  BY <1>1 DEF WellFormed, Kind
<1>3. Kids(n) \in Seq(Nat)
  BY KidsAreNumbers
<1>4. /\ DOMAIN kinds = 1..Len(Kids(n))
      /\ Len(kinds) = Len(Kids(n))
      /\ \A i \in 1..Len(Kids(n)) : kinds[i] = Kind(Kid(n, i))
  BY <1>3 DEF Kids, Kid, Kind
<1> HIDE DEF kinds
<1> QED
  BY <1>2, <1>4 DEF Kind

LEMMA IfHasKids ==
    ASSUME IsProgram(prog), NEW n \in Nodes, Kind(n) = "If"
    PROVE  /\ Len(Kids(n)) \in {2, 3}
           /\ Kind(Kid(n, 1)) \in ExprKinds
<1>1. PICK allowed \in ChildKinds(Kind(n)) :
         /\ Len(Kids(n)) = Len(allowed)
         /\ \A i \in 1..Len(Kids(n)) : Kind(Kid(n, i)) \in allowed[i]
  BY KidsFit
<1>2. allowed \in {<<ExprKinds, StmtKinds>>, <<ExprKinds, StmtKinds, StmtKinds>>}
  BY <1>1 DEF ChildKinds
<1> HIDE DEF ExprKinds, StmtKinds
<1>3. Len(allowed) \in {2, 3} /\ allowed[1] = ExprKinds
  BY <1>2
<1> QED
  BY <1>1, <1>3

LEMMA OneKid ==
    ASSUME IsProgram(prog), NEW n \in Nodes, Kind(n) \in {"Return", "Unary"}
    PROVE  /\ Len(Kids(n)) = 1
           /\ Kind(Kid(n, 1)) \in ExprKinds
<1>1. PICK allowed \in ChildKinds(Kind(n)) :
         /\ Len(Kids(n)) = Len(allowed)
         /\ \A i \in 1..Len(Kids(n)) : Kind(Kid(n, i)) \in allowed[i]
  BY KidsFit
<1>2. allowed = <<ExprKinds>>
  BY <1>1 DEF ChildKinds
<1> HIDE DEF ExprKinds
<1> QED
  BY <1>1, <1>2

LEMMA TwoKids ==
    ASSUME IsProgram(prog), NEW n \in Nodes, Kind(n) = "Binary"
    PROVE  Len(Kids(n)) = 2
<1>1. PICK allowed \in ChildKinds(Kind(n)) : Len(Kids(n)) = Len(allowed)
  BY KidsFit
<1>2. allowed = <<ExprKinds, ExprKinds>>
  BY <1>1 DEF ChildKinds
<1> HIDE DEF ExprKinds
<1> QED
  BY <1>1, <1>2

LEMMA VarDeclKids ==
    ASSUME IsProgram(prog), NEW n \in Nodes, Kind(n) = "VarDecl"
    PROVE  Len(Kids(n)) \in {0, 1}
<1>1. PICK allowed \in ChildKinds(Kind(n)) : Len(Kids(n)) = Len(allowed)
  BY KidsFit
<1>2. allowed \in {<<>>, <<ExprKinds>>}
  BY <1>1 DEF ChildKinds
<1> HIDE DEF ExprKinds
<1> QED
  BY <1>1, <1>2

(* No node but the root is a program.                                      *)
LEMMA KidsAreInside ==
    ASSUME IsProgram(prog), NEW n \in Nodes
    PROVE  \A i \in DOMAIN Kids(n) : Kid(n, i) \in Nodes /\ Kind(Kid(n, i)) # "Program"
<1>1. WellFormed(prog, n) /\ n \in Nat
  BY DEF IsProgram, Nodes
<1>2. Kids(n) \in Seq(Nat) /\ DOMAIN Kids(n) = 1..Len(Kids(n))
  BY KidsAreNumbers
<1>3. \A i \in DOMAIN Kids(n) : Kid(n, i) \in Nodes
  <2> TAKE i \in DOMAIN Kids(n)
  <2>1. Kid(n, i) \in (n + 1)..Len(prog)
    BY <1>1 DEF WellFormed, Kids, Kid
  <2> QED
    BY <1>1, <2>1 DEF IsProgram, Nodes
<1>4. CASE Kind(n) \in {"Program", "Block"}
  <2>1. \A i \in DOMAIN Kids(n) : Kind(Kid(n, i)) \in StmtKinds
    BY <1>1, <1>4 DEF WellFormed, Kids, Kid, Kind
  <2> QED
    BY <1>3, <2>1 DEF StmtKinds
<1>5. CASE Kind(n) = "Call"
  <2>1. \A i \in DOMAIN Kids(n) : Kind(Kid(n, i)) = "Arg"
    BY <1>1, <1>5 DEF WellFormed, Kids, Kid, Kind
  <2> QED
    BY <1>3, <2>1
<1>6. CASE Kind(n) \notin {"Program", "Block", "Call"}
  <2>1. PICK allowed \in ChildKinds(Kind(n)) :
           /\ Len(Kids(n)) = Len(allowed)
           /\ \A i \in 1..Len(Kids(n)) : Kind(Kid(n, i)) \in allowed[i]
    BY <1>6, KidsFit
  <2> DEFINE E == ExprKinds
             S == StmtKinds
  <2>2. "Program" \notin E /\ "Program" \notin S /\ "Program" \notin {"Block"}
    BY DEF ExprKinds, StmtKinds
  <2>3. allowed \in {<<>>, <<E>>, <<E, E>>, <<E, S>>, <<E, S, S>>, <<{"Block"}>>}
    BY <2>1 DEF ChildKinds
  <2> HIDE DEF E, S
  <2>4. \A i \in 1..Len(allowed) : "Program" \notin allowed[i]
    BY <2>2, <2>3
  <2> QED
    BY <1>2, <1>3, <2>1, <2>4
<1> QED
  BY <1>4, <1>5, <1>6
-----------------------------------------------------------------------------
(* The way up: from everything numbered there is a way to what has a lower *)
(* number, and the places on it are a function of where it begins.         *)
LEMMA WaysUp ==
    ASSUME NEW N \in Nat, NEW up, \A t \in 1..N : up[t] \in 0..(t - 1)
    PROVE  \E f \in [0..N -> SUBSET Nat] :
               f[0] = {} /\ \A t \in 1..N : f[t] = {t} \union f[up[t]]
<1> DEFINE Way(f, k) == /\ f \in [0..k -> SUBSET Nat]
                        /\ f[0] = {}
                        /\ \A t \in 1..k : f[t] = {t} \union f[up[t]]
           Without == {k \in 0..N : ~\E f : Way(f, k)}
<1>1. CASE Without = {}
  <2>1. N \in 0..N
    OBVIOUS
  <2>2. PICK f : Way(f, N)
    <3> HIDE DEF Way
    <3> QED
      BY <1>1, <2>1
  <2> QED
    BY <2>2
<1> SUFFICES ASSUME Without # {} PROVE FALSE
  BY <1>1
<1>2. PICK k \in Without : \A j \in Without : k <= j
  <2>1. Without \subseteq Nat
    <3> HIDE DEF Way
    <3> QED
      OBVIOUS
  <2> HIDE DEF Without
  <2> QED
    BY <2>1, LeastOf
<1>3. k # 0
  <2>1. Way([t \in 0..0 |-> {}], 0)
    OBVIOUS
  <2> QED
    BY <1>2, <2>1
<1>4. k - 1 \in 0..N /\ k \in 1..N
  <2> HIDE DEF Way
  <2> QED
    BY <1>2, <1>3
<1>5. PICK f : Way(f, k - 1)
  <2>1. ~(k <= k - 1)
    BY <1>4
  <2>2. k - 1 \notin Without
    <3> HIDE DEF Without
    <3> QED
      BY <1>2, <2>1
  <2> HIDE DEF Way
  <2> QED
    BY <1>4, <2>2
<1> DEFINE g == [t \in 0..k |-> IF t = k THEN {k} \union f[up[k]] ELSE f[t]]
<1>6. up[k] \in 0..(k - 1) /\ f[up[k]] \in SUBSET Nat
  BY <1>4, <1>5
<1>7. g \in [0..k -> SUBSET Nat]
  BY <1>4, <1>5, <1>6
<1>8. g[0] = {}
  BY <1>3, <1>4, <1>5
<1>9. ASSUME NEW t \in 1..k
      PROVE  g[t] = {t} \union g[up[t]]
  <2>1. up[t] \in 0..(t - 1) /\ up[t] # k /\ up[t] \in 0..k
    BY <1>4
  <2>2. g[up[t]] = f[up[t]]
    BY <2>1
  <2>3. CASE t = k
    BY <2>2, <2>3
  <2>4. CASE t # k
    <3>1. t \in 1..(k - 1) /\ g[t] = f[t]
      BY <1>4, <2>4
    <3> QED
      BY <1>5, <2>2, <3>1
  <2> QED
    BY <2>3, <2>4
<1>10. Way(g, k)
  <2> HIDE DEF g
  <2> QED
    BY <1>7, <1>8, <1>9
<1> QED
  BY <1>2, <1>10

-----------------------------------------------------------------------------
(* What is above a node.                                                   *)
LEMMA ParentsOf ==
    ASSUME NEW p, IsProgram(p)
    PROVE  /\ \A n \in 2..Len(p) : ParentOf(p, n) \in 1..(n - 1)
           /\ \A m \in DOMAIN p : \A i \in DOMAIN p[m].kids :
                  /\ p[m].kids[i] \in (m + 1)..Len(p)
                  /\ ParentOf(p, p[m].kids[i]) = m
<1>1. p \in Seq(Node) /\ Len(p) \in Nat /\ DOMAIN p = 1..Len(p)
  BY DEF IsProgram
<1>2. \A m \in DOMAIN p : \A i \in DOMAIN p[m].kids : p[m].kids[i] \in (m + 1)..Len(p)
  BY DEF IsProgram, WellFormed
<1>3. ASSUME NEW n, NEW m \in DOMAIN p, NEW i \in DOMAIN p[m].kids, p[m].kids[i] = n
      PROVE  ParentOf(p, n) = m
  <2>1. \A k \in DOMAIN p : (\E j \in DOMAIN p[k].kids : p[k].kids[j] = n) => k = m
    BY <1>3 DEF IsProgram, InOrder
  <2> QED
    BY <1>3, <2>1 DEF ParentOf
<1>4. ASSUME NEW n \in 2..Len(p)
      PROVE  ParentOf(p, n) \in 1..(n - 1)
  <2>1. PICK m \in DOMAIN p : \E i \in DOMAIN p[m].kids : p[m].kids[i] = n
    BY DEF IsProgram, InOrder
  <2>2. n \in (m + 1)..Len(p) /\ ParentOf(p, n) = m
    BY <1>2, <1>3, <2>1
  <2> QED
    BY <1>1, <2>2
<1> QED
  BY <1>2, <1>3, <1>4

LEMMA PathIs ==
    ASSUME NEW p, IsProgram(p)
    PROVE  /\ Path(p, 1) = {1}
           /\ \A n \in 2..Len(p) : Path(p, n) = {n} \union Path(p, ParentOf(p, n))
<1> DEFINE N == Len(p)
           path == CHOOSE path : path = [m \in DOMAIN p |->
                       IF m = 1 THEN {1} ELSE {m} \union path[ParentOf(p, m)]]
           up == [m \in 1..N |-> IF m = 1 THEN 0 ELSE ParentOf(p, m)]
<1>1. p \in Seq(Node) /\ N \in Nat /\ DOMAIN p = 1..N /\ 1 \in DOMAIN p
  BY DEF IsProgram
<1>2. \A n \in 2..N : ParentOf(p, n) \in 1..(n - 1)
  BY ParentsOf
<1>3. \A t \in 1..N : up[t] \in 0..(t - 1)
  BY <1>1, <1>2
<1>4. PICK f \in [0..N -> SUBSET Nat] :
         f[0] = {} /\ \A t \in 1..N : f[t] = {t} \union f[up[t]]
  <2> HIDE DEF up
  <2> QED
    BY <1>1, <1>3, WaysUp
<1> DEFINE g == [m \in DOMAIN p |-> f[m]]
<1>5. g = [m \in DOMAIN p |-> IF m = 1 THEN {1} ELSE {m} \union g[ParentOf(p, m)]]
  <2>1. ASSUME NEW m \in DOMAIN p
        PROVE  f[m] = IF m = 1 THEN {1} ELSE {m} \union g[ParentOf(p, m)]
    <3>1. CASE m = 1
      BY <1>1, <1>4, <3>1
    <3>2. CASE m # 1
      <4>1. m \in 2..N /\ ParentOf(p, m) \in DOMAIN p
        BY <1>1, <1>2, <3>2
      <4> QED
        BY <1>1, <1>4, <3>2, <4>1
    <3> QED
      BY <3>1, <3>2
  <2> QED
    BY <2>1
<1>6. path = [m \in DOMAIN p |-> IF m = 1 THEN {1} ELSE {m} \union path[ParentOf(p, m)]]
  <2> HIDE DEF g
  <2> QED
    BY <1>5
<1>7. \A n : Path(p, n) = path[n]
  BY DEF Path
<1> HIDE DEF path
<1>8. \A m \in DOMAIN p :
         path[m] = IF m = 1 THEN {1} ELSE {m} \union path[ParentOf(p, m)]
  BY <1>6
<1>9. \A n \in 2..N : path[n] = {n} \union path[ParentOf(p, n)]
  BY <1>1, <1>8
<1> QED
  BY <1>1, <1>7, <1>8, <1>9

LEMMA PathOfKid ==
    ASSUME NEW p, IsProgram(p), NEW m \in DOMAIN p, NEW i \in DOMAIN p[m].kids
    PROVE  Path(p, p[m].kids[i]) = {p[m].kids[i]} \union Path(p, m)
<1> DEFINE k == p[m].kids[i]
<1>1. k \in (m + 1)..Len(p) /\ ParentOf(p, k) = m
  BY ParentsOf
<1>2. m \in 1..Len(p) /\ Len(p) \in Nat
  BY DEF IsProgram
<1>3. k \in 2..Len(p)
  BY <1>1, <1>2
<1> HIDE DEF k
<1> QED
  BY <1>1, <1>3, PathIs DEF k

(* The path of a node goes from the root down to it, and the path of every *)
(* node on it is a part of it.                                             *)
LEMMA PathsGoUp ==
    ASSUME NEW p, IsProgram(p)
    PROVE  \A n \in DOMAIN p :
               /\ n \in Path(p, n) /\ 1 \in Path(p, n) /\ Path(p, n) \subseteq 1..n
               /\ \A m \in Path(p, n) :
                      /\ Path(p, m) \subseteq Path(p, n)
                      /\ m # n => \E i \in DOMAIN p[m].kids : p[m].kids[i] \in Path(p, n)
<1> DEFINE Up(n) == /\ n \in Path(p, n) /\ 1 \in Path(p, n) /\ Path(p, n) \subseteq 1..n
                    /\ \A m \in Path(p, n) :
                           /\ Path(p, m) \subseteq Path(p, n)
                           /\ m # n => \E i \in DOMAIN p[m].kids :
                                           p[m].kids[i] \in Path(p, n)
           S == {n \in DOMAIN p : Up(n)}
<1>1. DOMAIN p = 1..Len(p) /\ Len(p) \in Nat /\ 1 \in DOMAIN p
  BY DEF IsProgram
<1>2. ASSUME NEW n \in 1..Len(p), \A m \in 1..(n - 1) : m \in S
      PROVE  n \in S
  <2>1. CASE n = 1
    BY <1>1, <2>1, PathIs
  <2>2. CASE n # 1
    <3> DEFINE m == ParentOf(p, n)
    <3>1. n \in 2..Len(p)
      BY <2>2
    <3>2. m \in 1..(n - 1) /\ Path(p, n) = {n} \union Path(p, m)
      BY <3>1, ParentsOf, PathIs
    <3>3. \E i \in DOMAIN p[m].kids : p[m].kids[i] = n
      <4>1. \E k \in DOMAIN p : \E i \in DOMAIN p[k].kids : p[k].kids[i] = n
        BY <3>1 DEF IsProgram, InOrder
      <4> QED
        BY <4>1 DEF ParentOf
    <3> HIDE DEF m
    <3>4. Up(m)
      BY <1>2, <3>2
    <3>5. n \in Path(p, n) /\ 1 \in Path(p, n) /\ Path(p, n) \subseteq 1..n
      <4>1. \A x \in 1..m : x \in 1..n
        BY <3>2
      <4> QED
        BY <3>2, <3>4, <4>1
    <3>6. ASSUME NEW x \in Path(p, n)
          PROVE  /\ Path(p, x) \subseteq Path(p, n)
                 /\ x # n => \E i \in DOMAIN p[x].kids : p[x].kids[i] \in Path(p, n)
      <4>1. CASE x = n
        BY <4>1
      <4>2. CASE x = m
        BY <3>2, <3>3, <3>5, <4>2
      <4>3. CASE x \in Path(p, m) /\ x # m
        BY <3>2, <3>4, <4>3
      <4> QED
        BY <3>2, <4>1, <4>2, <4>3
    <3> QED
      BY <1>1, <3>5, <3>6
  <2> QED
    BY <2>1, <2>2
<1>3. 1..Len(p) \subseteq S
  <2> HIDE DEF S
  <2> QED
    BY <1>1, <1>2, UpTo
<1> QED
  BY <1>1, <1>3

(* Inside an expression there are only expressions and arguments.          *)
Expression(n) == Kind(n) \in ExprKinds \union {"Arg"}

LEMMA KindsOfKids ==
    ASSUME IsProgram(prog), NEW n \in Nodes
    PROVE  /\ \A i \in DOMAIN Kids(n) :
                  Kind(n) \notin {"Program", "Block", "Method", "If", "While"} =>
                      Expression(Kid(n, i))
           /\ \A i \in DOMAIN Kids(n) : Kind(n) = "Method" => Kind(Kid(n, i)) = "Block"
           /\ Kind(n) \in {"If", "While"} =>
                  /\ 1 \in DOMAIN Kids(n) /\ Kind(Kid(n, 1)) \in ExprKinds
                  /\ \A i \in DOMAIN Kids(n) : i # 1 => Kind(Kid(n, i)) \in StmtKinds
           /\ Kind(n) \in {"Program", "Block"} =>
                  \A i \in DOMAIN Kids(n) : Kind(Kid(n, i)) \in StmtKinds
           /\ Kind(n) \in {"Return", "ExprStmt", "Unary", "Arg", "Binary", "Assign"} =>
                  1 \in DOMAIN Kids(n)
           /\ Kind(n) \in {"Binary", "Assign"} => DOMAIN Kids(n) = {1, 2}
<1> DEFINE E == ExprKinds
           S == StmtKinds
<1>1. Kids(n) \in Seq(Nat) /\ DOMAIN Kids(n) = 1..Len(Kids(n)) /\ Len(Kids(n)) \in Nat
  BY KidsAreNumbers
<1>2. WellFormed(prog, n)
  BY DEF IsProgram, Nodes
<1>3. CASE Kind(n) \in {"Program", "Block"}
  BY <1>2, <1>3 DEF WellFormed, Kids, Kid, Kind
<1>4. CASE Kind(n) = "Call"
  BY <1>2, <1>4 DEF WellFormed, Kids, Kid, Kind, Expression
<1>5. CASE Kind(n) \notin {"Program", "Block", "Call"}
  <2>1. PICK allowed \in ChildKinds(Kind(n)) :
           /\ Len(Kids(n)) = Len(allowed)
           /\ \A i \in 1..Len(Kids(n)) : Kind(Kid(n, i)) \in allowed[i]
    BY <1>5, KidsFit
  <2>2. /\ Kind(n) \in {"Return", "ExprStmt", "Unary", "Arg"} => allowed = <<E>>
        /\ Kind(n) \in {"Binary", "Assign"} => allowed = <<E, E>>
        /\ Kind(n) = "VarDecl" => allowed \in {<<>>, <<E>>}
        /\ Kind(n) = "If" => allowed \in {<<E, S>>, <<E, S, S>>}
        /\ Kind(n) = "While" => allowed = <<E, S>>
        /\ Kind(n) = "Method" => allowed = <<{"Block"}>>
        /\ Kind(n) \notin {"Return", "ExprStmt", "Unary", "Arg", "Binary", "Assign",
                           "VarDecl", "If", "While", "Method"} => allowed = <<>>
    BY <1>5, <2>1 DEF ChildKinds
  <2> HIDE DEF E, S
  <2>3. \A i \in DOMAIN Kids(n) : Kind(Kid(n, i)) \in E => Expression(Kid(n, i))
    BY DEF Expression, E
  <2>4. CASE Kind(n) \in {"Return", "ExprStmt", "Unary", "Arg"}
    <3>1. Len(Kids(n)) = 1 /\ Kind(Kid(n, 1)) \in E
      BY <1>1, <2>1, <2>2, <2>4
    <3> QED
      BY <1>1, <2>3, <2>4, <3>1
  <2>5. CASE Kind(n) \in {"Binary", "Assign"}
    <3>1. Len(Kids(n)) = 2 /\ Kind(Kid(n, 1)) \in E /\ Kind(Kid(n, 2)) \in E
      BY <1>1, <2>1, <2>2, <2>5
    <3>2. DOMAIN Kids(n) = {1, 2}
      BY <1>1, <3>1
    <3> QED
      BY <2>3, <2>5, <3>1, <3>2
  <2>6. CASE Kind(n) = "VarDecl"
    <3>1. \A i \in 1..Len(Kids(n)) : Kind(Kid(n, i)) \in E
      BY <1>1, <2>1, <2>2, <2>6
    <3> QED
      BY <1>1, <2>3, <2>6, <3>1
  <2>7. CASE Kind(n) \in {"If", "While"}
    <3>1. allowed \in {<<E, S>>, <<E, S, S>>}
      BY <2>2, <2>7
    <3>2. /\ Len(allowed) >= 2 /\ allowed[1] = E
          /\ \A i \in 1..Len(allowed) : i # 1 => allowed[i] = S
      BY <3>1
    <3> QED
      BY <1>1, <2>1, <2>7, <3>2 DEF E, S
  <2>8. CASE Kind(n) = "Method"
    <3>0. Len(allowed) = 1 /\ allowed[1] = {"Block"}
      BY <2>2, <2>8
    <3>1. Len(Kids(n)) = 1 /\ Kind(Kid(n, 1)) \in {"Block"}
      BY <1>1, <2>1, <3>0
    <3> QED
      BY <1>1, <2>8, <3>1
  <2>9. CASE Kind(n) \notin {"Return", "ExprStmt", "Unary", "Arg", "Binary", "Assign",
                            "VarDecl", "If", "While", "Method"}
    <3>1. DOMAIN Kids(n) = {}
      BY <1>1, <2>1, <2>2, <2>9
    <3> QED
      BY <1>5, <2>9, <3>1
  <2> QED
    BY <2>4, <2>5, <2>6, <2>7, <2>8, <2>9
<1> QED
  BY <1>3, <1>4, <1>5

LEMMA InExpressions ==
    ASSUME IsProgram(prog), NEW m \in Nodes, Expression(m)
    PROVE  \A n \in Nodes : m \in Path(prog, n) => Expression(n)
<1> DEFINE S == {n \in Nodes : m \in Path(prog, n) => Expression(n)}
<1>1. Nodes = 1..Len(prog) /\ Len(prog) \in Nat
  BY DEF IsProgram, Nodes
<1>2. ASSUME NEW n \in 1..Len(prog), \A k \in 1..(n - 1) : k \in S,
             m \in Path(prog, n), m # n
      PROVE  Expression(n)
  <2> DEFINE k == ParentOf(prog, n)
  <2>1. n \in 2..Len(prog)
    BY <1>1, <1>2, PathIs
  <2>2. k \in 1..(n - 1) /\ Path(prog, n) = {n} \union Path(prog, k)
    BY <2>1, ParentsOf, PathIs
  <2>3. \E i \in DOMAIN prog[k].kids : prog[k].kids[i] = n
    <3>1. \E x \in DOMAIN prog : \E i \in DOMAIN prog[x].kids : prog[x].kids[i] = n
      BY <2>1 DEF IsProgram, InOrder
    <3> QED
      BY <3>1 DEF ParentOf
  <2> HIDE DEF k
  <2>4. Expression(k) /\ k \in Nodes
    BY <1>1, <1>2, <2>2
  <2>5. PICK i \in DOMAIN Kids(k) : Kid(k, i) = n
    BY <2>3 DEF Kids, Kid
  <2>6. Kind(k) \notin {"Program", "Block", "Method", "If", "While"}
    BY <2>4 DEF Expression, ExprKinds
  <2> QED
    BY <2>4, <2>5, <2>6, KindsOfKids
<1>3. ASSUME NEW n \in 1..Len(prog), \A k \in 1..(n - 1) : k \in S
      PROVE  n \in S
  <2> HIDE DEF Expression
  <2> QED
    BY <1>1, <1>2, <1>3
<1>4. 1..Len(prog) \subseteq S
  <2> HIDE DEF S
  <2> QED
    BY <1>1, <1>3, UpTo
<1> QED
  BY <1>1, <1>4

-----------------------------------------------------------------------------
(* The scopes around a scope.                                              *)
LEMMA ChainIs ==
    ASSUME NEW c, Len(c.scopes) \in Nat,
           \A s \in 1..Len(c.scopes) : c.scopes[s].parent \in 0..(s - 1)
    PROVE  /\ Chain(c, 0) = {}
           /\ \A s \in 1..Len(c.scopes) :
                  /\ Chain(c, s) = {s} \union Chain(c, c.scopes[s].parent)
                  /\ Chain(c, s) \subseteq 1..s
                  /\ \A t \in Chain(c, s) : Chain(c, t) \subseteq Chain(c, s)
<1> DEFINE N == Len(c.scopes)
           chain == CHOOSE chain : chain = [t \in 0..N |->
                        IF t = 0 THEN {} ELSE {t} \union chain[c.scopes[t].parent]]
           up == [t \in 1..N |-> c.scopes[t].parent]
<1>1. PICK f \in [0..N -> SUBSET Nat] :
         f[0] = {} /\ \A t \in 1..N : f[t] = {t} \union f[up[t]]
  <2>1. \A t \in 1..N : up[t] \in 0..(t - 1)
    OBVIOUS
  <2> HIDE DEF up
  <2> QED
    BY <2>1, WaysUp
<1>2. f = [t \in 0..N |-> IF t = 0 THEN {} ELSE {t} \union f[c.scopes[t].parent]]
  <2>1. ASSUME NEW t \in 0..N
        PROVE  f[t] = IF t = 0 THEN {} ELSE {t} \union f[c.scopes[t].parent]
    <3>1. CASE t = 0
      BY <1>1, <3>1
    <3>2. CASE t # 0
      <4>1. t \in 1..N /\ up[t] = c.scopes[t].parent
        BY <3>2
      <4> HIDE DEF up
      <4> QED
        BY <1>1, <3>2, <4>1
    <3> QED
      BY <3>1, <3>2
  <2> QED
    BY <2>1
<1>3. chain = [t \in 0..N |-> IF t = 0 THEN {} ELSE {t} \union chain[c.scopes[t].parent]]
  BY <1>2
<1>4. \A s : Chain(c, s) = chain[s]
  BY DEF Chain
<1> HIDE DEF chain
<1>5. /\ Chain(c, 0) = {}
      /\ \A s \in 1..N : Chain(c, s) = {s} \union Chain(c, c.scopes[s].parent)
  <2>1. \A t \in 0..N : chain[t] = IF t = 0 THEN {}
                                    ELSE {t} \union chain[c.scopes[t].parent]
    BY <1>3
  <2>2. chain[0] = {}
    <3>1. 0 \in 0..N
      OBVIOUS
    <3> QED
      BY <2>1, <3>1
  <2>3. ASSUME NEW s \in 1..N
        PROVE  chain[s] = {s} \union chain[c.scopes[s].parent]
    <3>1. s \in 0..N /\ s # 0
      OBVIOUS
    <3> HIDE DEF N
    <3> QED
      BY <2>1, <3>1
  <2> QED
    BY <1>4, <2>2, <2>3
<1> DEFINE S == {s \in 1..N : /\ Chain(c, s) \subseteq 1..s
                             /\ \A t \in Chain(c, s) : Chain(c, t) \subseteq Chain(c, s)}
<1>6. ASSUME NEW s \in 1..N, \A t \in 1..(s - 1) : t \in S
      PROVE  s \in S
  <2>1. PICK t : t = c.scopes[s].parent
    OBVIOUS
  <2>2. t \in 0..(s - 1) /\ Chain(c, s) = {s} \union Chain(c, t)
    BY <1>5, <2>1
  <2>3. CASE t = 0
    BY <1>5, <2>2, <2>3
  <2>4. CASE t # 0
    <3>1. t \in S /\ t \in 1..(s - 1)
      BY <1>6, <2>2, <2>4
    <3>2. \A x \in 1..t : x \in 1..s
      BY <3>1
    <3> QED
      BY <2>2, <3>1, <3>2
  <2> QED
    BY <2>2, <2>3, <2>4
<1>7. 1..N \subseteq S
  <2> HIDE DEF S
  <2> QED
    BY <1>6, UpTo
<1> QED
  BY <1>5, <1>7

(* The name is found in the innermost scope that declares it.              *)
LEMMA LookupFinds ==
    ASSUME NEW c, Len(c.scopes) \in Nat,
           \A t \in 1..Len(c.scopes) : c.scopes[t].parent \in 0..(t - 1),
           NEW s \in 0..Len(c.scopes), NEW x \in Names
    PROVE  \/ /\ LookupFrom(c, s, x) = NULL
              /\ \A t \in Chain(c, s) : c.scopes[t].symbols[x] = NULL
           \/ \E t \in Chain(c, s) :
                 /\ LookupFrom(c, s, x) = <<t, x>> /\ <<t, x>> # NULL
                 /\ t \in 1..Len(c.scopes)
                 /\ c.scopes[t].symbols[x] # NULL
                 /\ \A u \in Chain(c, s) : c.scopes[u].symbols[x] # NULL => u <= t
<1> DEFINE hits == {t \in Chain(c, s) : c.scopes[t].symbols[x] # NULL}
<1>1. Chain(c, s) \subseteq 1..Len(c.scopes)
  <2>1. CASE s = 0
    BY <2>1, ChainIs
  <2>2. CASE s # 0
    <3>1. Chain(c, s) \subseteq 1..s /\ s \in 1..Len(c.scopes)
      BY <2>2, ChainIs
    <3>2. \A t \in 1..s : t \in 1..Len(c.scopes)
      BY <3>1
    <3> QED
      BY <3>1, <3>2
  <2> QED
    BY <2>1, <2>2
<1>2. CASE hits = {}
  BY <1>2 DEF LookupFrom
<1>3. CASE hits # {}
  <2> DEFINE t == CHOOSE t \in hits : \A u \in hits : u <= t
  <2>1. hits \subseteq Nat /\ \A u \in hits : u <= Len(c.scopes)
    BY <1>1
  <2>2. \E y \in hits : \A u \in hits : u <= y
    <3> HIDE DEF hits
    <3> QED
      BY <1>3, <2>1, GreatestOf
  <2>3. t \in hits /\ \A u \in hits : u <= t
    <3> HIDE DEF hits
    <3> QED
      BY <2>2
  <2>4. LookupFrom(c, s, x) = <<t, x>>
    BY <1>3 DEF LookupFrom
  <2> HIDE DEF t
  <2>5. t \in Chain(c, s) /\ t \in 1..Len(c.scopes) /\ c.scopes[t].symbols[x] # NULL
    BY <1>1, <2>3
  <2>6. <<t, x>> \in Nat \X Names
    BY <2>5
  <2>7. <<t, x>> # NULL
    BY <2>6, ScopesAssumption
  <2> QED
    BY <2>3, <2>4, <2>5, <2>7
<1> QED
  BY <1>2, <1>3

-----------------------------------------------------------------------------
(* What lies below a node is numbered without a gap.                       *)
LEMMA ParentStep ==
    ASSUME NEW p, IsProgram(p), NEW n \in DOMAIN p, n # 1
    PROVE  /\ ParentOf(p, n) \in 1..(n - 1) /\ ParentOf(p, n) \in DOMAIN p
           /\ Path(p, n) = {n} \union Path(p, ParentOf(p, n))
           /\ \E i \in DOMAIN p[ParentOf(p, n)].kids : p[ParentOf(p, n)].kids[i] = n
<1>1. DOMAIN p = 1..Len(p) /\ Len(p) \in Nat
  BY DEF IsProgram
<1>2. n \in 2..Len(p)
  BY <1>1
<1>3. ParentOf(p, n) \in 1..(n - 1) /\ Path(p, n) = {n} \union Path(p, ParentOf(p, n))
  BY <1>2, ParentsOf, PathIs
<1>4. \E m \in DOMAIN p : \E i \in DOMAIN p[m].kids : p[m].kids[i] = n
  BY <1>2 DEF IsProgram, InOrder
<1>5. \E i \in DOMAIN p[ParentOf(p, n)].kids : p[ParentOf(p, n)].kids[i] = n
  BY <1>4 DEF ParentOf
<1> QED
  BY <1>1, <1>2, <1>3, <1>5

(* The arcs from parents to children nest.                                 *)
LEMMA ArcsNest ==
    ASSUME NEW p, IsProgram(p), NEW k \in DOMAIN p, NEW l \in DOMAIN p, k # 1, l # 1,
           ParentOf(p, k) < ParentOf(p, l), ParentOf(p, l) < k
    PROVE  l < k
<1> DEFINE m == ParentOf(p, k)
           n == ParentOf(p, l)
<1>1. m \in DOMAIN p /\ \E i \in DOMAIN p[m].kids : p[m].kids[i] = k
  BY ParentStep
<1>2. n \in DOMAIN p /\ \E i \in DOMAIN p[n].kids : p[n].kids[i] = l
  BY ParentStep
<1>3. m < n /\ n < k
  OBVIOUS
<1> HIDE DEF m, n
<1> QED
  BY <1>1, <1>2, <1>3 DEF IsProgram, InOrder

LEMMA Convex ==
    ASSUME NEW p, IsProgram(p), NEW n \in DOMAIN p, NEW y \in DOMAIN p, n \in Path(p, y)
    PROVE  \A x \in n..y : n \in Path(p, x)
<1> DEFINE S == {z \in DOMAIN p : n \in Path(p, z) => \A x \in n..z : n \in Path(p, x)}
<1>1. DOMAIN p = 1..Len(p) /\ Len(p) \in Nat
  BY DEF IsProgram
<1>2. ASSUME NEW z \in 1..Len(p), \A m \in 1..(z - 1) : m \in S, n \in Path(p, z)
      PROVE  \A x \in n..z : n \in Path(p, x)
  <2>0. z \in DOMAIN p /\ Path(p, z) \subseteq 1..z /\ n \in 1..z
    BY <1>1, <1>2, PathsGoUp
  <2>1. CASE z = n
    BY <1>2, <2>0, <2>1
  <2>2. CASE z # n
    <3>1. z # 1
      BY <2>0, <2>2
    <3>2. PICK q : q = ParentOf(p, z)
      OBVIOUS
    <3>3. q \in 1..(z - 1) /\ Path(p, z) = {z} \union Path(p, q)
      BY <2>0, <3>1, <3>2, ParentStep
    <3>4. n \in Path(p, q) /\ q \in S
      BY <1>2, <2>2, <3>3
    <3>5. \A x \in n..q : n \in Path(p, x)
      BY <3>4
    <3>6. q >= n
      <4>1. q \in DOMAIN p
        BY <1>1, <3>3
      <4>2. Path(p, q) \subseteq 1..q
        BY <4>1, PathsGoUp
      <4> QED
        BY <3>3, <3>4, <4>2
    <3> DEFINE T == {x \in (q + 1)..(z - 1) : n \notin Path(p, x)}
    <3>7. T = {}
      <4> SUFFICES ASSUME T # {} PROVE FALSE
        OBVIOUS
      <4>1. T \subseteq Nat
        BY <3>3
      <4>2. PICK x \in T : \A w \in T : x <= w
        <5> HIDE DEF T
        <5> QED
          BY <4>1, LeastOf
      <4>3. x \in (q + 1)..(z - 1) /\ n \notin Path(p, x)
        OBVIOUS
      <4>4. x \in DOMAIN p /\ x # 1
        BY <1>1, <3>3, <4>3
      <4>5. PICK r : r = ParentOf(p, x)
        OBVIOUS
      <4>6. r \in 1..(x - 1) /\ Path(p, x) = {x} \union Path(p, r)
        BY <4>4, <4>5, ParentStep
      <4>7. r >= q
        <5>1. ~(r < q /\ q < x /\ ~(z < x))
          BY <2>0, <3>1, <3>2, <4>4, <4>5, ArcsNest
        <5> QED
          BY <3>3, <4>3, <4>6, <5>1
      <4>8. n \in Path(p, r)
        <5>1. CASE r = q
          BY <3>4, <5>1
        <5>2. CASE r # q
          <6>1. r \in (q + 1)..(z - 1) /\ ~(x <= r)
            BY <3>3, <4>3, <4>6, <4>7, <5>2
          <6>2. r \notin T
            <7> HIDE DEF T
            <7> QED
              BY <4>2, <6>1
          <6> QED
            BY <6>1, <6>2
        <5> QED
          BY <5>1, <5>2
      <4> QED
        BY <4>3, <4>6, <4>8
    <3>8. ASSUME NEW x \in n..z
          PROVE  n \in Path(p, x)
      <4>1. x \in n..q \/ x \in (q + 1)..(z - 1) \/ x = z
        BY <2>0, <3>3, <3>6
      <4>2. x \in (q + 1)..(z - 1) => n \in Path(p, x)
        BY <3>7
      <4> QED
        BY <1>2, <3>5, <4>1, <4>2
    <3> QED
      BY <3>8
  <2> QED
    BY <2>1, <2>2
<1>3. ASSUME NEW z \in 1..Len(p), \A m \in 1..(z - 1) : m \in S
      PROVE  z \in S
  BY <1>1, <1>2, <1>3
<1>4. 1..Len(p) \subseteq S
  <2> HIDE DEF S
  <2> QED
    BY <1>1, <1>3, UpTo
<1> QED
  BY <1>1, <1>4

LEMMA KidsInOrder ==
    ASSUME NEW p, IsProgram(p), NEW n \in DOMAIN p
    PROVE  \A i \in DOMAIN p[n].kids :
              /\ p[n].kids[i] \in (n + 1)..Len(p)
              /\ p[n].kids[i] \in DOMAIN p
              /\ ParentOf(p, p[n].kids[i]) = n
              /\ \A j \in DOMAIN p[n].kids : i < j => p[n].kids[i] < p[n].kids[j]
<1>1. DOMAIN p = 1..Len(p) /\ Len(p) \in Nat
  BY DEF IsProgram
<1> TAKE i \in DOMAIN p[n].kids
<1>2. p[n].kids[i] \in (n + 1)..Len(p) /\ ParentOf(p, p[n].kids[i]) = n
  BY ParentsOf
<1>3. p[n].kids[i] \in DOMAIN p
  BY <1>1, <1>2
<1>4. \A j \in DOMAIN p[n].kids : i < j => p[n].kids[i] < p[n].kids[j]
  BY DEF IsProgram, InOrder
<1> QED
  BY <1>2, <1>3, <1>4

LEMMA KidsOf ==
    ASSUME NEW p, IsProgram(p), NEW n \in DOMAIN p
    PROVE  /\ p[n].kids \in Seq(Nat) /\ DOMAIN p[n].kids = 1..Len(p[n].kids)
           /\ Len(p[n].kids) \in Nat
<1>1. p[n] \in Node
  BY DEF IsProgram
<1>2. p[n].kids \in Seq(Nat)
  BY <1>1 DEF Node
<1> QED
  BY <1>2

(* The first child comes right after its parent, and between two children  *)
(* comes what is below the first of them.                                  *)
LEMMA FirstKid ==
    ASSUME NEW p, IsProgram(p), NEW n \in DOMAIN p, 1 \in DOMAIN p[n].kids
    PROVE  p[n].kids[1] = n + 1
<1>1. DOMAIN p = 1..Len(p) /\ Len(p) \in Nat
  BY DEF IsProgram
<1>2. PICK c : c = p[n].kids[1]
  OBVIOUS
<1>3. c \in (n + 1)..Len(p) /\ c \in DOMAIN p /\ ParentOf(p, c) = n
  BY <1>2, KidsInOrder
<1>4. n + 1 \in DOMAIN p /\ n + 1 # 1
  BY <1>1, <1>3
<1>5. PICK m : m = ParentOf(p, n + 1)
  OBVIOUS
<1>6. m \in 1..n
  BY <1>1, <1>4, <1>5, ParentStep
<1>7. CASE m = n
  <2>1. PICK i \in DOMAIN p[n].kids : p[n].kids[i] = n + 1
    BY <1>4, <1>5, <1>7, ParentStep
  <2>3. i = 1 \/ 1 < i
    BY KidsOf
  <2>4. 1 < i => c < n + 1
    BY <1>2, <2>1, KidsInOrder
  <2> QED
    BY <1>1, <1>2, <1>3, <2>1, <2>3, <2>4
<1>8. CASE m < n
  <2>1. c < n + 1
    <3>1. ParentOf(p, n + 1) < ParentOf(p, c) /\ ParentOf(p, c) < n + 1
      BY <1>1, <1>3, <1>5, <1>8
    <3>2. c # 1
      BY <1>1, <1>3
    <3> QED
      BY <1>3, <1>4, <3>1, <3>2, ArcsNest
  <2> QED
    BY <1>1, <1>3, <2>1
<1> QED
  BY <1>1, <1>6, <1>7, <1>8

LEMMA BelowKid ==
    ASSUME NEW p, IsProgram(p), NEW n \in DOMAIN p, NEW i \in DOMAIN p[n].kids,
           NEW x \in DOMAIN p, n \in Path(p, x), p[n].kids[i] <= x,
           i + 1 \in DOMAIN p[n].kids => x < p[n].kids[i + 1]
    PROVE  p[n].kids[i] \in Path(p, x)
<1>1. DOMAIN p = 1..Len(p) /\ Len(p) \in Nat
  BY DEF IsProgram
<1>2. PICK c : c = p[n].kids[i]
  OBVIOUS
<1>3. c \in (n + 1)..Len(p) /\ c \in DOMAIN p
  BY <1>2, KidsInOrder
<1>4. x # n
  BY <1>1, <1>2, <1>3
<1>5. PICK j \in DOMAIN p[n].kids : p[n].kids[j] \in Path(p, x)
  BY <1>4, PathsGoUp
<1>6. PICK d : d = p[n].kids[j]
  OBVIOUS
<1>7. d \in (n + 1)..Len(p) /\ d \in DOMAIN p /\ d \in 1..x
  <2>1. Path(p, x) \subseteq 1..x
    BY PathsGoUp
  <2> QED
    BY <1>5, <1>6, <2>1, KidsInOrder
<1>8. i \in Nat /\ j \in Nat /\ DOMAIN p[n].kids = 1..Len(p[n].kids) /\ Len(p[n].kids) \in Nat
  BY KidsOf
<1>9. CASE j = i
  BY <1>5, <1>9
<1>10. CASE i < j
  <2>1. i + 1 \in DOMAIN p[n].kids
    BY <1>8, <1>10
  <2>2. PICK e : e = p[n].kids[i + 1]
    OBVIOUS
  <2>3. e \in (n + 1)..Len(p) /\ x < e
    BY <2>1, <2>2, KidsInOrder
  <2>4. j = i + 1 \/ i + 1 < j
    BY <1>8, <1>10
  <2>5. e <= d
    <3>1. CASE j = i + 1
      BY <1>6, <2>2, <2>3, <3>1
    <3>2. CASE i + 1 < j
      BY <1>6, <1>7, <2>1, <2>2, <2>3, <3>2, KidsInOrder
    <3> QED
      BY <2>4, <3>1, <3>2
  <2> QED
    BY <1>1, <1>7, <2>3, <2>5
<1>11. CASE j < i
  <2>1. d < c /\ c \in d..x
    BY <1>1, <1>2, <1>3, <1>6, <1>7, <1>11, KidsInOrder
  <2>2. d \in Path(p, c)
    <3>1. d \in Path(p, x)
      BY <1>5, <1>6
    <3> QED
      BY <1>7, <2>1, <3>1, Convex
  <2>3. Path(p, c) = {c} \union Path(p, n) /\ Path(p, n) \subseteq 1..n
    BY <1>2, PathOfKid, PathsGoUp
  <2> QED
    BY <1>1, <1>3, <1>7, <2>1, <2>2, <2>3
<1> QED
  BY <1>8, <1>9, <1>10, <1>11

-----------------------------------------------------------------------------
Joins(q, r, s) ==
    /\ IsSeq(s) /\ Len(s) = Len(q) + Len(r)
    /\ \A k \in 1..Len(q) : s[k] = q[k]
    /\ \A k \in 1..Len(r) : s[Len(q) + k] = r[k]

LEMMA Joined ==
    ASSUME NEW q, IsSeq(q), NEW r, IsSeq(r)
    PROVE  Joins(q, r, q \o r)
<1> PICK S : q \in Seq(S)
  BY DEF IsSeq
<1> PICK R : r \in Seq(R)
  BY DEF IsSeq
<1> DEFINE T == S \union R
<1>1. q \in Seq(T) /\ r \in Seq(T)
  OBVIOUS
<1> HIDE DEF T
<1>2. q \o r \in Seq(T)
  BY <1>1
<1> QED
  BY <1>1, <1>2 DEF IsSeq, Joins

LEMMA OneTask ==
    ASSUME NEW t
    PROVE  IsSeq(<<t>>) /\ Len(<<t>>) = 1 /\ <<t>>[1] = t
<1>1. <<t>> \in Seq({t})
  OBVIOUS
<1> QED
  BY <1>1 DEF IsSeq

LEMMA HeadIs ==
    ASSUME NEW p, NEW what, NEW n, NEW i, Doing(p, what, n, i)
    PROVE  pass = p /\ agenda # <<>> /\ Head(agenda)[1] = what /\ Head(agenda)[2] = n
BY DEF Doing, Task

LEMMA KidsArePending ==
    ASSUME IsProgram(prog), NEW n \in Nodes
    PROVE  /\ Kids(n) \in Seq(Nat) /\ DOMAIN Kids(n) = 1..Len(Kids(n))
           /\ Len(Kids(n)) \in Nat
           /\ \A i \in DOMAIN Kids(n) :
                  Kids(n)[i] \in Nodes /\ Kids(n)[i] # 1 /\ Kids(n)[i] = Kid(n, i)
                  /\ Kid(n, i) > n
<1>1. Nodes = 1..Len(prog) /\ Len(prog) \in Nat
  BY DEF IsProgram, Nodes
<1>2. \A i \in DOMAIN Kids(n) : Kids(n)[i] \in (n + 1)..Len(prog) /\ Kids(n)[i] = Kid(n, i)
  BY KidsInOrder DEF Kids, Kid, Nodes
<1>3. Kids(n) \in Seq(Nat)
  BY KidsAreNumbers
<1> QED
  BY <1>1, <1>2, <1>3

(* The expressions of the arguments of a call.                             *)
LEMMA ArgumentsOf ==
    ASSUME IsProgram(prog), NEW n \in Nodes, Kind(n) = "Call"
    PROVE  LET ks == [i \in DOMAIN Kids(n) |-> Kid(Kid(n, i), 1)]
           IN  /\ ks \in Seq(Nat) /\ Len(ks) = Len(Kids(n))
               /\ \A i \in DOMAIN ks : /\ ks[i] \in Nodes /\ ks[i] # 1 /\ n < ks[i]
                                       /\ n \in Path(prog, ks[i])
               /\ \A i, j \in DOMAIN ks : i < j => ks[i] < ks[j]
<1> DEFINE ks == [i \in DOMAIN Kids(n) |-> Kid(Kid(n, i), 1)]
<1>1. /\ Kids(n) \in Seq(Nat) /\ DOMAIN Kids(n) = 1..Len(Kids(n)) /\ Len(Kids(n)) \in Nat
      /\ \A i \in DOMAIN Kids(n) : Kid(n, i) \in Nodes /\ Kid(n, i) > n
  BY KidsArePending
<1>2. \A i \in DOMAIN Kids(n) : Kind(Kid(n, i)) = "Arg"
  <2>1. WellFormed(prog, n)
    BY DEF IsProgram, Nodes
  <2> QED
    BY <2>1 DEF WellFormed, Kids, Kid, Kind
<1>3. ASSUME NEW i \in DOMAIN Kids(n)
      PROVE  /\ Kid(Kid(n, i), 1) = Kid(n, i) + 1 /\ Kid(Kid(n, i), 1) \in Nodes
             /\ n \in Path(prog, Kid(Kid(n, i), 1))
  <2>1. PICK m : m = Kid(n, i)
    OBVIOUS
  <2>2. m \in Nodes /\ Kind(m) = "Arg" /\ 1 \in DOMAIN Kids(m)
    BY <1>1, <1>2, <2>1, KindsOfKids
  <2>3. Kid(m, 1) = m + 1 /\ Kid(m, 1) \in Nodes
    BY <2>2, FirstKid, KidsArePending DEF Kids, Kid, Nodes
  <2>4. Path(prog, Kid(m, 1)) = {Kid(m, 1)} \union Path(prog, m)
    BY <2>2, PathOfKid DEF Kids, Kid, Nodes
  <2>5. Path(prog, m) = {m} \union Path(prog, n)
    BY <2>1, PathOfKid DEF Kids, Kid, Nodes
  <2>6. n \in Path(prog, n)
    BY PathsGoUp DEF Nodes
  <2> QED
    BY <2>1, <2>3, <2>4, <2>5, <2>6
<1>4. Nodes \subseteq Nat
  BY DEF IsProgram, Nodes
<1>5. ks \in Seq(Nat) /\ Len(ks) = Len(Kids(n)) /\ DOMAIN ks = DOMAIN Kids(n)
  <2>1. \A i \in 1..Len(Kids(n)) : Kid(Kid(n, i), 1) \in Nat
    BY <1>1, <1>3, <1>4
  <2>2. ks = [i \in 1..Len(Kids(n)) |-> Kid(Kid(n, i), 1)]
    BY <1>1
  <2> HIDE DEF ks
  <2> QED
    BY <1>1, <2>1, <2>2
<1>6. \A i \in DOMAIN ks : ks[i] = Kid(Kid(n, i), 1)
  OBVIOUS
<1>7. n \in Nat
  BY <1>4
<1> HIDE DEF ks
<1>8. \A i \in DOMAIN ks : /\ ks[i] \in Nodes /\ ks[i] # 1 /\ n < ks[i]
                           /\ n \in Path(prog, ks[i])
  <2> TAKE i \in DOMAIN ks
  <2>1. ks[i] = Kid(n, i) + 1 /\ ks[i] \in Nodes /\ n \in Path(prog, ks[i])
    BY <1>3, <1>5, <1>6
  <2>2. Kid(n, i) \in Nat /\ Kid(n, i) > n
    BY <1>1, <1>4, <1>5
  <2>3. n # 0
    BY DEF IsProgram, Nodes
  <2> QED
    BY <1>7, <2>1, <2>2, <2>3
<1>9. ASSUME NEW i \in DOMAIN ks, NEW j \in DOMAIN ks, i < j
      PROVE  ks[i] < ks[j]
  <2>1. Kid(n, i) < Kid(n, j)
    BY <1>5, <1>9, KidsInOrder DEF Kids, Kid, Nodes
  <2>2. Kid(n, i) \in Nat /\ Kid(n, j) \in Nat
    BY <1>1, <1>4, <1>5
  <2>3. ks[i] = Kid(n, i) + 1 /\ ks[j] = Kid(n, j) + 1
    BY <1>3, <1>5, <1>6
  <2> QED
    BY <2>1, <2>2, <2>3
<1>10. /\ ks \in Seq(Nat) /\ Len(ks) = Len(Kids(n))
       /\ \A i \in DOMAIN ks : /\ ks[i] \in Nodes /\ ks[i] # 1 /\ n < ks[i]
                               /\ n \in Path(prog, ks[i])
       /\ \A i, j \in DOMAIN ks : i < j => ks[i] < ks[j]
  BY <1>5, <1>8, <1>9
<1> QED
  BY <1>10 DEF ks

LEMMA LaterCalls ==
    ASSUME IsSeq(agenda), agenda # <<>>, NEW ts, IsSeq(ts), Then(ts)
    PROVE  \A k \in DOMAIN agenda : k # 1 =>
               \E j \in DOMAIN agenda' : agenda'[j] = agenda[k] /\ j = k + Len(ts) - 1
<1>1. /\ Len(ts) \in Nat /\ Len(agenda) \in Nat
      /\ DOMAIN agenda = 1..Len(agenda)
      /\ DOMAIN agenda' = 1..(Len(ts) + Len(agenda) - 1)
      /\ \A k \in (Len(ts) + 1)..(Len(ts) + Len(agenda) - 1) :
             agenda'[k] = agenda[k - Len(ts) + 1]
  BY NextCalls
<1> SUFFICES ASSUME NEW k \in DOMAIN agenda, k # 1
             PROVE  \E j \in DOMAIN agenda' :
                        agenda'[j] = agenda[k] /\ j = k + Len(ts) - 1
  OBVIOUS
<1>2. PICK j : j = k + Len(ts) - 1
  OBVIOUS
<1>3. j \in (Len(ts) + 1)..(Len(ts) + Len(agenda) - 1) /\ j - Len(ts) + 1 = k
  BY <1>1, <1>2
<1>4. agenda'[j] = agenda[k] /\ j \in DOMAIN agenda'
  BY <1>1, <1>3
<1> QED
  BY <1>2, <1>4

LEMMA NothingIsASequence == IsSeq(<<>>)
<1>1. <<>> \in Seq({})
  OBVIOUS
<1> QED
  BY <1>1 DEF IsSeq

LEMMA PlaceOf ==
    ASSUME NEW R, NEW q \in Seq(R), NEW i \in 1..Len(q)
    PROVE  i \in DOMAIN q /\ q[i] \in R
OBVIOUS

LEMMA PointwiseSeq ==
    ASSUME NEW R, NEW q \in Seq(R), NEW E, \A i \in 1..Len(q) : q[i] \in E
    PROVE  q \in Seq(E)
<1>1. Len(q) \in Nat /\ q = [i \in 1..Len(q) |-> q[i]]
  OBVIOUS
<1>2. q \in [1..Len(q) -> E]
  BY <1>1
<1> QED
  BY <1>1, <1>2

(* The subtrees of the children of a node come one after the other.        *)
LEMMA KidsApart ==
    ASSUME NEW p, IsProgram(p), NEW n \in DOMAIN p, NEW i \in DOMAIN p[n].kids,
           NEW j \in DOMAIN p[n].kids, i < j, NEW m \in DOMAIN p, p[n].kids[i] \in Path(p, m)
    PROVE  m < p[n].kids[j]
<1> DEFINE a == p[n].kids[i]
           b == p[n].kids[j]
<1>1. /\ a \in (n + 1)..Len(p) /\ a \in DOMAIN p /\ b \in (n + 1)..Len(p) /\ b \in DOMAIN p
      /\ a < b
  BY KidsInOrder
<1>2. Path(p, b) = {b} \union Path(p, n) /\ Path(p, n) \subseteq 1..n
  BY PathOfKid, PathsGoUp
<1>3. n \in Nat /\ m \in Nat /\ Len(p) \in Nat
  BY DEF IsProgram
<1>4. a \notin Path(p, b)
  BY <1>1, <1>2, <1>3
<1> HIDE DEF a, b
<1>5. \A x \in a..m : a \in Path(p, x)
  BY <1>1, Convex DEF a
<1>6. ~(b <= m)
  BY <1>1, <1>3, <1>4, <1>5
<1> QED
  BY <1>1, <1>3, <1>6 DEF b

(* The chain of a scope depends only on the parents of those before it.    *)
LEMMA SameChain ==
    ASSUME NEW c, Len(c.scopes) \in Nat,
           \A s \in 1..Len(c.scopes) : c.scopes[s].parent \in 0..(s - 1),
           NEW d, Len(d.scopes) \in Nat, Len(c.scopes) <= Len(d.scopes),
           \A s \in 1..Len(d.scopes) : d.scopes[s].parent \in 0..(s - 1),
           \A s \in 1..Len(c.scopes) : d.scopes[s].parent = c.scopes[s].parent
    PROVE  \A s \in 0..Len(c.scopes) : Chain(d, s) = Chain(c, s)
<1> DEFINE S == {s \in 1..Len(c.scopes) : Chain(d, s) = Chain(c, s)}
<1>1. Chain(c, 0) = {} /\ Chain(d, 0) = {}
  BY ChainIs
<1>2. ASSUME NEW s \in 1..Len(c.scopes), \A t \in 1..(s - 1) : t \in S
      PROVE  s \in S
  <2>1. PICK q : q = c.scopes[s].parent
    OBVIOUS
  <2>2. q \in 0..(s - 1) /\ d.scopes[s].parent = q /\ s \in 1..Len(d.scopes)
    BY <2>1
  <2>3. Chain(c, s) = {s} \union Chain(c, q) /\ Chain(d, s) = {s} \union Chain(d, q)
    BY <2>1, <2>2, ChainIs
  <2>4. Chain(c, q) = Chain(d, q)
    <3>1. q = 0 \/ q \in 1..(s - 1)
      BY <2>2
    <3> QED
      BY <1>1, <1>2, <3>1
  <2> QED
    BY <2>3, <2>4
<1> HIDE DEF S
<1>3. \A s \in 1..Len(c.scopes) : s \in S
  BY <1>2, UpTo
<1>4. \A s \in 1..Len(c.scopes) : Chain(d, s) = Chain(c, s)
  BY <1>3 DEF S
<1>5. \A s \in 0..Len(c.scopes) : s = 0 \/ s \in 1..Len(c.scopes)
  OBVIOUS
<1> QED
  BY <1>1, <1>4, <1>5

LEMMA OnlyKid ==
    ASSUME IsProgram(prog), NEW n \in Nodes, Kind(n) = "Method"
    PROVE  DOMAIN Kids(n) = {1}
<1>1. WellFormed(prog, n)
  BY DEF IsProgram, Nodes
<1>2. DOMAIN Kids(n) = 1..Len(Kids(n)) /\ Len(Kids(n)) \in Nat
  BY KidsArePending
<1>3. PICK kinds : kinds = [i \in DOMAIN prog[n].kids |-> prog[prog[n].kids[i]].kind]
  OBVIOUS
<1>4. prog[n].kind = "Method"
  BY DEF Kind
<1>5. \E allowed \in ChildKinds("Method") : Len(kinds) = Len(allowed)
  BY <1>1, <1>3, <1>4 DEF WellFormed
<1>6. Len(kinds) = Len(Kids(n))
  <2>1. DOMAIN kinds = 1..Len(Kids(n))
    BY <1>2, <1>3 DEF Kids
  <2>2. kinds = [i \in 1..Len(Kids(n)) |-> kinds[i]]
    BY <1>2, <1>3 DEF Kids
  <2> QED
    BY <1>2, <2>2
<1>7. ChildKinds("Method") = {<<{"Block"}>>}
  BY DEF ChildKinds
<1>8. Len(<<{"Block"}>>) = 1
  OBVIOUS
<1>9. Len(Kids(n)) = 1
  BY <1>5, <1>6, <1>7, <1>8
<1> QED
  BY <1>2, <1>9
=============================================================================
