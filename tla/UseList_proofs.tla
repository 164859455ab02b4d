--------------------------- MODULE UseList_proofs ---------------------------
(***************************************************************************)
(* What UseList guarantees for every number of values, users and cells,    *)
(* every operation order and every destruction order.                      *)
(***************************************************************************)
EXTENDS UseList, WellFoundedInduction, TLAPS

USE DEF Links

(* No list is cyclic: some ranking of the cells, bounded by top, strictly  *)
(* decreases along next.                                                   *)
RanksLists(l, rank, top) ==
    \A u \in Uses :
        /\ rank[u] <= top
        /\ l.next[u] # NULL => rank[l.next[u]] < rank[u]

Acyclic(l, Rank) ==
    \E rank \in [Uses -> Rank], top \in Rank : RanksLists(l, rank, top)

-----------------------------------------------------------------------------
(* The list operations keep the types of the pointers. *)

LEMMA AttachType ==
    ASSUME NEW l \in Links, NEW v \in Values \union {NULL}, NEW u \in Uses
    PROVE  Attach(l, v, u) \in Links
BY DEF Attach, AddUse

LEMMA DetachType ==
    ASSUME NEW l \in Links, NEW v \in Values \union {NULL}, NEW u \in Uses
    PROVE  Detach(l, v, u) \in Links
BY DEF Detach, RemoveUse

(* addUse keeps the lists well linked when the cell is in no list. *)
LEMMA AttachWellLinked ==
    ASSUME NEW l \in Links, NEW val \in [Uses -> Values \union {NULL}],
           NEW v \in Values \union {NULL}, NEW u \in Uses,
           WellLinked(l, val), val[u] = NULL
    PROVE  WellLinked(Attach(l, v, u), [val EXCEPT ![u] = v])
<1> DEFINE m == Attach(l, v, u)
           new == [val EXCEPT ![u] = v]
<1> USE UseListAssumption
<1>1. CASE v = NULL
  BY <1>1 DEF Attach, WellLinked, HeadLinked, NextLinked, PrevLinked, FrontIsHead
<1>2. CASE v \in Values
  <2>1. m = AddUse(l, v, u)
    BY <1>2 DEF Attach
  <2>2. l.prev[u] = NULL /\ l.next[u] = NULL
    BY DEF WellLinked, NextLinked, PrevLinked
  <2>3. HeadLinked(m, new)
    BY <1>2, <2>1, <2>2 DEF WellLinked, HeadLinked, AddUse
  <2>4. NextLinked(m, new)
    BY <1>2, <2>1, <2>2 DEF WellLinked, HeadLinked, NextLinked, AddUse
  <2>5. PrevLinked(m, new)
    BY <1>2, <2>1, <2>2 DEF WellLinked, HeadLinked, PrevLinked, AddUse
  <2>6. FrontIsHead(m, new)
    BY <1>2, <2>1, <2>2 DEF WellLinked, FrontIsHead, AddUse
  <2> QED
    BY <2>3, <2>4, <2>5, <2>6 DEF WellLinked
<1> QED
  BY <1>1, <1>2

(* removeUse takes the cell out of its list and leaves the rest of that    *)
(* list, and every other list, well linked.                                *)
LEMMA DetachWellLinked ==
    ASSUME NEW l \in Links, NEW val \in [Uses -> Values \union {NULL}],
           NEW u \in Uses, WellLinked(l, val)
    PROVE  WellLinked(Detach(l, val[u], u), [val EXCEPT ![u] = NULL])
<1> DEFINE m == Detach(l, val[u], u)
           new == [val EXCEPT ![u] = NULL]
<1> USE UseListAssumption
<1>1. CASE val[u] = NULL
  BY <1>1 DEF Detach, WellLinked, HeadLinked, NextLinked, PrevLinked, FrontIsHead
<1>2. CASE val[u] \in Values
  <2>1. m = RemoveUse(l, val[u], u)
    BY <1>2 DEF Detach
  <2>3. HeadLinked(m, new)
    BY <1>2, <2>1 DEF WellLinked, HeadLinked, NextLinked, PrevLinked, FrontIsHead, RemoveUse
  <2>4. NextLinked(m, new)
    BY <1>2, <2>1 DEF WellLinked, NextLinked, PrevLinked, RemoveUse
  <2>5. PrevLinked(m, new)
    BY <1>2, <2>1 DEF WellLinked, NextLinked, PrevLinked, RemoveUse
  <2>6. FrontIsHead(m, new)
    BY <1>2, <2>1 DEF WellLinked, NextLinked, PrevLinked, FrontIsHead, HeadLinked, RemoveUse
  <2> QED
    BY <2>3, <2>4, <2>5, <2>6 DEF WellLinked
<1> QED
  BY <1>1, <1>2

(* addUse keeps the lists acyclic: the new front ranks above the old one.  *)
LEMMA AttachAcyclic ==
    ASSUME NEW l \in Links, NEW val \in [Uses -> Values \union {NULL}],
           NEW v \in Values \union {NULL}, NEW u \in Uses,
           WellLinked(l, val), val[u] = NULL, Acyclic(l, Nat)
    PROVE  Acyclic(Attach(l, v, u), Nat)
<1> USE UseListAssumption
<1>1. CASE v = NULL
  BY <1>1 DEF Attach
<1>2. CASE v \in Values
  <2>1. PICK rank \in [Uses -> Nat], top \in Nat : RanksLists(l, rank, top)
    BY DEF Acyclic
  <2>2. l.prev[u] = NULL /\ l.next[u] = NULL
    BY DEF WellLinked, NextLinked, PrevLinked
  <2> DEFINE newRank == [rank EXCEPT ![u] = top + 1]
  <2>3. \A c \in Uses : l.next[c] # u
    BY <2>2 DEF WellLinked, NextLinked
  <2>4. l.head[v] # u
    BY <1>2 DEF WellLinked, HeadLinked
  <2>5. RanksLists(Attach(l, v, u), newRank, top + 1)
    BY <1>2, <2>1, <2>2, <2>3, <2>4 DEF RanksLists, Attach, AddUse
  <2>6. newRank \in [Uses -> Nat] /\ top + 1 \in Nat
    OBVIOUS
  <2> QED
    BY <2>5, <2>6 DEF Acyclic
<1> QED
  BY <1>1, <1>2

(* removeUse keeps the lists acyclic: it only shortens them. *)
LEMMA DetachAcyclic ==
    ASSUME NEW l \in Links, NEW val \in [Uses -> Values \union {NULL}],
           NEW u \in Uses, WellLinked(l, val), Acyclic(l, Nat)
    PROVE  Acyclic(Detach(l, val[u], u), Nat)
<1> USE UseListAssumption
<1>1. CASE val[u] = NULL
  BY <1>1 DEF Detach
<1>2. CASE val[u] \in Values
  <2>1. PICK rank \in [Uses -> Nat], top \in Nat : RanksLists(l, rank, top)
    BY DEF Acyclic
  <2>2. RanksLists(Detach(l, val[u], u), rank, top)
    <3> SUFFICES ASSUME NEW c \in Uses, Detach(l, val[u], u).next[c] # NULL
                 PROVE  rank[Detach(l, val[u], u).next[c]] < rank[c]
      BY <2>1 DEF RanksLists
    <3>1. c # u
      BY <1>2 DEF Detach, RemoveUse
    <3>2. CASE c = l.prev[u]
      <4>1. Detach(l, val[u], u).next[c] = l.next[u]
        BY <1>2, <3>1, <3>2 DEF Detach, RemoveUse
      <4>2. l.next[c] = u /\ l.next[u] # NULL
        BY <3>2, <4>1 DEF WellLinked, PrevLinked
      <4> QED
        BY <2>1, <4>1, <4>2 DEF RanksLists
    <3>3. CASE c # l.prev[u]
      BY <1>2, <2>1, <3>1, <3>3 DEF RanksLists, Detach, RemoveUse
    <3> QED
      BY <3>2, <3>3
  <2> QED
    BY <2>1, <2>2 DEF Acyclic
<1> QED
  BY <1>1, <1>2

-----------------------------------------------------------------------------
(* Every variable keeps the type of its declaration. *)
LEMMA TypeStep == TypeOK /\ [Next]_vars => TypeOK'
<1> SUFFICES ASSUME TypeOK, [Next]_vars PROVE TypeOK'
  OBVIOUS
<1> USE UseListAssumption
<1>1. ASSUME NEW v \in Values, Construct(v) PROVE TypeOK'
  BY <1>1 DEF TypeOK, Construct
<1>2. ASSUME NEW v \in Values, DestroyValue(v) PROVE TypeOK'
  BY <1>2 DEF TypeOK, DestroyValue, ReachesValueDtor
<1>3. ASSUME NEW w \in Users, BeginDestroy(w) PROVE TypeOK'
  BY <1>3 DEF TypeOK, BeginDestroy
<1>4. ASSUME NEW w \in Users, DeleteOperand(w) PROVE TypeOK'
  <2> DEFINE u == Head(operands[w])
  <2>1. operands[w] \in Seq(Uses) /\ operands[w] # <<>>
    BY <1>4 DEF TypeOK, DeleteOperand
  <2>2. u \in Uses /\ Tail(operands[w]) \in Seq(Uses)
    BY <2>1
  <2>3. value[u] \in Values \union {NULL}
    BY <2>2 DEF TypeOK
  <2>4. links' \in Links
    BY <1>4, <2>2, <2>3, DetachType DEF TypeOK, DeleteOperand
  <2> QED
    BY <1>4, <2>2, <2>4 DEF TypeOK, DeleteOperand
<1>5. ASSUME NEW w \in Users, NEW v \in Values \union {NULL}, AddOperand(w, v)
      PROVE TypeOK'
  <2>1. PICK u \in Free :
           /\ value' = [value EXCEPT ![u] = v]
           /\ user' = [user EXCEPT ![u] = w]
           /\ links' = Attach(links, v, u)
           /\ operands' = [operands EXCEPT ![w] = Append(@, u)]
    BY <1>5 DEF AddOperand
  <2>2. u \in Uses
    BY DEF Free
  <2>3. links' \in Links
    BY <2>1, <2>2, AttachType DEF TypeOK
  <2>4. Append(operands[w], u) \in Seq(Uses)
    BY <2>2 DEF TypeOK
  <2> QED
    BY <1>5, <2>1, <2>2, <2>3, <2>4 DEF TypeOK, AddOperand
<1>6. ASSUME NEW w \in Users, NEW v \in Values \union {NULL},
             NEW i \in DOMAIN operands[w], SetOperand(w, i, v)
      PROVE TypeOK'
  <2> DEFINE u == operands[w][i]
  <2>1. operands[w] \in Seq(Uses)
    BY DEF TypeOK
  <2>2. u \in Uses
    BY <2>1
  <2>3. Detach(links, value[u], u) \in Links
    BY <2>2, DetachType DEF TypeOK
  <2>4. links' \in Links
    BY <1>6, <2>2, <2>3, AttachType DEF SetOperand, Set
  <2> QED
    BY <1>6, <2>2, <2>4 DEF TypeOK, SetOperand
<1>7. CASE UNCHANGED vars
  BY <1>7 DEF TypeOK, vars
<1> QED
  BY <1>1, <1>2, <1>3, <1>4, <1>5, <1>6, <1>7 DEF Next

THEOREM TypeCorrect == Spec => []TypeOK
<1>1. Init => TypeOK
  <2>1. <<>> \in Seq(Uses)
    OBVIOUS
  <2>2. Init => links \in Links
    BY DEF Init
  <2>3. Init => operands \in [Users -> Seq(Uses)]
    BY <2>1 DEF Init
  <2> QED
    BY <2>2, <2>3 DEF Init, TypeOK
<1> QED
  BY <1>1, TypeStep, PTL DEF Spec

-----------------------------------------------------------------------------
(* The operand vectors own the allocated cells. *)
LEMMA OwnStep ==
    TypeOK /\ OperandsOwnCells /\ [Next]_vars => OperandsOwnCells'
<1> SUFFICES ASSUME TypeOK, OperandsOwnCells, [Next]_vars
             PROVE  OperandsOwnCells'
  OBVIOUS
<1> USE UseListAssumption
<1>1. ASSUME NEW v \in Values, Construct(v) PROVE OperandsOwnCells'
  BY <1>1 DEF OperandsOwnCells, Construct
<1>2. ASSUME NEW v \in Values, DestroyValue(v) PROVE OperandsOwnCells'
  BY <1>2 DEF OperandsOwnCells, DestroyValue, ReachesValueDtor
<1>3. ASSUME NEW w \in Users, BeginDestroy(w) PROVE OperandsOwnCells'
  BY <1>3 DEF OperandsOwnCells, BeginDestroy
<1>4. ASSUME NEW w \in Users, DeleteOperand(w) PROVE OperandsOwnCells'
  <2> DEFINE u == Head(operands[w])
             ops == operands[w]
  <2>1. ops \in Seq(Uses) /\ ops # <<>>
    BY <1>4 DEF TypeOK, DeleteOperand
  <2>2. /\ operands' = [operands EXCEPT ![w] = Tail(ops)]
        /\ user' = [user EXCEPT ![u] = NULL]
        /\ alive' = alive
    BY <1>4 DEF DeleteOperand
  <2>3. /\ u \in Uses /\ u = ops[1] /\ 1 \in DOMAIN ops
        /\ Tail(ops) \in Seq(Uses)
        /\ Len(Tail(ops)) = Len(ops) - 1
        /\ \A i \in DOMAIN Tail(ops) : i + 1 \in DOMAIN ops /\ Tail(ops)[i] = ops[i + 1]
        /\ \A j \in DOMAIN ops : j # 1 => j - 1 \in DOMAIN Tail(ops)
    BY <2>1
  <2>4. \A x \in Users : \A i \in DOMAIN operands'[x] : user'[operands'[x][i]] = x
    <3> SUFFICES ASSUME NEW x \in Users, NEW i \in DOMAIN operands'[x]
                 PROVE  user'[operands'[x][i]] = x
      OBVIOUS
    <3>1. CASE x = w
      <4>1. operands'[x][i] = ops[i + 1] /\ i + 1 \in DOMAIN ops /\ i + 1 # 1
        BY <2>2, <2>3, <3>1 DEF TypeOK
      <4>2. ops[i + 1] # u /\ user[ops[i + 1]] = w
        BY <2>3, <4>1 DEF OperandsOwnCells
      <4> QED
        BY <2>2, <3>1, <4>1, <4>2 DEF TypeOK
    <3>2. CASE x # w
      <4>1. operands'[x] = operands[x] /\ user[operands[x][i]] = x
        BY <2>2, <3>2 DEF TypeOK, OperandsOwnCells
      <4>2. user[u] = w
        BY <2>3 DEF OperandsOwnCells
      <4> QED
        BY <2>2, <2>3, <3>2, <4>1, <4>2 DEF TypeOK
    <3> QED
      BY <3>1, <3>2
  <2>5. \A x \in Users : \A i, j \in DOMAIN operands'[x] :
           operands'[x][i] = operands'[x][j] => i = j
    <3> SUFFICES ASSUME NEW x \in Users,
                        NEW i \in DOMAIN operands'[x], NEW j \in DOMAIN operands'[x],
                        operands'[x][i] = operands'[x][j]
                 PROVE  i = j
      OBVIOUS
    <3>1. CASE x = w
      <4>1. /\ i \in Int /\ i + 1 \in DOMAIN ops /\ operands'[x][i] = ops[i + 1]
            /\ j \in Int /\ j + 1 \in DOMAIN ops /\ operands'[x][j] = ops[j + 1]
        BY <2>2, <2>3, <3>1 DEF TypeOK
      <4>2. i + 1 = j + 1
        <5>1. ops[i + 1] = ops[j + 1]
          BY <4>1
        <5>2. \A m, n \in DOMAIN ops : ops[m] = ops[n] => m = n
          BY DEF OperandsOwnCells
        <5> QED
          BY <4>1, <5>1, <5>2
      <4> QED
        BY <4>1, <4>2
    <3>2. CASE x # w
      BY <2>2, <3>2 DEF TypeOK, OperandsOwnCells
    <3> QED
      BY <3>1, <3>2
  <2>6. \A c \in Uses : user'[c] # NULL =>
           \E i \in DOMAIN operands'[user'[c]] : operands'[user'[c]][i] = c
    <3> SUFFICES ASSUME NEW c \in Uses, user'[c] # NULL
                 PROVE  \E i \in DOMAIN operands'[user'[c]] :
                            operands'[user'[c]][i] = c
      OBVIOUS
    <3>1. c # u /\ user'[c] = user[c] /\ user[c] \in Users
      BY <2>2, <2>3 DEF TypeOK
    <3>2. PICK j \in DOMAIN operands[user[c]] : operands[user[c]][j] = c
      BY <3>1 DEF OperandsOwnCells
    <3>3. CASE user[c] = w
      <4>1. j \in Int /\ j # 1
        BY <2>1, <2>3, <3>1, <3>2, <3>3
      <4>2. j - 1 \in DOMAIN Tail(ops) /\ Tail(ops)[j - 1] = c
        BY <2>3, <3>2, <3>3, <4>1
      <4> QED
        BY <2>2, <3>1, <3>3, <4>2 DEF TypeOK
    <3>4. CASE user[c] # w
      BY <2>2, <3>1, <3>2, <3>4 DEF TypeOK
    <3> QED
      BY <3>3, <3>4
  <2>7. \A x \in Users : x \notin alive' => operands'[x] = <<>>
    BY <2>1, <2>2 DEF TypeOK, OperandsOwnCells
  <2> QED
    BY <2>4, <2>5, <2>6, <2>7 DEF OperandsOwnCells
<1>5. ASSUME NEW w \in Users, NEW v \in Values \union {NULL}, AddOperand(w, v)
      PROVE OperandsOwnCells'
  <2> DEFINE ops == operands[w]
  <2>1. PICK u \in Free :
           /\ user' = [user EXCEPT ![u] = w]
           /\ operands' = [operands EXCEPT ![w] = Append(ops, u)]
    BY <1>5 DEF AddOperand
  <2>2. u \in Uses /\ user[u] = NULL /\ w \in alive /\ alive' = alive
    BY <1>5 DEF AddOperand, Free
  <2>3. /\ ops \in Seq(Uses)
        /\ DOMAIN Append(ops, u) = 1..(Len(ops) + 1)
        /\ DOMAIN ops = 1..Len(ops)
        /\ Append(ops, u)[Len(ops) + 1] = u
        /\ \A i \in DOMAIN ops : Append(ops, u)[i] = ops[i]
        /\ Len(ops) \in Nat
    BY <2>2 DEF TypeOK
  <2>4. \A x \in Users : \A i \in DOMAIN operands[x] :
           operands[x][i] # u /\ operands[x][i] \in Uses
    BY <2>2 DEF TypeOK, OperandsOwnCells
  <2>5. \A x \in Users : \A i \in DOMAIN operands'[x] : user'[operands'[x][i]] = x
    BY <2>1, <2>2, <2>3, <2>4 DEF TypeOK, OperandsOwnCells
  <2>6. \A x \in Users : \A i, j \in DOMAIN operands'[x] :
           operands'[x][i] = operands'[x][j] => i = j
    BY <2>1, <2>2, <2>3, <2>4 DEF TypeOK, OperandsOwnCells
  <2>7. \A c \in Uses : user'[c] # NULL =>
           \E i \in DOMAIN operands'[user'[c]] : operands'[user'[c]][i] = c
    <3> SUFFICES ASSUME NEW c \in Uses, user'[c] # NULL
                 PROVE  \E i \in DOMAIN operands'[user'[c]] :
                            operands'[user'[c]][i] = c
      OBVIOUS
    <3>1. CASE c = u
      <4>1. user'[c] = w /\ operands'[w] = Append(ops, u)
        BY <2>1, <2>2, <3>1 DEF TypeOK
      <4>2. Len(ops) + 1 \in DOMAIN operands'[w] /\ operands'[w][Len(ops) + 1] = c
        BY <2>3, <3>1, <4>1
      <4> QED
        BY <4>1, <4>2
    <3>2. CASE c # u
      <4>1. user'[c] = user[c] /\ user[c] \in Users
        BY <2>1, <2>2, <3>2 DEF TypeOK
      <4>2. PICK j \in DOMAIN operands[user[c]] : operands[user[c]][j] = c
        BY <4>1 DEF OperandsOwnCells
      <4>3. j \in DOMAIN operands'[user[c]] /\ operands'[user[c]][j] = c
        BY <2>1, <2>3, <4>1, <4>2 DEF TypeOK
      <4> QED
        BY <4>1, <4>3
    <3> QED
      BY <3>1, <3>2
  <2>8. \A x \in Users : x \notin alive' => operands'[x] = <<>>
    BY <2>1, <2>2 DEF TypeOK, OperandsOwnCells
  <2> QED
    BY <2>5, <2>6, <2>7, <2>8 DEF OperandsOwnCells
<1>6. ASSUME NEW w \in Users, NEW v \in Values \union {NULL},
             NEW i \in DOMAIN operands[w], SetOperand(w, i, v)
      PROVE OperandsOwnCells'
  BY <1>6 DEF OperandsOwnCells, SetOperand
<1>7. CASE UNCHANGED vars
  BY <1>7 DEF OperandsOwnCells, vars
<1> QED
  BY <1>1, <1>2, <1>3, <1>4, <1>5, <1>6, <1>7 DEF Next

(* Every allocated cell is an operand of exactly one live user. *)
THEOREM OwnershipCorrect == Spec => []OperandsOwnCells
<1>1. Init => OperandsOwnCells
  BY UseListAssumption DEF Init, OperandsOwnCells
<1> QED
  BY <1>1, TypeCorrect, OwnStep, PTL DEF Spec

-----------------------------------------------------------------------------
(* The inductive invariant.  That the assert of ~Value is exact is not     *)
(* inductive: it needs the pointers to agree, and the lists to be acyclic, *)
(* for a detached ring of cells would be invisible from use_list.          *)
CellsInv ==
    /\ FreeCellsUnused
    /\ WellLinked(links, value)
    /\ Acyclic(links, Nat)
    /\ NoDanglingOperand

(* A cell without predecessor exists among the uses of a value: the one    *)
(* that ranks highest.  It is the head of the list.                        *)
LEMMA UsedValueHasHead ==
    ASSUME NEW l \in Links, NEW val \in [Uses -> Values \union {NULL}],
           WellLinked(l, val), Acyclic(l, Nat),
           NEW v \in Values, NEW u \in Uses, val[u] = v
    PROVE  l.head[v] # NULL
<1> USE UseListAssumption
<1>1. PICK rank \in [Uses -> Nat], top \in Nat : RanksLists(l, rank, top)
  BY DEF Acyclic
<1> DEFINE cells == {c \in Uses : val[c] = v}
           depths == {top - rank[c] : c \in cells}
<1>2. \A c \in Uses : rank[c] <= top /\ rank[c] \in Nat
  BY <1>1 DEF RanksLists
<1>3. depths \subseteq Nat /\ depths # {}
  BY <1>2
<1>4. PICK d \in depths : \A e \in depths : d <= e
  <2>1. PICK d \in depths : \A e \in depths : ~ (<<e, d>> \in OpToRel(<, Nat))
    <3> HIDE DEF depths
    <3> QED
      BY <1>3, NatLessThanWellFounded, WFMin
  <2>2. \A e \in depths : d \in Nat /\ e \in Nat /\ ~ (e < d)
    BY <1>3, <2>1 DEF OpToRel
  <2>3. ASSUME NEW e \in depths PROVE d <= e
    <3>1. d \in Nat /\ e \in Nat /\ ~ (e < d)
      BY <2>2
    <3> QED
      BY <3>1, SMT
  <2> HIDE DEF depths
  <2> QED
    BY <2>3
<1>5. PICK c \in cells : d = top - rank[c]
  OBVIOUS
<1>6. l.prev[c] = NULL
  <2> SUFFICES ASSUME l.prev[c] # NULL PROVE FALSE
    OBVIOUS
  <2> DEFINE p == l.prev[c]
  <2>1. p \in Uses /\ p \in cells /\ l.next[p] = c
    BY DEF WellLinked, PrevLinked
  <2>2. rank[c] < rank[p]
    BY <1>1, <2>1 DEF RanksLists
  <2>3. d <= top - rank[p]
    BY <1>4, <2>1
  <2> QED
    BY <1>2, <1>5, <2>1, <2>2, <2>3
<1>7. l.head[v] = c
  BY <1>6 DEF WellLinked, FrontIsHead
<1> QED
  BY <1>7

LEMMA UseEmptyExact == TypeOK /\ CellsInv => UseEmptyIsExact
<1> SUFFICES ASSUME TypeOK, CellsInv, NEW v \in Values
             PROVE  links.head[v] = NULL <=> \A u \in Uses : value[u] # v
  BY DEF UseEmptyIsExact
<1> USE UseListAssumption
<1>1. ASSUME links.head[v] # NULL PROVE \E u \in Uses : value[u] = v
  BY <1>1 DEF TypeOK, CellsInv, WellLinked, HeadLinked
<1>2. ASSUME NEW u \in Uses, value[u] = v PROVE links.head[v] # NULL
  BY <1>2, UsedValueHasHead DEF TypeOK, CellsInv
<1> QED
  BY <1>1, <1>2

LEMMA CellsInit == Init => CellsInv
<1> SUFFICES ASSUME Init PROVE CellsInv
  OBVIOUS
<1> USE UseListAssumption DEF Init
<1>1. FreeCellsUnused /\ NoDanglingOperand
  BY DEF FreeCellsUnused, NoDanglingOperand, Free
<1>2. WellLinked(links, value)
  BY DEF WellLinked, HeadLinked, NextLinked, PrevLinked, FrontIsHead
<1>3. Acyclic(links, Nat)
  <2> DEFINE rank == [u \in Uses |-> 0]
  <2>1. rank \in [Uses -> Nat] /\ 0 \in Nat
    OBVIOUS
  <2>2. RanksLists(links, rank, 0)
    BY DEF RanksLists
  <2> QED
    BY <2>1, <2>2 DEF Acyclic
<1> QED
  BY <1>1, <1>2, <1>3 DEF CellsInv

LEMMA CellsStep ==
    TypeOK /\ OperandsOwnCells /\ CellsInv /\ [Next]_vars => CellsInv'
<1> SUFFICES ASSUME TypeOK, OperandsOwnCells, CellsInv, [Next]_vars PROVE CellsInv'
  OBVIOUS
<1> USE UseListAssumption
<1>1. ASSUME NEW v \in Values, Construct(v) PROVE CellsInv'
  <2>1. links.head[v] = NULL
    BY <1>1 DEF TypeOK, CellsInv, Construct, NoDanglingOperand, WellLinked, HeadLinked
  <2>2. links' = links
    BY <1>1, <2>1 DEF TypeOK, Construct
  <2> QED
    BY <1>1, <2>2 DEF CellsInv, Construct, FreeCellsUnused, Free, NoDanglingOperand
<1>2. ASSUME NEW v \in Values, DestroyValue(v) PROVE CellsInv'
  <2>1. links' = links /\ value' = value /\ user' = user
    BY <1>2 DEF DestroyValue
  <2>2. CASE links.head[v] = NULL
    <3>1. \A u \in Uses : value[u] # v
      BY <2>2, UseEmptyExact DEF UseEmptyIsExact
    <3> QED
      BY <1>2, <2>1, <2>2, <3>1
      DEF CellsInv, DestroyValue, FreeCellsUnused, Free, NoDanglingOperand
  <2>3. CASE links.head[v] # NULL
    BY <1>2, <2>1, <2>3
    DEF CellsInv, DestroyValue, FreeCellsUnused, Free, NoDanglingOperand
  <2> QED
    BY <2>2, <2>3
<1>3. ASSUME NEW w \in Users, BeginDestroy(w) PROVE CellsInv'
  BY <1>3 DEF CellsInv, BeginDestroy, FreeCellsUnused, Free, NoDanglingOperand
<1>4. ASSUME NEW w \in Users, DeleteOperand(w) PROVE CellsInv'
  <2> DEFINE u == Head(operands[w])
  <2>1. operands[w] \in Seq(Uses) /\ operands[w] # <<>>
    BY <1>4 DEF TypeOK, DeleteOperand
  <2>2. u \in Uses
    BY <2>1
  <2>3. /\ links' = Detach(links, value[u], u)
        /\ value' = [value EXCEPT ![u] = NULL]
        /\ user' = [user EXCEPT ![u] = NULL]
        /\ alive' = alive
    BY <1>4 DEF DeleteOperand
  <2>4. WellLinked(links', value')
    BY <2>2, <2>3, DetachWellLinked DEF TypeOK, CellsInv
  <2>5. Acyclic(links', Nat)
    BY <2>2, <2>3, DetachAcyclic DEF TypeOK, CellsInv
  <2>6. FreeCellsUnused' /\ NoDanglingOperand'
    BY <2>2, <2>3 DEF TypeOK, CellsInv, FreeCellsUnused, Free, NoDanglingOperand
  <2> QED
    BY <2>4, <2>5, <2>6 DEF CellsInv
<1>5. ASSUME NEW w \in Users, NEW v \in Values \union {NULL}, AddOperand(w, v)
      PROVE CellsInv'
  <2>1. PICK u \in Free :
           /\ value' = [value EXCEPT ![u] = v]
           /\ user' = [user EXCEPT ![u] = w]
           /\ links' = Attach(links, v, u)
    BY <1>5 DEF AddOperand
  <2>2. u \in Uses /\ value[u] = NULL
    BY DEF CellsInv, Free, FreeCellsUnused
  <2>3. v \in alive \union {NULL} /\ alive' = alive
    BY <1>5 DEF AddOperand
  <2>4. WellLinked(links', value')
    BY <2>1, <2>2, AttachWellLinked DEF TypeOK, CellsInv
  <2>5. Acyclic(links', Nat)
    BY <2>1, <2>2, AttachAcyclic DEF TypeOK, CellsInv
  <2>6. FreeCellsUnused' /\ NoDanglingOperand'
    BY <2>1, <2>2, <2>3 DEF TypeOK, CellsInv, FreeCellsUnused, Free, NoDanglingOperand
  <2> QED
    BY <2>4, <2>5, <2>6 DEF CellsInv
<1>6. ASSUME NEW w \in Users, NEW v \in Values \union {NULL},
             NEW i \in DOMAIN operands[w], SetOperand(w, i, v)
      PROVE CellsInv'
  <2> DEFINE u == operands[w][i]
             l1 == Detach(links, value[u], u)
             val1 == [value EXCEPT ![u] = NULL]
  <2>1. operands[w] \in Seq(Uses)
    BY DEF TypeOK
  <2>2. u \in Uses
    BY <2>1
  <2>3. /\ links' = Attach(l1, v, u)
        /\ value' = [val1 EXCEPT ![u] = v]
        /\ user' = user /\ alive' = alive
    BY <1>6, <2>2 DEF SetOperand, Set, TypeOK
  <2>4. l1 \in Links /\ val1 \in [Uses -> Values \union {NULL}] /\ val1[u] = NULL
    BY <2>2, DetachType DEF TypeOK
  <2>5. WellLinked(l1, val1) /\ Acyclic(l1, Nat)
    BY <2>2, DetachWellLinked, DetachAcyclic DEF TypeOK, CellsInv
  <2> HIDE DEF l1, val1
  <2>6. WellLinked(links', value')
    BY <2>2, <2>3, <2>4, <2>5, AttachWellLinked
  <2>7. Acyclic(links', Nat)
    BY <2>2, <2>3, <2>4, <2>5, AttachAcyclic
  <2>8. FreeCellsUnused' /\ NoDanglingOperand'
    <3>1. user[u] = w
      BY DEF OperandsOwnCells
    <3>2. v \in alive \union {NULL}
      BY <1>6 DEF SetOperand
    <3>3. value' = [value EXCEPT ![u] = v]
      BY <1>6 DEF SetOperand
    <3>4. FreeCellsUnused'
      BY <2>2, <2>3, <3>1, <3>3
      DEF TypeOK, CellsInv, FreeCellsUnused, Free
    <3>5. NoDanglingOperand'
      BY <2>2, <2>3, <3>2, <3>3 DEF TypeOK, CellsInv, NoDanglingOperand
    <3> QED
      BY <3>4, <3>5
  <2> QED
    BY <2>6, <2>7, <2>8 DEF CellsInv
<1>7. CASE UNCHANGED vars
  BY <1>7 DEF CellsInv, FreeCellsUnused, Free, NoDanglingOperand, vars
<1> QED
  BY <1>1, <1>2, <1>3, <1>4, <1>5, <1>6, <1>7 DEF Next
LEMMA CellsCorrect == Spec => []CellsInv
BY CellsInit, TypeCorrect, OwnershipCorrect, CellsStep, PTL DEF Spec

-----------------------------------------------------------------------------
(* A set of ranks that is not empty has a lowest one.                      *)
LowerRank == {ij \in Nat \X Nat : ij[1] < ij[2]}

LEMMA LowestRank ==
    ASSUME NEW T, T \subseteq Nat, T # {}
    PROVE  \E x \in T : \A y \in T : x <= y
<1>1. IsWellFoundedOn(LowerRank, Nat)
  BY NatLessThanWellFounded, SMT DEF LowerRank, OpToRel
<1>2. PICK x \in T : \A y \in T : <<y, x>> \notin LowerRank
  BY <1>1, WFMin
<1>3. ASSUME NEW y \in T PROVE x <= y
  <2>1. <<y, x>> \in Nat \X Nat /\ <<y, x>>[1] = y /\ <<y, x>>[2] = x
    OBVIOUS
  <2>2. ~(y < x)
    BY <1>2, <2>1 DEF LowerRank
  <2> QED
    BY <2>2
<1> QED
  BY <1>3

(* The cell of lowest rank in a set has its next outside.                  *)
LEMMA RankedNotCyclic ==
    ASSUME NEW l \in Links, Acyclic(l, Nat)
    PROVE  NotCyclic(l)
<1>1. PICK rank \in [Uses -> Nat], top \in Nat : RanksLists(l, rank, top)
  BY DEF Acyclic
<1>2. SUFFICES ASSUME NEW S \in SUBSET Uses, S # {}
               PROVE  \E u \in S : l.next[u] \notin S
  BY DEF NotCyclic
<1> DEFINE ranks == {rank[u] : u \in S}
<1>3. ranks \subseteq Nat /\ ranks # {}
  BY <1>2
<1>4. PICK r \in ranks : \A q \in ranks : r <= q
  <2> HIDE DEF ranks
  <2> QED
    BY <1>3, LowestRank
<1>5. PICK u \in S : r = rank[u]
  BY <1>4
<1>6. ASSUME l.next[u] \in S PROVE FALSE
  <2>1. l.next[u] \in Uses /\ rank[l.next[u]] < rank[u]
    BY <1>1, <1>6, UseListAssumption DEF RanksLists
  <2>2. rank[u] <= rank[l.next[u]]
    BY <1>4, <1>5, <1>6
  <2> QED
    BY <1>1, <2>1, <2>2
<1> QED
  BY <1>5, <1>6

(* The pointers agree and no list is cyclic, whatever is constructed, used *)
(* and destroyed in whatever order.                                        *)
THEOREM ListsCorrect == Spec => []ListsWellFormed
<1>1. TypeOK /\ CellsInv => ListsWellFormed
  BY RankedNotCyclic DEF TypeOK, CellsInv, ListsWellFormed
<1> QED
  BY <1>1, TypeCorrect, CellsCorrect, PTL

(* A cell that refers to the value and is not met has none of higher rank  *)
(* that is not: it would be the one before it, or else it is the head.     *)
LEMMA WalkReaches ==
    ASSUME TypeOK, CellsInv, NEW v \in Values,
           NEW S \in SUBSET Uses, Walked(v, S), NEW c \in Uses, value[c] = v
    PROVE  c \in S
<1> USE UseListAssumption
<1>1. PICK rank \in [Uses -> Nat], top \in Nat : RanksLists(links, rank, top)
  BY DEF CellsInv, Acyclic
<1> DEFINE Missed == {u \in Uses \ S : value[u] = v}
           ranks == {top - rank[u] : u \in Missed}
<1>2. SUFFICES ASSUME Missed # {} PROVE FALSE
  OBVIOUS
<1>3. ranks \subseteq Nat /\ ranks # {}
  <2>1. \A u \in Missed : top - rank[u] \in Nat
    BY <1>1 DEF RanksLists
  <2>2. PICK u \in Missed : TRUE
    BY <1>2
  <2> QED
    BY <2>1, <2>2
<1>4. PICK r \in ranks : \A q \in ranks : r <= q
  <2> HIDE DEF ranks
  <2> QED
    BY <1>3, LowestRank
<1>5. PICK u \in Missed : r = top - rank[u]
  BY <1>4
<1>6. CASE links.prev[u] = NULL
  BY <1>5, <1>6 DEF TypeOK, CellsInv, WellLinked, FrontIsHead, Walked
<1>7. CASE links.prev[u] # NULL
  <2> DEFINE w == links.prev[u]
  <2>1. w \in Uses /\ value[w] = v /\ links.next[w] = u
    BY <1>5, <1>7 DEF TypeOK, CellsInv, WellLinked, PrevLinked
  <2>2. rank[u] < rank[w]
    BY <1>1, <2>1 DEF RanksLists
  <2>3. w \in S
    <3>1. ASSUME w \notin S PROVE FALSE
      <4>1. top - rank[w] \in ranks
        BY <2>1, <3>1
      <4>2. top - rank[u] <= top - rank[w]
        BY <1>4, <1>5, <4>1
      <4>3. rank[w] \in Nat /\ rank[u] \in Nat /\ top \in Nat
        BY <1>1, <2>1
      <4> HIDE DEF w
      <4> QED
        BY <2>2, <4>2, <4>3
    <3> QED
      BY <3>1
  <2> QED
    BY <1>5, <2>1, <2>3 DEF Walked
<1> QED
  BY <1>6, <1>7

(* A walk along a list meets every cell that refers to the value, and no   *)
(* other: what ~Value reports is what there is.                            *)
THEOREM WalkCorrect == Spec => []WalkMeetsEveryUse
<1>1. TypeOK /\ CellsInv => WalkMeetsEveryUse
  <2> SUFFICES ASSUME TypeOK, CellsInv, NEW v \in Values
               PROVE  Walk(v) = {u \in Uses : value[u] = v}
    BY DEF WalkMeetsEveryUse
  <2> DEFINE Mine == {u \in Uses : value[u] = v}
  <2>1. Walked(v, Mine)
    BY UseListAssumption
    DEF TypeOK, CellsInv, WellLinked, HeadLinked, NextLinked, Walked
  <2>2. Walk(v) \subseteq Mine
    BY <2>1 DEF Walk
  <2>3. Mine \subseteq Walk(v)
    BY WalkReaches DEF Walk
  <2> QED
    BY <2>2, <2>3
<1> QED
  BY <1>1, TypeCorrect, CellsCorrect, PTL

-----------------------------------------------------------------------------
(* use_list == nullptr exactly when no cell refers to the value: the       *)
(* assert of ~Value neither misses a user nor fails without one.           *)
THEOREM UseEmptyCorrect == Spec => []UseEmptyIsExact
BY CellsCorrect, TypeCorrect, UseEmptyExact, PTL

(* No operand ever refers to a destroyed value. *)
THEOREM NoDangling == Spec => []NoDanglingOperand
<1>1. CellsInv => NoDanglingOperand
  BY DEF CellsInv
<1> QED
  BY <1>1, CellsCorrect, PTL

-----------------------------------------------------------------------------
(* The chains implement UseSets. *)
LEMMA AbsInit == Init => Abs!Init
BY UseListAssumption DEF Init, Abs!Init

LEMMA AbsStep ==
    TypeOK /\ OperandsOwnCells /\ CellsInv /\ [Next]_vars => [Abs!Next]_(Abs!vars)
<1> SUFFICES ASSUME TypeOK, OperandsOwnCells, CellsInv, [Next]_vars
             PROVE  [Abs!Next]_(Abs!vars)
  OBVIOUS
<1> USE UseListAssumption
<1> DEFINE uses == [v \in Values |-> {u \in Uses : value[u] = v}]
<1>0. ASSUME value' = value PROVE uses' = uses
  BY <1>0
<1>a. ASSUME NEW u \in Uses, NEW v \in alive \union {NULL},
             value' = [value EXCEPT ![u] = v], alive' = alive
      PROVE  Abs!Next
  <2> DEFINE targets == {x \in Values : x = v}
  <2>1. targets \in SUBSET Values /\ targets \subseteq alive
    BY <1>a DEF TypeOK
  <2>2. uses' = [x \in Values |-> IF x \in targets THEN uses[x] \union {u}
                                                   ELSE uses[x] \ {u}]
    <3>1. \A x \in Values : {c \in Uses : value'[c] = x} =
             IF x \in targets THEN uses[x] \union {u} ELSE uses[x] \ {u}
      BY <1>a DEF TypeOK
    <3> QED
      BY <3>1
  <2>3. Abs!Retarget(u, targets)
    BY <1>a, <2>1, <2>2 DEF Abs!Retarget
  <2> QED
    BY <2>1, <2>3 DEF Abs!Next
<1>1. ASSUME NEW v \in Values, Construct(v) PROVE Abs!Next
  <2>1. Abs!Construct(v)
    BY <1>0, <1>1 DEF Construct, Abs!Construct
  <2> QED
    BY <2>1 DEF Abs!Next
<1>2. ASSUME NEW v \in Values, DestroyValue(v) PROVE [Abs!Next]_(Abs!vars)
  <2>1. CASE links.head[v] = NULL
    <3>1. uses[v] = {}
      BY <2>1, UseEmptyExact DEF UseEmptyIsExact
    <3>2. Abs!Destroy(v)
      BY <1>0, <1>2, <2>1, <3>1 DEF DestroyValue, Abs!Destroy
    <3> QED
      BY <3>2 DEF Abs!Next
  <2>2. CASE links.head[v] # NULL
    BY <1>0, <1>2, <2>2 DEF DestroyValue, Abs!vars
  <2> QED
    BY <2>1, <2>2
<1>3. ASSUME NEW w \in Users, BeginDestroy(w) PROVE UNCHANGED Abs!vars
  BY <1>0, <1>3 DEF BeginDestroy, Abs!vars
<1>4. ASSUME NEW w \in Users, DeleteOperand(w) PROVE Abs!Next
  <2>1. operands[w] \in Seq(Uses) /\ operands[w] # <<>>
    BY <1>4 DEF TypeOK, DeleteOperand
  <2>2. Head(operands[w]) \in Uses
    BY <2>1
  <2>3. value' = [value EXCEPT ![Head(operands[w])] = NULL] /\ alive' = alive
    BY <1>4 DEF DeleteOperand
  <2> QED
    BY <1>a, <2>2, <2>3
<1>5. ASSUME NEW w \in Users, NEW v \in Values \union {NULL}, AddOperand(w, v)
      PROVE  Abs!Next
  <2>1. PICK u \in Free : value' = [value EXCEPT ![u] = v]
    BY <1>5 DEF AddOperand
  <2>2. u \in Uses /\ v \in alive \union {NULL} /\ alive' = alive
    BY <1>5 DEF AddOperand, Free
  <2> QED
    BY <1>a, <2>1, <2>2
<1>6. ASSUME NEW w \in Users, NEW v \in Values \union {NULL},
             NEW i \in DOMAIN operands[w], SetOperand(w, i, v)
      PROVE  Abs!Next
  <2>1. operands[w] \in Seq(Uses)
    BY DEF TypeOK
  <2>2. operands[w][i] \in Uses
    BY <2>1
  <2>3. /\ value' = [value EXCEPT ![operands[w][i]] = v]
        /\ v \in alive \union {NULL} /\ alive' = alive
    BY <1>6 DEF SetOperand
  <2> QED
    BY <1>a, <2>2, <2>3
<1>7. CASE UNCHANGED vars
  BY <1>0, <1>7 DEF vars, Abs!vars
<1> QED
  BY <1>1, <1>2, <1>3, <1>4, <1>5, <1>6, <1>7 DEF Next

(* Every behaviour of the pointer-level lists is one of the use sets. *)
THEOREM RefinesUseSets == Spec => ImplementsUseSets
<1>1. Spec => [](TypeOK /\ OperandsOwnCells /\ CellsInv)
  BY TypeCorrect, OwnershipCorrect, CellsCorrect, PTL
<1> QED
  BY <1>1, AbsInit, AbsStep, PTL DEF Spec, ImplementsUseSets, Abs!Spec
=============================================================================
