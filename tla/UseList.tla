------------------------------ MODULE UseList ------------------------------
(***************************************************************************)
(* The def-use chains of include/ir/instruction.hh, pointer by pointer.    *)
(* A User holds its operands as Use cells; each cell is linked into the    *)
(* intrusive list that starts at its value's use_list.  The module keeps   *)
(* the pointers of the code: Value::use_list (head), Use::prev, Use::next, *)
(* Use::value, Use::user and User::operands.                               *)
(*                                                                         *)
(* The callers are free: any value may be constructed, any operand added   *)
(* or set, and any value destroyed, in any order.  An object under         *)
(* destruction is left alone by everybody else (the compiler has one       *)
(* thread), and the destructor runs to its end or to a failed assert.      *)
(***************************************************************************)
EXTENDS Integers, Sequences

CONSTANTS
    Values,  \* addresses of ir::Value objects, users included
    Users,   \* those that are ir::User objects (instructions)
    Uses,    \* addresses of ir::Use cells
    NULL     \* nullptr

ASSUME UseListAssumption ==
    /\ Users \subseteq Values
    /\ NULL \notin Values
    /\ NULL \notin Uses

VARIABLES
    alive,     \* values constructed and not destroyed
    operands,  \* User::operands
    value,     \* Use::value
    user,      \* Use::user, NULL for a cell that is not allocated
    links,     \* the list pointers: [head, prev, next]
    dying,     \* the user whose destructor is deleting its operands, or NULL
    aborted    \* an assert has failed

vars == <<alive, operands, value, user, links, dying, aborted>>

Free == {u \in Uses : user[u] = NULL}

-----------------------------------------------------------------------------
(* The list operations, as functions of the pointers. *)

(* Value::addUse: push u in front of v's list. *)
AddUse_NoBackLink(l, v, u) ==
    [head |-> [l.head EXCEPT ![v] = u],
     next |-> [l.next EXCEPT ![u] = l.head[v]],
     prev |-> [l.prev EXCEPT ![u] = NULL]]

AddUse(l, v, u) ==
    [head |-> [l.head EXCEPT ![v] = u],
     next |-> [l.next EXCEPT ![u] = l.head[v]],
     prev |-> [c \in Uses |-> IF c = u THEN NULL
                              ELSE IF c = l.head[v] THEN u
                              ELSE l.prev[c]]]

(* Value::removeUse: unlink u from v's list, from the front or the middle. *)
RemoveUse_KeepsHead(l, v, u) ==
    [head |-> l.head,
     next |-> [c \in Uses |-> IF c = u THEN NULL
                              ELSE IF c = l.prev[u] THEN l.next[u]
                              ELSE l.next[c]],
     prev |-> [c \in Uses |-> IF c = u THEN NULL
                              ELSE IF c = l.next[u] THEN l.prev[u]
                              ELSE l.prev[c]]]

RemoveUse_AlwaysMovesHead(l, v, u) ==
    [RemoveUse_KeepsHead(l, v, u) EXCEPT !.head[v] = l.next[u]]

RemoveUse(l, v, u) ==
    [head |-> IF l.prev[u] = NULL THEN [l.head EXCEPT ![v] = l.next[u]]
                                  ELSE l.head,
     next |-> [c \in Uses |-> IF c = u THEN NULL
                              ELSE IF c = l.prev[u] THEN l.next[u]
                              ELSE l.next[c]],
     prev |-> [c \in Uses |-> IF c = u THEN NULL
                              ELSE IF c = l.next[u] THEN l.prev[u]
                              ELSE l.prev[c]]]

(* Use::Use, Use::~Use and Use::set, whose value pointers may be null. *)
Attach(l, v, u) == IF v = NULL THEN l ELSE AddUse(l, v, u)
Detach(l, v, u) == IF v = NULL THEN l ELSE RemoveUse(l, v, u)

Set_NoDetach(l, old, new, u) == Attach(l, new, u)
Set(l, old, new, u) == Attach(Detach(l, old, u), new, u)

-----------------------------------------------------------------------------
Init ==
    /\ alive = {}
    /\ operands = [w \in Users |-> <<>>]
    /\ value = [u \in Uses |-> NULL]
    /\ user = [u \in Uses |-> NULL]
    /\ links = [head |-> [v \in Values |-> NULL],
                prev |-> [u \in Uses |-> NULL],
                next |-> [u \in Uses |-> NULL]]
    /\ dying = NULL
    /\ aborted = FALSE

(* The mutator may run: no destructor is under way, no assert has failed. *)
Running == dying = NULL /\ ~aborted

Construct(v) ==
    /\ Running
    /\ v \notin alive
    /\ alive' = alive \union {v}
    /\ links' = [links EXCEPT !.head[v] = NULL]
    /\ UNCHANGED <<operands, value, user, dying, aborted>>

(* User::addOperand.  The value is null when the generator could not emit  *)
(* the operand's expression.                                               *)
AddOperand(w, v) ==
    /\ Running
    /\ w \in alive
    /\ v \in alive \union {NULL}
    /\ \E u \in Free :
         /\ value' = [value EXCEPT ![u] = v]
         /\ user' = [user EXCEPT ![u] = w]
         /\ links' = Attach(links, v, u)
         /\ operands' = [operands EXCEPT ![w] = Append(@, u)]
    /\ UNCHANGED <<alive, dying, aborted>>

(* User::setOperand; the index was asserted to be in range. *)
SetOperand(w, i, v) ==
    /\ Running
    /\ w \in alive
    /\ v \in alive \union {NULL}
    /\ LET u == operands[w][i]
       IN  /\ links' = Set(links, value[u], v, u)
           /\ value' = [value EXCEPT ![u] = v]
    /\ UNCHANGED <<alive, operands, user, dying, aborted>>

(* A user's destructor starts with ~User. *)
BeginDestroy_Twice(w) ==
    /\ Running
    /\ dying' = w
    /\ UNCHANGED <<alive, operands, value, user, links, aborted>>

BeginDestroy(w) ==
    /\ Running
    /\ w \in alive
    /\ dying' = w
    /\ UNCHANGED <<alive, operands, value, user, links, aborted>>

(* One turn of the loop of ~User: delete a cell, which unlinks itself. *)
DeleteOperand_NeverAdvances(w) ==
    /\ dying = w
    /\ ~aborted
    /\ operands[w] # <<>>
    /\ LET u == Head(operands[w])
       IN  /\ links' = Detach(links, value[u], u)
           /\ value' = [value EXCEPT ![u] = NULL]
    /\ UNCHANGED <<alive, operands, user, dying, aborted>>

DeleteOperand(w) ==
    /\ dying = w
    /\ ~aborted
    /\ operands[w] # <<>>
    /\ LET u == Head(operands[w])
       IN  /\ links' = Detach(links, value[u], u)
           /\ value' = [value EXCEPT ![u] = NULL]
           /\ user' = [user EXCEPT ![u] = NULL]
           /\ operands' = [operands EXCEPT ![w] = Tail(@)]
    /\ UNCHANGED <<alive, dying, aborted>>

(* ~Value asserts that nobody uses the value.  It runs last for a user and *)
(* alone for a value that has no operands.                                 *)
ReachesValueDtor_OneEarly(v) ==
    IF v \in Users THEN dying = v /\ Len(operands[v]) <= 1 ELSE dying = NULL

ReachesValueDtor(v) ==
    IF v \in Users THEN dying = v /\ operands[v] = <<>> ELSE dying = NULL

DestroyValue_NoAssert(v) ==
    /\ ~aborted
    /\ v \in alive
    /\ ReachesValueDtor(v)
    /\ alive' = alive \ {v}
    /\ dying' = NULL
    /\ UNCHANGED <<operands, value, user, links, aborted>>

DestroyValue(v) ==
    /\ ~aborted
    /\ v \in alive
    /\ ReachesValueDtor(v)
    /\ IF links.head[v] = NULL
       THEN alive' = alive \ {v} /\ dying' = NULL /\ UNCHANGED aborted
       ELSE aborted' = TRUE /\ UNCHANGED <<alive, dying>>
    /\ UNCHANGED <<operands, value, user, links>>

Next ==
    \/ \E v \in Values : Construct(v) \/ DestroyValue(v)
    \/ \E w \in Users : BeginDestroy(w) \/ DeleteOperand(w)
    \/ \E w \in Users, v \in Values \union {NULL} : AddOperand(w, v)
    \/ \E w \in Users, v \in Values \union {NULL} :
         \E i \in DOMAIN operands[w] : SetOperand(w, i, v)

Spec == Init /\ [][Next]_vars

(* A destructor that has started is carried on: nothing else runs. *)
Fairness ==
    WF_vars(\E w \in Users : DeleteOperand(w) \/ (dying = w /\ DestroyValue(w)))

FairSpec == Spec /\ Fairness

-----------------------------------------------------------------------------
Links == [head : [Values -> Uses \union {NULL}],
          prev : [Uses -> Uses \union {NULL}],
          next : [Uses -> Uses \union {NULL}]]

(* Every variable has the type its declaration in the code gives it, and   *)
(* the user whose destructor runs has not been destroyed yet.              *)
TypeOK ==
    /\ alive \subseteq Values
    /\ operands \in [Users -> Seq(Uses)]
    /\ value \in [Uses -> Values \union {NULL}]
    /\ user \in [Uses -> Users \union {NULL}]
    /\ links \in Links
    /\ dying \in (Users \intersect alive) \union {NULL}
    /\ aborted \in BOOLEAN

(* A cell that is not allocated refers to no value. *)
FreeCellsUnused == \A u \in Free : value[u] = NULL

(* The pointers agree with each other: the neighbours of a cell are cells  *)
(* of the same value that point back at it, a cell without predecessor is  *)
(* the head of its value's list, and a cell without value is in no list.   *)
HeadLinked(l, val) ==
    \A v \in Values : l.head[v] # NULL =>
        val[l.head[v]] = v /\ l.prev[l.head[v]] = NULL

NextLinked(l, val) ==
    \A u \in Uses : l.next[u] # NULL =>
        val[u] # NULL /\ val[l.next[u]] = val[u] /\ l.prev[l.next[u]] = u

PrevLinked(l, val) ==
    \A u \in Uses : l.prev[u] # NULL =>
        val[u] # NULL /\ val[l.prev[u]] = val[u] /\ l.next[l.prev[u]] = u

FrontIsHead(l, val) ==
    \A u \in Uses : val[u] # NULL /\ l.prev[u] = NULL => l.head[val[u]] = u

WellLinked(l, val) ==
    /\ HeadLinked(l, val)
    /\ NextLinked(l, val)
    /\ PrevLinked(l, val)
    /\ FrontIsHead(l, val)

(* No list is cyclic: from every set of cells next leads out somewhere.   *)
NotCyclic(l) ==
    \A S \in SUBSET Uses : S # {} => \E u \in S : l.next[u] \notin S

(* The lists are lists: their pointers agree, none is cyclic, and no cell  *)
(* that is free is left in one.                                            *)
ListsWellFormed ==
    /\ FreeCellsUnused
    /\ WellLinked(links, value)
    /\ NotCyclic(links)

(* The cells met when v's list is walked from use_list along next, as      *)
(* ~Value does when it reports the users that are left.                    *)
Walked(v, S) ==
    /\ links.head[v] # NULL => links.head[v] \in S
    /\ \A u \in S : links.next[u] # NULL => links.next[u] \in S

Walk(v) == {u \in Uses : \A S \in SUBSET Uses : Walked(v, S) => u \in S}

(* Walking a value's list meets exactly the cells that refer to the value. *)
WalkMeetsEveryUse ==
    \A v \in Values : Walk(v) = {u \in Uses : value[u] = v}

(* Value::use_empty, and with it the assert of ~Value, is exact: a value's *)
(* list is empty exactly when no cell refers to the value.  A cell lost    *)
(* from the list would let a value in use die.                             *)
UseEmptyIsExact ==
    \A v \in Values :
        links.head[v] = NULL <=> \A u \in Uses : value[u] # v

(* No operand refers to a destroyed value, whatever the destruction order: *)
(* the assert stops the program first.                                     *)
NoDanglingOperand ==
    \A u \in Uses : value[u] # NULL => value[u] \in alive

(* Each allocated cell is an operand of its user, which is alive, and of   *)
(* no other; ~User therefore deletes each cell once and leaks none.        *)
OperandsOwnCells ==
    /\ \A w \in Users : w \notin alive => operands[w] = <<>>
    /\ \A w \in Users : \A i \in DOMAIN operands[w] : user[operands[w][i]] = w
    /\ \A w \in Users : \A i, j \in DOMAIN operands[w] :
           operands[w][i] = operands[w][j] => i = j
    /\ \A u \in Uses : user[u] # NULL =>
           \E i \in DOMAIN operands[user[u]] : operands[user[u]][i] = u

(* The chains implement UseSets: the uses of a value are the cells that   *)
(* refer to it, and a value dies only when there are none.                 *)
Abs == INSTANCE UseSets
           WITH uses <- [v \in Values |-> {u \in Uses : value[u] = v}]

ImplementsUseSets == Abs!Spec

(* A destructor that starts comes to its end, or to the failed assert. *)
DestructorEnds == dying # NULL ~> (dying = NULL \/ aborted)
=============================================================================
