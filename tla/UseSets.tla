------------------------------ MODULE UseSets ------------------------------
(***************************************************************************)
(* What the def-use chains of the IR promise, free of any representation:  *)
(* every value has a set of uses, a use is in the set of at most one       *)
(* value, and a value may die only when nobody uses it any more.  The      *)
(* intrusive lists of include/ir/instruction.hh implement it (UseList).    *)
(***************************************************************************)
CONSTANTS
    Values,  \* ir::Value objects: constants, basic blocks, instructions
    Uses     \* ir::Use edges

VARIABLES
    alive,   \* the values constructed and not destroyed
    uses     \* the uses of each value

vars == <<alive, uses>>

Init ==
    /\ alive = {}
    /\ uses = [v \in Values |-> {}]

Construct(v) ==
    /\ v \notin alive
    /\ alive' = alive \union {v}
    /\ UNCHANGED uses

(* The use u leaves the value that has it, if any, and joins those of the  *)
(* values in targets: none when an operand is dropped, one when it is set. *)
Retarget(u, targets) ==
    /\ targets \subseteq alive
    /\ \A v, w \in targets : v = w
    /\ uses' = [v \in Values |-> IF v \in targets THEN uses[v] \union {u}
                                                  ELSE uses[v] \ {u}]
    /\ UNCHANGED alive

Destroy(v) ==
    /\ v \in alive
    /\ uses[v] = {}
    /\ alive' = alive \ {v}
    /\ UNCHANGED uses

Next ==
    \/ \E v \in Values : Construct(v) \/ Destroy(v)
    \/ \E u \in Uses, targets \in SUBSET Values : Retarget(u, targets)

Spec == Init /\ [][Next]_vars
=============================================================================
