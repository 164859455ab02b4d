------------------------------- MODULE Types -------------------------------
(* Type compatibility and operator typing. *)
EXTENDS Ast

(***************************************************************************)
(* Type::equals, and is_compatible_with, which no class overrides: an int  *)
(* equals a bool, but not the other way round.  A string is a pointer to   *)
(* char; pointers are equal when their pointees are.                       *)
(***************************************************************************)
TypeEquals(t, u) == t = u \/ (t = "int" /\ u = "bool")

(* TypeChecker::check_binary_op; void stands for an ill-typed operation.   *)
BinaryType(op, left, right) ==
    LET ints == TypeEquals(left, "int") /\ TypeEquals(right, "int")
    IN  IF op \in {"+", "-"} /\ ints THEN "int"
        ELSE IF op = "<" /\ ints THEN "bool"
        ELSE IF op = "==" /\ TypeEquals(left, right) THEN "bool"
        ELSE "void"
=============================================================================
