---------------------------- MODULE MCCallStack ----------------------------
(* Two actions and two functions: an action called by an action, a function *)
(* called by a function and by an action, and parameters of all directions. *)
EXTENDS CallStack

CONSTANTS a, b, g, h

MCDir == [c \in Callee |-> IF c = b THEN "in" ELSE IF c = g THEN "out" ELSE "inout"]
=============================================================================
