----------------------------- MODULE HeaderStore -----------------------------
(***************************************************************************)
(* The headers of a P4light program under the statements that read and     *)
(* write them: a header union and a header stack, as values of the store   *)
(* of coq/lib/P4light/Semantics/{Semantics,Interpreter}.v.                 *)
(*                                                                         *)
(* A header has a validity bit, Some true, Some false or None, and fields, *)
(* whose bits may be undefined (None).  An lvalue selects a member of the  *)
(* union or an element of the stack, in range or not.                      *)
(***************************************************************************)
EXTENDS Integers, Sequences

CONSTANTS
  Member,     \* the headers of the union
  Size,       \* the number of elements of the stack
  Index,      \* the indices the program uses on the stack, in range or not
  Field,      \* the fields of a header
  Value,      \* the defined values of a field
  Zero,       \* the value an undefined field is determinised to
  Undef,      \* a field of undefined bits
  MaxCount,   \* bound on the argument of push_front and pop_front
  MaxNext     \* bound on the stack's next index

ASSUME StackAssumption ==
  /\ Size \in Nat \ {0}
  /\ Index \subseteq Int
  /\ MaxCount \in Nat /\ MaxNext \in Nat
ASSUME ValueAssumption == Zero \in Value /\ Undef \notin Value

VARIABLES
  union,      \* the union's members
  stack,      \* the stack's elements
  next,       \* the stack's next index
  signal      \* the signal of the last statement

vars == <<union, stack, next, signal>>

InRange == 0 .. Size - 1
Fields  == [Field -> Value \cup {Undef}]
Header  == [is : {"valid", "invalid", "unknown"}, fields : Fields]
Lvalue  == [at : {"union"}, sel : Member] \cup [at : {"stack"}, sel : Index \cup {next}]

AllUndef     == [f \in Field |-> Undef]
Blank(is)    == [is |-> is, fields |-> AllUndef]

Init ==
  /\ union = [m \in Member |-> Blank("invalid")]
  /\ stack = [i \in InRange |-> Blank("invalid")]
  /\ next = 0
  /\ signal = "continue"

-----------------------------------------------------------------------------
(* Reading.                                                                *)

\* interp_read: the header an lvalue stands for; behind the end of the stack
\* it is the first element
Read(lv) ==
  IF lv.at = "union" THEN union[lv.sel]
  ELSE stack[IF lv.sel \in InRange THEN lv.sel ELSE 0]

\* interp_expr: the value of a header expression; behind the end of the stack
\* nothing of it is known
Eval(lv) ==
  IF lv.at = "stack" /\ lv.sel \notin InRange THEN Blank("unknown") ELSE Read(lv)

\* interp_sval_val: a value whose undefined bits are false
Det(h) ==
  [is |-> IF h.is = "valid" THEN "valid" ELSE "invalid",
   fields |-> [f \in Field |-> IF h.fields[f] = Undef THEN Zero ELSE h.fields[f]]]

-----------------------------------------------------------------------------
(* Writing.                                                                *)

\* set_header_field: a write to a field of a header that is not valid leaves
\* the field undefined
SetField(h, f, v) == [h EXCEPT !.fields[f] = IF h.is = "valid" THEN v ELSE Undef]

\* Mutant of UpdateUnion: the other members keep what they are.
UpdateUnionAlone(m, h) == [union EXCEPT ![m] = h]

\* update_union_member: a valid header invalidates the other members; any
\* header undefines their fields
UpdateUnion(m, h) ==
  [k \in Member |-> IF k = m THEN h
                    ELSE Blank(IF h.is = "valid" THEN "invalid" ELSE union[k].is)]

\* Mutant of UpdateStack: an index out of range writes the element it reads.
UpdateStackFirst(i, h) == [stack EXCEPT ![IF i \in InRange THEN i ELSE 0] = h]

\* update_stack_header: an index out of range changes nothing
UpdateStack(i, h) == IF i \in InRange THEN [stack EXCEPT ![i] = h] ELSE stack

Write(lv, h) ==
  \/ lv.at = "union" /\ union' = UpdateUnion(lv.sel, h) /\ UNCHANGED stack
  \/ lv.at = "stack" /\ stack' = UpdateStack(lv.sel, h) /\ UNCHANGED union

\* interp_lexpr of stack.next is the element at next, if there is one
Usable(lv) == lv.at = "stack" /\ lv.sel = next => lv.sel \in Index \/ next < Size

-----------------------------------------------------------------------------
(* The statements.                                                         *)

Statement(lv, h) ==
  /\ Usable(lv)
  /\ Write(lv, h)
  /\ signal' = "continue"
  /\ UNCHANGED next

SetValid(lv)   == Statement(lv, [Read(lv) EXCEPT !.is = "valid"])
SetInvalid(lv) == Statement(lv, [Read(lv) EXCEPT !.is = "invalid"])

\* lv.f = v
AssignField(lv, f, v) == Statement(lv, SetField(Read(lv), f, v))

\* Mutant of AssignHeader: the value is stored as it was read.
AssignHeaderUndetermined(lv, src) == Usable(src) /\ Statement(lv, Eval(src))

\* lv = src
AssignHeader(lv, src) == Usable(src) /\ Statement(lv, Det(Eval(src)))

\* copy-out of an out argument: what extract produced, a valid header or,
\* when the packet is too short, an invalid one of zeros
CopyOut(lv, is, fields) == Statement(lv, [is |-> is, fields |-> fields])

\* interp_lexpr of stack.next at the end of the stack: the statement is not run
NextOutOfBounds ==
  /\ next >= Size
  /\ signal' = "StackOutOfBounds"
  /\ UNCHANGED <<union, stack, next>>

\* Mutant of PushFront: the first element is copied over the ones behind it.
PushFrontSmears(count) ==
  /\ next + count <= MaxNext
  /\ next' = next + count
  /\ stack' = [i \in InRange |-> IF i < count THEN Blank("invalid") ELSE stack[0]]
  /\ signal' = "continue"
  /\ UNCHANGED union

PushFront(count) ==
  /\ next + count <= MaxNext
  /\ next' = next + count
  /\ stack' = [i \in InRange |-> IF i < count THEN Blank("invalid") ELSE stack[i - count]]
  /\ signal' = "continue"
  /\ UNCHANGED union

\* Mutant of PopFront: next is not kept from going below 0.
PopFrontBelowZero(count) ==
  /\ next' = next - count
  /\ stack' = [i \in InRange |-> IF i + count \in InRange THEN stack[i + count] ELSE Blank("invalid")]
  /\ signal' = "continue"
  /\ UNCHANGED union

\* next is a natural number: the subtraction stops at 0
PopFront(count) ==
  /\ next' = IF count <= next THEN next - count ELSE 0
  /\ stack' = [i \in InRange |-> IF i + count \in InRange THEN stack[i + count] ELSE Blank("invalid")]
  /\ signal' = "continue"
  /\ UNCHANGED union

Next ==
  \/ \E lv \in Lvalue :
       \/ SetValid(lv)
       \/ SetInvalid(lv)
       \/ \E f \in Field, v \in Value : AssignField(lv, f, v)
       \/ \E src \in Lvalue : AssignHeader(lv, src)
       \/ \E fields \in [Field -> Value] : CopyOut(lv, "valid", fields)
       \/ CopyOut(lv, "invalid", [f \in Field |-> Zero])
  \/ NextOutOfBounds
  \/ \E count \in 0 .. MaxCount : PushFront(count) \/ PopFront(count)

Spec == Init /\ [][Next]_vars

-----------------------------------------------------------------------------
\* The values of the variables.
TypeOK ==
  /\ union \in [Member -> Header]
  /\ stack \in [InRange -> Header]
  /\ next \in Nat
  /\ signal \in {"continue", "StackOutOfBounds"}

\* Reads behind the end of the stack give headers of unknown validity, but none
\* is ever stored ("A header member of a header union should never have None
\* validity bit", Semantics.v).
ValidityKnown ==
  /\ \A m \in Member : union[m].is # "unknown"
  /\ \A i \in InRange : stack[i].is # "unknown"

\* "It should be guaranteed there is at most one valid header in a union"
\* (Semantics.v), whatever is validated, assigned or extracted into it.
AtMostOneValid ==
  \A m, k \in Member : union[m].is = "valid" /\ union[k].is = "valid" => m = k

\* A write to a header that is not there or not valid changes nothing that is
\* defined: no valid header outside the union, and no validity bit anywhere.
OutOfRange(lv) == lv.at = "stack" /\ lv.sel \notin InRange

Void(lv) == OutOfRange(lv) \/ Read(lv).is # "valid"

ValidityKept ==
  /\ \A i \in InRange : stack'[i].is = stack[i].is
  /\ \A m \in Member : union'[m].is = union[m].is
ElementsKept == \A i \in InRange : stack[i].is = "valid" => stack'[i] = stack[i]

VoidWritesHarmless ==
  [][\/ UNCHANGED <<union, stack>>
     \/ \A lv \in Lvalue :
          /\ OutOfRange(lv) => ~SetValid(lv) /\ ~SetInvalid(lv)
          /\ (Void(lv) /\ \E f \in Field, v \in Value : AssignField(lv, f, v))
               => ValidityKept /\ ElementsKept /\ (lv.at = "stack" => UNCHANGED union)]_vars

\* push_front and pop_front lose headers at one end only: the valid headers of
\* the stack, in order, are a prefix (after a push) or a suffix (after a pop) of
\* what they were, none is doubled, and no more than count of them are lost.
Valids(s) ==
  LET upto[n \in 0 .. Size] ==
        IF n = 0 THEN <<>>
        ELSE IF s[n - 1].is = "valid" THEN Append(upto[n - 1], s[n - 1]) ELSE upto[n - 1]
  IN  upto[Size]

ShiftsKeepOrder ==
  [][stack' # stack =>
     LET old == Valids(stack)  new == Valids(stack')  kept == Len(new)
     IN  \A count \in 0 .. MaxCount :
           /\ PushFront(count) \/ PopFront(count) => kept \in Len(old) - count .. Len(old)
           /\ PushFront(count) => new = SubSeq(old, 1, kept)
           /\ PopFront(count) => new = SubSeq(old, Len(old) - kept + 1, Len(old))]_vars
=============================================================================
