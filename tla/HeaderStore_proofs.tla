------------------------- MODULE HeaderStore_proofs -------------------------
(* Proofs of the safety properties of HeaderStore, for unions and stacks of  *)
(* any size and any indices.                                                 *)
EXTENDS HeaderStore, FiniteSetTheorems, WellFoundedInduction, TLAPS

LEMMA BlankType ==
  ASSUME NEW is \in {"valid", "invalid", "unknown"}
  PROVE  Blank(is) \in Header
BY DEF Blank, AllUndef, Header, Fields

LEMMA ReadType ==
  ASSUME TypeOK, NEW lv \in Lvalue
  PROVE  Read(lv) \in Header /\ Eval(lv) \in Header
<1>1. 0 \in InRange
  BY StackAssumption DEF InRange
<1>2. Read(lv) \in Header
  BY <1>1 DEF Read, TypeOK, Lvalue
<1> QED
  BY <1>2, BlankType DEF Eval

LEMMA DetType ==
  ASSUME NEW h \in Header
  PROVE  Det(h) \in Header /\ Det(h).is # "unknown"
BY ValueAssumption DEF Det, Header, Fields

LEMMA SetFieldType ==
  ASSUME NEW h \in Header, NEW f \in Field, NEW v \in Value
  PROVE  SetField(h, f, v) \in Header /\ SetField(h, f, v).is = h.is
BY DEF SetField, Header, Fields

-----------------------------------------------------------------------------
(* Every statement that writes a header writes one of known validity.        *)
Inv == TypeOK /\ ValidityKnown /\ AtMostOneValid

Known == {h \in Header : h.is # "unknown"}

LEMMA ReadKnown ==
  ASSUME Inv, NEW lv \in Lvalue
  PROVE  Read(lv) \in Known
<1>1. 0 \in InRange
  BY StackAssumption DEF InRange
<1>2. Read(lv).is # "unknown"
  BY <1>1 DEF Read, Inv, ValidityKnown, Lvalue
<1> QED
  BY <1>2, ReadType DEF Inv, Known

LEMMA WritesKnown ==
  ASSUME Inv, NEW lv \in Lvalue,
         \/ SetValid(lv)
         \/ SetInvalid(lv)
         \/ \E f \in Field, v \in Value : AssignField(lv, f, v)
         \/ \E src \in Lvalue : AssignHeader(lv, src)
         \/ \E fields \in [Field -> Value] : CopyOut(lv, "valid", fields)
         \/ CopyOut(lv, "invalid", [f \in Field |-> Zero])
  PROVE  \E h \in Known : Statement(lv, h)
<1>1. Read(lv) \in Header /\ Read(lv).is # "unknown"
  BY ReadKnown DEF Known
<1>2. CASE SetValid(lv) \/ SetInvalid(lv)
  <2>1. ASSUME NEW is \in {"valid", "invalid"}
        PROVE  [Read(lv) EXCEPT !.is = is] \in Known
    BY <1>1 DEF Known, Header
  <2> QED
    BY <1>2, <2>1 DEF SetValid, SetInvalid
<1>3. ASSUME NEW f \in Field, NEW v \in Value, AssignField(lv, f, v)
      PROVE  \E h \in Known : Statement(lv, h)
  <2>1. SetField(Read(lv), f, v) \in Known
    BY <1>1, SetFieldType DEF Known
  <2> QED
    BY <1>3, <2>1 DEF AssignField
<1>4. ASSUME NEW src \in Lvalue, AssignHeader(lv, src)
      PROVE  \E h \in Known : Statement(lv, h)
  <2>1. Eval(src) \in Header
    BY ReadType DEF Inv
  <2>2. Det(Eval(src)) \in Known
    BY <2>1, DetType DEF Known
  <2> QED
    BY <1>4, <2>2 DEF AssignHeader
<1>5. ASSUME NEW is \in {"valid", "invalid"}, NEW fields \in [Field -> Value], CopyOut(lv, is, fields)
      PROVE  \E h \in Known : Statement(lv, h)
  <2>1. [is |-> is, fields |-> fields] \in Known
    BY DEF Known, Header, Fields
  <2> QED
    BY <1>5, <2>1 DEF CopyOut
<1>6. [f \in Field |-> Zero] \in [Field -> Value]
  BY ValueAssumption
<1> QED
  BY <1>2, <1>3, <1>4, <1>5, <1>6

LEMMA StatementInv ==
  ASSUME Inv, NEW lv \in Lvalue, NEW h \in Known, Statement(lv, h)
  PROVE  Inv'
<1>1. h \in Header /\ h.is \in {"valid", "invalid"}
  BY DEF Known, Header
<1>2. CASE lv.at = "union"
  <2> DEFINE m == lv.sel
             other(k) == Blank(IF h.is = "valid" THEN "invalid" ELSE union[k].is)
  <2>1. m \in Member
    BY <1>2 DEF Lvalue
  <2>2. /\ union' = [k \in Member |-> IF k = m THEN h ELSE other(k)]
        /\ UNCHANGED <<stack, next>> /\ signal' = "continue"
    BY <1>2 DEF Statement, Write, UpdateUnion
  <2>3. ASSUME NEW k \in Member
        PROVE  /\ other(k) \in Header
               /\ other(k).is = IF h.is = "valid" THEN "invalid" ELSE union[k].is
    <3>1. union[k].is \in {"valid", "invalid", "unknown"}
      BY DEF Inv, TypeOK, Header
    <3> QED
      BY <3>1, BlankType DEF Blank
  <2> HIDE DEF other
  <2>4. union' \in [Member -> Header]
    BY <1>1, <2>2, <2>3
  <2>5. \A k \in Member : union'[k].is = IF k = m THEN h.is
                                         ELSE IF h.is = "valid" THEN "invalid" ELSE union[k].is
    BY <2>2, <2>3
  <2>6. TypeOK'
    BY <2>2, <2>4 DEF Inv, TypeOK
  <2>7. ValidityKnown'
    BY <1>1, <2>2, <2>5 DEF Inv, ValidityKnown
  <2>8. AtMostOneValid'
    BY <1>1, <2>5 DEF Inv, AtMostOneValid
  <2> QED
    BY <2>6, <2>7, <2>8 DEF Inv
<1>3. CASE lv.at = "stack"
  <2>1. /\ stack' = IF lv.sel \in InRange THEN [stack EXCEPT ![lv.sel] = h] ELSE stack
        /\ UNCHANGED <<union, next>> /\ signal' = "continue"
    BY <1>3 DEF Statement, Write, UpdateStack
  <2>2. stack' \in [InRange -> Header]
    BY <1>1, <2>1 DEF Inv, TypeOK
  <2>3. \A i \in InRange : stack'[i] = stack[i] \/ stack'[i] = h
    BY <2>1 DEF Inv, TypeOK
  <2>4. TypeOK'
    BY <2>1, <2>2 DEF Inv, TypeOK
  <2>5. ValidityKnown'
    BY <1>1, <2>1, <2>3 DEF Inv, ValidityKnown
  <2>6. AtMostOneValid'
    BY <2>1 DEF Inv, AtMostOneValid
  <2> QED
    BY <2>4, <2>5, <2>6 DEF Inv
<1> QED
  BY <1>2, <1>3 DEF Lvalue

(* push_front and pop_front only move headers or blank them. *)
LEMMA ShiftInv ==
  ASSUME Inv, next' \in Nat, signal' = "continue", UNCHANGED union,
         NEW from, \A i \in InRange : from[i] \in InRange \cup {-1},
         stack' = [i \in InRange |-> IF from[i] \in InRange THEN stack[from[i]] ELSE Blank("invalid")]
  PROVE  Inv'
<1>1. Blank("invalid") \in Header /\ Blank("invalid").is = "invalid"
  BY BlankType DEF Blank
<1>2. stack' \in [InRange -> Header]
  BY <1>1 DEF Inv, TypeOK
<1>3. \A i \in InRange : stack'[i].is # "unknown"
  BY <1>1 DEF Inv, ValidityKnown
<1>4. TypeOK'
  BY <1>2 DEF Inv, TypeOK
<1>5. ValidityKnown' /\ AtMostOneValid'
  BY <1>3 DEF Inv, ValidityKnown, AtMostOneValid
<1> QED
  BY <1>4, <1>5 DEF Inv

LEMMA InitInv == Init => Inv
BY BlankType DEF Init, Inv, TypeOK, ValidityKnown, AtMostOneValid, Blank

LEMMA StepInv == Inv /\ [Next]_vars => Inv'
<1> SUFFICES ASSUME Inv, [Next]_vars PROVE Inv'
  OBVIOUS
<1>1. ASSUME NEW lv \in Lvalue, NEW h \in Known, Statement(lv, h) PROVE Inv'
  BY <1>1, StatementInv
<1>2. CASE NextOutOfBounds
  BY <1>2 DEF NextOutOfBounds, Inv, TypeOK, ValidityKnown, AtMostOneValid
<1>3. ASSUME NEW count \in 0 .. MaxCount, PushFront(count) PROVE Inv'
  <2> DEFINE from == [i \in InRange |-> IF i < count THEN -1 ELSE i - count]
  <2>1. \A i \in InRange : /\ from[i] \in InRange \cup {-1}
                           /\ from[i] \in InRange <=> ~ (i < count)
    BY StackAssumption DEF InRange
  <2>2. stack' = [i \in InRange |-> IF from[i] \in InRange THEN stack[from[i]] ELSE Blank("invalid")]
    <3>1. \A i \in InRange : ~ (i < count) => from[i] = i - count
      OBVIOUS
    <3> QED
      BY <1>3, <2>1, <3>1 DEF PushFront
  <2>3. next' \in Nat /\ signal' = "continue" /\ UNCHANGED union
    BY <1>3, StackAssumption DEF PushFront, Inv, TypeOK
  <2> HIDE DEF from
  <2> QED
    BY <2>1, <2>2, <2>3, ShiftInv
<1>4. ASSUME NEW count \in 0 .. MaxCount, PopFront(count) PROVE Inv'
  <2> DEFINE from == [i \in InRange |-> IF i + count \in InRange THEN i + count ELSE -1]
  <2>1. \A i \in InRange : /\ from[i] \in InRange \cup {-1}
                           /\ from[i] \in InRange <=> i + count \in InRange
    BY StackAssumption DEF InRange
  <2>2. stack' = [i \in InRange |-> IF from[i] \in InRange THEN stack[from[i]] ELSE Blank("invalid")]
    <3>1. \A i \in InRange : i + count \in InRange => from[i] = i + count
      OBVIOUS
    <3> QED
      BY <1>4, <2>1, <3>1 DEF PopFront
  <2>3. next' \in Nat /\ signal' = "continue" /\ UNCHANGED union
    BY <1>4, StackAssumption DEF PopFront, Inv, TypeOK
  <2> HIDE DEF from
  <2> QED
    BY <2>1, <2>2, <2>3, ShiftInv
<1>5. CASE UNCHANGED vars
  BY <1>5 DEF vars, Inv, TypeOK, ValidityKnown, AtMostOneValid
<1> QED
  BY <1>1, <1>2, <1>3, <1>4, <1>5, WritesKnown DEF Next

LEMMA InvAlways == Spec => []Inv
BY InitInv, StepInv, PTL DEF Spec

(* The union and the stack always hold well-formed headers. *)
THEOREM TypeCorrect == Spec => []TypeOK
<1>1. Inv => TypeOK
  BY DEF Inv
<1> QED
  BY <1>1, InvAlways, PTL

(* No header of unknown validity is ever stored. *)
THEOREM NoUnknownValidity == Spec => []ValidityKnown
<1>1. Inv => ValidityKnown
  BY DEF Inv
<1> QED
  BY <1>1, InvAlways, PTL

(* A union never has two valid members. *)
THEOREM UnionExclusive == Spec => []AtMostOneValid
<1>1. Inv => AtMostOneValid
  BY DEF Inv
<1> QED
  BY <1>1, InvAlways, PTL

-----------------------------------------------------------------------------
(* Writes behind the end of the stack or to a header that is not valid       *)
(* change nothing that is defined.                                           *)
LEMMA VoidField ==
  ASSUME Inv, NEW lv \in Lvalue, NEW f \in Field, NEW v \in Value,
         Void(lv), AssignField(lv, f, v)
  PROVE  ValidityKept /\ ElementsKept /\ (lv.at = "stack" => UNCHANGED union)
<1> DEFINE h == SetField(Read(lv), f, v)
<1>1. Statement(lv, h) /\ Read(lv) \in Known /\ h.is = Read(lv).is /\ h \in Header
  BY ReadKnown, SetFieldType DEF AssignField, Known
<1> HIDE DEF h
<1>2. CASE lv.at = "union"
  <2>1. /\ lv.sel \in Member
        /\ union' = UpdateUnion(lv.sel, h) /\ UNCHANGED stack
        /\ Read(lv) = union[lv.sel]
        /\ h.is # "valid"
    BY <1>1, <1>2 DEF Lvalue, Statement, Write, Read, Void, OutOfRange
  <2>2. \A k \in Member : union'[k].is = union[k].is
    BY <1>1, <2>1 DEF UpdateUnion, Blank
  <2> QED
    BY <1>2, <2>1, <2>2 DEF ValidityKept, ElementsKept
<1>3. CASE lv.at = "stack"
  <2>1. UNCHANGED union /\ stack' = UpdateStack(lv.sel, h)
    BY <1>1, <1>3 DEF Statement, Write
  <2>2. CASE lv.sel \notin InRange
    BY <2>1, <2>2 DEF UpdateStack, ValidityKept, ElementsKept
  <2>3. CASE lv.sel \in InRange
    <3>1. Read(lv) = stack[lv.sel] /\ stack[lv.sel].is # "valid"
      BY <1>3, <2>3 DEF Read, Void, OutOfRange
    <3>2. stack' = [stack EXCEPT ![lv.sel] = h]
      BY <2>1, <2>3 DEF UpdateStack
    <3>3. \A i \in InRange : stack'[i] = IF i = lv.sel THEN h ELSE stack[i]
      BY <3>2 DEF Inv, TypeOK
    <3> QED
      BY <1>1, <2>1, <3>1, <3>3 DEF ValidityKept, ElementsKept
  <2> QED
    BY <2>2, <2>3
<1> QED
  BY <1>2, <1>3 DEF Lvalue

LEMMA VoidValidity ==
  ASSUME NEW lv \in Lvalue, OutOfRange(lv), SetValid(lv) \/ SetInvalid(lv)
  PROVE  UNCHANGED <<union, stack>>
BY DEF OutOfRange, SetValid, SetInvalid, Statement, Write, UpdateStack

THEOREM VoidWrites == Spec => VoidWritesHarmless
<1> DEFINE Harmless ==
      \/ UNCHANGED <<union, stack>>
      \/ \A lv \in Lvalue :
           /\ OutOfRange(lv) => ~SetValid(lv) /\ ~SetInvalid(lv)
           /\ (Void(lv) /\ \E f \in Field, v \in Value : AssignField(lv, f, v))
                => ValidityKept /\ ElementsKept /\ (lv.at = "stack" => UNCHANGED union)
<1>1. Inv /\ [Next]_vars => [Harmless]_vars
  BY VoidField, VoidValidity
<1> QED
  BY <1>1, InvAlways, PTL DEF Spec, VoidWritesHarmless

-----------------------------------------------------------------------------
(* A set of numbers that is not empty has a least member.                    *)
LEMMA Least ==
  ASSUME NEW T \in SUBSET Nat, T # {}
  PROVE  \E n \in T : \A m \in T : n <= m
<1>1. PICK n \in T : \A m \in T : <<m, n>> \notin OpToRel(<, Nat)
  BY WFMin, NatLessThanWellFounded, Zenon
<1>2. \A m \in T : ~(m < n)
  BY <1>1, Zenon DEF OpToRel
<1> QED
  BY <1>2

(* What holds at 0 and goes from n - 1 to n holds up to N.                   *)
LEMMA StepByStep ==
  ASSUME NEW N \in Nat, NEW Good, 0 \in Good,
         \A n \in 1 .. N : n - 1 \in Good => n \in Good
  PROVE  \A n \in 0 .. N : n \in Good
<1> SUFFICES ASSUME NEW k \in 0 .. N, k \notin Good PROVE FALSE
  OBVIOUS
<1> DEFINE T == {n \in 0 .. N : n \notin Good}
<1>1. T \in SUBSET Nat /\ T # {}
  OBVIOUS
<1>2. PICK n \in T : \A m \in T : n <= m
  BY <1>1, Least
<1>3. n # 0
  BY <1>2
<1>4. n - 1 \notin T /\ n - 1 \in 0 .. N
  BY <1>2, <1>3
<1> QED
  BY <1>2, <1>3, <1>4

(* A computation of N steps on the set A is a function on 0 .. N.            *)
Computes(f, a, step, N) == f[0] = a /\ \A n \in 1 .. N : f[n] = step[<<f[n - 1], n>>]

(* Every step function has a computation from every start.                   *)
LEMMA ComputationExists ==
  ASSUME NEW A, NEW N \in Nat, NEW a \in A, NEW step \in [A \X (1 .. N) -> A]
  PROVE  \E f \in [0 .. N -> A] : Computes(f, a, step, N)
<1> DEFINE Good == {n \in 0 .. N : \E f \in [0 .. n -> A] : Computes(f, a, step, n)}
<1>1. 0 \in Good
  <2>1. [n \in 0 .. 0 |-> a] \in [0 .. 0 -> A] /\ Computes([n \in 0 .. 0 |-> a], a, step, 0)
    BY DEF Computes
  <2> QED
    BY <2>1
<1>2. ASSUME NEW n \in 1 .. N, n - 1 \in Good PROVE n \in Good
  <2>1. PICK f \in [0 .. n - 1 -> A] : Computes(f, a, step, n - 1)
    BY <1>2
  <2> DEFINE g == [m \in 0 .. n |-> IF m = n THEN step[<<f[n - 1], n>>] ELSE f[m]]
  <2>2. f[n - 1] \in A /\ step[<<f[n - 1], n>>] \in A
    BY <2>1
  <2>3. g \in [0 .. n -> A]
    BY <2>1, <2>2
  <2>4. g[0] = a
    BY <2>1 DEF Computes
  <2>5. ASSUME NEW m \in 1 .. n PROVE g[m] = step[<<g[m - 1], m>>]
    <3>1. CASE m = n
      BY <3>1, SMTT(30)
    <3>2. CASE m # n
      <4>1. m \in 1 .. n - 1
        BY <3>2
      <4>2. g[m] = f[m] /\ g[m - 1] = f[m - 1]
        BY <4>1
      <4> QED
        BY <2>1, <4>1, <4>2 DEF Computes
    <3> QED
      BY <3>1, <3>2
  <2> HIDE DEF g
  <2>6. Computes(g, a, step, n)
    BY <2>4, <2>5 DEF Computes
  <2> QED
    BY <2>3, <2>6
<1> HIDE DEF Good
<1>3. N \in Good
  BY <1>1, <1>2, StepByStep
<1> QED
  BY <1>3 DEF Good

(* The valid headers of a stack, collected from element to element.          *)
Collects(u, s) ==
  /\ u[0] = <<>>
  /\ \A n \in 1 .. Size :
       u[n] = IF s[n - 1].is = "valid" THEN Append(u[n - 1], s[n - 1]) ELSE u[n - 1]

(* Valids collects from step to step.                                        *)
LEMMA ValidsSteps ==
  ASSUME NEW s \in [InRange -> Header]
  PROVE  \E u \in [0 .. Size -> Seq(Header)] : Collects(u, s) /\ Valids(s) = u[Size]
<1> DEFINE Next1(q, n) == IF s[n - 1].is = "valid" THEN Append(q, s[n - 1]) ELSE q
           step == [x \in Seq(Header) \X (1 .. Size) |-> Next1(x[1], x[2])]
           IsRun(u) == u = [n \in 0 .. Size |-> IF n = 0 THEN <<>> ELSE Next1(u[n - 1], n)]
<1>0. Size \in Nat
  BY StackAssumption
<1>1. ASSUME NEW q \in Seq(Header), NEW n \in 1 .. Size PROVE Next1(q, n) \in Seq(Header)
  <2>1. s[n - 1] \in Header
    BY <1>0 DEF InRange
  <2>2. Append(q, s[n - 1]) \in Seq(Header)
    BY <2>1
  <2> QED
    BY <2>2
<1>a. Valids(s) = (CHOOSE h : IsRun(h))[Size]
  BY Zenon DEF Valids
<1> HIDE DEF Next1
<1>2. step \in [Seq(Header) \X (1 .. Size) -> Seq(Header)]
  <2> SUFFICES ASSUME NEW x \in Seq(Header) \X (1 .. Size) PROVE Next1(x[1], x[2]) \in Seq(Header)
    OBVIOUS
  <2>1. x[1] \in Seq(Header) /\ x[2] \in 1 .. Size
    OBVIOUS
  <2> QED
    BY <1>1, <2>1
<1>3. <<>> \in Seq(Header)
  OBVIOUS
<1>4. PICK m \in [0 .. Size -> Seq(Header)] : Computes(m, <<>>, step, Size)
  BY <1>0, <1>2, <1>3, ComputationExists
<1>5. ASSUME NEW n \in 1 .. Size PROVE m[n] = Next1(m[n - 1], n)
  <2>1. <<m[n - 1], n>> \in Seq(Header) \X (1 .. Size)
    BY <1>0, <1>4
  <2>2. step[<<m[n - 1], n>>] = Next1(m[n - 1], n)
    BY <2>1
  <2> QED
    BY <1>4, <2>2 DEF Computes
<1>6. m[0] = <<>>
  BY <1>4 DEF Computes
<1> HIDE DEF step
<1>7. IsRun(m)
  <2>1. ASSUME NEW n \in 0 .. Size PROVE m[n] = IF n = 0 THEN <<>> ELSE Next1(m[n - 1], n)
    <3>1. n = 0 \/ n \in 1 .. Size
      BY <1>0
    <3>2. 0 \notin 1 .. Size
      OBVIOUS
    <3> QED
      BY <1>5, <1>6, <3>1, <3>2, Zenon
  <2> QED
    BY <1>4, <2>1
<1> DEFINE h == CHOOSE k : IsRun(k)
<1>8. IsRun(h)
  <2> HIDE DEF IsRun
  <2> QED
    BY <1>7, Zenon
<1>9. Valids(s) = h[Size]
  BY <1>a
<1> HIDE DEF h
<1>10. h[0] = <<>> /\ \A n \in 1 .. Size : h[n] = Next1(h[n - 1], n)
  <2>1. \A n \in 0 .. Size : h[n] = IF n = 0 THEN <<>> ELSE Next1(h[n - 1], n)
    BY <1>8, Zenon
  <2> HIDE DEF IsRun
  <2>2. 0 \in 0 .. Size
    BY <1>0
  <2>3. ASSUME NEW n \in 1 .. Size PROVE n \in 0 .. Size /\ n # 0
    BY <1>0
  <2> QED
    BY <2>1, <2>2, <2>3, Zenon
<1>11. h = [n \in 0 .. Size |-> h[n]]
  BY <1>8, Zenon
<1> HIDE DEF IsRun
<1> DEFINE Good == {n \in 0 .. Size : h[n] \in Seq(Header)}
<1>12. 0 \in Good
  <2>1. h[0] \in Seq(Header) /\ 0 \in 0 .. Size
    BY <1>0, <1>3, <1>10
  <2> QED
    BY <2>1
<1>13. ASSUME NEW n \in 1 .. Size, n - 1 \in Good PROVE n \in Good
  <2>1. Next1(h[n - 1], n) \in Seq(Header)
    BY <1>1, <1>13
  <2> QED
    BY <1>10, <2>1
<1> HIDE DEF Good
<1>14. \A n \in 0 .. Size : n \in Good
  BY <1>0, <1>12, <1>13, StepByStep
<1>15. h \in [0 .. Size -> Seq(Header)]
  <2>1. \A n \in 0 .. Size : h[n] \in Seq(Header)
    BY <1>14 DEF Good
  <2> QED
    BY <1>11, <2>1
<1>16. Collects(h, s)
  BY <1>10, Zenon DEF Collects, Next1
<1> QED
  BY <1>9, <1>15, <1>16

(* p is the beginning of q, which has at most k more elements.               *)
StartOf(p, q, k) ==
  Len(p) <= Len(q) /\ Len(q) <= Len(p) + k /\ \A i \in 1 .. Len(p) : q[i] = p[i]

(* Later on the way there are more headers behind those that were there.     *)
LEMMA CollectsMore ==
  ASSUME NEW s, NEW u \in [0 .. Size -> Seq(Header)], Collects(u, s), s \in [InRange -> Header],
         NEW m \in 0 .. Size
  PROVE  \A j \in 0 .. Size - m : StartOf(u[m], u[m + j], j)
<1> DEFINE N == Size - m
           Good == {j \in 0 .. N : StartOf(u[m], u[m + j], j)}
<1>1. Size \in Nat /\ N \in Nat /\ m \in Nat /\ N = Size - m
  BY StackAssumption
<1>2. 0 \in Good
  <2>1. u[m + 0] = u[m] /\ Len(u[m]) \in Nat
    BY <1>1
  <2> QED
    BY <1>1, <2>1 DEF StartOf
<1>3. ASSUME NEW j \in 1 .. N, j - 1 \in Good PROVE j \in Good
  <2> DEFINE p == u[m]
             q == u[m + (j - 1)]
             x == s[m + j - 1]
             r == u[m + j]
  <2>1. StartOf(p, q, j - 1)
    BY <1>3
  <2>2. m + j \in 1 .. Size /\ m + j - 1 = m + (j - 1) /\ m + (j - 1) \in 0 .. Size /\ j \in 0 .. N
        /\ m + (j - 1) \in InRange
    BY <1>1 DEF InRange
  <2>3. r = IF x.is = "valid" THEN Append(q, x) ELSE q
    BY <2>2 DEF Collects
  <2>4. q \in Seq(Header) /\ p \in Seq(Header) /\ x \in Header
    BY <2>2
  <2> HIDE DEF N, p, q, r, x
  <2>5. CASE x.is = "valid"
    <3>1. r = Append(q, x)
      BY <2>3, <2>5
    <3>2. Len(r) = Len(q) + 1 /\ \A i \in 1 .. Len(q) : r[i] = q[i]
      BY <2>4, <3>1
    <3>3. Len(p) \in Nat /\ Len(q) \in Nat
      BY <2>4
    <3>4. StartOf(p, r, j)
      BY <1>1, <2>1, <3>2, <3>3 DEF StartOf
    <3> QED
      BY <2>2, <3>4 DEF p, r
  <2>6. CASE x.is # "valid"
    <3>1. r = q
      BY <2>3, <2>6
    <3>2. Len(p) \in Nat /\ Len(q) \in Nat
      BY <2>4
    <3>3. StartOf(p, r, j)
      BY <1>1, <2>1, <3>1, <3>2 DEF StartOf
    <3> QED
      BY <2>2, <3>3 DEF p, r
  <2> QED
    BY <2>5, <2>6
<1> HIDE DEF Good, N
<1>4. \A j \in 0 .. N : j \in Good
  BY <1>1, <1>2, <1>3, StepByStep
<1> QED
  BY <1>1, <1>4 DEF Good, N

(* Two lists are the same when they have the same elements at every place.   *)
LEMMA SameHeaders ==
  ASSUME NEW S, NEW p \in Seq(S), NEW q \in Seq(S), Len(p) = Len(q),
         \A i \in 1 .. Len(p) : p[i] = q[i]
  PROVE  p = q
OBVIOUS

(* As a part of the list, the beginning ...                                  *)
LEMMA StartIsPart ==
  ASSUME NEW S, NEW p \in Seq(S), NEW q \in Seq(S), NEW k, StartOf(p, q, k)
  PROVE  p = SubSeq(q, 1, Len(p))
<1> DEFINE n == Len(p)
           r == SubSeq(q, 1, n)
<1>1. n \in Nat /\ Len(q) \in Nat /\ n <= Len(q)
  BY DEF StartOf
<1>2. r \in Seq(S) /\ Len(r) = n /\ \A i \in 1 .. n : r[i] = q[i]
  BY <1>1
<1> HIDE DEF r
<1>3. \A i \in 1 .. Len(p) : p[i] = r[i]
  BY <1>2 DEF StartOf
<1>4. p = r
  BY <1>2, <1>3, SameHeaders
<1> QED
  BY <1>4 DEF r

(* ... or the end.                                                           *)
LEMMA RestIsPart ==
  ASSUME NEW S, NEW p \in Seq(S), NEW q \in Seq(S)
  PROVE  LET all == p \o q
         IN  q = SubSeq(all, Len(all) - Len(q) + 1, Len(all)) /\ Len(all) = Len(p) + Len(q)
<1> DEFINE all == p \o q
           m == Len(p)
           n == Len(q)
           r == SubSeq(all, m + 1, m + n)
<1>1. /\ all \in Seq(S) /\ Len(all) = m + n /\ m \in Nat /\ n \in Nat
      /\ \A i \in 1 .. n : all[m + i] = q[i]
  OBVIOUS
<1> HIDE DEF all, m, n
<1>2. Len(all) - n + 1 = m + 1
  BY <1>1
<1>3. r \in Seq(S) /\ Len(r) = n /\ \A i \in 1 .. n : r[i] = all[m + i]
  <2>1. r = [i \in 1 .. n |-> all[m + i]]
    BY <1>1
  <2>2. \A i \in 1 .. n : all[m + i] \in S
    BY <1>1
  <2> HIDE DEF r
  <2> QED
    BY <1>1, <2>1, <2>2
<1> HIDE DEF r
<1>4. q = r
  BY <1>1, <1>3, SameHeaders DEF n
<1> QED
  BY <1>1, <1>2, <1>4 DEF r, all, m, n

(* Appending to the second of two lists.                                     *)
LEMMA AppendBehind ==
  \A p, q \in Seq(Header), x \in Header : Append(p \o q, x) = p \o Append(q, x)
OBVIOUS

(* While no header is valid nothing is collected.                            *)
LEMMA NothingYet ==
  ASSUME NEW s, NEW u, Collects(u, s), NEW m \in 0 .. Size,
         \A i \in 0 .. m - 1 : s[i].is # "valid"
  PROVE  u[m] = <<>>
<1> DEFINE Good == {n \in 0 .. m : u[n] = <<>>}
<1>1. m \in Nat /\ Size \in Nat /\ m <= Size
  BY StackAssumption
<1>2. 0 \in Good
  BY <1>1 DEF Collects
<1>3. ASSUME NEW n \in 1 .. m, n - 1 \in Good PROVE n \in Good
  <2>1. n \in 1 .. Size /\ n - 1 \in 0 .. m - 1 /\ n \in 0 .. m
    BY <1>1
  <2>2. u[n] = u[n - 1]
    BY <2>1 DEF Collects
  <2> QED
    BY <1>3, <2>1, <2>2
<1> HIDE DEF Good
<1>4. \A n \in 0 .. m : n \in Good
  BY <1>1, <1>2, <1>3, StepByStep
<1> QED
  BY <1>1, <1>4 DEF Good

(* A push collects the same headers, count elements later.                   *)
Pushed(s, t, c) ==
  /\ \A i \in 0 .. c - 1 : t[i].is # "valid"
  /\ \A i \in c .. Size - 1 : t[i] = s[i - c]

LEMMA PushCollects ==
  ASSUME NEW s \in [InRange -> Header], NEW t \in [InRange -> Header],
         NEW u \in [0 .. Size -> Seq(Header)], NEW w \in [0 .. Size -> Seq(Header)],
         Collects(u, s), Collects(w, t), NEW c \in 0 .. Size, Pushed(s, t, c)
  PROVE  w[Size] = u[Size - c]
<1> DEFINE N == Size - c
           Good == {n \in 0 .. N : w[c + n] = u[n]}
<1>1. c \in Nat /\ Size \in Nat /\ N \in Nat /\ N = Size - c
  BY StackAssumption
<1>2. 0 \in Good
  <2>1. w[c] = <<>>
    <3>1. \A i \in 0 .. c - 1 : t[i].is # "valid"
      BY DEF Pushed
    <3> QED
      BY <3>1, NothingYet
  <2> QED
    BY <1>1, <2>1 DEF Collects
<1>3. ASSUME NEW n \in 1 .. N, n - 1 \in Good PROVE n \in Good
  <2>1. /\ n \in 1 .. Size /\ c + n \in 1 .. Size /\ c + n - 1 \in c .. Size - 1
        /\ (c + n - 1) - c = n - 1 /\ c + n - 1 = c + (n - 1) /\ n \in 0 .. N
    BY <1>1
  <2>2. w[c + (n - 1)] = u[n - 1]
    BY <1>3
  <2>3. t[c + n - 1] = s[n - 1]
    BY <2>1 DEF Pushed
  <2>4. w[c + n] = IF t[c + n - 1].is = "valid" THEN Append(w[c + n - 1], t[c + n - 1]) ELSE w[c + n - 1]
    BY <2>1 DEF Collects
  <2>5. u[n] = IF s[n - 1].is = "valid" THEN Append(u[n - 1], s[n - 1]) ELSE u[n - 1]
    BY <2>1 DEF Collects
  <2>6. w[c + n] = u[n]
    BY <2>1, <2>2, <2>3, <2>4, <2>5
  <2> QED
    BY <2>1, <2>6
<1> HIDE DEF Good, N
<1>4. \A n \in 0 .. N : n \in Good
  BY <1>1, <1>2, <1>3, StepByStep
<1>5. N \in Good /\ c + N = Size
  BY <1>1, <1>4
<1> QED
  BY <1>5 DEF Good, N

(* A pop collects what was collected behind the first count elements.        *)
LEMMA PopCollects ==
  ASSUME NEW s \in [InRange -> Header], NEW t \in [InRange -> Header],
         NEW u \in [0 .. Size -> Seq(Header)], NEW w \in [0 .. Size -> Seq(Header)],
         Collects(u, s), Collects(w, t), NEW c \in 0 .. Size,
         \A i \in 0 .. (Size - c) - 1 : t[i] = s[i + c],
         \A i \in Size - c .. Size - 1 : t[i].is # "valid"
  PROVE  u[Size] = u[c] \o w[Size]
<1> DEFINE N == Size - c
           Good == {n \in 0 .. N : u[c + n] = u[c] \o w[n]}
           Same == {n \in 0 .. c : w[N + n] = w[N]}
<1>1. c \in Nat /\ Size \in Nat /\ N \in Nat /\ N = Size - c
  BY StackAssumption
<1>2. 0 \in Good
  <2>1. w[0] = <<>> /\ u[c] \in Seq(Header) /\ c + 0 = c /\ 0 \in 0 .. N
    BY <1>1 DEF Collects
  <2>2. u[c] \o <<>> = u[c]
    BY <2>1
  <2> QED
    BY <2>1, <2>2
<1>3. ASSUME NEW n \in 1 .. N, n - 1 \in Good PROVE n \in Good
  <2> DEFINE x == s[c + n - 1]
             p == u[c]
             q == w[n - 1]
  <2>1. /\ n \in 1 .. Size /\ c + n \in 1 .. Size /\ n - 1 \in 0 .. N - 1 /\ n - 1 \in 0 .. Size
        /\ (n - 1) + c = c + n - 1 /\ c + n - 1 = c + (n - 1) /\ n \in 0 .. N /\ c + n - 1 \in InRange
    BY <1>1 DEF InRange
  <2>2. u[c + n - 1] = p \o q
    BY <1>3, <2>1
  <2>3. t[n - 1] = x
    BY <1>1, <2>1
  <2>4. u[c + n] = IF x.is = "valid" THEN Append(u[c + n - 1], x) ELSE u[c + n - 1]
    BY <2>1 DEF Collects
  <2>5. w[n] = IF x.is = "valid" THEN Append(q, x) ELSE q
    BY <2>1, <2>3 DEF Collects
  <2>6. p \in Seq(Header) /\ q \in Seq(Header) /\ x \in Header
    BY <2>1
  <2> HIDE DEF p, q, x, N
  <2>7. u[c + n] = p \o w[n]
    <3>1. Append(p \o q, x) = p \o Append(q, x)
      BY <2>6, AppendBehind, Zenon
    <3>2. CASE x.is = "valid"
      BY <2>2, <2>4, <2>5, <3>1, <3>2, Zenon
    <3>3. CASE x.is # "valid"
      BY <2>2, <2>4, <2>5, <3>3, Zenon
    <3> QED
      BY <3>2, <3>3
  <2> QED
    BY <2>1, <2>7 DEF p
<1>4. 0 \in Same
  BY <1>1
<1>5. ASSUME NEW n \in 1 .. c, n - 1 \in Same PROVE n \in Same
  <2>1. /\ N + n \in 1 .. Size /\ N + n - 1 \in Size - c .. Size - 1 /\ N + n - 1 = N + (n - 1)
        /\ n \in 0 .. c
    BY <1>1
  <2> DEFINE k == N + n
  <2>2. w[k] = w[k - 1]
    <3>1. k \in 1 .. Size /\ k - 1 \in Size - c .. Size - 1
      BY <1>1
    <3> HIDE DEF k
    <3>2. t[k - 1].is # "valid"
      BY <3>1
    <3> QED
      BY <3>1, <3>2 DEF Collects
  <2> QED
    <3>1. w[N + (n - 1)] = w[N]
      BY <1>5
    <3>2. k - 1 = N + (n - 1)
      BY <1>1
    <3>3. w[k] = w[N]
      <4> HIDE DEF N, k
      <4> QED
        BY <2>2, <3>1, <3>2
    <3> QED
      BY <2>1, <3>3
<1> HIDE DEF Good, Same, N
<1>6. \A n \in 0 .. N : n \in Good
  BY <1>1, <1>2, <1>3, StepByStep
<1>7. \A n \in 0 .. c : n \in Same
  BY <1>1, <1>4, <1>5, StepByStep
<1>8. u[c + N] = u[c] \o w[N] /\ w[N + c] = w[N]
  <2>1. N \in Good /\ c \in Same
    BY <1>1, <1>6, <1>7
  <2> QED
    BY <2>1 DEF Good, Same
<1>9. c + N = Size /\ N + c = Size
  BY <1>1
<1> QED
  BY <1>8, <1>9

(* What is collected is no more than there are elements.                     *)
LEMMA CollectsFew ==
  ASSUME NEW s \in [InRange -> Header], NEW u \in [0 .. Size -> Seq(Header)], Collects(u, s),
         NEW n \in 0 .. Size
  PROVE  Len(u[n]) <= n /\ Len(u[n]) \in Nat
<1>1. 0 \in 0 .. Size /\ n \in 0 .. Size - 0 /\ 0 + n = n /\ n \in Nat
  BY StackAssumption
<1>2. StartOf(u[0], u[n], n)
  BY <1>1, CollectsMore
<1>3. u[0] = <<>> /\ Len(u[n]) \in Nat
  BY <1>1 DEF Collects
<1>4. Len(u[0]) = 0
  BY <1>3
<1> QED
  BY <1>1, <1>2, <1>3, <1>4 DEF StartOf

(* push_front keeps the valid headers in front.                              *)
LEMMA PushKeepsOrder ==
  ASSUME Inv, NEW count \in 0 .. MaxCount, PushFront(count)
  PROVE  LET old == Valids(stack)  new == Valids(stack')  kept == Len(new)
         IN  kept \in Len(old) - count .. Len(old) /\ new = SubSeq(old, 1, kept)
<1>1. Size \in Nat /\ count \in Nat /\ stack \in [InRange -> Header] /\ Inv'
  BY StackAssumption, StepInv DEF Inv, TypeOK, Next
<1>2. stack' \in [InRange -> Header]
  BY <1>1 DEF Inv, TypeOK
<1>3. PICK u \in [0 .. Size -> Seq(Header)] : Collects(u, stack) /\ Valids(stack) = u[Size]
  BY <1>1, ValidsSteps
<1>4. PICK w \in [0 .. Size -> Seq(Header)] : Collects(w, stack') /\ Valids(stack') = w[Size]
  BY <1>2, ValidsSteps
<1>5. ASSUME NEW i \in InRange
      PROVE  /\ i < count => stack'[i].is # "valid"
             /\ ~(i < count) => stack'[i] = stack[i - count]
  BY DEF PushFront, Blank
<1> DEFINE c == IF count <= Size THEN count ELSE Size
<1>6. c \in 0 .. Size /\ c <= count /\ c \in Nat
  BY <1>1
<1>7. \A i \in 0 .. c - 1 : stack'[i].is # "valid"
  BY <1>1, <1>5 DEF InRange
<1>8. \A i \in c .. Size - 1 : stack'[i] = stack[i - c]
  BY <1>1, <1>5 DEF InRange
<1> HIDE DEF c
<1>9. w[Size] = u[Size - c]
  <2>1. Pushed(stack, stack', c)
    BY <1>7, <1>8 DEF Pushed
  <2> QED
    <3>1. Collects(u, stack) /\ Collects(w, stack')
      BY <1>3, <1>4
    <3>2. c \in 0 .. Size /\ stack \in [InRange -> Header]
      BY <1>1, <1>6
    <3> QED
      BY <1>2, <2>1, <3>1, <3>2, PushCollects
<1> DEFINE old == u[Size]
           new == w[Size]
<1>10. old \in Seq(Header) /\ new \in Seq(Header) /\ Len(old) \in Nat /\ Len(new) \in Nat
  BY <1>1
<1>11. StartOf(new, old, c)
  <2>1. Size - c \in 0 .. Size /\ c \in 0 .. Size - (Size - c) /\ (Size - c) + c = Size
    BY <1>1, <1>6
  <2> QED
    BY <1>1, <1>3, <1>9, <2>1, CollectsMore
<1>12. new = SubSeq(old, 1, Len(new))
  BY <1>10, <1>11, StartIsPart
<1> HIDE DEF old, new
<1>13. Len(new) \in Len(old) - count .. Len(old)
  BY <1>1, <1>6, <1>10, <1>11 DEF StartOf
<1> QED
  BY <1>3, <1>4, <1>12, <1>13 DEF old, new

(* pop_front keeps those behind.                                             *)
LEMMA PopKeepsOrder ==
  ASSUME Inv, NEW count \in 0 .. MaxCount, PopFront(count)
  PROVE  LET old == Valids(stack)  new == Valids(stack')  kept == Len(new)
         IN  /\ kept \in Len(old) - count .. Len(old)
             /\ new = SubSeq(old, Len(old) - kept + 1, Len(old))
<1>1. Size \in Nat /\ count \in Nat /\ stack \in [InRange -> Header] /\ Inv'
  BY StackAssumption, StepInv DEF Inv, TypeOK, Next
<1>2. stack' \in [InRange -> Header]
  BY <1>1 DEF Inv, TypeOK
<1>3. PICK u \in [0 .. Size -> Seq(Header)] : Collects(u, stack) /\ Valids(stack) = u[Size]
  BY <1>1, ValidsSteps
<1>4. PICK w \in [0 .. Size -> Seq(Header)] : Collects(w, stack') /\ Valids(stack') = w[Size]
  BY <1>2, ValidsSteps
<1>5. ASSUME NEW i \in InRange
      PROVE  /\ i + count \notin InRange => stack'[i].is # "valid"
             /\ i + count \in InRange => stack'[i] = stack[i + count]
  BY DEF PopFront, Blank
<1> DEFINE c == IF count <= Size THEN count ELSE Size
<1>6. c \in 0 .. Size /\ c <= count /\ c \in Nat
  BY <1>1
<1>7. \A i \in Size - c .. Size - 1 : stack'[i].is # "valid"
  <2> SUFFICES ASSUME NEW i \in Size - c .. Size - 1 PROVE stack'[i].is # "valid"
    OBVIOUS
  <2>1. i \in InRange /\ i + count \notin InRange
    BY <1>1, <1>6 DEF InRange
  <2> QED
    BY <1>5, <2>1
<1>8. \A i \in 0 .. (Size - c) - 1 : stack'[i] = stack[i + c]
  BY <1>1, <1>5 DEF InRange
<1> HIDE DEF c
<1>9. u[Size] = u[c] \o w[Size]
  BY <1>1, <1>2, <1>3, <1>4, <1>6, <1>7, <1>8, PopCollects
<1> DEFINE old == u[Size]
           new == w[Size]
           lost == u[c]
<1>10. old \in Seq(Header) /\ new \in Seq(Header) /\ Len(old) \in Nat /\ Len(new) \in Nat
       /\ lost \in Seq(Header)
  BY <1>1, <1>6
<1>11. Len(lost) <= c /\ Len(lost) \in Nat
  BY <1>1, <1>3, <1>6, CollectsFew
<1>12. old = lost \o new
  BY <1>9
<1> HIDE DEF old, new, lost
<1>13. new = SubSeq(old, Len(old) - Len(new) + 1, Len(old)) /\ Len(old) = Len(lost) + Len(new)
  BY <1>10, <1>12, RestIsPart
<1>14. Len(new) \in Len(old) - count .. Len(old)
  BY <1>1, <1>6, <1>10, <1>11, <1>13
<1> QED
  BY <1>3, <1>4, <1>13, <1>14 DEF old, new

(* push_front and pop_front lose valid headers at one end of the stack only, *)
(* at most count of them, and keep the order of the others.                  *)
THEOREM ShiftsInOrder == Spec => ShiftsKeepOrder
<1> DEFINE Kept ==
      stack' # stack =>
        LET old == Valids(stack)  new == Valids(stack')  kept == Len(new)
        IN  \A count \in 0 .. MaxCount :
              /\ PushFront(count) \/ PopFront(count) => kept \in Len(old) - count .. Len(old)
              /\ PushFront(count) => new = SubSeq(old, 1, kept)
              /\ PopFront(count) => new = SubSeq(old, Len(old) - kept + 1, Len(old))
<1>1. ASSUME Inv PROVE Kept
  <2>1. ASSUME NEW count \in 0 .. MaxCount, PushFront(count)
        PROVE  LET old == Valids(stack)  new == Valids(stack')  kept == Len(new)
               IN  kept \in Len(old) - count .. Len(old) /\ new = SubSeq(old, 1, kept)
    BY <1>1, <2>1, PushKeepsOrder
  <2>2. ASSUME NEW count \in 0 .. MaxCount, PopFront(count)
        PROVE  LET old == Valids(stack)  new == Valids(stack')  kept == Len(new)
               IN  /\ kept \in Len(old) - count .. Len(old)
                   /\ new = SubSeq(old, Len(old) - kept + 1, Len(old))
    BY <1>1, <2>2, PopKeepsOrder
  <2> QED
    BY <2>1, <2>2
<1>2. Inv /\ [Next]_vars => [Kept]_vars
  BY <1>1
<1> HIDE DEF Kept
<1>3. Spec => [][Kept]_vars
  BY <1>2, InvAlways, PTL DEF Spec
<1> QED
  BY <1>3 DEF ShiftsKeepOrder, Kept
=============================================================================
