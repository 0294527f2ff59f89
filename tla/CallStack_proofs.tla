--------------------------- MODULE CallStack_proofs ---------------------------
(***************************************************************************)
(* Proofs about calls: for any callees, directions and values, and stacks  *)
(* of calls of any depth.                                                  *)
(***************************************************************************)
EXTENDS CallStack, TLAPS

Frame ==
  [callee : Callee, arg : Loc \cup {BadLvalue, NoTarget},
   lhs : Loc \cup {BadLvalue, NoTarget}, table : BOOLEAN,
   mem : Memory, ext : Nat]
Signal ==
  [kind : {"continue", "return", "exit", "reject"}, value : Value]

(* The locations that hold a value in the memory of the k-th call of fs,   *)
(* which is m: an action keeps those of the actions that called it, a      *)
(* function has its parameter only.                                        *)
InAction(fs, k) == k = 0 \/ fs[k].callee \in Action
Defined(fs, k, m) ==
  /\ k # 0 => m[fs[k].callee] \in Value
  /\ InAction(fs, k) =>
       /\ \A x \in Var : m[x] \in Value
       /\ \A i \in 1 .. k : m[fs[i].callee] \in Value

(* The state each call was made in: the extern state only grows, an action *)
(* is called by actions, and what the caller sees had values.              *)
CalledFrom(fs, i) ==
  /\ \A j \in 1 .. i : fs[j].ext <= fs[i].ext
  /\ InAction(fs, i) => \A j \in 1 .. i : InAction(fs, j)
  /\ Defined(fs, i - 1, fs[i].mem)
Calls(fs, e) ==
  \A i \in 1 .. Len(fs) : fs[i].ext <= e /\ CalledFrom(fs, i)

Types ==
  /\ frames \in Seq(Frame) /\ Len(frames) <= MaxDepth
  /\ mem \in Memory
  /\ ext \in 0 .. MaxExt
  /\ sig \in Signal
  /\ status \in {"running", "done", "crashed"}

CallInv == Types /\ Calls(frames, ext) /\ Defined(frames, Len(frames), mem)

(* TypeOK follows: what can be named has a value.                          *)
LEMMA InvType == CallInv => TypeOK
<1> SUFFICES ASSUME CallInv PROVE TypeOK
    OBVIOUS
<1>1. \A i \in DOMAIN frames : frames[i] \in Frame
    BY DEF CallInv, Types
<1>2. \A i \in DOMAIN frames :
        /\ frames[i].callee \in Callee
        /\ frames[i].mem \in Memory /\ frames[i].ext \in 0 .. ext
  <2>1. ext \in Nat /\ \A i \in DOMAIN frames : frames[i].ext <= ext
      BY BoundAssumption DEF CallInv, Types, Calls
  <2> QED
      BY <1>1, <2>1 DEF Frame
<1>3. \A l \in Visible : mem[l] # Absent
  <2>1. CASE frames = <<>>
      BY <2>1, ValueAssumption DEF CallInv, Visible, Defined, InAction
  <2>2. CASE frames # <<>>
    <3>1. Len(frames) \in DOMAIN frames /\ Len(frames) # 0
        BY <2>2 DEF CallInv, Types
    <3>2. mem[Last(frames).callee] \in Value
        BY <3>1 DEF CallInv, Defined, Last
    <3>3. ~InFunction => \A x \in Var : mem[x] \in Value
        BY <2>2, <3>1, <1>2 DEF CallInv, Defined, InAction, InFunction, Last, Callee
    <3> QED
        BY <2>2, <3>2, <3>3, ValueAssumption DEF Visible
  <2> QED
      BY <2>1, <2>2
<1>4. sig.kind \in {"continue", "return", "exit", "reject"} /\ sig.value \in Value
    BY DEF CallInv, Types, Signal
<1> QED
    BY <1>2, <1>3, <1>4 DEF TypeOK, CallInv, Types

-----------------------------------------------------------------------------
(* A write of a value to any location leaves what has values so.           *)
LEMMA WriteKeeps ==
  ASSUME NEW fs \in Seq(Frame), NEW k \in 0 .. Len(fs), NEW m \in Memory, Defined(fs, k, m),
         NEW l, NEW v \in Value
  PROVE  /\ [m EXCEPT ![l] = v] \in Memory
         /\ Defined(fs, k, [m EXCEPT ![l] = v])
<1> DEFINE n == [m EXCEPT ![l] = v]
<1>1. n \in Memory
    BY DEF Memory
<1>2. \A x \in Loc : m[x] \in Value => n[x] \in Value
    BY DEF Memory
<1>3. \A i \in 1 .. k : fs[i].callee \in Loc
  <2>1. \A i \in 1 .. k : fs[i] \in Frame
      OBVIOUS
  <2> QED
      BY <2>1 DEF Frame, Loc
<1>4. \A x \in Var : x \in Loc
    BY DEF Loc
<1> HIDE DEF n
<1> QED
    BY <1>1, <1>2, <1>3, <1>4 DEF Defined, n

(* What is known of a call depends on the calls below it only.             *)
LEMMA SameBelow ==
  ASSUME NEW fs, NEW gs, NEW n \in Nat, \A i \in 1 .. n : gs[i] = fs[i]
  PROVE  /\ \A i \in 0 .. n : InAction(gs, i) <=> InAction(fs, i)
         /\ \A k \in 0 .. n : \A m : Defined(gs, k, m) <=> Defined(fs, k, m)
         /\ \A i \in 1 .. n : CalledFrom(gs, i) <=> CalledFrom(fs, i)
<1>1. \A i \in 0 .. n : InAction(gs, i) <=> InAction(fs, i)
    BY DEF InAction
<1>2. \A k \in 0 .. n : \A m : Defined(gs, k, m) <=> Defined(fs, k, m)
    BY <1>1 DEF Defined
<1>3. ASSUME NEW i \in 1 .. n PROVE CalledFrom(gs, i) <=> CalledFrom(fs, i)
  <2>1. \A j \in 1 .. i : gs[j] = fs[j] /\ (InAction(gs, j) <=> InAction(fs, j))
      BY <1>1
  <2>2. Defined(gs, i - 1, gs[i].mem) <=> Defined(fs, i - 1, fs[i].mem)
      BY <1>2
  <2> QED
      BY <2>1, <2>2 DEF CalledFrom
<1> QED
    BY <1>1, <1>2, <1>3

(* The innermost call is made: the caller's memory and extern state are    *)
(* kept with it.                                                           *)
LEMMA PushKeeps ==
  ASSUME NEW fs \in Seq(Frame), NEW e \in Nat, Calls(fs, e),
         NEW fr \in Frame, fr.ext = e, Defined(fs, Len(fs), fr.mem),
         fr.callee \in Action => InAction(fs, Len(fs))
  PROVE  Calls(Append(fs, fr), e)
<1> DEFINE gs == Append(fs, fr)
           n == Len(fs)
<1>1. /\ n \in Nat /\ Len(gs) = n + 1 /\ gs[n + 1] = fr
      /\ \A i \in 1 .. n : gs[i] = fs[i]
    OBVIOUS
<1> HIDE DEF gs, n
<1>2. /\ \A i \in 0 .. n : InAction(gs, i) <=> InAction(fs, i)
      /\ \A k \in 0 .. n : \A m : Defined(gs, k, m) <=> Defined(fs, k, m)
      /\ \A i \in 1 .. n : CalledFrom(gs, i) <=> CalledFrom(fs, i)
    BY <1>1, SameBelow
<1>3. \A i \in 1 .. n : fs[i].ext <= e /\ CalledFrom(fs, i)
    BY DEF Calls, n
<1>4. \A j \in 1 .. n + 1 : gs[j].ext <= e
    BY <1>1, <1>3
<1>5. InAction(gs, n + 1) => \A j \in 1 .. n + 1 : InAction(gs, j)
  <2> SUFFICES ASSUME InAction(gs, n + 1) PROVE \A j \in 1 .. n : InAction(gs, j)
      BY <1>1
  <2>1. InAction(fs, n)
      BY <1>1 DEF InAction, n
  <2>2. n # 0 => \A j \in 1 .. n : InAction(fs, j)
      BY <1>1, <1>3, <2>1 DEF CalledFrom
  <2> QED
      BY <1>1, <1>2, <2>2
<1>6. Defined(gs, n, fr.mem)
    BY <1>1, <1>2 DEF n
<1>7. CalledFrom(gs, n + 1)
    BY <1>1, <1>4, <1>5, <1>6 DEF CalledFrom
<1>8. \A i \in 1 .. n + 1 : CalledFrom(gs, i)
    BY <1>1, <1>2, <1>3, <1>7
<1> QED
    BY <1>1, <1>4, <1>8 DEF Calls, gs

(* The innermost call ends: its caller is the innermost call.              *)
LEMMA PopKeeps ==
  ASSUME NEW fs \in Seq(Frame), NEW e \in Nat, Calls(fs, e), fs # <<>>
  PROVE  /\ Front(fs) \in Seq(Frame) /\ Len(Front(fs)) = Len(fs) - 1
         /\ Last(fs) \in Frame /\ Last(fs) = fs[Len(fs)] /\ Len(fs) \in Nat \ {0}
         /\ Calls(Front(fs), e) /\ Calls(Front(fs), Last(fs).ext)
         /\ Last(fs).ext <= e
         /\ CalledFrom(fs, Len(fs))
         /\ \A k \in 0 .. Len(fs) - 1 : \A m :
              Defined(Front(fs), k, m) <=> Defined(fs, k, m)
<1> DEFINE gs == Front(fs)
           n == Len(fs) - 1
<1>1. n \in Nat /\ Len(fs) = n + 1 /\ Last(fs) = fs[n + 1] /\ Last(fs) \in Frame
    BY DEF Last
<1>2. gs \in Seq(Frame) /\ Len(gs) = n /\ \A i \in 1 .. n : gs[i] = fs[i]
    BY <1>1 DEF Front
<1> HIDE DEF gs, n
<1>3. /\ \A k \in 0 .. n : \A m : Defined(gs, k, m) <=> Defined(fs, k, m)
      /\ \A i \in 1 .. n : CalledFrom(gs, i) <=> CalledFrom(fs, i)
    BY <1>1, <1>2, SameBelow
<1>4. \A i \in 1 .. n + 1 : fs[i].ext <= e /\ CalledFrom(fs, i)
    BY <1>1 DEF Calls
<1>5. \A i \in 1 .. n : fs[i].ext <= Last(fs).ext
    BY <1>1, <1>4 DEF CalledFrom
<1>6. \A i \in 1 .. n : gs[i].ext <= e /\ gs[i].ext <= Last(fs).ext /\ CalledFrom(gs, i)
    BY <1>1, <1>2, <1>3, <1>4, <1>5
<1> QED
    BY <1>1, <1>2, <1>3, <1>4, <1>6 DEF Calls, gs, n

-----------------------------------------------------------------------------
(* What the statements do.                                                 *)

(* What can be named is a location, and holds a value.                     *)
LEMMA VisibleValues ==
  ASSUME CallInv PROVE \A l \in Visible : l \in Loc /\ mem[l] \in Value
<1>1. Visible \subseteq Loc
  <2>1. frames # <<>> => Last(frames) \in Frame
      BY DEF CallInv, Types, Last
  <2> QED
      BY <2>1 DEF Visible, Frame, Loc
<1>2. mem \in [Loc -> Value \cup {Absent}] /\ \A l \in Visible : mem[l] # Absent
    BY InvType DEF TypeOK, Memory
<1> QED
    BY <1>1, <1>2

(* A value is written, and an extern may have been called.                 *)
LEMMA WriteStep ==
  ASSUME CallInv, NEW l, NEW v \in Value, mem' = [mem EXCEPT ![l] = v],
         ext' \in {ext, ext + 1}, ext' <= MaxExt, sig' \in Signal, frames' = frames,
         status' = status
  PROVE  CallInv'
<1> DEFINE n == Len(frames)
<1>1. /\ frames \in Seq(Frame) /\ n \in 0 .. Len(frames) /\ ext \in Nat
      /\ mem \in Memory /\ Defined(frames, n, mem)
      /\ Calls(frames, ext) /\ \A i \in 1 .. n : frames[i].ext \in Nat
  <2>1. \A i \in 1 .. n : frames[i] \in Frame
      BY DEF CallInv, Types
  <2> QED
      BY <2>1, BoundAssumption DEF CallInv, Types, Frame
<1>2. Calls(frames, ext')
  <2>1. ext <= ext'
      BY <1>1
  <2> QED
      BY <1>1, <2>1 DEF Calls
<1> HIDE DEF n
<1>3. mem' \in Memory /\ Defined(frames, n, mem')
    BY <1>1, WriteKeeps
<1>4. Types'
    BY <1>1, <1>3, BoundAssumption DEF CallInv, Types
<1> QED
    BY <1>2, <1>3, <1>4 DEF CallInv, n

LEMMA PushStep ==
  ASSUME CallInv, NEW c \in Callee, NEW arg \in Loc \cup {BadLvalue, NoTarget},
         NEW lhs \in Loc \cup {BadLvalue, NoTarget}, NEW table \in BOOLEAN,
         NEW v \in Value, Push(c, arg, lhs, table, v),
         table => frames = <<>>
  PROVE  CallInv'
<1> DEFINE fr == [callee |-> c, arg |-> arg, lhs |-> lhs, table |-> table,
                  mem |-> mem, ext |-> ext]
           n == Len(frames)
<1>1. /\ fr \in Frame /\ fr.ext = ext /\ fr.mem = mem /\ fr.callee = c
    BY BoundAssumption DEF CallInv, Types, Frame
<1>2. /\ n \in Nat /\ frames' = Append(frames, fr) /\ frames' \in Seq(Frame)
      /\ Len(frames') = n + 1 /\ frames'[n + 1] = fr
      /\ \A i \in 1 .. n : frames'[i] = frames[i]
      /\ n + 1 <= MaxDepth
    BY <1>1, BoundAssumption DEF CallInv, Types, Push
<1>3. c \in Action => InAction(frames, n)
  <2>1. c \in Action => ~InFunction
      BY DisjointAssumption DEF Push, Callable
  <2>2. n # 0 => Last(frames) = frames[n] /\ Last(frames) \in Frame /\ frames # <<>>
      BY DEF CallInv, Types, Last
  <2> QED
      BY <2>1, <2>2 DEF InAction, InFunction, Frame, Callee
<1> HIDE DEF fr, n
<1>4. ext \in Nat /\ frames \in Seq(Frame) /\ Calls(frames, ext) /\ Defined(frames, n, mem)
    BY BoundAssumption DEF CallInv, Types, n
<1>5. Calls(frames', ext')
    BY <1>1, <1>2, <1>3, <1>4, PushKeeps DEF n, Push
<1>6. mem' \in Memory /\ mem'[c] = v
    BY DEF Push, CopyIn, EmptyMemory, CallInv, Types, Memory, Loc
<1>7. Defined(frames', n + 1, mem')
  <2>1. CASE c \in Function
    <3>1. ~InAction(frames', n + 1)
        BY <1>1, <1>2, <2>1, DisjointAssumption DEF InAction
    <3> QED
        BY <1>1, <1>2, <1>6, <3>1 DEF Defined
  <2>2. CASE c \in Action
    <3>1. mem' = [mem EXCEPT ![c] = v]
        BY <2>2, DisjointAssumption DEF Push, CopyIn
    <3>2. Defined(frames, n, mem') /\ InAction(frames, n)
      <4>1. mem \in Memory /\ n \in 0 .. Len(frames)
          BY <1>2 DEF CallInv, Types, n
      <4>2. Defined(frames, n, mem')
          BY <1>4, <3>1, <4>1, WriteKeeps
      <4> QED
          BY <1>3, <2>2, <4>2
    <3>3. /\ \A x \in Var : mem'[x] \in Value
          /\ \A i \in 1 .. n : mem'[frames'[i].callee] \in Value
        BY <1>2, <3>2 DEF Defined
    <3> QED
        BY <1>1, <1>2, <1>6, <3>3 DEF Defined
  <2> QED
      BY <2>1, <2>2 DEF Callee
<1>8. Types'
    BY <1>2, <1>6 DEF CallInv, Types, Push
<1> QED
    BY <1>2, <1>5, <1>7, <1>8 DEF CallInv

(* The end of a call whose effects count: the caller's memory is what the  *)
(* call saved or worked on, with at most two values written to it.         *)
LEMMA CallersMemory ==
  ASSUME CallInv, frames # <<>>
  PROVE  /\ CopyOut(Last(frames)) \in Memory
         /\ Defined(Front(frames), Len(frames) - 1, CopyOut(Last(frames)))
<1> DEFINE n == Len(frames) - 1
           fr == Last(frames)
           caller == IF fr.callee \in Function THEN fr.mem ELSE mem
<1>1. /\ n \in Nat /\ Front(frames) \in Seq(Frame) /\ Len(Front(frames)) = n
      /\ fr \in Frame /\ fr = frames[n + 1] /\ CalledFrom(frames, n + 1)
      /\ \A k \in 0 .. n : \A m : Defined(Front(frames), k, m) <=> Defined(frames, k, m)
  <2>1. frames \in Seq(Frame) /\ ext \in Nat /\ Calls(frames, ext)
      BY BoundAssumption DEF CallInv, Types
  <2>2. /\ Front(frames) \in Seq(Frame) /\ Len(Front(frames)) = n
        /\ fr \in Frame /\ fr = frames[Len(frames)] /\ Len(frames) \in Nat \ {0}
        /\ CalledFrom(frames, Len(frames))
        /\ \A k \in 0 .. n : \A m : Defined(Front(frames), k, m) <=> Defined(frames, k, m)
      BY <2>1, PopKeeps
  <2>3. n \in Nat /\ Len(frames) = n + 1
      BY <2>2
  <2> QED
      BY <2>2, <2>3
<1>2. Defined(frames, n + 1, mem) /\ mem \in Memory
    BY <1>1 DEF CallInv, Types
<1>3. fr.callee \in Callee /\ fr.mem \in Memory
    BY <1>1 DEF Frame
<1> HIDE DEF n, fr
<1>4. Defined(frames, n, caller) /\ caller \in Memory
  <2>1. CASE fr.callee \in Function
      BY <1>1, <1>3, <2>1 DEF CalledFrom
  <2>2. CASE fr.callee \in Action
    <3>1. InAction(frames, n + 1) /\ caller = mem
        BY <1>1, <2>2, DisjointAssumption DEF InAction
    <3>2. /\ \A x \in Var : mem[x] \in Value
          /\ \A i \in 1 .. n : mem[frames[i].callee] \in Value
        BY <1>1, <1>2, <3>1 DEF Defined
    <3> QED
        BY <1>1, <1>2, <3>1, <3>2 DEF Defined
  <2> QED
      BY <1>3, <2>1, <2>2 DEF Callee
<1>5. mem[fr.callee] \in Value
    BY <1>1, <1>2 DEF Defined
<1> HIDE DEF caller
<1>6. Defined(Front(frames), n, caller)
    BY <1>1, <1>4
<1>7. ASSUME NEW l
      PROVE  /\ [caller EXCEPT ![l] = mem[fr.callee]] \in Memory
             /\ Defined(Front(frames), n, [caller EXCEPT ![l] = mem[fr.callee]])
  <2>1. n \in 0 .. Len(Front(frames))
      BY <1>1
  <2> QED
      BY <1>1, <1>4, <1>5, <1>6, <2>1, WriteKeeps
<1> QED
    BY <1>4, <1>6, <1>7 DEF CopyOut, n, fr, caller

-----------------------------------------------------------------------------
(* The calls keep their shape.                                             *)

(* No call, and a variable of the control has a value.                     *)
LEMMA InitInv == Init => CallInv
<1> SUFFICES ASSUME Init PROVE CallInv
    OBVIOUS
<1>1. Types
    BY ValueAssumption, BoundAssumption
    DEF Init, Types, Memory, Loc, Continue, Signal
<1>2. Calls(frames, ext)
    BY DEF Init, Calls
<1>3. Defined(frames, Len(frames), mem)
    BY ValueAssumption DEF Init, Defined, Loc
<1> QED
    BY <1>1, <1>2, <1>3 DEF CallInv

(* The signals are signals.                                                *)
LEMMA SignalTypes ==
  /\ Continue \in Signal /\ Exit \in Signal /\ Reject \in Signal
  /\ \A v \in Value : Return(v) \in Signal
  /\ sig \in Signal => Ended \in Signal
BY ValueAssumption DEF Continue, Exit, Reject, Return, Ended, Signal

(* Statements, and the calls they make, keep the invariant.                *)
LEMMA StatementInv == CallInv /\ Statements => CallInv'
<1> SUFFICES ASSUME CallInv, Statements PROVE CallInv'
    OBVIOUS
<1>1. ASSUME UNCHANGED <<frames, mem, ext, status>>, sig' \in Signal PROVE CallInv'
    BY <1>1 DEF CallInv, Types
<1>2. ext \in Nat /\ ext <= MaxExt /\ sig \in Signal
    BY BoundAssumption DEF CallInv, Types
<1>3. ASSUME NEW l \in Visible, NEW v \in Value, Assign(l, v) PROVE CallInv'
    BY <1>2, <1>3, WriteStep DEF Assign
<1>4. ASSUME NEW l \in Visible, NEW v \in Value, NEW s \in {Continue, Reject},
             CallExtern(l, v, s)
      PROVE CallInv'
  <2>1. ext' = ext + 1 /\ ext' <= MaxExt
      BY <1>2, <1>4, BoundAssumption DEF CallExtern
  <2> QED
      BY <1>4, <2>1, SignalTypes, WriteStep DEF CallExtern
<1>5. ASSUME NEW v \in Value, ReturnStatement(v) PROVE CallInv'
    BY <1>1, <1>5, SignalTypes DEF ReturnStatement
<1>6. CASE ExitStatement
    BY <1>1, <1>6, SignalTypes DEF ExitStatement
<1>7. CASE StatementRejects
    BY <1>1, <1>7, SignalTypes DEF StatementRejects
<1>8. ASSUME NEW c \in Callee, NEW arg \in Visible \cup {BadLvalue},
             NEW lhs \in Visible \cup {BadLvalue, NoTarget}, Call(c, arg, lhs)
      PROVE CallInv'
  <2>1. Initial(c, arg) \subseteq Value
      BY VisibleValues, ValueAssumption DEF Initial
  <2>2. arg \in Loc \cup {BadLvalue, NoTarget} /\ lhs \in Loc \cup {BadLvalue, NoTarget}
      BY VisibleValues
  <2>3. PICK v \in Initial(c, arg) : Push(c, arg, lhs, FALSE, v)
      BY <1>8 DEF Call
  <2> QED
      BY <2>1, <2>2, <2>3, PushStep
<1>9. ASSUME NEW a \in Action, NEW v \in Value, ApplyTable(a, v) PROVE CallInv'
    BY <1>9, PushStep DEF ApplyTable, Callee
<1> QED
    BY <1>3, <1>4, <1>5, <1>6, <1>7, <1>8, <1>9 DEF Statements

(* So does the end of a call, of whichever kind.                           *)
LEMMA UnwindInv == CallInv /\ Unwind => CallInv'
<1> SUFFICES ASSUME CallInv, Unwind PROVE CallInv'
    OBVIOUS
<1>1. /\ ext \in Nat /\ sig \in Signal /\ frames \in Seq(Frame)
      /\ Calls(frames, ext) /\ Len(frames) <= MaxDepth
    BY BoundAssumption DEF CallInv, Types
<1>2. CASE TableFails
    BY <1>2 DEF TableFails, CallInv, Types
<1>3. CASE Finish
    BY <1>1, <1>3, SignalTypes DEF Finish, CallInv, Types
<1> DEFINE n == Len(frames) - 1
           fr == Last(frames)
<1>4. ASSUME frames # <<>>
      PROVE  /\ Front(frames) \in Seq(Frame) /\ Len(Front(frames)) = n /\ n \in Nat
             /\ n <= MaxDepth
             /\ fr \in Frame /\ fr.ext \in 0 .. ext /\ fr.mem \in Memory
             /\ Calls(Front(frames), ext) /\ Calls(Front(frames), fr.ext)
             /\ Defined(Front(frames), n, fr.mem)
  <2>1. /\ Front(frames) \in Seq(Frame) /\ Len(Front(frames)) = n
        /\ fr \in Frame /\ fr = frames[Len(frames)] /\ Len(frames) \in Nat \ {0}
        /\ Calls(Front(frames), ext) /\ Calls(Front(frames), fr.ext) /\ fr.ext <= ext
        /\ CalledFrom(frames, Len(frames))
        /\ \A k \in 0 .. n : \A m : Defined(Front(frames), k, m) <=> Defined(frames, k, m)
      BY <1>1, <1>4, PopKeeps
  <2>2. Defined(Front(frames), n, fr.mem)
      BY <2>1 DEF CalledFrom
  <2>3. fr.ext \in Nat /\ fr.mem \in Memory
      BY <2>1 DEF Frame
  <2> QED
      BY <1>1, <2>1, <2>2, <2>3, BoundAssumption
<1>5. CASE LeaveDropped
  <2> DEFINE fs == Front(frames)
  <2>1. frames # <<>> /\ frames' = fs /\ mem' = fr.mem /\ ext' = fr.ext
        /\ sig' = Reject /\ status' = status
      BY <1>5 DEF LeaveDropped
  <2> HIDE DEF n, fr, fs
  <2>2. Types'
      BY <1>1, <1>4, <2>1, SignalTypes, BoundAssumption DEF CallInv, Types, fs
  <2> QED
      BY <1>4, <2>1, <2>2 DEF CallInv, fs
<1>6. CASE Leave
  <2> DEFINE fs == Front(frames)
             after == CopyOut(fr)
  <2>1. frames # <<>> /\ frames' = fs /\ ext' = ext /\ status' = status
        /\ AfterCall(fr, after)
      BY <1>6 DEF Leave
  <2>2. after \in Memory /\ Defined(fs, n, after)
      BY <2>1, CallersMemory
  <2>3. Ended.value \in Value /\ sig' \in Signal
      BY <1>1, <2>1, SignalTypes DEF AfterCall, Signal
  <2> HIDE DEF n, fr, fs, after
  <2>4. mem' \in {after, [after EXCEPT ![fr.lhs] = Ended.value]}
      BY <2>1 DEF AfterCall
  <2>5. mem' \in Memory /\ Defined(fs, n, mem')
    <3>1. fs \in Seq(Frame) /\ n \in 0 .. Len(fs)
        BY <1>4, <2>1 DEF fs
    <3>2. /\ [after EXCEPT ![fr.lhs] = Ended.value] \in Memory
          /\ Defined(fs, n, [after EXCEPT ![fr.lhs] = Ended.value])
        BY <2>2, <2>3, <3>1, WriteKeeps
    <3> QED
        BY <2>2, <2>4, <3>2
  <2>6. Types'
      BY <1>1, <1>4, <2>1, <2>3, <2>5 DEF CallInv, Types, fs
  <2> QED
      BY <1>4, <2>1, <2>5, <2>6 DEF CallInv, fs
<1> QED
    BY <1>2, <1>3, <1>5, <1>6 DEF Unwind

(* It holds throughout.                                                    *)
LEMMA InvAlways == Spec => []CallInv
<1>1. CallInv /\ [Next]_vars => CallInv'
  <2>1. CallInv /\ UNCHANGED vars => CallInv'
      BY DEF vars, CallInv, Types
  <2> QED
      BY <2>1, StatementInv, UnwindInv DEF Next, Stopped
<1> QED
    BY <1>1, InitInv, PTL DEF Spec

(* Memory has its type, and every variable and parameter that the running  *)
(* code can name has a value, however calls save, put back and drop        *)
(* memories (interp_call, interp_func).                                    *)
THEOREM TypeCorrect == Spec => []TypeOK
BY InvAlways, InvType, PTL

-----------------------------------------------------------------------------
(* An exit ends every caller up to the control: whatever step follows it,  *)
(* it is still an exit or the interpreter gives up, and no extern is       *)
(* called (force_return_signal and the end of interp_block).               *)
THEOREM ExitEndsAll == Spec => ExitIsFinal
<1>1. CallInv /\ [Next]_vars =>
        [sig.kind = "exit" /\ ~SomeDropped =>
           ext' = ext /\ (sig'.kind = "exit" \/ status' = "crashed")]_vars
  <2> SUFFICES ASSUME CallInv, Next, sig.kind = "exit", ~SomeDropped
               PROVE  ext' = ext /\ (sig'.kind = "exit" \/ status' = "crashed")
      OBVIOUS
  <2>1. ~Statements
      BY DEF Statements, Running, Assign, CallExtern, ReturnStatement, ExitStatement,
             StatementRejects, Call, ApplyTable, Push
  <2>2. ~LeaveDropped
    <3>1. frames # <<>> => Len(frames) \in DOMAIN frames
        BY DEF CallInv, Types
    <3> QED
        BY <3>1 DEF LeaveDropped, SomeDropped, Last
  <2>3. Ended = sig
      BY DEF Ended
  <2>4. CASE Leave
      BY <2>3, <2>4 DEF Leave, AfterCall
  <2>5. CASE TableFails \/ Finish \/ Stopped
      BY <2>3, <2>5 DEF TableFails, Finish, Stopped, vars
  <2> QED
      BY <2>1, <2>2, <2>4, <2>5 DEF Next, Unwind
<1> QED
    BY <1>1, InvAlways, PTL DEF Spec, ExitIsFinal

-----------------------------------------------------------------------------
(* That calls on one memory, saved and put back, implement calls with      *)
(* private parameters: the refinement of CallByCopy by CallStack, for any  *)
(* callees, directions and values, and any depth.                          *)

(* What the k-th call of fs can name.                                      *)
Named(fs, k) ==
  IF k = 0 THEN Var
  ELSE {fs[k].callee} \cup (IF fs[k].callee \in Function THEN {} ELSE Var)

(* How a call is made: nothing is recursive, arguments and targets are     *)
(* what the caller can name, only a function's result has a target, and    *)
(* tables are applied in the control.                                      *)
MadeBy(fs, i) ==
  /\ \A j \in 1 .. i - 1 : fs[j].callee # fs[i].callee
  /\ IF fs[i].table
     THEN /\ i = 1 /\ fs[i].arg = NoTarget /\ fs[i].callee \in Action
          /\ Dir[fs[i].callee] = "in"
     ELSE fs[i].arg \in Named(fs, i - 1) \cup {BadLvalue}
  /\ fs[i].lhs \in Named(fs, i - 1) \cup {BadLvalue, NoTarget}
  /\ fs[i].callee \in Action => fs[i].lhs = NoTarget

(* The first b calls are of actions and the others of functions.           *)
Boundary(fs, b) == \A i \in 1 .. Len(fs) : fs[i].callee \in Action <=> i <= b

DroppedAt(fs, d) ==
  /\ d \in 1 .. Len(fs) /\ Dropped(fs[d])
  /\ \A j \in 1 .. d - 1 : ~Dropped(fs[j])

Shape(fs) ==
  /\ \A i \in 1 .. Len(fs) : MadeBy(fs, i)
  /\ \E b \in 0 .. Len(fs) : Boundary(fs, b)
  /\ (\A i \in 1 .. Len(fs) : ~Dropped(fs[i])) \/ (\E d : DroppedAt(fs, d))

RefInv == CallInv /\ Shape(frames) /\ (sig.kind # "return" => sig.value = Zero)

-----------------------------------------------------------------------------
(* The abstract state of a stack of calls none of which is dropped: the    *)
(* memory of the i-th call is the live one, m, or what the next call of a  *)
(* function saved.                                                         *)
Above(fs, i) == {j \in i + 1 .. Len(fs) : fs[j].callee \in Function}
MemOf(fs, m, i) ==
  IF Above(fs, i) = {} THEN m
  ELSE fs[CHOOSE j \in Above(fs, i) : \A k \in Above(fs, i) : j <= k].mem
Control(fs, m) == [x \in Var |-> MemOf(fs, m, 0)[x]]
Call_(fs, m, i) ==
  [callee |-> fs[i].callee, arg |-> fs[i].arg, lhs |-> fs[i].lhs,
   table |-> fs[i].table, param |-> MemOf(fs, m, i)[fs[i].callee]]
CallsOf(fs, m) == [i \in 1 .. Len(fs) |-> Call_(fs, m, i)]

(* With the first function known, the next one is.                         *)
NextFunction(b, i) == IF i < b THEN b + 1 ELSE i + 1
LEMMA MemOfIs ==
  ASSUME NEW fs \in Seq(Frame), NEW b \in 0 .. Len(fs), Boundary(fs, b),
         NEW i \in 0 .. Len(fs), NEW m
  PROVE  MemOf(fs, m, i) = IF NextFunction(b, i) > Len(fs) THEN m
                           ELSE fs[NextFunction(b, i)].mem
<1> DEFINE nf == NextFunction(b, i)
<1>1. nf \in Nat /\ nf >= i + 1
    BY DEF NextFunction
<1>2. \A j \in 1 .. Len(fs) : fs[j].callee \in Function <=> j > b
  <2>1. \A j \in 1 .. Len(fs) : fs[j] \in Frame
      OBVIOUS
  <2> QED
      BY <2>1, DisjointAssumption DEF Boundary, Frame, Callee
<1>3. \A j : j \in Above(fs, i) <=> j \in nf .. Len(fs)
    BY <1>2 DEF Above, NextFunction
<1>4. CASE nf > Len(fs)
    BY <1>1, <1>3, <1>4 DEF MemOf
<1>5. CASE nf <= Len(fs)
  <2>1. nf \in Above(fs, i) /\ \A k \in Above(fs, i) : nf <= k
      BY <1>1, <1>3, <1>5
  <2>2. \A j \in Above(fs, i) : (\A k \in Above(fs, i) : j <= k) => j = nf
      BY <1>1, <1>3, <2>1
  <2>3. (CHOOSE j \in Above(fs, i) : \A k \in Above(fs, i) : j <= k) = nf
      BY <2>1, <2>2
  <2>4. MemOf(fs, m, i) = fs[nf].mem
      BY <2>1, <2>3 DEF MemOf
  <2>5. ~(nf > Len(fs))
      BY <1>1, <1>5
  <2> QED
      BY <2>4, <2>5
<1> QED
    BY <1>1, <1>4, <1>5

-----------------------------------------------------------------------------
(* Writing to what the innermost call can name changes one variable or its *)
(* own parameter, and nothing else.                                        *)
Written(fs, m, n, l, v) ==
  /\ Control(fs, n) = [x \in Var |-> IF x = l THEN v ELSE Control(fs, m)[x]]
  /\ CallsOf(fs, n) = [i \in 1 .. Len(fs) |->
       IF i = Len(fs) /\ l = fs[i].callee
       THEN [CallsOf(fs, m)[i] EXCEPT !.param = v] ELSE CallsOf(fs, m)[i]]

LEMMA WriteAbs ==
  ASSUME NEW fs \in Seq(Frame), NEW b \in 0 .. Len(fs), Boundary(fs, b),
         \A i \in 1 .. Len(fs) : MadeBy(fs, i),
         NEW m \in Memory, NEW l \in Named(fs, Len(fs)), NEW v
  PROVE  Written(fs, m, [m EXCEPT ![l] = v], l, v)
<1> DEFINE n == [m EXCEPT ![l] = v]
           k == Len(fs)
<1>1. \A i \in 1 .. k : fs[i].callee \in Callee
  <2>1. \A i \in 1 .. k : fs[i] \in Frame
      OBVIOUS
  <2> QED
      BY <2>1 DEF Frame
<1>2. l \in Loc
    BY <1>1 DEF Named, Loc
<1>3. n[l] = v /\ \A x \in Loc : x # l => n[x] = m[x]
    BY <1>2 DEF Memory
<1>4. k \in Nat /\ b \in 0 .. k
    OBVIOUS
<1>5. l \in Var => b = k
  <2> SUFFICES ASSUME l \in Var, k # 0 PROVE b = k
      BY <1>4
  <2>1. fs[k].callee \notin Function
      BY <1>1, <1>4, DisjointAssumption DEF Named
  <2>2. fs[k].callee \in Action
      BY <1>1, <1>4, <2>1 DEF Callee
  <2> QED
      BY <1>4, <2>2 DEF Boundary
<1>6. l \notin Var => k # 0 /\ l = fs[k].callee
    BY <1>4 DEF Named
<1> HIDE DEF n
<1>7. ASSUME NEW i \in 0 .. k
      PROVE  \/ MemOf(fs, n, i) = n /\ MemOf(fs, m, i) = m
             \/ MemOf(fs, n, i) = MemOf(fs, m, i) /\ i < k /\ b < k
  <2>1. /\ MemOf(fs, m, i) = IF NextFunction(b, i) > k THEN m ELSE fs[NextFunction(b, i)].mem
        /\ MemOf(fs, n, i) = IF NextFunction(b, i) > k THEN n ELSE fs[NextFunction(b, i)].mem
      BY MemOfIs
  <2>2. NextFunction(b, i) > k \/ (i < k /\ b < k)
      BY <1>4 DEF NextFunction
  <2> QED
      BY <2>1, <2>2
<1>8. MemOf(fs, n, k) = n /\ MemOf(fs, m, k) = m
    BY <1>4, <1>7
<1>9. \A i \in 1 .. k : fs[i].callee \in Loc /\ fs[i].callee \notin Var
    BY <1>1, DisjointAssumption DEF Loc
<1>10. Control(fs, n) = [x \in Var |-> IF x = l THEN v ELSE Control(fs, m)[x]]
  <2>1. \A x \in Var : MemOf(fs, n, 0)[x] = IF x = l THEN v ELSE MemOf(fs, m, 0)[x]
      BY <1>3, <1>4, <1>5, <1>6, <1>7, <1>9 DEF Loc
  <2> QED
      BY <2>1 DEF Control
<1>11. ASSUME NEW i \in 1 .. k
       PROVE  Call_(fs, n, i) = IF i = k /\ l = fs[i].callee
                                THEN [Call_(fs, m, i) EXCEPT !.param = v] ELSE Call_(fs, m, i)
  <2>1. i < k => fs[i].callee # fs[k].callee
      BY <1>4 DEF MadeBy
  <2>2. i = k /\ l = fs[i].callee => MemOf(fs, n, i)[fs[i].callee] = v
      BY <1>3, <1>8
  <2>3. ~(i = k /\ l = fs[i].callee)
          => MemOf(fs, n, i)[fs[i].callee] = MemOf(fs, m, i)[fs[i].callee]
      BY <1>3, <1>4, <1>6, <1>7, <1>9, <2>1
  <2> QED
      BY <2>2, <2>3 DEF Call_
<1>12. CallsOf(fs, n) = [i \in 1 .. k |->
              IF i = k /\ l = fs[i].callee
              THEN [CallsOf(fs, m)[i] EXCEPT !.param = v] ELSE CallsOf(fs, m)[i]]
    BY <1>11 DEF CallsOf
<1> QED
    BY <1>10, <1>12 DEF n, Written

(* A call that is made is a new one on top, the others are as they were.   *)
Pushed(fs, m, fr, m2, v) ==
  /\ Control(Append(fs, fr), m2) = Control(fs, m)
  /\ CallsOf(Append(fs, fr), m2) =
       Append(CallsOf(fs, m), [callee |-> fr.callee, arg |-> fr.arg, lhs |-> fr.lhs,
                               table |-> fr.table, param |-> v])

LEMMA PushAbs ==
  ASSUME NEW fs \in Seq(Frame), NEW b \in 0 .. Len(fs), Boundary(fs, b),
         NEW m \in Memory, NEW fr \in Frame, fr.mem = m, NEW m2, NEW v,
         m2[fr.callee] = v,
         fr.callee \in Action =>
           /\ b = Len(fs) /\ m2 = [m EXCEPT ![fr.callee] = v]
           /\ \A i \in 1 .. Len(fs) : fs[i].callee # fr.callee
  PROVE  Pushed(fs, m, fr, m2, v)
<1> DEFINE gs == Append(fs, fr)
           k == Len(fs)
           c == IF fr.callee \in Function THEN b ELSE k + 1
<1>1. /\ gs \in Seq(Frame) /\ Len(gs) = k + 1 /\ gs[k + 1] = fr /\ k \in Nat
      /\ \A i \in 1 .. k : gs[i] = fs[i]
    OBVIOUS
<1>2. fr.callee \in Callee /\ fr.callee \in Loc /\ fr.callee \notin Var
    BY DisjointAssumption DEF Frame, Loc
<1>3. c \in 0 .. k + 1 /\ Boundary(gs, c)
    BY <1>1, <1>2, DisjointAssumption DEF Boundary, Callee
<1> HIDE DEF gs, c
<1>4. ASSUME NEW i \in 0 .. k
      PROVE  IF fr.callee \in Function THEN MemOf(gs, m2, i) = MemOf(fs, m, i)
             ELSE MemOf(gs, m2, i) = m2 /\ MemOf(fs, m, i) = m
  <2>1. MemOf(fs, m, i) = IF NextFunction(b, i) > k THEN m ELSE fs[NextFunction(b, i)].mem
      BY MemOfIs
  <2>2. MemOf(gs, m2, i) = IF NextFunction(c, i) > k + 1 THEN m2 ELSE gs[NextFunction(c, i)].mem
      BY <1>1, <1>3, MemOfIs
  <2>3. CASE fr.callee \in Function
    <3>1. c = b /\ NextFunction(b, i) \in 1 .. k + 1
        BY <1>1, <2>3 DEF c, NextFunction
    <3>2. gs[k + 1].mem = m
        BY <1>1
    <3> QED
        BY <1>1, <2>1, <2>2, <2>3, <3>1, <3>2
  <2>4. CASE fr.callee \notin Function
    <3>1. c = k + 1 /\ b = k
        BY <1>2, <2>4 DEF c, Callee
    <3>2. NextFunction(c, i) > k + 1 /\ NextFunction(b, i) > k
        BY <1>1, <3>1 DEF NextFunction
    <3> QED
        BY <2>1, <2>2, <2>4, <3>2
  <2> QED
      BY <2>3, <2>4
<1>5. MemOf(gs, m2, k + 1) = m2
  <2>1. MemOf(gs, m2, k + 1) = IF NextFunction(c, k + 1) > k + 1 THEN m2
                               ELSE gs[NextFunction(c, k + 1)].mem
      BY <1>1, <1>3, MemOfIs
  <2>2. NextFunction(c, k + 1) > k + 1
      BY <1>1, <1>3 DEF NextFunction
  <2> QED
      BY <2>1, <2>2
<1>6. ASSUME fr.callee \notin Function, NEW x \in Loc, x # fr.callee
      PROVE  m2[x] = m[x]
    BY <1>2, <1>6 DEF Memory, Callee
<1>7. \A x \in Var : MemOf(gs, m2, 0)[x] = MemOf(fs, m, 0)[x]
    BY <1>1, <1>2, <1>4, <1>6 DEF Loc
<1>8. ASSUME NEW i \in 1 .. k PROVE Call_(gs, m2, i) = Call_(fs, m, i)
  <2>1. fs[i].callee \in Loc
    <3>1. fs[i] \in Frame
        OBVIOUS
    <3> QED
        BY <3>1 DEF Frame, Loc
  <2>2. fr.callee \notin Function => fs[i].callee # fr.callee
      BY <1>2 DEF Callee
  <2>3. MemOf(gs, m2, i)[fs[i].callee] = MemOf(fs, m, i)[fs[i].callee]
      BY <1>4, <1>6, <2>1, <2>2
  <2> QED
      BY <1>1, <2>3 DEF Call_
<1> DEFINE new == [callee |-> fr.callee, arg |-> fr.arg, lhs |-> fr.lhs,
                   table |-> fr.table, param |-> v]
<1>9. Call_(gs, m2, k + 1) = new
    BY <1>1, <1>5 DEF Call_
<1> HIDE DEF new
<1>10. CallsOf(gs, m2) = Append(CallsOf(fs, m), new)
  <2>1. CallsOf(gs, m2) = [i \in 1 .. k + 1 |-> IF i = k + 1 THEN new ELSE CallsOf(fs, m)[i]]
    <3>1. \A i \in 1 .. k + 1 : i = k + 1 \/ i \in 1 .. k
        BY <1>1
    <3> QED
        BY <1>1, <1>8, <1>9, <3>1 DEF CallsOf
  <2>2. CallsOf(fs, m) = [i \in 1 .. k |-> CallsOf(fs, m)[i]]
      BY DEF CallsOf
  <2> HIDE DEF k
  <2>3. \A f : f = [i \in 1 .. k |-> f[i]] =>
           Append(f, new) = [i \in 1 .. k + 1 |-> IF i = k + 1 THEN new ELSE f[i]]
      BY <1>1
  <2> QED
      BY <2>1, <2>2, <2>3
<1> QED
    BY <1>1, <1>7, <1>10 DEF Control, Pushed, gs, new

(* A call that ends leaves its caller on top, with its memory.             *)
LEMMA PopAbs ==
  ASSUME NEW fs \in Seq(Frame), NEW b \in 0 .. Len(fs), Boundary(fs, b), fs # <<>>, NEW m
  PROVE  LET caller == IF Last(fs).callee \in Function THEN Last(fs).mem ELSE m IN
         /\ Control(Front(fs), caller) = Control(fs, m)
         /\ CallsOf(Front(fs), caller) = SubSeq(CallsOf(fs, m), 1, Len(fs) - 1)
         /\ \E c \in 0 .. Len(fs) - 1 : Boundary(Front(fs), c)
<1> DEFINE gs == Front(fs)
           k == Len(fs) - 1
           fr == Last(fs)
           caller == IF fr.callee \in Function THEN fr.mem ELSE m
           c == IF fr.callee \in Function THEN b ELSE k
<1>1. k \in Nat /\ Len(fs) = k + 1 /\ fr = fs[k + 1] /\ fr \in Frame
    BY DEF Last
<1>2. gs \in Seq(Frame) /\ Len(gs) = k /\ \A i \in 1 .. k : gs[i] = fs[i]
    BY <1>1 DEF Front
<1>3. fr.callee \in Callee
    BY <1>1 DEF Frame
<1> HIDE DEF gs, k, fr
<1>4. fr.callee \in Action <=> b = k + 1
  <2>1. k + 1 \in 1 .. Len(fs) /\ b \in 0 .. k + 1
      BY <1>1
  <2>2. fs[k + 1].callee \in Action <=> k + 1 <= b
      BY <2>1 DEF Boundary
  <2> QED
      BY <1>1, <2>1, <2>2
<1>5. c \in 0 .. k /\ Boundary(gs, c)
    BY <1>1, <1>2, <1>3, <1>4, DisjointAssumption DEF Boundary, Callee
<1> HIDE DEF c, caller
<1>6. ASSUME NEW i \in 0 .. k PROVE MemOf(gs, caller, i) = MemOf(fs, m, i)
  <2>1. MemOf(gs, caller, i) = IF NextFunction(c, i) > k THEN caller
                               ELSE gs[NextFunction(c, i)].mem
      BY <1>2, <1>5, MemOfIs
  <2>2. MemOf(fs, m, i) = IF NextFunction(b, i) > k + 1 THEN m ELSE fs[NextFunction(b, i)].mem
      BY <1>1, MemOfIs
  <2>3. CASE fr.callee \in Function
    <3>1. c = b /\ NextFunction(b, i) \in 1 .. k + 1 /\ caller = fs[k + 1].mem
        BY <1>1, <1>5, <2>3 DEF c, caller, NextFunction
    <3> QED
        BY <1>1, <1>2, <2>1, <2>2, <3>1
  <2>4. CASE fr.callee \notin Function
    <3>1. c = k /\ b = k + 1 /\ caller = m
        BY <1>3, <1>4, <2>4 DEF c, caller, Callee
    <3>2. NextFunction(c, i) > k /\ NextFunction(b, i) > k + 1
        BY <1>1, <3>1 DEF NextFunction
    <3> QED
        BY <2>1, <2>2, <3>1, <3>2
  <2> QED
      BY <2>3, <2>4
<1>7. Control(gs, caller) = Control(fs, m)
    BY <1>1, <1>6 DEF Control
<1>8. CallsOf(gs, caller) = [i \in 1 .. k |-> CallsOf(fs, m)[i]]
    BY <1>1, <1>2, <1>6 DEF CallsOf, Call_
<1>9. SubSeq(CallsOf(fs, m), 1, k) = [i \in 1 .. k |-> CallsOf(fs, m)[i]]
    BY <1>1 DEF CallsOf
<1> QED
    BY <1>5, <1>7, <1>8, <1>9 DEF gs, k, fr, caller

-----------------------------------------------------------------------------
(* The shape of the stack is kept.                                         *)

(* What a call can name, and how it is made, depend on the calls below it  *)
(* only.                                                                   *)
LEMMA SameNames ==
  ASSUME NEW fs, NEW gs, NEW n \in Nat, \A i \in 1 .. n : gs[i] = fs[i]
  PROVE  /\ \A k \in 0 .. n : Named(gs, k) = Named(fs, k)
         /\ \A i \in 1 .. n : MadeBy(gs, i) <=> MadeBy(fs, i)
<1>1. \A k \in 0 .. n : Named(gs, k) = Named(fs, k)
    BY DEF Named
<1>2. ASSUME NEW i \in 1 .. n PROVE MadeBy(gs, i) <=> MadeBy(fs, i)
  <2>1. gs[i] = fs[i] /\ Named(gs, i - 1) = Named(fs, i - 1)
      BY <1>1
  <2>2. \A j \in 1 .. i - 1 : gs[j] = fs[j]
      OBVIOUS
  <2> QED
      BY <2>1, <2>2 DEF MadeBy
<1> QED
    BY <1>1, <1>2

(* A call made as the interpreter makes it keeps the shape of the stack.   *)
LEMMA ShapePush ==
  ASSUME NEW fs \in Seq(Frame), Shape(fs), NEW fr \in Frame,
         MadeBy(Append(fs, fr), Len(fs) + 1),
         fr.callee \in Action => InAction(fs, Len(fs))
  PROVE  Shape(Append(fs, fr))
<1> DEFINE gs == Append(fs, fr)
           k == Len(fs)
<1>1. /\ gs \in Seq(Frame) /\ Len(gs) = k + 1 /\ gs[k + 1] = fr /\ k \in Nat
      /\ \A i \in 1 .. k : gs[i] = fs[i]
    OBVIOUS
<1> HIDE DEF gs
<1>2. \A i \in 1 .. k + 1 : MadeBy(gs, i)
  <2>1. \A i \in 1 .. k : MadeBy(gs, i)
      BY <1>1, SameNames DEF Shape
  <2>2. MadeBy(gs, k + 1)
      BY DEF gs
  <2> QED
      BY <1>1, <2>1, <2>2
<1>3. \E c \in 0 .. k + 1 : Boundary(gs, c)
  <2>1. PICK b \in 0 .. k : Boundary(fs, b)
      BY DEF Shape
  <2>2. CASE fr.callee \in Action
    <3>1. b = k
        BY <1>1, <2>1, <2>2 DEF Boundary, InAction
    <3>2. Boundary(gs, k + 1)
        BY <1>1, <2>1, <2>2, <3>1 DEF Boundary
    <3> QED
        BY <1>1, <3>2
  <2>3. CASE fr.callee \notin Action
    <3>1. Boundary(gs, b)
        BY <1>1, <2>1, <2>3 DEF Boundary
    <3> QED
        BY <1>1, <2>1, <3>1
  <2> QED
      BY <2>2, <2>3
<1>4. (\A i \in 1 .. k + 1 : ~Dropped(gs[i])) \/ (\E d : DroppedAt(gs, d))
  <2>1. ASSUME NEW d, DroppedAt(fs, d) PROVE DroppedAt(gs, d)
      BY <1>1, <2>1 DEF DroppedAt
  <2>2. ASSUME \A i \in 1 .. k : ~Dropped(fs[i]), Dropped(fr) PROVE DroppedAt(gs, k + 1)
      BY <1>1, <2>2 DEF DroppedAt
  <2>3. ASSUME \A i \in 1 .. k : ~Dropped(fs[i]), ~Dropped(fr)
        PROVE  \A i \in 1 .. k + 1 : ~Dropped(gs[i])
      BY <1>1, <2>3
  <2> QED
      BY <2>1, <2>2, <2>3 DEF Shape
<1> QED
    BY <1>1, <1>2, <1>3, <1>4 DEF Shape, gs

(* So does a call that ends.                                               *)
LEMMA ShapePop ==
  ASSUME NEW fs \in Seq(Frame), Shape(fs), fs # <<>>
  PROVE  Shape(Front(fs))
<1> DEFINE gs == Front(fs)
           k == Len(fs) - 1
<1>1. k \in Nat /\ Len(fs) = k + 1
    OBVIOUS
<1>2. gs \in Seq(Frame) /\ Len(gs) = k /\ \A i \in 1 .. k : gs[i] = fs[i]
    BY <1>1 DEF Front
<1> HIDE DEF gs, k
<1>3. \A i \in 1 .. k : MadeBy(gs, i)
    BY <1>1, <1>2, SameNames DEF Shape
<1>4. \E c \in 0 .. k : Boundary(gs, c)
  <2>1. PICK b \in 0 .. k + 1 : Boundary(fs, b)
      BY <1>1 DEF Shape
  <2>2. CASE b = k + 1
    <3>1. Boundary(gs, k)
        BY <1>1, <1>2, <2>1, <2>2 DEF Boundary
    <3> QED
        BY <1>1, <3>1
  <2>3. CASE b # k + 1
    <3>1. Boundary(gs, b)
        BY <1>1, <1>2, <2>1, <2>3 DEF Boundary
    <3> QED
        BY <1>1, <2>1, <2>3, <3>1
  <2> QED
      BY <2>2, <2>3
<1>5. (\A i \in 1 .. k : ~Dropped(gs[i])) \/ (\E d : DroppedAt(gs, d))
  <2>1. ASSUME NEW d, DroppedAt(fs, d), d # k + 1 PROVE DroppedAt(gs, d)
      BY <1>1, <1>2, <2>1 DEF DroppedAt
  <2>2. ASSUME DroppedAt(fs, k + 1) PROVE \A i \in 1 .. k : ~Dropped(gs[i])
      BY <1>1, <1>2, <2>2 DEF DroppedAt
  <2>3. ASSUME \A i \in 1 .. k + 1 : ~Dropped(fs[i]) PROVE \A i \in 1 .. k : ~Dropped(gs[i])
      BY <1>1, <1>2, <2>3
  <2> QED
      BY <1>1, <2>1, <2>2, <2>3 DEF Shape
<1> QED
    BY <1>2, <1>3, <1>4, <1>5 DEF Shape, gs

(* An empty stack has it.                                                  *)
LEMMA InitRef == Init => RefInv
<1> SUFFICES ASSUME Init PROVE RefInv
    OBVIOUS
<1>1. frames = <<>> /\ sig = Continue
    BY DEF Init
<1>2. Boundary(<<>>, 0)
    BY DEF Boundary
<1>3. Shape(<<>>)
    BY <1>2 DEF Shape
<1> QED
    BY <1>1, <1>3, InitInv DEF RefInv, Continue

(* A call that is made: its frame, and what is known of it.                *)
LEMMA PushFrame ==
  ASSUME RefInv, NEW c \in Callee, NEW arg, NEW lhs, NEW table \in BOOLEAN, NEW v,
         Push(c, arg, lhs, table, v),
         IF table THEN frames = <<>> /\ arg = NoTarget /\ c \in Action /\ Dir[c] = "in"
         ELSE arg \in Visible \cup {BadLvalue},
         lhs \in Visible \cup {BadLvalue, NoTarget}, c \in Action => lhs = NoTarget
  PROVE  LET fr == [callee |-> c, arg |-> arg, lhs |-> lhs, table |-> table,
                    mem |-> mem, ext |-> ext] IN
         /\ fr \in Frame /\ frames' = Append(frames, fr)
         /\ c \in Action => InAction(frames, Len(frames))
         /\ \A i \in 1 .. Len(frames) : frames[i].callee # c
         /\ Shape(frames')
<1> DEFINE fr == [callee |-> c, arg |-> arg, lhs |-> lhs, table |-> table,
                  mem |-> mem, ext |-> ext]
           k == Len(frames)
<1>1. \A l \in Visible : l \in Loc
    BY VisibleValues DEF RefInv
<1>2. arg \in Loc \cup {BadLvalue, NoTarget} /\ lhs \in Loc \cup {BadLvalue, NoTarget}
    BY <1>1
<1>3. fr \in Frame
    BY <1>2, BoundAssumption DEF RefInv, CallInv, Types, Frame
<1>4. frames' = Append(frames, fr) /\ frames \in Seq(Frame) /\ k \in Nat
    BY DEF Push, RefInv, CallInv, Types
<1>5. c \in Action => InAction(frames, k)
  <2>1. c \in Action => ~InFunction
      BY DisjointAssumption DEF Push, Callable
  <2>2. k # 0 => Last(frames) = frames[k] /\ Last(frames) \in Frame /\ frames # <<>>
      BY <1>4 DEF Last
  <2> QED
      BY <2>1, <2>2 DEF InAction, InFunction, Frame, Callee
<1>6. \A i \in 1 .. k : frames[i].callee # c
    BY <1>4 DEF Push, Callable, Active
<1>7. Visible = Named(frames, k)
    BY <1>4 DEF Visible, Named, InFunction, Last
<1>8. MadeBy(Append(frames, fr), k + 1)
  <2> DEFINE gs == Append(frames, fr)
  <2>1. k + 1 - 1 = k /\ gs[k + 1] = fr /\ \A i \in 1 .. k : gs[i] = frames[i]
      BY <1>3, <1>4
  <2> HIDE DEF gs
  <2>2. Named(gs, k) = Visible
    <3>1. k # 0 => gs[k] = frames[k]
        BY <1>4, <2>1
    <3> QED
        BY <1>7, <3>1 DEF Named
  <2>3. table => k = 0
      BY <1>4
  <2>4. fr.callee = c /\ fr.arg = arg /\ fr.lhs = lhs /\ fr.table = table
      OBVIOUS
  <2> HIDE DEF fr
  <2> QED
      BY <1>4, <1>6, <2>1, <2>2, <2>3, <2>4 DEF MadeBy, gs
<1>9. Shape(frames')
    BY <1>3, <1>4, <1>5, <1>8, ShapePush DEF RefInv
<1> QED
    BY <1>3, <1>4, <1>5, <1>6, <1>9

(* The state the refinement maps to, with the calls gs below the first one  *)
(* that is dropped and the memory m that one was made in.                  *)
LEMMA AbsIs ==
  ASSUME RefInv, NEW n \in 0 .. Len(frames), Depth = n, NEW gs,
         gs = SubSeq(frames, 1, n), NEW m, LastMem = m
  PROVE  AbsControl = Control(gs, m) /\ AbsCalls = CallsOf(gs, m)
<1>1. PICK b \in 0 .. Len(frames) : Boundary(frames, b)
    BY DEF RefInv, Shape
<1>2. frames \in Seq(Frame) /\ Len(frames) \in Nat
    BY DEF RefInv, CallInv, Types
<1>3. Len(gs) = n /\ \A i \in 1 .. n : gs[i] = frames[i]
    BY <1>2
<1>4. \A j \in 1 .. n : frames[j].callee \in Function <=> j > b
  <2>1. \A j \in 1 .. n : frames[j] \in Frame
      BY <1>2
  <2> QED
      BY <1>1, <1>2, <2>1, DisjointAssumption DEF Boundary, Frame, Callee
<1>5. ASSUME NEW i \in 0 .. n PROVE MemoryOf(i) = MemOf(gs, m, i)
  <2> DEFINE S == {j \in i + 1 .. n : frames[j].callee \in Function}
             first == CHOOSE j \in S : \A k \in S : j <= k
             nf == NextFunction(b, i)
  <2>1. S = Above(gs, i)
      BY <1>3 DEF Above
  <2>2. nf \in Nat /\ nf >= i + 1
      BY <1>1 DEF NextFunction
  <2>3. \A j : j \in S <=> j \in nf .. n
      BY <1>1, <1>4 DEF NextFunction
  <2>4. S # {} => nf \in S /\ \A k \in S : nf <= k
      BY <2>2, <2>3, SMTT(30)
  <2> HIDE DEF S, nf
  <2>5. S # {} => first \in S
      BY <2>4
  <2>6. S # {} => gs[first] = frames[first]
      BY <1>3, <2>5, SMTT(30) DEF S
  <2>7. MemoryOf(i) = IF S = {} THEN m ELSE frames[first].mem
      BY DEF MemoryOf, S
  <2>8. MemOf(gs, m, i) = IF S = {} THEN m ELSE gs[first].mem
      BY <2>1 DEF MemOf
  <2> QED
      BY <2>6, <2>7, <2>8
<1>6. AbsControl = Control(gs, m)
    BY <1>5 DEF AbsControl, Control
<1>7. AbsCalls = CallsOf(gs, m)
    BY <1>3, <1>5 DEF AbsCalls, CallsOf, Call_
<1> QED
    BY <1>6, <1>7

(* Nothing is dropped: the live memory is the one of the innermost call.   *)
LEMMA AbsNone ==
  ASSUME RefInv, ~SomeDropped
  PROVE  /\ AbsControl = Control(frames, mem) /\ AbsCalls = CallsOf(frames, mem)
         /\ AbsExt = ext /\ AbsSig = sig
<1>1. frames \in Seq(Frame) /\ Len(frames) \in Nat
    BY DEF RefInv, CallInv, Types
<1>2. SubSeq(frames, 1, Len(frames)) = frames
    BY <1>1
<1>3. Depth = Len(frames) /\ LastMem = mem /\ Len(frames) \in 0 .. Len(frames)
    BY <1>1 DEF Depth, LastMem
<1>4. AbsControl = Control(frames, mem) /\ AbsCalls = CallsOf(frames, mem)
    BY <1>1, <1>2, <1>3, AbsIs
<1> QED
    BY <1>4 DEF AbsExt, AbsSig

(* The d-th call is the first that is dropped: what is seen is the state   *)
(* it was made in.                                                         *)
LEMMA AbsSome ==
  ASSUME RefInv, NEW d, DroppedAt(frames, d)
  PROVE  /\ AbsControl = Control(SubSeq(frames, 1, d - 1), frames[d].mem)
         /\ AbsCalls = CallsOf(SubSeq(frames, 1, d - 1), frames[d].mem)
         /\ AbsExt = frames[d].ext /\ AbsSig = Continue
<1>1. frames \in Seq(Frame) /\ Len(frames) \in Nat /\ DOMAIN frames = 1 .. Len(frames)
    BY DEF RefInv, CallInv, Types
<1>2. SomeDropped
    BY <1>1 DEF SomeDropped, DroppedAt
<1>3. FirstDropped = d
  <2> DEFINE First(i) == i \in DOMAIN frames /\ Dropped(frames[i])
                          /\ \A j \in 1 .. i - 1 : ~Dropped(frames[j])
  <2>1. First(d)
      BY <1>1 DEF DroppedAt
  <2>2. \A i : First(i) => i = d
      BY <1>1 DEF DroppedAt
  <2> QED
      BY <2>1, <2>2 DEF FirstDropped
<1>4. Depth = d - 1 /\ LastMem = frames[d].mem /\ d - 1 \in 0 .. Len(frames)
    BY <1>1, <1>2, <1>3 DEF Depth, LastMem, DroppedAt
<1>5. /\ AbsControl = Control(SubSeq(frames, 1, d - 1), frames[d].mem)
      /\ AbsCalls = CallsOf(SubSeq(frames, 1, d - 1), frames[d].mem)
    BY <1>4, AbsIs
<1> QED
    BY <1>2, <1>3, <1>5 DEF AbsExt, AbsSig

(* The invariant is inductive.                                             *)
LEMMA StepRef == RefInv /\ [Next]_vars => RefInv'
<1> SUFFICES ASSUME RefInv, [Next]_vars PROVE RefInv'
    OBVIOUS
<1>1. CallInv'
  <2>1. CallInv /\ UNCHANGED vars => CallInv'
      BY DEF vars, CallInv, Types
  <2> QED
      BY <2>1, StatementInv, UnwindInv DEF RefInv, Next, Stopped
<1>2. (sig.kind # "return" => sig.value = Zero)'
  <2>1. Ended.kind # "return" => Ended.value = Zero
      BY DEF Ended, Return, RefInv
  <2>2. CASE sig' \in {sig, Ended, Continue, Reject, Exit}
      BY <2>1, <2>2 DEF RefInv, Continue, Reject, Exit
  <2>3. CASE \E v : sig' = Return(v)
      BY <2>3 DEF Return
  <2>4. Statements => sig' \in {sig, Continue, Reject, Exit} \/ \E v : sig' = Return(v)
    <3>1. ASSUME NEW v, ReturnStatement(v) PROVE sig' = Return(v)
        BY <3>1 DEF ReturnStatement
    <3>2. ASSUME NEW l, NEW v, NEW s \in {Continue, Reject}, CallExtern(l, v, s)
          PROVE  sig' = s
        BY <3>2 DEF CallExtern
    <3> QED
        BY <3>1, <3>2 DEF Statements, Assign, ExitStatement, StatementRejects, Call,
           ApplyTable, Push
  <2>5. Unwind \/ Stopped \/ UNCHANGED vars => sig' \in {sig, Ended, Continue, Reject}
      BY DEF Unwind, Stopped, vars, LeaveDropped, Leave, AfterCall, TableFails, Finish
  <2> QED
      BY <2>2, <2>3, <2>4, <2>5 DEF Next
<1>3. Shape(frames')
  <2>1. CASE frames' = frames
      BY <2>1 DEF RefInv
  <2>2. CASE LeaveDropped \/ Leave
      BY <2>2, ShapePop DEF RefInv, CallInv, Types, LeaveDropped, Leave
  <2>3. ASSUME NEW c \in Callee, NEW arg \in Visible \cup {BadLvalue},
               NEW lhs \in Visible \cup {BadLvalue, NoTarget}, Call(c, arg, lhs)
        PROVE  Shape(frames')
      BY <2>3, PushFrame DEF Call
  <2>4. ASSUME NEW a \in Action, NEW v \in Value, ApplyTable(a, v)
        PROVE  Shape(frames')
      BY <2>4, PushFrame DEF ApplyTable, Callee
  <2> QED
      BY <2>1, <2>2, <2>3, <2>4 DEF Next, Statements, Unwind, Stopped, vars, Assign,
         CallExtern, ReturnStatement, ExitStatement, StatementRejects, TableFails, Finish
<1> QED
    BY <1>1, <1>2, <1>3 DEF RefInv

-----------------------------------------------------------------------------
(* What is known of the state the refinement maps to, now and after a step.*)
AbsFacts ==
  /\ ~SomeDropped =>
       /\ AbsControl = Control(frames, mem) /\ AbsCalls = CallsOf(frames, mem)
       /\ AbsExt = ext /\ AbsSig = sig
  /\ \A d : DroppedAt(frames, d) =>
       /\ AbsControl = Control(SubSeq(frames, 1, d - 1), frames[d].mem)
       /\ AbsCalls = CallsOf(SubSeq(frames, 1, d - 1), frames[d].mem)
       /\ AbsExt = frames[d].ext /\ AbsSig = Continue
  /\ SomeDropped <=> \E i \in 1 .. Len(frames) : Dropped(frames[i])
  /\ SomeDropped => \E d : DroppedAt(frames, d)

(* Both cases in one formula, to be primed.                                *)
LEMMA RefFacts == RefInv => AbsFacts
<1> SUFFICES ASSUME RefInv PROVE AbsFacts
    OBVIOUS
<1>1. DOMAIN frames = 1 .. Len(frames)
    BY DEF RefInv, CallInv, Types
<1>2. SomeDropped <=> \E i \in 1 .. Len(frames) : Dropped(frames[i])
    BY <1>1 DEF SomeDropped
<1>3. SomeDropped => \E d : DroppedAt(frames, d)
    BY <1>2 DEF RefInv, Shape
<1> QED
    BY <1>2, <1>3, AbsNone, AbsSome DEF AbsFacts

LEMMA RefFactsPrime == RefInv' => AbsFacts'
BY RefFacts, PTL

(* A step that keeps the first dropped call and those below it is not seen. *)
Hidden ==
  /\ AbsControl' = AbsControl /\ AbsCalls' = AbsCalls
  /\ AbsExt' = AbsExt /\ AbsSig' = AbsSig

LEMMA StillDropped ==
  ASSUME RefInv, RefInv', NEW d, DroppedAt(frames, d), d <= Len(frames'),
         \A i \in 1 .. d : frames'[i] = frames[i]
  PROVE  Hidden
<1>1. frames \in Seq(Frame) /\ frames' \in Seq(Frame) /\ d \in 1 .. Len(frames)
    BY DEF RefInv, CallInv, Types, DroppedAt
<1>2. DroppedAt(frames', d)
    BY <1>1 DEF DroppedAt
<1>3. SubSeq(frames', 1, d - 1) = SubSeq(frames, 1, d - 1) /\ frames'[d] = frames[d]
    BY <1>1
<1> QED
    BY <1>2, <1>3, RefFacts, RefFactsPrime DEF AbsFacts, Hidden

(* In particular a statement inside a dropped call is not seen.            *)
LEMMA StillSame ==
  ASSUME RefInv, RefInv', SomeDropped, frames' = frames
  PROVE  Hidden
<1>1. PICK d : DroppedAt(frames, d)
    BY RefFacts DEF AbsFacts
<1>2. d <= Len(frames)
    BY <1>1 DEF DroppedAt, RefInv, CallInv, Types
<1> QED
    BY <1>1, <1>2, StillDropped

(* In the innermost call, the abstract values are those in memory.         *)
LEMMA TopHolds ==
  ASSUME RefInv
  PROVE  /\ InAction(frames, Len(frames)) => \A x \in Var : Control(frames, mem)[x] = mem[x]
         /\ frames # <<>> =>
              CallsOf(frames, mem)[Len(frames)].param = mem[frames[Len(frames)].callee]
<1> DEFINE k == Len(frames)
<1>1. frames \in Seq(Frame) /\ k \in Nat
    BY DEF RefInv, CallInv, Types
<1>2. PICK b \in 0 .. k : Boundary(frames, b)
    BY DEF RefInv, Shape
<1>3. ASSUME NEW i \in 0 .. k, i = k \/ b = k PROVE MemOf(frames, mem, i) = mem
  <2>1. NextFunction(b, i) > k
      BY <1>1, <1>2, <1>3 DEF NextFunction
  <2>2. MemOf(frames, mem, i) = IF NextFunction(b, i) > k THEN mem
                                ELSE frames[NextFunction(b, i)].mem
      BY <1>1, <1>2, MemOfIs
  <2> QED
      BY <2>1, <2>2
<1>4. InAction(frames, k) => b = k
    BY <1>1, <1>2 DEF InAction, Boundary
<1>5. InAction(frames, k) => \A x \in Var : Control(frames, mem)[x] = mem[x]
  <2>1. 0 \in 0 .. k
      BY <1>1
  <2> QED
      BY <1>3, <1>4, <2>1 DEF Control
<1>6. frames # <<>> => CallsOf(frames, mem)[k].param = mem[frames[k].callee]
  <2>1. MemOf(frames, mem, k) = mem
      BY <1>1, <1>3
  <2>2. frames # <<>> => k \in 1 .. k
      BY <1>1
  <2> QED
      BY <2>1, <2>2 DEF CallsOf, Call_
<1> QED
    BY <1>5, <1>6

(* A write to what the innermost call can name is an assignment to a       *)
(* variable of the control, or to the call's parameter.                    *)
Stored(fs, m, n, l, v) ==
  \/ /\ l \in Var
     /\ Control(fs, n) = [Control(fs, m) EXCEPT ![l] = v] /\ CallsOf(fs, n) = CallsOf(fs, m)
  \/ /\ Len(fs) # 0 /\ l = CallsOf(fs, m)[Len(fs)].callee
     /\ CallsOf(fs, n) = [CallsOf(fs, m) EXCEPT ![Len(fs)].param = v]
     /\ Control(fs, n) = Control(fs, m)

LEMMA WriteStored ==
  ASSUME NEW fs \in Seq(Frame), Shape(fs), NEW m \in Memory,
         NEW l \in Named(fs, Len(fs)), NEW v
  PROVE  Stored(fs, m, [m EXCEPT ![l] = v], l, v)
<1> DEFINE n == [m EXCEPT ![l] = v]
           k == Len(fs)
<1>1. PICK b \in 0 .. k : Boundary(fs, b)
    BY DEF Shape
<1> \A i \in 1 .. Len(fs) : MadeBy(fs, i)
    BY DEF Shape
<1>2. /\ Control(fs, n) = [x \in Var |-> IF x = l THEN v ELSE Control(fs, m)[x]]
      /\ CallsOf(fs, n) = [i \in 1 .. k |->
              IF i = k /\ l = fs[i].callee
              THEN [CallsOf(fs, m)[i] EXCEPT !.param = v] ELSE CallsOf(fs, m)[i]]
  <2>1. Written(fs, m, n, l, v)
      BY <1>1, WriteAbs
  <2> HIDE DEF n
  <2> QED
      BY <2>1 DEF Written
<1> HIDE DEF n
<1>3. /\ Control(fs, m) = [x \in Var |-> Control(fs, m)[x]]
      /\ CallsOf(fs, m) = [i \in 1 .. k |-> CallsOf(fs, m)[i]]
      /\ k # 0 => CallsOf(fs, m)[k].callee = fs[k].callee
  <2>1. k # 0 => k \in 1 .. k
      OBVIOUS
  <2> QED
      BY <2>1 DEF Control, CallsOf, Call_
<1>4. CASE l \in Var
  <2>1. \A i \in 1 .. k : fs[i].callee \notin Var
    <3>1. \A i \in 1 .. k : fs[i] \in Frame
        OBVIOUS
    <3> QED
        BY <3>1, DisjointAssumption DEF Frame
  <2>2. CallsOf(fs, n) = CallsOf(fs, m)
      BY <1>2, <1>3, <1>4, <2>1
  <2>3. Control(fs, n) = [Control(fs, m) EXCEPT ![l] = v]
      BY <1>2, <1>3, <1>4
  <2> QED
      BY <1>4, <2>2, <2>3 DEF Stored, n
<1>5. CASE l \notin Var
  <2>1. k # 0 /\ l = fs[k].callee
      BY <1>5 DEF Named
  <2>2. CallsOf(fs, n) = [CallsOf(fs, m) EXCEPT ![k].param = v]
      BY <1>2, <1>3, <2>1
  <2>3. Control(fs, n) = Control(fs, m)
      BY <1>2, <1>3, <1>5
  <2> QED
      BY <1>3, <2>1, <2>2, <2>3 DEF Stored, n
<1> QED
    BY <1>4, <1>5

-----------------------------------------------------------------------------
(* Each step is one of the abstract machine, or is not seen by it.         *)
Follows == Copies!Next \/ (Hidden /\ status' = status)

(* Nothing is dropped before a step that leaves the calls alone, nor after. *)
LEMMA StillNone ==
  ASSUME RefInv, RefInv', ~SomeDropped, frames' = frames
  PROVE  /\ AbsControl = Control(frames, mem) /\ AbsControl' = Control(frames, mem')
         /\ AbsCalls = CallsOf(frames, mem) /\ AbsCalls' = CallsOf(frames, mem')
         /\ AbsExt = ext /\ AbsExt' = ext' /\ AbsSig = sig /\ AbsSig' = sig'
<1>1. ~SomeDropped'
    BY RefFacts, RefFactsPrime DEF AbsFacts
<1> QED
    BY <1>1, RefFacts, RefFactsPrime DEF AbsFacts

(* The calls that are seen are the calls that are made.                    *)
LEMMA CallsSeen ==
  ASSUME RefInv
  PROVE  /\ Len(CallsOf(frames, mem)) = Len(frames)
         /\ \A i \in 1 .. Len(frames) :
              CallsOf(frames, mem)[i] = Call_(frames, mem, i)
         /\ CallsOf(frames, mem) = <<>> <=> frames = <<>>
<1>1. frames \in Seq(Frame) /\ Len(frames) \in Nat
    BY DEF RefInv, CallInv, Types
<1>2. Len(CallsOf(frames, mem)) = Len(frames)
    BY <1>1 DEF CallsOf
<1>3. \A i \in 1 .. Len(frames) : CallsOf(frames, mem)[i] = Call_(frames, mem, i)
    BY DEF CallsOf
<1>4. CallsOf(frames, mem) = <<>> <=> frames = <<>>
    BY <1>1 DEF CallsOf
<1> QED
    BY <1>2, <1>3, <1>4

(* Visible, as a function of the stack.                                    *)
LEMMA NamedVisible == RefInv => Visible = Named(frames, Len(frames))
BY DEF Visible, Named, InFunction, Last, RefInv, CallInv, Types

(* A statement's write in a call that is seen.                             *)
LEMMA StoreStep ==
  ASSUME RefInv, RefInv', ~SomeDropped, frames' = frames,
         NEW l \in Visible, NEW v, mem' = [mem EXCEPT ![l] = v]
  PROVE  /\ Copies!Store(AbsCalls, l, v)
         /\ l \in Var => (AbsCalls = <<>> \/ AbsCalls[Len(AbsCalls)].callee \in Action)
<1>1. /\ AbsControl = Control(frames, mem) /\ AbsControl' = Control(frames, mem')
      /\ AbsCalls = CallsOf(frames, mem) /\ AbsCalls' = CallsOf(frames, mem')
    BY StillNone
<1>2. Stored(frames, mem, mem', l, v)
  <2>1. l \in Named(frames, Len(frames)) /\ frames \in Seq(Frame) /\ mem \in Memory
      BY NamedVisible DEF RefInv, CallInv, Types
  <2> QED
      BY <2>1, WriteStored DEF RefInv
<1>3. Len(AbsCalls) = Len(frames) /\ (AbsCalls = <<>> <=> frames = <<>>)
    BY <1>1, CallsSeen
<1>4. frames \in Seq(Frame)
    BY DEF RefInv, CallInv, Types
<1>5. Copies!Store(AbsCalls, l, v)
    BY <1>1, <1>2, <1>3, <1>4 DEF Stored, Copies!Store
<1>6. ASSUME l \in Var, frames # <<>> PROVE AbsCalls[Len(AbsCalls)].callee \in Action
  <2>1. Len(frames) \in 1 .. Len(frames)
      BY <1>4, <1>6
  <2>2. AbsCalls[Len(frames)] = Call_(frames, mem, Len(frames))
      BY <1>1, <2>1, CallsSeen
  <2>3. Last(frames) = frames[Len(frames)] /\ frames[Len(frames)] \in Frame
      BY <1>4, <2>1 DEF Last
  <2>4. l \in Loc /\ Last(frames).callee # l
      BY <1>6, <2>3, DisjointAssumption DEF Frame, Loc
  <2> QED
      BY <1>3, <1>6, <2>2, <2>3, <2>4 DEF Call_, Visible, InFunction, Frame, Callee
<1> QED
    BY <1>3, <1>5, <1>6

(* A statement that calls nothing is the same statement of the abstract    *)
(* machine, or is not seen.                                                *)
LEMMA StatementFollows ==
  ASSUME RefInv, RefInv', Statements, frames' = frames
  PROVE  Follows
<1>1. CASE SomeDropped
  <2>1. status' = status
      BY DEF Statements, Assign, CallExtern, ReturnStatement, ExitStatement,
         StatementRejects, Call, ApplyTable, Push
  <2> QED
      BY <1>1, <2>1, StillSame DEF Follows
<1>2. CASE ~SomeDropped
  <2>1. /\ AbsControl = Control(frames, mem) /\ AbsControl' = Control(frames, mem')
        /\ AbsCalls = CallsOf(frames, mem) /\ AbsCalls' = CallsOf(frames, mem')
        /\ AbsExt = ext /\ AbsExt' = ext' /\ AbsSig = sig /\ AbsSig' = sig'
      BY <1>2, StillNone
  <2>2. AbsCalls = <<>> \/ AbsCalls[Len(AbsCalls)].callee \in Action <=> Copies!InControl
      BY DEF Copies!InControl, Copies!Top
  <2>3. \A l \in Visible : l \in Var \cup Action \cup Function
      BY VisibleValues DEF RefInv, Loc, Callee
  <2>4. Running => Copies!Running
      BY <2>1 DEF Running, Copies!Running
  <2>5. ASSUME NEW l \in Visible, NEW v \in Value, Assign(l, v) PROVE Follows
    <3>1. mem' = [mem EXCEPT ![l] = v]
        BY <2>5 DEF Assign
    <3>2. Copies!Store(AbsCalls, l, v) /\ (l \in Var => Copies!InControl)
        BY <1>2, <2>2, <3>1, StoreStep
    <3>3. Copies!Assign(l, v)
        BY <2>1, <2>4, <2>5, <3>2 DEF Assign, Copies!Assign
    <3> QED
        BY <2>3, <3>3 DEF Follows, Copies!Next
  <2>6. ASSUME NEW l \in Visible, NEW v \in Value, NEW s \in {Continue, Reject},
               CallExtern(l, v, s)
        PROVE  Follows
    <3>1. mem' = [mem EXCEPT ![l] = v]
        BY <2>6 DEF CallExtern
    <3>2. Copies!Store(AbsCalls, l, v) /\ (l \in Var => Copies!InControl)
        BY <1>2, <2>2, <3>1, StoreStep
    <3>3. ext' = ext + 1 /\ ext' <= MaxExt
        BY <2>6, BoundAssumption DEF CallExtern, RefInv, CallInv, Types
    <3>4. sig' \in Copies!Signal /\ sig'.kind \in {"continue", "reject"}
        BY <2>6 DEF CallExtern, Continue, Reject, Copies!Signal
    <3>5. Copies!CallExtern(l, v)
        BY <2>1, <2>4, <2>6, <3>2, <3>3, <3>4 DEF CallExtern, Copies!CallExtern
    <3> QED
        BY <2>3, <3>5 DEF Follows, Copies!Next
  <2>7. ASSUME Running, UNCHANGED <<mem, ext, status>>, sig' \in Copies!Signal,
               sig'.kind = "exit" => ~InFunction
        PROVE  Follows
    <3>1. sig'.kind = "exit" => Copies!InControl
      <4>1. frames # <<>> => /\ Len(frames) \in 1 .. Len(frames)
                             /\ frames[Len(frames)] \in Frame
          BY DEF RefInv, CallInv, Types
      <4>2. frames # <<>> => AbsCalls[Len(AbsCalls)].callee = Last(frames).callee
        <5>1. frames # <<>> => /\ Len(AbsCalls) = Len(frames)
                               /\ AbsCalls[Len(frames)] = Call_(frames, mem, Len(frames))
            BY <2>1, <4>1, CallsSeen
        <5> QED
            BY <5>1 DEF Call_, Last
      <4> QED
          BY <2>1, <2>2, <2>7, <4>1, <4>2, CallsSeen DEF InFunction, Last, Frame, Callee
    <3>2. Copies!Raise
        BY <2>1, <2>4, <2>7, <3>1 DEF Copies!Raise
    <3> QED
        BY <3>2 DEF Follows, Copies!Next
  <2>8. ASSUME NEW v \in Value, ReturnStatement(v) PROVE Follows
      BY <2>7, <2>8 DEF ReturnStatement, Return, Copies!Signal
  <2>9. ExitStatement \/ StatementRejects => Follows
      BY <2>7 DEF ExitStatement, StatementRejects, Exit, Reject, Copies!Signal
  <2>10. ASSUME NEW c, NEW arg, NEW lhs, NEW t, NEW v PROVE ~Push(c, arg, lhs, t, v)
    <3>1. frames \in Seq(Frame) /\ frames' \in Seq(Frame)
        BY DEF RefInv, CallInv, Types
    <3>2. \A x : Len(Append(frames, x)) = Len(frames) + 1 /\ Len(frames) \in Nat
        BY <3>1
    <3> QED
        BY <3>2 DEF Push
  <2> QED
      BY <2>5, <2>6, <2>8, <2>9, <2>10 DEF Statements, Call, ApplyTable
<1> QED
    BY <1>1, <1>2

(* A call that is made: seen unless it, or one below it, is dropped.       *)
LEMMA PushFollows ==
  ASSUME RefInv, RefInv', NEW c \in Callee, NEW arg, NEW lhs, NEW table \in BOOLEAN, NEW v,
         Push(c, arg, lhs, table, v),
         IF table THEN frames = <<>> /\ arg = NoTarget /\ c \in Action /\ Dir[c] = "in"
         ELSE arg \in Visible \cup {BadLvalue} /\ v \in Initial(c, arg),
         lhs \in Visible \cup {BadLvalue, NoTarget}, c \in Action => lhs = NoTarget
  PROVE  Follows
<1> DEFINE fr == [callee |-> c, arg |-> arg, lhs |-> lhs, table |-> table,
                  mem |-> mem, ext |-> ext]
           k == Len(frames)
<1>1. /\ fr \in Frame /\ frames' = Append(frames, fr)
      /\ c \in Action => InAction(frames, k)
      /\ \A i \in 1 .. k : frames[i].callee # c
    BY PushFrame
<1>2. fr.callee = c /\ fr.arg = arg /\ fr.lhs = lhs /\ fr.table = table /\ fr.mem = mem
      /\ fr.ext = ext
    OBVIOUS
<1> HIDE DEF fr
<1>3. frames \in Seq(Frame) /\ k \in Nat /\ frames' \in Seq(Frame) /\ mem \in Memory
    BY DEF RefInv, CallInv, Types
<1>4. /\ Len(frames') = k + 1 /\ frames'[k + 1] = fr
      /\ \A i \in 1 .. k : frames'[i] = frames[i]
    BY <1>1, <1>3
<1>5. status' = status /\ ext' = ext /\ sig' = sig /\ sig = Continue /\ status = "running"
      /\ k < MaxDepth
    BY DEF Push, Running, RefInv, CallInv, Types, Signal, Continue
<1>6. CASE SomeDropped
  <2>1. PICK d : DroppedAt(frames, d)
      BY <1>6, RefFacts DEF AbsFacts
  <2>2. d \in 1 .. k
      BY <2>1 DEF DroppedAt
  <2>3. d <= Len(frames') /\ \A i \in 1 .. d : frames'[i] = frames[i]
      BY <1>3, <1>4, <2>2
  <2> QED
      BY <1>5, <2>1, <2>3, StillDropped DEF Follows
<1>7. CASE ~SomeDropped /\ Dropped(fr)
  <2>1. DroppedAt(frames', k + 1)
    <3>1. \A i \in 1 .. k : ~Dropped(frames[i])
        BY <1>7, RefFacts DEF AbsFacts
    <3> QED
        BY <1>3, <1>4, <1>7, <3>1 DEF DroppedAt
  <2>2. SubSeq(frames', 1, k + 1 - 1) = frames
    <3>1. SubSeq(Append(frames, fr), 1, k) = frames
        BY <1>1, <1>3
    <3> QED
        BY <1>1, <1>3, <3>1
  <2>3. /\ AbsControl' = Control(frames, mem) /\ AbsCalls' = CallsOf(frames, mem)
        /\ AbsExt' = ext /\ AbsSig' = Continue
    <3>1. /\ AbsControl' = Control(SubSeq(frames', 1, k + 1 - 1), frames'[k + 1].mem)
          /\ AbsCalls' = CallsOf(SubSeq(frames', 1, k + 1 - 1), frames'[k + 1].mem)
          /\ AbsExt' = frames'[k + 1].ext /\ AbsSig' = Continue
        BY <2>1, RefFactsPrime DEF AbsFacts
    <3> QED
        BY <1>2, <1>4, <2>2, <3>1
  <2>4. Hidden
      BY <1>5, <1>7, <2>3, RefFacts DEF AbsFacts, Hidden
  <2> QED
      BY <1>5, <2>4 DEF Follows
<1>8. CASE ~SomeDropped /\ ~Dropped(fr)
  <2>1. ~SomeDropped'
    <3>1. \A i \in 1 .. k : ~Dropped(frames[i])
        BY <1>8, RefFacts DEF AbsFacts
    <3>2. \A i \in 1 .. Len(frames') : ~Dropped(frames'[i])
        BY <1>3, <1>4, <1>8, <3>1
    <3> QED
        BY <3>2, RefFactsPrime DEF AbsFacts
  <2>2. /\ AbsControl = Control(frames, mem) /\ AbsCalls = CallsOf(frames, mem)
        /\ AbsExt = ext /\ AbsSig = sig
      BY <1>8, RefFacts DEF AbsFacts
  <2>3. /\ AbsControl' = Control(frames', mem') /\ AbsCalls' = CallsOf(frames', mem')
        /\ AbsExt' = ext' /\ AbsSig' = sig'
      BY <2>1, RefFactsPrime DEF AbsFacts
  <2> DEFINE new == [callee |-> c, arg |-> arg, lhs |-> lhs, table |-> table, param |-> v]
  <2>4. /\ Control(frames', mem') = Control(frames, mem)
        /\ CallsOf(frames', mem') = Append(CallsOf(frames, mem), new)
    <3>1. PICK b \in 0 .. k : Boundary(frames, b)
        BY DEF RefInv, Shape
    <3>2. mem'[c] = v
      <4>1. c \in Loc
          BY DEF Loc
      <4> QED
          BY <1>3, <4>1 DEF Push, CopyIn, EmptyMemory, Memory
    <3>3. c \in Action => b = k
        BY <1>1, <1>3, <3>1 DEF InAction, Boundary
    <3>4. c \in Action => mem' = [mem EXCEPT ![c] = v]
        BY DisjointAssumption DEF Push, CopyIn
    <3>5. /\ mem'[fr.callee] = v /\ fr.mem = mem /\ b \in 0 .. Len(frames)
          /\ fr.callee \in Action =>
               /\ b = Len(frames) /\ mem' = [mem EXCEPT ![fr.callee] = v]
               /\ \A i \in 1 .. Len(frames) : frames[i].callee # fr.callee
        BY <1>1, <1>2, <3>2, <3>3, <3>4
    <3> HIDE DEF k
    <3>6. Pushed(frames, mem, fr, mem', v)
        BY <1>1, <1>3, <3>1, <3>5, PushAbs
    <3> QED
        BY <1>1, <1>2, <3>6 DEF Pushed
  <2>5. /\ Len(AbsCalls) = k /\ \A i \in 1 .. k : AbsCalls[i] = Call_(frames, mem, i)
        /\ AbsCalls = <<>> <=> frames = <<>>
      BY <2>2, CallsSeen
  <2>6. \A f, x : f = [i \in 1 .. k |-> f[i]] =>
            /\ Len(Append(f, x)) = k + 1 /\ Append(f, x)[k + 1] = x
            /\ SubSeq(Append(f, x), 1, k) = f
      BY <1>3
  <2>7. AbsCalls = [i \in 1 .. k |-> AbsCalls[i]]
      BY <2>2 DEF CallsOf
  <2>8. Len(AbsCalls') = k + 1 /\ AbsCalls'[k + 1] = new /\ SubSeq(AbsCalls', 1, k) = AbsCalls
      BY <2>2, <2>3, <2>4, <2>6, <2>7
  <2>9. k # 0 => /\ AbsCalls[k].callee = Last(frames).callee
                 /\ AbsCalls[k].param = mem[Last(frames).callee]
                 /\ Last(frames) \in Frame /\ frames # <<>>
    <3>1. k # 0 => k \in 1 .. k /\ frames # <<>> /\ Last(frames) = frames[k]
        BY <1>3 DEF Last
    <3>2. k # 0 => AbsCalls[k].param = mem[frames[k].callee]
        BY <2>2, <3>1, TopHolds
    <3>3. k # 0 => AbsCalls[k].callee = frames[k].callee
      <4>1. k # 0 => AbsCalls[k] = Call_(frames, mem, k)
          BY <2>5, <3>1
      <4> QED
          BY <4>1 DEF Call_
    <3> QED
        BY <1>3, <3>1, <3>2, <3>3
  <2>10. Copies!Starts(new)
    <3>1. \A i \in DOMAIN AbsCalls : AbsCalls[i].callee # c
      <4>1. DOMAIN AbsCalls = 1 .. k
          BY <2>7
      <4> QED
          BY <1>1, <2>5, <4>1 DEF Call_
    <3>2. Copies!InFunction => c \in Function
      <4>1. Copies!InFunction => InFunction
          BY <1>3, <2>5, <2>9 DEF InFunction, Copies!InFunction, Copies!Top
      <4> QED
          BY <4>1 DEF Push, Callable
    <3>3. Dir[c] = "out" => v = Zero
        BY DEF Initial
    <3>4. ASSUME Dir[c] # "out", ~table PROVE Copies!Holds(arg, v)
      <4>1. arg # BadLvalue
          BY <1>2, <1>8 DEF Dropped
      <4>2. arg \in Visible /\ v = mem[arg]
          BY <3>4, <4>1 DEF Initial
      <4>3. CASE frames # <<>> /\ arg = Last(frames).callee
          BY <1>3, <2>5, <2>9, <4>2, <4>3 DEF Copies!Holds, Copies!Top
      <4>4. CASE ~(frames # <<>> /\ arg = Last(frames).callee)
        <5>1. arg \in Var /\ ~InFunction
            BY <4>2, <4>4 DEF Visible, InFunction
        <5>2. frames # <<>> => Last(frames).callee \in Action
            BY <1>3, <2>9, <5>1 DEF InFunction, Frame, Callee
        <5>3. Copies!InControl
            BY <1>3, <2>5, <2>9, <5>2 DEF Copies!InControl, Copies!Top
        <5>4. InAction(frames, k)
            BY <1>3, <5>2 DEF InAction, Last
        <5>5. AbsControl[arg] = mem[arg]
            BY <2>2, <5>1, <5>4, TopHolds
        <5> QED
            BY <4>2, <5>1, <5>3, <5>5 DEF Copies!Holds
      <4> QED
          BY <4>3, <4>4
    <3> QED
        BY <3>1, <3>2, <3>3, <3>4 DEF Copies!Starts
  <2>11. Copies!Call
      BY <1>5, <2>2, <2>3, <2>4, <2>5, <2>8, <2>10 DEF Copies!Call, Copies!Running, Continue
  <2> QED
      BY <2>11 DEF Follows, Copies!Next
<1> QED
    BY <1>6, <1>7, <1>8

(* A stack without its top.                                                *)
LEMMA FrontIs ==
  ASSUME NEW fs \in Seq(Frame), fs # <<>>
  PROVE  /\ Front(fs) \in Seq(Frame) /\ Len(Front(fs)) = Len(fs) - 1
         /\ \A i \in 1 .. Len(fs) - 1 : Front(fs)[i] = fs[i]
<1> DEFINE gs == Front(fs)
           k == Len(fs) - 1
<1>1. k \in Nat /\ Len(fs) = k + 1
    OBVIOUS
<1>2. gs \in Seq(Frame) /\ Len(gs) = k /\ \A i \in 1 .. k : gs[i] = fs[i]
    BY <1>1 DEF Front
<1> QED
    BY <1>2

(* The stack without its top, and what is known of the top.                *)
LEMMA TopFrame ==
  ASSUME RefInv, frames # <<>>, frames' = Front(frames)
  PROVE  /\ Len(frames) \in Nat \ {0} /\ Last(frames) = frames[Len(frames)]
         /\ Last(frames) \in Frame /\ MadeBy(frames, Len(frames))
         /\ frames' \in Seq(Frame) /\ Len(frames') = Len(frames) - 1 /\ Shape(frames')
         /\ \A i \in 1 .. Len(frames) - 1 : frames'[i] = frames[i]
<1>1. frames \in Seq(Frame) /\ Len(frames) \in Nat \ {0}
    BY DEF RefInv, CallInv, Types
<1>2. Len(frames) \in 1 .. Len(frames) /\ MadeBy(frames, Len(frames))
    BY <1>1 DEF RefInv, Shape
<1>3. Shape(frames')
    BY <1>1, ShapePop DEF RefInv
<1>4. /\ frames' \in Seq(Frame) /\ Len(frames') = Len(frames) - 1
      /\ \A i \in 1 .. Len(frames) - 1 : frames'[i] = frames[i]
    BY <1>1, FrontIs
<1>5. frames[Len(frames)] \in Frame
    BY <1>1
<1> QED
    BY <1>1, <1>2, <1>3, <1>4, <1>5 DEF Last

(* The end of a dropped call: a reject of the caller, if it is the first   *)
(* that is dropped; not seen if it is not.                                 *)
LEMMA LeaveDroppedFollows ==
  ASSUME RefInv, RefInv', LeaveDropped
  PROVE  Follows
<1> DEFINE k == Len(frames)
<1>1. /\ frames # <<>> /\ frames' = Front(frames) /\ mem' = Last(frames).mem
      /\ ext' = Last(frames).ext /\ sig' = Reject /\ status' = status
      /\ status = "running" /\ Dropped(Last(frames))
    BY DEF LeaveDropped, AtEnd
<1>2. /\ k \in Nat \ {0} /\ Last(frames) = frames[k]
      /\ Len(frames') = k - 1 /\ frames' \in Seq(Frame)
      /\ \A i \in 1 .. k - 1 : frames'[i] = frames[i]
    BY <1>1, TopFrame
<1>3. PICK d : DroppedAt(frames, d)
    BY <1>1, <1>2, RefFacts DEF AbsFacts
<1>4. d \in 1 .. k
    BY <1>3 DEF DroppedAt
<1>5. CASE d # k
  <2>1. d <= Len(frames') /\ \A i \in 1 .. d : frames'[i] = frames[i]
      BY <1>2, <1>4, <1>5
  <2> QED
      BY <1>1, <1>3, <2>1, StillDropped DEF Follows
<1>6. CASE d = k
  <2>1. ~SomeDropped'
    <3>1. \A i \in 1 .. k - 1 : ~Dropped(frames[i])
        BY <1>3, <1>6 DEF DroppedAt
    <3>2. \A i \in 1 .. Len(frames') : ~Dropped(frames'[i])
        BY <1>2, <3>1
    <3> QED
        BY <3>2, RefFactsPrime DEF AbsFacts
  <2>2. /\ AbsControl' = Control(frames', mem') /\ AbsCalls' = CallsOf(frames', mem')
        /\ AbsExt' = ext' /\ AbsSig' = Reject
      BY <1>1, <2>1, RefFactsPrime DEF AbsFacts
  <2>3. /\ AbsControl = Control(SubSeq(frames, 1, k - 1), frames[k].mem)
        /\ AbsCalls = CallsOf(SubSeq(frames, 1, k - 1), frames[k].mem)
        /\ AbsExt = frames[k].ext /\ AbsSig = Continue
      BY <1>3, <1>6, RefFacts DEF AbsFacts
  <2>4. UNCHANGED <<AbsControl, AbsCalls, AbsExt>>
      BY <1>1, <1>2, <2>2, <2>3 DEF Front
  <2>5. Copies!Raise
      BY <1>1, <2>2, <2>3, <2>4 DEF Copies!Raise, Copies!Running, Copies!Signal, Continue,
         Reject
  <2> QED
      BY <2>5 DEF Follows, Copies!Next
<1> QED
    BY <1>5, <1>6

(* A call that ends and is seen: the caller's state, its memory as it was  *)
(* when the call was made, or as the action left it.                       *)
LEMMA CallerState ==
  ASSUME RefInv, RefInv', ~SomeDropped, frames # <<>>, frames' = Front(frames),
         NEW caller, caller = IF Last(frames).callee \in Function THEN Last(frames).mem ELSE mem
  PROVE  /\ AbsControl = Control(frames', caller) /\ Copies!Callers = CallsOf(frames', caller)
         /\ caller \in Memory
         /\ Copies!Top = Call_(frames, mem, Len(frames))
         /\ Copies!Top.param = mem[Last(frames).callee]
         /\ AbsCalls # <<>> /\ AbsExt = ext /\ AbsSig = sig
         /\ AbsControl' = Control(frames', mem') /\ AbsCalls' = CallsOf(frames', mem')
         /\ AbsExt' = ext' /\ AbsSig' = sig'
<1> DEFINE k == Len(frames)
<1>1. /\ k \in Nat \ {0} /\ Last(frames) = frames[k] /\ Last(frames) \in Frame
      /\ Len(frames') = k - 1 /\ frames \in Seq(Frame) /\ mem \in Memory
      /\ \A i \in 1 .. k - 1 : frames'[i] = frames[i]
    BY TopFrame DEF RefInv, CallInv, Types
<1>2. AbsControl = Control(frames, mem) /\ AbsCalls = CallsOf(frames, mem)
      /\ AbsExt = ext /\ AbsSig = sig
    BY RefFacts DEF AbsFacts
<1>3. PICK b \in 0 .. k : Boundary(frames, b)
    BY DEF RefInv, Shape
<1>4. /\ Control(frames', caller) = Control(frames, mem)
      /\ CallsOf(frames', caller) = SubSeq(CallsOf(frames, mem), 1, k - 1)
    BY <1>1, <1>3, PopAbs
<1>5. Len(AbsCalls) = k /\ AbsCalls[k] = Call_(frames, mem, k) /\ AbsCalls # <<>>
    BY <1>1, <1>2, CallsSeen
<1>6. Copies!Callers = CallsOf(frames', caller)
    BY <1>2, <1>4, <1>5 DEF Copies!Callers
<1>7. Copies!Top = Call_(frames, mem, k)
    BY <1>5 DEF Copies!Top
<1>8. Copies!Top.param = mem[Last(frames).callee]
  <2>1. CallsOf(frames, mem)[k].param = mem[frames[k].callee]
      BY TopHolds
  <2> QED
      BY <1>1, <1>2, <1>5, <2>1 DEF Copies!Top
<1>9. caller \in Memory
    BY <1>1 DEF Frame
<1>10. ~SomeDropped'
  <2>1. \A i \in 1 .. k : ~Dropped(frames[i])
      BY RefFacts DEF AbsFacts
  <2>2. \A i \in 1 .. Len(frames') : ~Dropped(frames'[i])
      BY <1>1, <2>1
  <2> QED
      BY <2>2, RefFactsPrime DEF AbsFacts
<1>11. /\ AbsControl' = Control(frames', mem') /\ AbsCalls' = CallsOf(frames', mem')
       /\ AbsExt' = ext' /\ AbsSig' = sig'
    BY <1>10, RefFactsPrime DEF AbsFacts
<1> QED
    BY <1>2, <1>4, <1>5, <1>6, <1>7, <1>8, <1>9, <1>11

(* A write, call by call.                                                  *)
LEMMA WrittenParam ==
  ASSUME NEW fs \in Seq(Frame), NEW m, NEW n, NEW l, NEW v, Written(fs, m, n, l, v)
  PROVE  /\ \A x \in Var : Control(fs, n)[x] = IF x = l THEN v ELSE Control(fs, m)[x]
         /\ \A i \in 1 .. Len(fs) - 1 : CallsOf(fs, n)[i] = CallsOf(fs, m)[i]
         /\ fs # <<>> => CallsOf(fs, n)[Len(fs)].param =
                           IF l = fs[Len(fs)].callee THEN v ELSE CallsOf(fs, m)[Len(fs)].param
<1>1. \A x \in Var : Control(fs, n)[x] = IF x = l THEN v ELSE Control(fs, m)[x]
    BY DEF Written
<1>2. \A i \in 1 .. Len(fs) : CallsOf(fs, n)[i] =
        IF i = Len(fs) /\ l = fs[i].callee
        THEN [CallsOf(fs, m)[i] EXCEPT !.param = v] ELSE CallsOf(fs, m)[i]
    BY DEF Written
<1>3. \A i \in 1 .. Len(fs) - 1 : i \in 1 .. Len(fs) /\ i # Len(fs)
    OBVIOUS
<1>4. ASSUME fs # <<>>
      PROVE  CallsOf(fs, n)[Len(fs)].param =
               IF l = fs[Len(fs)].callee THEN v ELSE CallsOf(fs, m)[Len(fs)].param
  <2>1. Len(fs) \in 1 .. Len(fs)
      BY <1>4
  <2>2. CallsOf(fs, m)[Len(fs)] = Call_(fs, m, Len(fs))
      BY <2>1 DEF CallsOf
  <2>3. [Call_(fs, m, Len(fs)) EXCEPT !.param = v].param = v
      BY DEF Call_
  <2> QED
      BY <1>2, <2>1, <2>2, <2>3
<1> QED
    BY <1>1, <1>2, <1>3, <1>4

(* Two memories that differ in the innermost parameter give calls that     *)
(* differ in it.                                                           *)
LEMMA CallsExcept ==
  ASSUME NEW fs \in Seq(Frame), fs # <<>>, NEW m, NEW n, NEW p,
         \A i \in 1 .. Len(fs) - 1 : CallsOf(fs, n)[i] = CallsOf(fs, m)[i],
         CallsOf(fs, n)[Len(fs)].param = p
  PROVE  CallsOf(fs, n) = [CallsOf(fs, m) EXCEPT ![Len(fs)].param = p]
<1> DEFINE k == Len(fs)
<1>1. k \in Nat \ {0}
    OBVIOUS
<1>2. \A o : CallsOf(fs, o) = [i \in 1 .. k |-> CallsOf(fs, o)[i]]
    BY DEF CallsOf
<1>3. \A o : CallsOf(fs, o)[k] = Call_(fs, o, k)
    BY <1>1 DEF CallsOf
<1>4. CallsOf(fs, n)[k] = [CallsOf(fs, m)[k] EXCEPT !.param = p]
  <2>1. Call_(fs, n, k).param = p
      BY <1>3
  <2>2. Call_(fs, n, k) = [Call_(fs, m, k) EXCEPT !.param = p]
      BY <2>1 DEF Call_
  <2> QED
      BY <1>3, <2>2
<1>5. \A i \in 1 .. k : i = k \/ i \in 1 .. k - 1
    BY <1>1
<1> QED
    BY <1>1, <1>2, <1>4, <1>5

(* As many calls are seen as there are on the stack.                       *)
LEMMA CallsLen ==
  ASSUME NEW fs \in Seq(Frame), NEW m
  PROVE  /\ Len(CallsOf(fs, m)) = Len(fs)
         /\ CallsOf(fs, m) = <<>> <=> fs = <<>>
<1>1. Len(CallsOf(fs, m)) = Len(fs) /\ Len(fs) \in Nat
    BY DEF CallsOf
<1>2. CallsOf(fs, m) = <<>> <=> fs = <<>>
    BY DEF CallsOf
<1> QED
    BY <1>1, <1>2

(* What an argument or a target of a call that is seen can be.             *)
LEMMA CallerNames ==
  ASSUME RefInv, RefInv', frames # <<>>, frames' = Front(frames), ~Dropped(Last(frames))
  PROVE  /\ Dir[Last(frames).callee] # "in" =>
              Last(frames).arg \in Named(frames', Len(frames'))
         /\ Last(frames).lhs # NoTarget =>
              /\ Last(frames).lhs \in Named(frames', Len(frames'))
              /\ Last(frames).callee \in Function
<1> DEFINE k == Len(frames)
<1>1. /\ k \in Nat \ {0} /\ Last(frames) = frames[k] /\ Last(frames) \in Frame
      /\ MadeBy(frames, k) /\ Len(frames') = k - 1
      /\ \A i \in 1 .. k - 1 : frames'[i] = frames[i]
    BY TopFrame
<1>2. Named(frames', k - 1) = Named(frames, k - 1)
  <2>1. k - 1 # 0 => frames'[k - 1] = frames[k - 1]
      BY <1>1
  <2> QED
      BY <2>1 DEF Named
<1> QED
    BY <1>1, <1>2 DEF MadeBy, Dropped, Frame, Callee

(* The end of a call: what is copied out and what is assigned of its       *)
(* result go to the caller, or it is not seen.                             *)
LEMMA LeaveFollows ==
  ASSUME RefInv, RefInv', Leave
  PROVE  Follows
<1> DEFINE frame == Last(frames)
           gs == frames'
           n == Len(gs)
           caller == IF frame.callee \in Function THEN frame.mem ELSE mem
           param == mem[frame.callee]
           after == CopyOut(frame)
<1>1. /\ frames # <<>> /\ frames' = Front(frames) /\ ~Dropped(frame)
      /\ ext' = ext /\ status' = status /\ status = "running"
      /\ AfterCall(frame, after) /\ (sig.kind = "continue" => ~InFunction)
    BY DEF Leave, AtEnd
<1>2. /\ frame \in Frame /\ gs \in Seq(Frame) /\ Shape(gs)
      /\ Len(frames) \in Nat \ {0} /\ n = Len(frames) - 1 /\ frame = frames[Len(frames)]
      /\ \A i \in 1 .. Len(frames) - 1 : gs[i] = frames[i]
    BY <1>1, TopFrame
<1>3. CASE SomeDropped
  <2>1. PICK d : DroppedAt(frames, d)
      BY <1>3, RefFacts DEF AbsFacts
  <2>2. d \in 1 .. Len(frames) /\ d # Len(frames)
      BY <1>1, <1>2, <2>1 DEF DroppedAt
  <2>3. d <= n /\ \A i \in 1 .. d : gs[i] = frames[i]
      BY <1>2, <2>2
  <2> QED
      BY <1>1, <2>1, <2>3, StillDropped DEF Follows
<1>4. CASE ~SomeDropped
  <2>1. /\ AbsControl = Control(gs, caller) /\ Copies!Callers = CallsOf(gs, caller)
        /\ caller \in Memory
        /\ Copies!Top = Call_(frames, mem, Len(frames)) /\ Copies!Top.param = param
        /\ AbsCalls # <<>> /\ AbsExt = ext /\ AbsSig = sig
        /\ AbsControl' = Control(gs, mem') /\ AbsCalls' = CallsOf(gs, mem')
        /\ AbsExt' = ext' /\ AbsSig' = sig'
      BY <1>1, <1>4, CallerState
  <2>2. /\ Copies!Top.callee = frame.callee /\ Copies!Top.arg = frame.arg
        /\ Copies!Top.lhs = frame.lhs
      BY <1>2, <2>1 DEF Call_
  <2>3. /\ Dir[frame.callee] # "in" => frame.arg \in Named(gs, n)
        /\ frame.lhs # NoTarget => frame.lhs \in Named(gs, n) /\ frame.callee \in Function
      BY <1>1, CallerNames
  <2>4. after = IF Dir[frame.callee] # "in" THEN [caller EXCEPT ![frame.arg] = param]
                ELSE caller
      BY DEF CopyOut
  <2>5. after \in Memory
    <3>1. param \in Value \cup {Absent}
      <4>1. frame.callee \in Loc /\ mem \in Memory
          BY <1>2 DEF Frame, Loc, RefInv, CallInv, Types
      <4> QED
          BY <4>1 DEF Memory
    <3> QED
        BY <2>1, <2>4, <3>1 DEF Memory
  <2>6. sig.kind = "continue" => frame.lhs = NoTarget
      BY <1>1, <2>3 DEF InFunction
  <2>7. PICK b \in 0 .. n : Boundary(gs, b)
      BY <1>2 DEF Shape
  <2>8. \A i \in 1 .. n : MadeBy(gs, i)
      BY <1>2 DEF Shape
  <2> HIDE DEF frame, gs, n, caller, param, after
  <2>9. CASE frame.lhs = NoTarget \/ sig.kind # "return"
    <3>1. mem' = after /\ sig' = IF sig.kind = "return" THEN Continue ELSE sig
      <4>1. CASE sig.kind = "continue"
        <5>1. Ended.kind = "return"
            BY <4>1 DEF Ended, Return
        <5>2. sig = Continue
            BY <4>1 DEF RefInv, CallInv, Types, Signal, Continue
        <5> QED
            BY <1>1, <2>6, <4>1, <5>1, <5>2 DEF AfterCall
      <4>2. CASE sig.kind # "continue"
          BY <1>1, <2>9, <4>2 DEF AfterCall, Ended
      <4> QED
          BY <4>1, <4>2
    <3>2. IF Dir[frame.callee] # "in" THEN Copies!Store(Copies!Callers, frame.arg, param)
          ELSE AbsCalls' = Copies!Callers /\ UNCHANGED AbsControl
      <4>1. CASE Dir[frame.callee] # "in"
        <5>1. Stored(gs, caller, [caller EXCEPT ![frame.arg] = param], frame.arg, param)
            BY <1>2, <2>1, <2>3, <4>1, WriteStored DEF n, gs
        <5>2. mem' = [caller EXCEPT ![frame.arg] = param]
            BY <2>4, <3>1, <4>1
        <5>3. Len(CallsOf(gs, caller)) = Len(gs) /\ Len(gs) \in Nat
            BY <1>2 DEF CallsOf, gs
        <5> QED
            BY <2>1, <4>1, <5>1, <5>2, <5>3 DEF Stored, Copies!Store
      <4>2. CASE Dir[frame.callee] = "in"
          BY <2>1, <2>4, <3>1, <4>2
      <4> QED
          BY <4>1, <4>2
    <3>3. Copies!EndCall
        BY <1>1, <2>1, <2>2, <2>9, <3>1, <3>2 DEF Copies!EndCall, Continue, Copies!Continue
    <3> QED
        BY <3>3 DEF Follows, Copies!Next
  <2>10. CASE frame.lhs # NoTarget /\ sig.kind = "return"
    <3>1. mem' = [after EXCEPT ![frame.lhs] = sig.value] /\ sig' = Continue
        BY <1>1, <2>10 DEF AfterCall, Ended
    <3>2. Written(gs, after, mem', frame.lhs, sig.value)
        BY <1>2, <2>3, <2>5, <2>7, <2>8, <2>10, <3>1, WriteAbs DEF n, gs
    <3>3. Dir[frame.callee] # "in" => Written(gs, caller, after, frame.arg, param)
        BY <1>2, <2>1, <2>3, <2>4, <2>7, <2>8, WriteAbs DEF n, gs
    <3> DEFINE copied(x) == Dir[Copies!Top.callee] # "in" /\ Copies!Top.arg = x
               new(x, old) == IF x = Copies!Top.lhs THEN AbsSig.value
                              ELSE IF copied(x) THEN Copies!Top.param ELSE old
    <3>4. /\ \A x \in Var : Control(gs, mem')[x] = new(x, Control(gs, caller)[x])
          /\ \A i \in 1 .. n - 1 : CallsOf(gs, mem')[i] = CallsOf(gs, caller)[i]
          /\ gs # <<>> =>
               CallsOf(gs, mem')[n].param = new(gs[n].callee, CallsOf(gs, caller)[n].param)
      <4>1. /\ \A x \in Var : Control(gs, mem')[x] =
                 IF x = frame.lhs THEN sig.value ELSE Control(gs, after)[x]
            /\ \A i \in 1 .. n - 1 : CallsOf(gs, mem')[i] = CallsOf(gs, after)[i]
            /\ gs # <<>> => CallsOf(gs, mem')[n].param =
                 IF frame.lhs = gs[n].callee THEN sig.value ELSE CallsOf(gs, after)[n].param
          BY <1>2, <3>2, WrittenParam, SMTT(30) DEF n
      <4>2. Dir[frame.callee] # "in" =>
              /\ \A x \in Var : Control(gs, after)[x] =
                   IF x = frame.arg THEN param ELSE Control(gs, caller)[x]
              /\ \A i \in 1 .. n - 1 : CallsOf(gs, after)[i] = CallsOf(gs, caller)[i]
              /\ gs # <<>> => CallsOf(gs, after)[n].param =
                   IF frame.arg = gs[n].callee THEN param ELSE CallsOf(gs, caller)[n].param
          BY <1>2, <3>3, WrittenParam DEF n
      <4>3. Dir[frame.callee] = "in" => after = caller
          BY <2>4
      <4> QED
          BY <2>1, <2>2, <4>1, <4>2, <4>3
    <3>5. AbsControl' = [x \in Var |-> new(x, AbsControl[x])]
        BY <2>1, <3>4 DEF Control
    <3>6. AbsCalls' = IF Copies!Callers = <<>> THEN <<>>
                      ELSE [Copies!Callers EXCEPT ![Len(Copies!Callers)].param =
                              new(Copies!Callers[Len(Copies!Callers)].callee, @)]
      <4>1. Len(CallsOf(gs, caller)) = n /\ n \in Nat /\ (gs = <<>> <=> n = 0)
            /\ (CallsOf(gs, caller) = <<>> <=> n = 0) /\ n = Len(gs)
          BY <1>2, CallsLen DEF n
      <4>2. CASE n = 0
          BY <2>1, <4>1, <4>2 DEF CallsOf
      <4>3. CASE n # 0
        <5> DEFINE p == new(gs[n].callee, CallsOf(gs, caller)[n].param)
        <5>1. CallsOf(gs, caller)[n].callee = gs[n].callee
          <6>1. CallsOf(gs, caller)[n] = Call_(gs, caller, n)
              BY <4>1, <4>3 DEF CallsOf
          <6> QED
              BY <6>1 DEF Call_
        <5>2. CallsOf(gs, mem') = [CallsOf(gs, caller) EXCEPT ![n].param = p]
          <6> HIDE DEF p
          <6>1. CallsOf(gs, mem')[n].param = p
              BY <3>4, <4>1, <4>3 DEF p
          <6> QED
              BY <1>2, <3>4, <4>1, <4>3, <6>1, CallsExcept, SMTT(30) DEF n, gs
        <5> QED
            BY <2>1, <4>1, <4>3, <5>1, <5>2
      <4> QED
          BY <4>1, <4>2, <4>3
    <3>7. Copies!EndAssignment
        BY <1>1, <2>1, <2>2, <2>10, <3>1, <3>5, <3>6 DEF Copies!EndAssignment, Continue,
           Copies!Continue
    <3> QED
        BY <3>7 DEF Follows, Copies!Next
  <2> QED
      BY <2>9, <2>10
<1> QED
    BY <1>3, <1>4

(* A table is applied in the control, so that its action is the only call, *)
(* and is never dropped.                                                   *)
LEMMA TableFailsFollows ==
  ASSUME RefInv, RefInv', TableFails
  PROVE  Follows
<1> DEFINE k == Len(frames)
<1>1. /\ frames # <<>> /\ status = "running" /\ Last(frames).table
      /\ Ended.kind # "return" /\ status' = "crashed"
      /\ UNCHANGED <<frames, mem, ext, sig>>
    BY DEF TableFails, AtEnd
<1>2. k \in Nat \ {0} /\ Last(frames) = frames[k] /\ k \in 1 .. k /\ MadeBy(frames, k)
    BY <1>1 DEF RefInv, CallInv, Types, Shape, Last
<1>3. k = 1 /\ ~Dropped(frames[k])
    BY <1>1, <1>2, DisjointAssumption DEF MadeBy, Dropped
<1>4. ~SomeDropped
    BY <1>2, <1>3, RefFacts DEF AbsFacts
<1>5. /\ AbsControl' = AbsControl /\ AbsCalls' = AbsCalls /\ AbsExt' = AbsExt
      /\ AbsSig' = AbsSig /\ AbsSig = sig /\ AbsCalls = CallsOf(frames, mem)
    BY <1>1, <1>4, StillNone
<1>6. /\ Len(AbsCalls) = k /\ AbsCalls[k] = Call_(frames, mem, k) /\ AbsCalls # <<>>
    BY <1>1, <1>2, <1>5, CallsSeen
<1>7. Copies!Top.table
    BY <1>1, <1>2, <1>6 DEF Copies!Top, Call_
<1>8. sig.kind \in {"exit", "reject"}
    BY <1>1 DEF Ended, Return, RefInv, CallInv, Types, Signal
<1>9. Copies!Crash
    BY <1>1, <1>5, <1>6, <1>7, <1>8 DEF Copies!Crash
<1> QED
    BY <1>9 DEF Follows, Copies!Next

(* The end of the control.                                                 *)
LEMMA FinishFollows ==
  ASSUME RefInv, RefInv', Finish
  PROVE  Follows
<1>1. /\ frames = <<>> /\ status = "running" /\ status' = "done" /\ sig' = Ended
      /\ UNCHANGED <<frames, mem, ext>>
    BY DEF Finish, AtEnd
<1>2. ~SomeDropped
    BY <1>1, RefFacts DEF AbsFacts
<1>3. /\ AbsControl' = AbsControl /\ AbsCalls' = AbsCalls /\ AbsExt' = AbsExt
      /\ AbsSig = sig /\ AbsSig' = sig' /\ AbsCalls = CallsOf(frames, mem)
    BY <1>1, <1>2, StillNone
<1>4. AbsCalls = <<>>
    BY <1>1, <1>3, CallsSeen
<1>5. sig' \in Copies!Signal /\ (sig.kind # "continue" => sig' = sig)
  <2>1. CASE sig.kind = "continue"
      BY <1>1, <2>1, ValueAssumption DEF Ended, Return, Copies!Signal
  <2>2. CASE sig.kind # "continue"
    <3>1. sig' = sig /\ sig \in Signal /\ (sig.kind # "return" => sig.value = Zero)
        BY <1>1, <2>2 DEF Ended, RefInv, CallInv, Types
    <3> QED
        BY <2>2, <3>1 DEF Signal, Copies!Signal
  <2> QED
      BY <2>1, <2>2
<1>6. Copies!Finish
    BY <1>1, <1>3, <1>4, <1>5 DEF Copies!Finish
<1> QED
    BY <1>6 DEF Follows, Copies!Next

(* Every step is a step of the abstract machine or a stutter.              *)
LEMMA StepFollows == RefInv /\ RefInv' /\ [Next]_vars => [Copies!Next]_(Copies!vars)
<1> SUFFICES ASSUME RefInv, RefInv', [Next]_vars PROVE [Copies!Next]_(Copies!vars)
    OBVIOUS
<1>1. Follows => [Copies!Next]_(Copies!vars)
    BY DEF Follows, Hidden, Copies!vars
<1>2. CASE Statements
  <2>1. CASE frames' = frames
      BY <1>1, <1>2, <2>1, StatementFollows
  <2>2. ASSUME NEW c \in Callee, NEW arg \in Visible \cup {BadLvalue},
               NEW lhs \in Visible \cup {BadLvalue, NoTarget}, Call(c, arg, lhs)
        PROVE  Follows
    <3>1. PICK v \in Initial(c, arg) : Push(c, arg, lhs, FALSE, v)
        BY <2>2 DEF Call
    <3> QED
        BY <2>2, <3>1, PushFollows DEF Call
  <2>3. ASSUME NEW a \in Action, NEW v \in Value, ApplyTable(a, v)
        PROVE  Follows
      BY <2>3, PushFollows DEF ApplyTable, Callee
  <2>4. frames' = frames \/ (\E c \in Callee, arg \in Visible \cup {BadLvalue},
                                lhs \in Visible \cup {BadLvalue, NoTarget} : Call(c, arg, lhs))
          \/ (\E a \in Action, v \in Value : ApplyTable(a, v))
      BY <1>2 DEF Statements, Assign, CallExtern, ReturnStatement, ExitStatement,
         StatementRejects
  <2> QED
      BY <1>1, <2>1, <2>2, <2>3, <2>4
<1>3. CASE Unwind
    BY <1>1, <1>3, LeaveDroppedFollows, LeaveFollows, TableFailsFollows, FinishFollows
       DEF Unwind
<1>4. CASE UNCHANGED vars
  <2>1. UNCHANGED <<frames, mem, ext, sig, status>>
      BY <1>4 DEF vars
  <2>2. Hidden
    <3>1. CASE SomeDropped
        BY <2>1, <3>1, StillSame
    <3>2. CASE ~SomeDropped
        BY <2>1, <3>2, StillNone DEF Hidden
    <3> QED
        BY <3>1, <3>2
  <2> QED
      BY <1>1, <2>1, <2>2 DEF Follows
<1> QED
    BY <1>2, <1>3, <1>4 DEF Next, Stopped

(* So is the initial state one of its initial states.                      *)
LEMMA InitFollows == Init => Copies!Init
<1> SUFFICES ASSUME Init PROVE Copies!Init
    OBVIOUS
<1>1. RefInv
    BY InitRef
<1>2. /\ frames = <<>> /\ mem = [l \in Loc |-> IF l \in Var THEN Zero ELSE Absent]
      /\ ext = 0 /\ sig = Continue /\ status = "running"
    BY DEF Init
<1>3. ~SomeDropped
    BY <1>2 DEF SomeDropped
<1>4. /\ AbsControl = Control(frames, mem) /\ AbsCalls = CallsOf(frames, mem)
      /\ AbsExt = ext /\ AbsSig = sig
    BY <1>1, <1>3, RefFacts DEF AbsFacts
<1>5. AbsCalls = <<>>
    BY <1>1, <1>2, <1>4, CallsSeen
<1>6. \A x \in Var : AbsControl[x] = Zero
  <2>1. \A x \in Var : Control(frames, mem)[x] = mem[x]
      BY <1>1, <1>2, TopHolds DEF InAction
  <2> QED
      BY <1>2, <1>4, <2>1 DEF Loc
<1>7. AbsControl = [x \in Var |-> Zero]
    BY <1>4, <1>6 DEF Control
<1> QED
    BY <1>2, <1>4, <1>5, <1>7 DEF Copies!Init, Continue, Copies!Continue

(* Calls on one memory, saved around functions and put back when a call    *)
(* cannot copy out, are calls by copy-in and copy-out of private           *)
(* parameters: interp_call and interp_func keep the calling convention.    *)
THEOREM Implements == Spec => CopiesInAndOut
<1>1. Spec => []RefInv
    BY InitRef, StepRef, PTL DEF Spec
<1> QED
    BY <1>1, InitFollows, StepFollows, PTL DEF Spec, CopiesInAndOut, Copies!Spec
=============================================================================
