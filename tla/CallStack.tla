------------------------------ MODULE CallStack ------------------------------
(***************************************************************************)
(* Calls in the P4light interpreter: interp_stmt, interp_block, interp_call *)
(* and interp_func of coq/lib/P4light/Semantics/Interpreter.v.             *)
(*                                                                         *)
(* The body of a control, of the actions and of the functions is up to the *)
(* program: in every frame the machine takes any statement that may stand  *)
(* there.  Memory is one map from paths to values.  An action runs on the  *)
(* memory of its control, its parameter living at a path of its own; a     *)
(* function runs on an empty memory, and its caller's is put back when it  *)
(* returns.  Every callee has one parameter, whose path is the callee.     *)
(***************************************************************************)
EXTENDS Naturals, Sequences

CONSTANTS
  Var,        \* the variables of the control
  Action, Function,
  Dir,        \* the direction of each callee's parameter
  Value,
  Zero,       \* the value of an uninitialised location
  Absent,     \* a path that is not in the map
  BadLvalue,  \* stack.next with next = size: evaluating it signals SReject
  NoTarget,   \* a call whose result is not assigned
  MaxDepth,   \* bound on the number of frames above the control
  MaxExt      \* bound on the calls of the extern

Callee == Action \cup Function
Loc    == Var \cup Callee

ASSUME DisjointAssumption ==
  /\ Action \cap Function = {} /\ Var \cap Callee = {}
  /\ BadLvalue \notin Loc /\ NoTarget \notin Loc \cup {BadLvalue}
ASSUME DirAssumption == Dir \in [Callee -> {"in", "out", "inout"}]
ASSUME ValueAssumption == Zero \in Value /\ Absent \notin Value
ASSUME BoundAssumption == MaxDepth \in Nat /\ MaxExt \in Nat

VARIABLES
  frames,     \* the calls that have not returned
  mem,        \* the memory the top frame runs on
  ext,        \* the extern state: how often the extern was called
  sig,        \* the signal of the last statement
  status      \* "running", "done" or "crashed"

vars == <<frames, mem, ext, sig, status>>

Continue  == [kind |-> "continue", value |-> Zero]
Return(v) == [kind |-> "return", value |-> v]
Exit      == [kind |-> "exit", value |-> Zero]
Reject    == [kind |-> "reject", value |-> Zero]

Last(s)  == s[Len(s)]
Front(s) == SubSeq(s, 1, Len(s) - 1)

EmptyMemory == [l \in Loc |-> Absent]

Init ==
  /\ frames = <<>>
  /\ mem = [l \in Loc |-> IF l \in Var THEN Zero ELSE Absent]
  /\ ext = 0
  /\ sig = Continue
  /\ status = "running"

-----------------------------------------------------------------------------
(* Statements: they run while the signal is SContinue.                     *)

InFunction == frames # <<>> /\ Last(frames).callee \in Function

\* the locations the top frame's code can name
Visible ==
  IF frames = <<>> THEN Var
  ELSE {Last(frames).callee} \cup (IF InFunction THEN {} ELSE Var)

Running == status = "running" /\ sig.kind = "continue"

Assign(l, v) ==
  /\ Running
  /\ mem' = [mem EXCEPT ![l] = v]
  /\ UNCHANGED <<frames, ext, sig, status>>

\* only functions return a value
ReturnStatement(v) ==
  /\ Running
  /\ InFunction \/ v = Zero
  /\ sig' = Return(v)
  /\ UNCHANGED <<frames, mem, ext, status>>

\* functions have no exit statements
ExitStatement ==
  /\ Running /\ ~InFunction
  /\ sig' = Exit
  /\ UNCHANGED <<frames, mem, ext, status>>

\* interp_extern: a method with one out parameter, which may reject
CallExtern(l, v, s) ==
  /\ Running
  /\ ext < MaxExt
  /\ ext' = ext + 1
  /\ mem' = [mem EXCEPT ![l] = v]
  /\ sig' = s
  /\ UNCHANGED <<frames, status>>

\* an extern call or an assignment on an lvalue that rejects: what it did is
\* dropped
StatementRejects ==
  /\ Running
  /\ sig' = Reject
  /\ UNCHANGED <<frames, mem, ext, status>>

-----------------------------------------------------------------------------
(* interp_call and interp_func with FInternal: copy-in.                    *)

Active(c) == \E i \in DOMAIN frames : frames[i].callee = c

\* functions cannot call actions; nothing is recursive
Callable(c) == ~Active(c) /\ (InFunction => c \in Function)

\* the memory c starts on, its parameter initialised to v
CopyIn(c, v) == [IF c \in Function THEN EmptyMemory ELSE mem EXCEPT ![c] = v]

Push(c, arg, lhs, table, v) ==
  /\ Running
  /\ Len(frames) < MaxDepth
  /\ Callable(c)
  /\ frames' = Append(frames, [callee |-> c, arg |-> arg, lhs |-> lhs,
                               table |-> table, mem |-> mem, ext |-> ext])
  /\ mem' = CopyIn(c, v)
  /\ UNCHANGED <<ext, sig, status>>

\* the value the parameter starts with; a bad lvalue reads as some header
Initial(c, arg) ==
  IF Dir[c] = "out" THEN {Zero} ELSE IF arg = BadLvalue THEN Value ELSE {mem[arg]}

\* c(arg) as a statement, or lhs = c(arg) for a function
Call(c, arg, lhs) ==
  /\ Dir[c] = "in" => arg # BadLvalue
  /\ c \in Action => lhs = NoTarget
  /\ \E v \in Initial(c, arg) : Push(c, arg, lhs, FALSE, v)

\* table.apply() in the control, with the action of the entry that matched and
\* its argument, from the entry or bound in the table
ApplyTable(a, v) ==
  /\ frames = <<>> /\ Dir[a] = "in"
  /\ Push(a, NoTarget, NoTarget, TRUE, v)

-----------------------------------------------------------------------------
(* The way back: the rest of each block is skipped.                        *)

\* force_return_signal
Ended == IF sig.kind = "continue" THEN Return(Zero) ELSE sig

AtEnd == status = "running" /\ (sig.kind = "continue" => ~InFunction)

\* an argument or a target whose lvalue rejects: the state from before the
\* call is the state after it
Dropped(frame) == frame.arg = BadLvalue \/ frame.lhs = BadLvalue

\* Mutant of LeaveDropped: the callee's memory stays.
LeaveDroppedKeepsMemory ==
  /\ frames # <<>> /\ AtEnd
  /\ Dropped(Last(frames))
  /\ mem' = mem
  /\ ext' = Last(frames).ext
  /\ sig' = Reject
  /\ frames' = Front(frames)
  /\ UNCHANGED status

LeaveDropped ==
  /\ frames # <<>> /\ AtEnd
  /\ Dropped(Last(frames))
  /\ mem' = Last(frames).mem
  /\ ext' = Last(frames).ext
  /\ sig' = Reject
  /\ frames' = Front(frames)
  /\ UNCHANGED status

\* Mutant of CopyOut: nothing is copied out of a call that exits.
CopyOutUnlessExit(frame) ==
  LET caller == IF frame.callee \in Function THEN frame.mem ELSE mem
  IN  IF Dir[frame.callee] # "in" /\ sig.kind # "exit"
      THEN [caller EXCEPT ![frame.arg] = mem[frame.callee]]
      ELSE caller

\* the caller's memory with the parameter copied out
CopyOut(frame) ==
  LET caller == IF frame.callee \in Function THEN frame.mem ELSE mem
  IN  IF Dir[frame.callee] # "in" THEN [caller EXCEPT ![frame.arg] = mem[frame.callee]]
      ELSE caller

\* Mutant of AfterCall: an exit ends only the call.
AfterCallSwallowsExit(frame, after) ==
  /\ mem' = IF frame.lhs = NoTarget \/ Ended.kind # "return" THEN after
            ELSE [after EXCEPT ![frame.lhs] = Ended.value]
  /\ sig' = IF Ended.kind \in {"return", "exit"} THEN Continue ELSE Ended

\* a statement that is a call, or an assignment of the result of one
AfterCall(frame, after) ==
  IF Ended.kind = "return"
  THEN /\ mem' = IF frame.lhs = NoTarget THEN after
                 ELSE [after EXCEPT ![frame.lhs] = Ended.value]
       /\ sig' = Continue
  ELSE /\ mem' = after
       /\ sig' = Ended

Leave ==
  /\ frames # <<>> /\ AtEnd
  /\ LET frame == Last(frames)
     IN  /\ ~Dropped(frame)
         /\ frame.table => Ended.kind = "return"
         /\ AfterCall(frame, CopyOut(frame))
  /\ frames' = Front(frames)
  /\ UNCHANGED <<ext, status>>

\* interp_func with FTable: an action that exits or rejects did not return null
TableFails ==
  /\ frames # <<>> /\ AtEnd
  /\ Last(frames).table /\ Ended.kind # "return"
  /\ status' = "crashed"
  /\ UNCHANGED <<frames, mem, ext, sig>>

\* the control itself is done: interp_module
Finish ==
  /\ frames = <<>> /\ AtEnd
  /\ sig' = Ended
  /\ status' = "done"
  /\ UNCHANGED <<frames, mem, ext>>

Stopped == status # "running" /\ UNCHANGED vars

Statements ==
  \/ \E l \in Visible, v \in Value :
       Assign(l, v) \/ \E s \in {Continue, Reject} : CallExtern(l, v, s)
  \/ \E v \in Value : ReturnStatement(v)
  \/ ExitStatement
  \/ StatementRejects
  \/ \E c \in Callee, arg \in Visible \cup {BadLvalue},
        lhs \in Visible \cup {BadLvalue, NoTarget} : Call(c, arg, lhs)
  \/ \E a \in Action, v \in Value : ApplyTable(a, v)

Unwind == LeaveDropped \/ Leave \/ TableFails \/ Finish

Next == Statements \/ Unwind \/ Stopped

Spec == Init /\ [][Next]_vars

-----------------------------------------------------------------------------
\* The values of the variables, and every parameter present while its call
\* runs.
Memory == [Loc -> Value \cup {Absent}]

TypeOK ==
  /\ \A i \in DOMAIN frames :
       /\ frames[i].callee \in Callee
       /\ frames[i].mem \in Memory /\ frames[i].ext \in 0 .. ext
  /\ Len(frames) <= MaxDepth
  /\ mem \in Memory
  /\ \A l \in Visible : mem[l] # Absent
  /\ ext \in 0 .. MaxExt
  /\ sig.kind \in {"continue", "return", "exit", "reject"} /\ sig.value \in Value
  /\ status \in {"running", "done", "crashed"}

\* One memory with paths, saved and put back around function calls, is as good
\* as private parameters; a call that is dropped leaves no trace, however far
\* its callee has come.  The abstract state is the one from before the first
\* dropped call; the memory of a call is the live one, or what the next
\* function call above it has saved.
FirstDropped == CHOOSE i \in DOMAIN frames :
                  /\ Dropped(frames[i])
                  /\ \A j \in 1 .. i - 1 : ~Dropped(frames[j])
SomeDropped == \E i \in DOMAIN frames : Dropped(frames[i])

Depth    == IF SomeDropped THEN FirstDropped - 1 ELSE Len(frames)
LastMem  == IF SomeDropped THEN frames[FirstDropped].mem ELSE mem

MemoryOf(i) ==
  LET above == {j \in i + 1 .. Depth : frames[j].callee \in Function}
  IN  IF above = {} THEN LastMem
      ELSE frames[CHOOSE j \in above : \A k \in above : j <= k].mem

AbsControl == [x \in Var |-> MemoryOf(0)[x]]
AbsCalls   == [i \in 1 .. Depth |->
                 [callee |-> frames[i].callee, arg |-> frames[i].arg,
                  lhs |-> frames[i].lhs, table |-> frames[i].table,
                  param |-> MemoryOf(i)[frames[i].callee]]]
AbsExt     == IF SomeDropped THEN frames[FirstDropped].ext ELSE ext
AbsSig     == IF SomeDropped THEN Continue ELSE sig

Copies == INSTANCE CallByCopy WITH
  control <- AbsControl, calls <- AbsCalls, ext <- AbsExt, sig <- AbsSig

CopiesInAndOut == Copies!Spec

\* An exit that is not part of a dropped call ends the control: no extern call
\* happens after it, in no caller, and the control's own signal is SExit unless
\* the interpreter gives up.
ExitIsFinal ==
  [][sig.kind = "exit" /\ ~SomeDropped =>
       ext' = ext /\ (sig'.kind = "exit" \/ status' = "crashed")]_vars
=============================================================================
