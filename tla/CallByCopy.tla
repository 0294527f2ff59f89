----------------------------- MODULE CallByCopy -----------------------------
(***************************************************************************)
(* What calls mean in P4: the control has variables, every call has a      *)
(* parameter of its own, arguments are copied in when the call starts and  *)
(* out when it ends, however it ends.  A call with an argument or a target *)
(* that cannot be evaluated rejects and has no effect whatever.            *)
(***************************************************************************)
EXTENDS Naturals, Sequences

CONSTANTS Var, Action, Function, Dir, Value, Zero, NoTarget, MaxDepth, MaxExt

VARIABLES
  control,    \* the variables of the control
  calls,      \* the calls in progress, each with its parameter
  ext,        \* the extern state
  sig,        \* the signal that is being raised
  status

vars == <<control, calls, ext, sig, status>>

Continue  == [kind |-> "continue", value |-> Zero]
Signal    == [kind : {"return"}, value : Value]
               \cup [kind : {"continue", "exit", "reject"}, value : {Zero}]

Init ==
  /\ control = [x \in Var |-> Zero]
  /\ calls = <<>>
  /\ ext = 0
  /\ sig = Continue
  /\ status = "running"

Top        == calls[Len(calls)]
Callers    == SubSeq(calls, 1, Len(calls) - 1)
InFunction == calls # <<>> /\ Top.callee \in Function
InControl  == calls = <<>> \/ Top.callee \in Action
Running    == status = "running" /\ sig.kind = "continue"

\* Assign v to x, where x is a variable of the control or the parameter of the
\* innermost of the calls cs.
Store(cs, x, v) ==
  \/ x \in Var /\ control' = [control EXCEPT ![x] = v] /\ calls' = cs
  \/ /\ cs # <<>> /\ x = cs[Len(cs)].callee
     /\ calls' = [cs EXCEPT ![Len(cs)].param = v]
     /\ UNCHANGED control

Holds(x, v) ==
  \/ x \in Var /\ InControl /\ control[x] = v
  \/ calls # <<>> /\ x = Top.callee /\ Top.param = v

Assign(x, v) ==
  /\ Running
  /\ x \in Var => InControl
  /\ Store(calls, x, v)
  /\ UNCHANGED <<ext, sig, status>>

CallExtern(x, v) ==
  /\ Running
  /\ x \in Var => InControl
  /\ Store(calls, x, v)
  /\ ext' = ext + 1 /\ ext' <= MaxExt
  /\ sig' \in Signal /\ sig'.kind \in {"continue", "reject"}
  /\ UNCHANGED status

Raise ==
  /\ Running
  /\ sig' \in Signal
  /\ sig'.kind = "exit" => InControl
  /\ UNCHANGED <<control, calls, ext, status>>

\* A call of c: its parameter is the value of its argument, of the table entry,
\* or uninitialised.
Starts(c) ==
  /\ \A i \in DOMAIN calls : calls[i].callee # c.callee
  /\ InFunction => c.callee \in Function
  /\ IF Dir[c.callee] = "out" THEN c.param = Zero ELSE c.table \/ Holds(c.arg, c.param)

Call ==
  /\ Running
  /\ Len(calls) < MaxDepth
  /\ Len(calls') = Len(calls) + 1
  /\ SubSeq(calls', 1, Len(calls)) = calls
  /\ Starts(calls'[Len(calls')])
  /\ UNCHANGED <<control, ext, sig, status>>

\* The call ends and its parameter is copied out.  A return ends only the
\* call; an exit or a reject goes on in the caller.
EndCall ==
  /\ status = "running" /\ calls # <<>>
  /\ IF Dir[Top.callee] # "in"
     THEN Store(Callers, Top.arg, Top.param)
     ELSE calls' = Callers /\ UNCHANGED control
  /\ Top.lhs = NoTarget \/ sig.kind # "return"
  /\ sig' = IF sig.kind = "return" THEN Continue ELSE sig
  /\ UNCHANGED <<ext, status>>

\* a function call whose result is assigned
EndAssignment ==
  /\ status = "running" /\ calls # <<>>
  /\ sig.kind = "return" /\ Top.lhs # NoTarget
  /\ LET copied(x) == Dir[Top.callee] # "in" /\ Top.arg = x
         new(x, old) == IF x = Top.lhs THEN sig.value ELSE IF copied(x) THEN Top.param ELSE old
     IN  /\ control' = [x \in Var |-> new(x, control[x])]
         /\ calls' = IF Callers = <<>> THEN <<>>
                     ELSE [Callers EXCEPT ![Len(Callers)].param = new(Callers[Len(Callers)].callee, @)]
  /\ sig' = Continue
  /\ UNCHANGED <<ext, status>>

\* A table's action that exits or rejects is an error of the interpreter.
Crash ==
  /\ status = "running"
  /\ calls # <<>> /\ Top.table /\ sig.kind \in {"exit", "reject"}
  /\ status' = "crashed"
  /\ UNCHANGED <<control, calls, ext, sig>>

Finish ==
  /\ status = "running" /\ calls = <<>>
  /\ status' = "done"
  /\ sig' \in Signal
  /\ sig.kind # "continue" => sig' = sig
  /\ UNCHANGED <<control, calls, ext>>

Next ==
  \/ \E x \in Var \cup Action \cup Function, v \in Value : Assign(x, v) \/ CallExtern(x, v)
  \/ Raise
  \/ Call
  \/ EndCall \/ EndAssignment \/ Crash \/ Finish

Spec == Init /\ [][Next]_vars
=============================================================================
