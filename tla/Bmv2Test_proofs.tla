------------------------- MODULE Bmv2Test_proofs -------------------------
(***************************************************************************)
(* Proofs about the scripts that test programs: for any number of scripts, *)
(* locks and attempts, any STF files, and however the switches, clients    *)
(* and compilers behave.                                                   *)
(***************************************************************************)
EXTENDS Bmv2Test, FiniteSetTheorems, WellFoundedInduction, TLAPS

PCs == {"init", "compile", "lock", "spawn", "open", "wait", "client",
        "commands", "raising", "stopping", "check", "returned", "exited", "killed"}
Holding == {"spawn", "open", "wait", "client", "commands", "raising", "stopping"}

(* LockOwner is inductive once the functions have their domains.           *)
Places ==
    /\ pc \in [Scripts -> PCs]
    /\ slot \in [Scripts -> Slots \cup {NoSlot}]
LockInv == Places /\ LockOwner

(* What a step may do to the locks: a script takes one, gives its own      *)
(* back, is killed, or goes on with what it has.                           *)
Takes(s) ==
    /\ pc[s] = "lock"
    /\ \E n \in Slots \ locks :
         locks' = locks \cup {n} /\ slot' = [slot EXCEPT ![s] = n]
    /\ pc' = [pc EXCEPT ![s] = "spawn"]
Gives(s) ==
    /\ pc[s] \in Holding
    /\ locks' = locks \ {slot[s]} /\ slot' = slot
    /\ \E x \in PCs \ Holding : pc' = [pc EXCEPT ![s] = x]
GoesOn(s) ==
    /\ locks' = locks /\ slot' = slot
    /\ pc[s] # "killed"
    /\ \E x \in PCs : pc' = [pc EXCEPT ![s] = x] /\ (x \in Holding <=> pc[s] \in Holding)
Dies(s) ==
    /\ locks' = locks /\ slot' = slot
    /\ pc' = [pc EXCEPT ![s] = "killed"]
StepsOf(s) == Takes(s) \/ Gives(s) \/ GoesOn(s) \/ Dies(s)

-----------------------------------------------------------------------------
(* Every kind of step keeps the locks with their owners.                   *)

LEMMA TakesKeeps ==
    ASSUME LockInv, NEW s \in Scripts, Takes(s) PROVE LockInv'
<1> PICK n \in Slots \ locks : locks' = locks \cup {n} /\ slot' = [slot EXCEPT ![s] = n]
    BY DEF Takes
<1>1. Places'
    BY DEF LockInv, Places, Takes, PCs
<1>2. \A t \in Scripts : t # s => pc'[t] = pc[t] /\ slot'[t] = slot[t]
    BY DEF LockInv, Places, Takes
<1>3. pc[s] = "lock" /\ pc'[s] = "spawn" /\ slot'[s] = n
    BY DEF LockInv, Places, Takes
<1>4. \A t \in Scripts : Held(t)' => slot'[t] \in locks'
    BY <1>2, <1>3 DEF LockInv, LockOwner, Held
<1>5. \A t, u \in Scripts : Held(t)' /\ Held(u)' /\ t # u => slot'[t] # slot'[u]
    BY <1>2, <1>3 DEF LockInv, LockOwner, Held
<1>6. \A m \in locks' : \E t \in Scripts : slot'[t] = m /\ (Held(t)' \/ pc'[t] = "killed")
  <2> SUFFICES ASSUME NEW m \in locks'
               PROVE  \E t \in Scripts : slot'[t] = m /\ (Held(t)' \/ pc'[t] = "killed")
      OBVIOUS
  <2>1. CASE m = n
      BY <2>1, <1>3 DEF Held
  <2>2. CASE m \in locks
    <3> PICK t \in Scripts : slot[t] = m /\ (Held(t) \/ pc[t] = "killed")
        BY <2>2 DEF LockInv, LockOwner
    <3>1. t # s
        BY <1>3 DEF Held
    <3> QED
        BY <3>1, <1>2 DEF Held
  <2> QED
      BY <2>1, <2>2
<1> QED
    BY <1>1, <1>4, <1>5, <1>6 DEF LockInv, LockOwner

LEMMA GivesKeeps ==
    ASSUME LockInv, NEW s \in Scripts, Gives(s) PROVE LockInv'
<1> PICK x \in PCs \ Holding : pc' = [pc EXCEPT ![s] = x]
    BY DEF Gives
<1>1. Places'
    BY DEF LockInv, Places, Gives
<1>2. \A t \in Scripts : t # s => pc'[t] = pc[t]
    BY DEF LockInv, Places
<1>3. Held(s) /\ ~Held(s)' /\ slot' = slot /\ locks' = locks \ {slot[s]}
    BY DEF LockInv, Places, Gives, Held, Holding
<1>4. \A t \in Scripts : t # s => (Held(t)' <=> Held(t))
    BY <1>2 DEF Held
<1>5. \A t \in Scripts : Held(t)' => slot'[t] \in locks'
    BY <1>3, <1>4 DEF LockInv, LockOwner
<1>6. \A t, u \in Scripts : Held(t)' /\ Held(u)' /\ t # u => slot'[t] # slot'[u]
    BY <1>3, <1>4 DEF LockInv, LockOwner
<1>7. \A m \in locks' : \E t \in Scripts : slot'[t] = m /\ (Held(t)' \/ pc'[t] = "killed")
    BY <1>2, <1>3, <1>4 DEF LockInv, LockOwner
<1> QED
    BY <1>1, <1>5, <1>6, <1>7 DEF LockInv, LockOwner

LEMMA GoesOnKeeps ==
    ASSUME LockInv, NEW s \in Scripts, GoesOn(s) PROVE LockInv'
<1> PICK x \in PCs : pc' = [pc EXCEPT ![s] = x] /\ (x \in Holding <=> pc[s] \in Holding)
    BY DEF GoesOn
<1>1. Places'
    BY DEF LockInv, Places, GoesOn
<1>2. \A t \in Scripts : (Held(t)' <=> Held(t)) /\ (pc[t] = "killed" => pc'[t] = "killed")
    BY DEF LockInv, Places, GoesOn, Held, Holding
<1> QED
    BY <1>1, <1>2 DEF LockInv, LockOwner, GoesOn

LEMMA DiesKeeps ==
    ASSUME LockInv, NEW s \in Scripts, Dies(s) PROVE LockInv'
<1>1. Places'
    BY DEF LockInv, Places, Dies, PCs
<1>2. pc'[s] = "killed" /\ \A t \in Scripts : t # s => pc'[t] = pc[t]
    BY DEF LockInv, Places, Dies
<1>3. \A t \in Scripts : Held(t)' => Held(t)
    BY <1>2 DEF Held
<1>4. \A t \in Scripts : Held(t) \/ pc[t] = "killed" => Held(t)' \/ pc'[t] = "killed"
    BY <1>2 DEF Held
<1> QED
    BY <1>1, <1>3, <1>4 DEF LockInv, LockOwner, Dies

-----------------------------------------------------------------------------
(* Every step is of one of these kinds.                                    *)

LEMMA ReturnsGives ==
    ASSUME Places, NEW s \in Scripts, NEW v, pc[s] \in Holding, Returns(s, v), slot' = slot
    PROVE  Gives(s)
BY DEF Places, Returns, release, Gives, PCs, Holding

LEMMA MoveGoesOn ==
    ASSUME Places, NEW s \in Scripts, NEW x \in PCs, pc' = [pc EXCEPT ![s] = x],
           x \in Holding <=> pc[s] \in Holding, pc[s] # "killed",
           locks' = locks, slot' = slot
    PROVE  GoesOn(s)
BY DEF GoesOn

LEMMA generateSteps ==
    ASSUME Places, NEW s \in Scripts, generate(s)
    PROVE  Takes(s) \/ UNCHANGED <<locks, pc, slot>>
BY DEF generate, Takes

LEMMA StartSteps ==
    ASSUME Places, NEW s \in Scripts,
           NoFreePort(s) \/ StartSwitch(s) \/ AlarmFires(s) \/ InterfacesOpen(s)
             \/ check_switch_server_ready(s) \/ WaitTimesOut(s) \/ StartCli(s)
    PROVE  Gives(s) \/ GoesOn(s) \/ UNCHANGED <<locks, pc, slot>>
<1>1. CASE NoFreePort(s)
    BY <1>1, MoveGoesOn DEF NoFreePort, PCs, Holding
<1>2. CASE StartSwitch(s)
    BY <1>2, MoveGoesOn, ReturnsGives DEF StartSwitch, PCs, Holding
<1>3. CASE AlarmFires(s)
    BY <1>3, ReturnsGives DEF AlarmFires, Holding
<1>4. CASE InterfacesOpen(s)
    BY <1>4, MoveGoesOn DEF InterfacesOpen, PCs, Holding
<1>5. CASE check_switch_server_ready(s)
    BY <1>5, MoveGoesOn DEF check_switch_server_ready, PCs, Holding
<1>6. CASE WaitTimesOut(s)
    BY <1>6, ReturnsGives DEF WaitTimesOut, Holding
<1>7. CASE StartCli(s)
    BY <1>7, MoveGoesOn, ReturnsGives DEF StartCli, PCs, Holding
<1> QED
    BY <1>1, <1>2, <1>3, <1>4, <1>5, <1>6, <1>7

LEMMA CommandSteps ==
    ASSUME Places, NEW s \in Scripts,
           do_cli_command(s) \/ do_packet(s) \/ do_expect(s) \/ do_nothing(s)
             \/ EndOfCommands(s)
    PROVE  GoesOn(s) \/ UNCHANGED <<locks, pc, slot>>
<1>1. CASE do_cli_command(s)
    BY <1>1, MoveGoesOn DEF do_cli_command, AtLine, Raises, StopBoth, PCs, Holding
<1>2. CASE do_packet(s)
    BY <1>2, MoveGoesOn DEF do_packet, AtLine, Raises, StopBoth, PCs, Holding
<1>3. CASE do_expect(s) \/ do_nothing(s)
    BY <1>3, Zenon DEF do_expect, do_nothing
<1>4. CASE EndOfCommands(s)
    BY <1>4, MoveGoesOn DEF EndOfCommands, StopBoth, PCs, Holding
<1> QED
    BY <1>1, <1>2, <1>3, <1>4

LEMMA WaitSteps ==
    ASSUME Places, NEW s \in Scripts, SwitchWaitedFor(s) \/ BothWaitedFor(s)
    PROVE  Gives(s)
<1>1. CASE SwitchWaitedFor(s)
    BY <1>1, ReturnsGives DEF SwitchWaitedFor, Holding
<1>2. CASE BothWaitedFor(s)
  <2>1. pc[s] = "stopping" /\ slot' = slot
      BY <1>2 DEF BothWaitedFor
  <2>2. CASE Returns(s, "FAILURE")
      BY <2>1, <2>2, ReturnsGives DEF Holding
  <2>3. CASE pc' = [pc EXCEPT ![s] = "check"] /\ release(s)
      BY <2>1, <2>3 DEF Gives, release, PCs, Holding
  <2> QED
      BY <1>2, <2>2, <2>3 DEF BothWaitedFor
<1> QED
    BY <1>1, <1>2

LEMMA CheckSteps ==
    ASSUME Places, NEW s \in Scripts,
           checkOutput(s) \/ corruptFile(s) \/ checkRemaining(s)
    PROVE  GoesOn(s) \/ UNCHANGED <<locks, pc, slot>>
<1> DEFINE returned == pc' = [pc EXCEPT ![s] = "returned"]
<1>1. pc[s] = "check" /\ locks' = locks /\ slot' = slot
    BY DEF checkOutput, corruptFile, checkRemaining
<1>2. returned \/ pc' = pc
    BY DEF checkOutput, corruptFile, checkRemaining, Checked, Verdict
<1> QED
    BY <1>1, <1>2, MoveGoesOn DEF PCs, Holding

LEMMA HarnessSteps ==
    ASSUME Places, NEW s \in Scripts, HarnessStep(s)
    PROVE  GoesOn(s) \/ UNCHANGED <<locks, pc, slot>>
<1>1. CASE Launch(s)
    BY <1>1 DEF Launch, runVars
<1>2. CASE TimesOut(s)
    BY <1>2, MoveGoesOn DEF TimesOut, PCs, Holding
<1>3. CASE run_init_commands(s)
  <2>1. pc[s] = "init" /\ locks' = locks /\ slot' = slot
      BY <1>3 DEF run_init_commands
  <2>2. \E x \in {"returned", "compile", "init"} : pc' = [pc EXCEPT ![s] = x]
      BY <1>3, <2>1 DEF run_init_commands, Verdict
  <2> QED
      BY <2>1, <2>2, MoveGoesOn DEF PCs, Holding
<1>4. CASE process_file(s)
  <2>1. pc[s] = "compile" /\ locks' = locks /\ slot' = slot
      BY <1>4 DEF process_file
  <2>2. \E x \in {"lock", "returned"} : pc' = [pc EXCEPT ![s] = x]
      BY <1>4 DEF process_file, Verdict
  <2> QED
      BY <2>1, <2>2, MoveGoesOn DEF PCs, Holding
<1>5. CASE Exit(s)
    BY <1>5, MoveGoesOn DEF Exit, PCs, Holding
<1> QED
    BY <1>1, <1>2, <1>3, <1>4, <1>5 DEF HarnessStep

LEMMA OtherSteps ==
    ASSUME NEW s \in Scripts,
           CliStep(s) \/ SwitchStep(s) \/ SwitchDies(s) \/ SwitchStops(s) \/ CliStops(s)
             \/ ChildStep(s)
    PROVE  UNCHANGED <<locks, pc, slot>>
BY DEF CliStep, CliConnects, CliApplies, SwitchStep, SwitchBinds, SwitchForwards,
       SwitchDies, SwitchStops, CliStops, ChildStep, ChildStarts, ChildFailsToStart, ChildEnds, runVars

LEMMA KilledDies ==
    ASSUME NEW s \in Scripts, Killed(s) PROVE Dies(s)
BY DEF Killed, Dies

LEMMA ScriptSteps ==
    ASSUME Places, NEW s \in Scripts, ScriptStep(s)
    PROVE  StepsOf(s) \/ UNCHANGED <<locks, pc, slot>>
<1>1. CASE openInterface(s)
    BY <1>1 DEF openInterface
<1> QED
    BY <1>1, generateSteps, StartSteps, CommandSteps, WaitSteps, CheckSteps DEF ScriptStep, StepsOf

LEMMA TestSteps ==
    ASSUME Places, [TestNext]_vars
    PROVE  (\E s \in Scripts : StepsOf(s)) \/ UNCHANGED <<locks, pc, slot>>
<1>1. CASE RunNext
    BY <1>1, ScriptSteps, OtherSteps, KilledDies DEF RunNext, StepsOf
<1>2. CASE \E s \in Scripts : HarnessStep(s) \/ ChildStep(s)
    BY <1>2, HarnessSteps, OtherSteps DEF StepsOf
<1>3. CASE UNCHANGED vars
    BY <1>3 DEF vars, runVars
<1> QED
    BY <1>1, <1>2, <1>3 DEF TestNext

-----------------------------------------------------------------------------
LEMMA LockFirst == ASSUME TestInit PROVE LockInv /\ locks \subseteq Slots
<1>1. \A s \in Scripts : pc[s] \in {"lock", "init", "compile"}
    BY DEF TestInit
<1>2. Places
    BY <1>1 DEF TestInit, RunInit, Places, PCs
<1>3. LockOwner /\ locks \subseteq Slots
    BY <1>1 DEF TestInit, RunInit, LockOwner, Held
<1> QED
    BY <1>2, <1>3 DEF LockInv

LEMMA LockKept == ASSUME LockInv, [TestNext]_vars PROVE LockInv'
<1>1. CASE \E s \in Scripts : StepsOf(s)
    BY <1>1, TakesKeeps, GivesKeeps, GoesOnKeeps, DiesKeeps DEF StepsOf
<1>2. CASE UNCHANGED <<locks, pc, slot>>
    BY <1>2 DEF LockInv, Places, LockOwner, Held
<1> QED
    BY <1>1, <1>2, TestSteps DEF LockInv

(* A lock directory belongs to one script, which removes it however its    *)
(* run() ends; only a script that is killed leaves one: for any number of  *)
(* scripts and whatever the switches do (ConcurrentInteger, RunBMV2.run).  *)
THEOREM LockOwnerHolds == TestSpec => []LockOwner
<1>1. LockInv => LockOwner
    BY DEF LockInv
<1> QED
    BY <1>1, LockFirst, LockKept, PTL DEF TestSpec

-----------------------------------------------------------------------------
(* Functions from the scripts to records with a state.                     *)
HasStates(f) == DOMAIN f = Scripts /\ \A t \in Scripts : "state" \in DOMAIN f[t]

(* Setting another field leaves the states.                                *)
SameStates(f, g) == HasStates(g) /\ \A t \in Scripts : g[t].state = f[t].state

LEMMA FifoSet ==
    ASSUME NEW f, HasStates(f), NEW s, NEW v
    PROVE  SameStates(f, [f EXCEPT ![s].fifo = v])
BY Zenon DEF HasStates, SameStates

LEMMA QueueSet ==
    ASSUME NEW f, HasStates(f), NEW s, NEW v
    PROVE  SameStates(f, [f EXCEPT ![s].queue = v])
BY Zenon DEF HasStates, SameStates

LEMMA AppliedSet ==
    ASSUME NEW f, HasStates(f), NEW s, NEW v
    PROVE  SameStates(f, [f EXCEPT ![s].applied = v])
BY Zenon DEF HasStates, SameStates

LEMMA OutSet ==
    ASSUME NEW f, HasStates(f), NEW s, NEW v, NEW p, NEW d
    PROVE  SameStates(f, [f EXCEPT ![s].fifo = v, ![s].out[p] = Append(@, d)])
BY Zenon DEF HasStates, SameStates

LEMMA NoneSet == ASSUME NEW f, HasStates(f) PROVE SameStates(f, f)
BY DEF SameStates

(* The client is started in the end, and when the script is at its end the *)
(* switch is stopped.                                                      *)
Ended == {"check", "returned", "exited"}
Serves(s) == cli[s].state # "none" =>
    /\ pc[s] \in {"commands", "raising", "stopping", "killed"} \cup Ended
    /\ pc[s] \in Ended => ~Live(s)
Shapes ==
    /\ pc \in [Scripts -> PCs]
    /\ HasStates(switch) /\ HasStates(cli)
StopInv == Shapes /\ \A s \in Scripts : Serves(s)

(* Another script's records are left alone.                                *)
Alone(s) ==
    \A t \in Scripts \ {s} : pc'[t] = pc[t] /\ switch'[t] = switch[t] /\ cli'[t] = cli[t]

LEMMA AloneServes ==
    ASSUME StopInv, NEW s \in Scripts, Alone(s), Shapes', Serves(s)'
    PROVE  StopInv'
BY DEF StopInv, Alone, Serves, Live

(* A step before the client is started.                                    *)
LEMMA EarlyStep ==
    ASSUME StopInv, NEW s \in Scripts, cli' = cli, Alone(s), Shapes',
           pc[s] \notin {"commands", "raising", "stopping", "killed"} \cup Ended
    PROVE  StopInv'
BY AloneServes DEF StopInv, Serves

(* A step that starts no client and no switch.                             *)
LEMMA QuietStep ==
    ASSUME StopInv, Shapes', NEW s \in Scripts,
           \A t \in Scripts : cli'[t].state # "none" => cli[t].state # "none",
           \A t \in Scripts : Live(t)' => Live(t),
           \A t \in Scripts \ {s} : pc'[t] = pc[t],
           \/ pc'[s] \in {pc[s], "killed"}
           \/ pc[s] = "commands" /\ pc'[s] \in {"raising", "stopping"}
           \/ pc[s] \in Ended /\ pc'[s] \in Ended
    PROVE  StopInv'
BY DEF StopInv, Serves, Ended

LEMMA PCStep ==
    ASSUME Shapes, NEW s \in Scripts, NEW x \in PCs, pc' = [pc EXCEPT ![s] = x]
    PROVE  /\ pc' \in [Scripts -> PCs]
           /\ pc'[s] = x
           /\ \A t \in Scripts \ {s} : pc'[t] = pc[t]
BY DEF Shapes

(* The steps of a script.                                                  *)
LEMMA StartStops ==
    ASSUME StopInv, NEW s \in Scripts,
           \/ generate(s) \/ NoFreePort(s) \/ StartSwitch(s) \/ openInterface(s)
           \/ AlarmFires(s) \/ InterfacesOpen(s)
           \/ check_switch_server_ready(s) \/ WaitTimesOut(s)
    PROVE  StopInv'
<1> DEFINE pcs == \/ pc' = pc
                  \/ \E x \in {"spawn", "returned", "open", "wait", "client"} :
                        pc' = [pc EXCEPT ![s] = x]
<1>1. cli' = cli /\ pc[s] \in {"lock", "spawn", "open", "wait"}
    BY DEF generate, NoFreePort, StartSwitch, openInterface, AlarmFires, InterfacesOpen,
           check_switch_server_ready, WaitTimesOut
<1>2. pcs
    BY DEF generate, NoFreePort, StartSwitch, openInterface, AlarmFires, InterfacesOpen,
           check_switch_server_ready, WaitTimesOut, Returns
<1>3. Shapes
    BY DEF StopInv
<1>4. \/ switch' = switch
      \/ switch' = [switch EXCEPT ![s].state = "booting"]
      \/ \E m : switch' = [switch EXCEPT ![s].opened = m]
    BY DEF generate, NoFreePort, StartSwitch, openInterface, AlarmFires, InterfacesOpen,
           check_switch_server_ready, WaitTimesOut
<1>5. HasStates(switch') /\ \A t \in Scripts \ {s} : switch'[t] = switch[t]
    BY <1>3, <1>4, Zenon DEF Shapes, HasStates
<1>6. pc' \in [Scripts -> PCs] /\ \A t \in Scripts \ {s} : pc'[t] = pc[t]
    BY <1>2, <1>3, PCStep DEF Shapes, PCs
<1> QED
    BY <1>1, <1>3, <1>5, <1>6, EarlyStep DEF Shapes, Alone, Ended

LEMMA ClientStops ==
    ASSUME StopInv, NEW s \in Scripts, StartCli(s) PROVE StopInv'
<1>1. Shapes /\ pc[s] = "client" /\ switch' = switch
    BY DEF StopInv, StartCli
<1>2. CASE pc' = [pc EXCEPT ![s] = "commands"] /\ cli' = [cli EXCEPT ![s].state = "started"]
  <2>1. HasStates(cli') /\ \A t \in Scripts \ {s} : cli'[t] = cli[t]
      BY <1>1, <1>2, Zenon DEF Shapes, HasStates
  <2>2. pc' \in [Scripts -> PCs] /\ pc'[s] = "commands" /\ \A t \in Scripts \ {s} : pc'[t] = pc[t]
      BY <1>1, <1>2, PCStep DEF PCs
  <2> QED
      BY <1>1, <2>1, <2>2, AloneServes DEF Shapes, Alone, Serves, Ended
<1>3. CASE Returns(s, "raised") /\ cli' = cli
  <2>1. pc' \in [Scripts -> PCs] /\ \A t \in Scripts \ {s} : pc'[t] = pc[t]
      BY <1>1, <1>3, PCStep DEF Returns, PCs
  <2> QED
      BY <1>1, <1>3, <2>1, EarlyStep DEF Shapes, Alone, Ended
<1> QED
    BY <1>2, <1>3 DEF StartCli

LEMMA CommandStops ==
    ASSUME StopInv, NEW s \in Scripts,
           do_cli_command(s) \/ do_packet(s) \/ do_expect(s) \/ do_nothing(s)
             \/ EndOfCommands(s)
    PROVE  StopInv'
<1>0. Shapes /\ pc[s] = "commands"
    BY DEF StopInv, do_cli_command, do_packet, do_expect, do_nothing, EndOfCommands, AtLine
<1>1. \/ /\ \E x \in {"raising", "stopping"} : pc' = [pc EXCEPT ![s] = x]
         /\ switch' = switch /\ cli' = cli
      \/ /\ pc' = pc
         /\ switch' = switch \/ \E v : switch' = [switch EXCEPT ![s].fifo = v]
         /\ cli' = cli \/ \E v : cli' = [cli EXCEPT ![s].queue = v]
    BY Zenon DEF do_cli_command, do_packet, do_expect, do_nothing, EndOfCommands, Raises, StopBoth
<1>2. CASE /\ \E x \in {"raising", "stopping"} : pc' = [pc EXCEPT ![s] = x]
           /\ switch' = switch /\ cli' = cli
  <2>1. /\ pc' \in [Scripts -> PCs] /\ pc'[s] \in {"raising", "stopping"}
        /\ \A t \in Scripts \ {s} : pc'[t] = pc[t]
      BY <1>0, <1>2, PCStep DEF PCs
  <2> QED
      BY <1>0, <1>2, <2>1, QuietStep DEF Shapes, Live
<1>3. CASE /\ pc' = pc
           /\ switch' = switch \/ \E v : switch' = [switch EXCEPT ![s].fifo = v]
           /\ cli' = cli \/ \E v : cli' = [cli EXCEPT ![s].queue = v]
  <2>1. SameStates(switch, switch')
      BY <1>3, FifoSet, NoneSet DEF StopInv, Shapes
  <2>2. SameStates(cli, cli')
      BY <1>3, QueueSet, NoneSet DEF StopInv, Shapes
  <2> QED
      BY <1>3, <2>1, <2>2, QuietStep DEF StopInv, Shapes, SameStates, Live
<1> QED
    BY <1>1, <1>2, <1>3

(* The waits end when the switch has.                                      *)
LEMMA WaitStops ==
    ASSUME StopInv, NEW s \in Scripts, SwitchWaitedFor(s) \/ BothWaitedFor(s)
    PROVE  StopInv'
<1>1. /\ Shapes /\ ~Live(s) /\ switch' = switch /\ cli' = cli
      /\ \E x \in {"returned", "check"} : pc' = [pc EXCEPT ![s] = x]
    BY DEF StopInv, SwitchWaitedFor, BothWaitedFor, Returns
<1>2. /\ pc' \in [Scripts -> PCs] /\ pc'[s] \in {"returned", "check"}
      /\ \A t \in Scripts \ {s} : pc'[t] = pc[t]
    BY <1>1, PCStep DEF PCs
<1> QED
    BY <1>1, <1>2, AloneServes DEF Shapes, Alone, Serves, Ended, Live

LEMMA CheckStops ==
    ASSUME StopInv, NEW s \in Scripts,
           checkOutput(s) \/ corruptFile(s) \/ checkRemaining(s)
    PROVE  StopInv'
<1>1. /\ pc[s] = "check" /\ switch' = switch /\ cli' = cli
      /\ pc' = pc \/ pc' = [pc EXCEPT ![s] = "returned"]
    BY Zenon DEF checkOutput, corruptFile, checkRemaining, Checked, Verdict
<1>2. Shapes
    BY DEF StopInv
<1>3. /\ pc' \in [Scripts -> PCs] /\ pc'[s] \in {pc[s], "returned"}
      /\ \A t \in Scripts \ {s} : pc'[t] = pc[t]
    BY <1>1, <1>2, PCStep DEF PCs, Shapes
<1> QED
    BY <1>1, <1>2, <1>3, QuietStep DEF Shapes, Live, Ended

LEMMA OutsideStops ==
    ASSUME StopInv, NEW s \in Scripts,
           CliStep(s) \/ SwitchStep(s) \/ SwitchDies(s) \/ SwitchStops(s) \/ CliStops(s)
             \/ Killed(s)
    PROVE  StopInv'
<1>0. Shapes
    BY DEF StopInv
<1>1. CASE CliConnects(s)
  <2>1. /\ pc' = pc /\ switch' = switch /\ cli[s].state = "started"
        /\ \/ cli' = [cli EXCEPT ![s].state = "failed"]
           \/ \E p : cli' = [cli EXCEPT ![s].state = "connected", ![s].peer = p]
      BY <1>1, Zenon DEF CliConnects
  <2>2. HasStates(cli') /\ \A t \in Scripts \ {s} : cli'[t] = cli[t]
      BY <1>0, <2>1, Zenon DEF Shapes, HasStates
  <2> QED
      BY <1>0, <2>1, <2>2, QuietStep DEF Shapes, Live
<1>2. CASE CliApplies(s)
  <2>1. /\ pc' = pc /\ cli[s].state = "connected"
        /\ switch' = switch \/ \E t, v : switch' = [switch EXCEPT ![t].applied = v]
        /\ (\E v : cli' = [cli EXCEPT ![s].queue = v]) \/ cli' = [cli EXCEPT ![s].state = "failed"]
      BY <1>2, Zenon DEF CliApplies
  <2>2. SameStates(switch, switch')
      BY <1>0, <2>1, AppliedSet, NoneSet DEF Shapes
  <2>3. HasStates(cli') /\ \A t \in Scripts \ {s} : cli'[t].state = cli[t].state
      BY <1>0, <2>1, Zenon DEF Shapes, HasStates
  <2> QED
      BY <1>0, <2>1, <2>2, <2>3, QuietStep DEF Shapes, SameStates, Live
<1>3. CASE SwitchBinds(s) \/ SwitchDies(s) \/ SwitchStops(s)
  <2>1. /\ pc' = pc /\ cli' = cli /\ Live(s)
        /\ \E v : switch' = [switch EXCEPT ![s].state = v]
      BY <1>3, Zenon DEF SwitchBinds, SwitchDies, SwitchStops, Live
  <2>2. HasStates(switch') /\ \A t \in Scripts \ {s} : switch'[t] = switch[t]
      BY <1>0, <2>1, Zenon DEF Shapes, HasStates
  <2> QED
      BY <1>0, <2>1, <2>2, QuietStep DEF Shapes, Live
<1>4. CASE SwitchForwards(s)
  <2>1. /\ pc' = pc /\ cli' = cli
        /\ \/ \E v : switch' = [switch EXCEPT ![s].fifo = v]
           \/ \E p, d, v : switch' = [switch EXCEPT ![s].fifo = v, ![s].out[p] = Append(@, d)]
      BY <1>4, Zenon DEF SwitchForwards
  <2>2. CASE \E v : switch' = [switch EXCEPT ![s].fifo = v]
    <3> PICK v : switch' = [switch EXCEPT ![s].fifo = v]
        BY <2>2
    <3>1. SameStates(switch, [switch EXCEPT ![s].fifo = v])
        BY <1>0, FifoSet, Zenon DEF Shapes
    <3> QED
        BY <1>0, <2>1, <3>1, QuietStep DEF Shapes, SameStates, Live
  <2>3. CASE \E p, d, v : switch' = [switch EXCEPT ![s].fifo = v, ![s].out[p] = Append(@, d)]
    <3> PICK p, d, v : switch' = [switch EXCEPT ![s].fifo = v, ![s].out[p] = Append(@, d)]
        BY <2>3
    <3>1. SameStates(switch, [switch EXCEPT ![s].fifo = v, ![s].out[p] = Append(@, d)])
        BY <1>0, OutSet, Zenon DEF Shapes
    <3> QED
        BY <1>0, <2>1, <3>1, QuietStep DEF Shapes, SameStates, Live
  <2> QED
      BY <2>1, <2>2, <2>3
<1>5. CASE Killed(s)
  <2>1. pc' = [pc EXCEPT ![s] = "killed"] /\ switch' = switch /\ cli' = cli
      BY <1>5 DEF Killed
  <2>2. /\ pc' \in [Scripts -> PCs] /\ pc'[s] = "killed"
        /\ \A t \in Scripts \ {s} : pc'[t] = pc[t]
      BY <1>0, <2>1, PCStep DEF PCs
  <2> QED
      BY <1>0, <2>1, <2>2, QuietStep DEF Shapes, Live
<1>6. CASE CliStops(s)
  <2>1. /\ pc' = pc /\ switch' = switch /\ cli[s].state # "none"
        /\ cli' = [cli EXCEPT ![s].state = "stopped"]
      BY <1>6 DEF CliStops, CliRuns
  <2>2. HasStates(cli') /\ \A t \in Scripts \ {s} : cli'[t] = cli[t]
      BY <1>0, <2>1, Zenon DEF Shapes, HasStates
  <2> QED
      BY <1>0, <2>1, <2>2, QuietStep DEF Shapes, Live
<1> QED
    BY <1>1, <1>2, <1>3, <1>4, <1>5, <1>6 DEF CliStep, SwitchStep

LEMMA HarnessStops ==
    ASSUME StopInv, NEW s \in Scripts, HarnessStep(s) \/ ChildStep(s) PROVE StopInv'
<1>0. Shapes
    BY DEF StopInv
<1>1. /\ switch' = switch /\ cli' = cli
      /\ \/ pc' = pc
         \/ pc[s] \in {"init", "compile"} /\ \E x \in {"returned", "compile", "init", "lock"} :
                pc' = [pc EXCEPT ![s] = x]
         \/ pc[s] = "returned" /\ pc' = [pc EXCEPT ![s] = "exited"]
    BY Zenon DEF HarnessStep, ChildStep, Launch, TimesOut, run_init_commands, process_file, Exit,
           ChildStarts, ChildFailsToStart, ChildEnds, Verdict, runVars
<1>2. CASE pc' = pc
    BY <1>0, <1>1, <1>2, QuietStep DEF Shapes, Live
<1>3. CASE pc[s] \in {"init", "compile"} /\ \E x \in {"returned", "compile", "init", "lock"} :
                pc' = [pc EXCEPT ![s] = x]
  <2>1. pc' \in [Scripts -> PCs] /\ \A t \in Scripts \ {s} : pc'[t] = pc[t]
      BY <1>0, <1>3, PCStep DEF PCs
  <2> QED
      BY <1>0, <1>1, <1>3, <2>1, EarlyStep DEF Shapes, Alone, Ended
<1>4. CASE pc[s] = "returned" /\ pc' = [pc EXCEPT ![s] = "exited"]
  <2>1. /\ pc' \in [Scripts -> PCs] /\ pc'[s] = "exited"
        /\ \A t \in Scripts \ {s} : pc'[t] = pc[t]
      BY <1>0, <1>4, PCStep DEF PCs
  <2> QED
      BY <1>0, <1>1, <1>4, <2>1, QuietStep DEF Shapes, Live, Ended
<1> QED
    BY <1>1, <1>2, <1>3, <1>4

(* A script that has started its client leaves no switch behind when it    *)
(* returns: for any number of scripts and any STF files, whatever becomes  *)
(* of the switch and the client (RunBMV2.run).                             *)
THEOREM SwitchStoppedHolds == TestSpec => []SwitchStopped
<1>1. TestInit => StopInv
  <2> SUFFICES ASSUME TestInit PROVE StopInv
      OBVIOUS
  <2>1. pc \in [Scripts -> PCs]
      BY DEF TestInit, PCs
  <2>2. HasStates(switch)
      BY Zenon DEF TestInit, RunInit, HasStates
  <2>3. HasStates(cli) /\ \A s \in Scripts : cli[s].state = "none"
      BY DEF TestInit, RunInit, HasStates
  <2> QED
      BY <2>1, <2>2, <2>3 DEF StopInv, Shapes, Serves
<1>2. StopInv /\ [TestNext]_vars => StopInv'
  <2> SUFFICES ASSUME StopInv, [TestNext]_vars PROVE StopInv'
      OBVIOUS
  <2>1. CASE RunNext
      BY <2>1, StartStops, ClientStops, CommandStops, WaitStops, CheckStops, OutsideStops
      DEF RunNext, ScriptStep
  <2>2. CASE \E s \in Scripts : HarnessStep(s) \/ ChildStep(s)
      BY <2>2, HarnessStops
  <2>3. CASE UNCHANGED vars
      BY <2>3 DEF vars, runVars, StopInv, Shapes, Serves, Live
  <2> QED
      BY <2>1, <2>2, <2>3 DEF TestNext
<1>3. StopInv => SwitchStopped
    BY DEF StopInv, Serves, SwitchStopped, Ended
<1> QED
    BY <1>1, <1>2, <1>3, PTL DEF TestSpec

-----------------------------------------------------------------------------
(* Pipes: a script has opened as many as its switch.                       *)
HasOpened(f) == DOMAIN f = Scripts /\ \A t \in Scripts : "opened" \in DOMAIN f[t]
SameOpened(f, g) == HasOpened(g) /\ \A t \in Scripts : g[t].opened = f[t].opened
InStep ==
    /\ HasOpened(script) /\ HasOpened(switch)
    /\ \A s \in Scripts : script[s].opened = switch[s].opened

(* The forms of a step that edits the record of one script, of one switch. *)
EditsScript(f, g, s) ==
    \/ g = f
    \/ \E v : g = [f EXCEPT ![s].verdict = v]
    \/ \E v : g = [f EXCEPT ![s].tries = v]
    \/ \E v : g = [f EXCEPT ![s].alarms = v]
    \/ \E v : g = [f EXCEPT ![s].line = v]
    \/ \E v, u : g = [f EXCEPT ![s].line = v, ![s].delay = u]
    \/ \E v, u, p : g = [f EXCEPT ![s].line = v, ![s].expected[p] = Append(@, u)]
    \/ \E v, u : g = [f EXCEPT ![s].line = v, ![s].expectedAny = u]
    \/ \E v : g = [f EXCEPT ![s].unchecked = v]
    \/ \E v, u, p : g = [f EXCEPT ![s].unchecked = v, ![s].expected[p] = u]

EditsSwitch(f, g, s) ==
    \/ g = f
    \/ \E v : g = [f EXCEPT ![s].state = v]
    \/ \E v : g = [f EXCEPT ![s].fifo = v]
    \/ \E v, u, p : g = [f EXCEPT ![s].fifo = v, ![s].out[p] = Append(@, u)]
    \/ \E v, t : g = [f EXCEPT ![t].applied = v]

LEMMA ScriptFields ==
    ASSUME NEW f, NEW g, NEW s, HasOpened(f), EditsScript(f, g, s) PROVE SameOpened(f, g)
<1>1. CASE g = f
    BY <1>1, Zenon DEF HasOpened, SameOpened
<1>2. CASE \E v : g = [f EXCEPT ![s].verdict = v]
    BY <1>2, Zenon DEF HasOpened, SameOpened
<1>3. CASE \E v : g = [f EXCEPT ![s].tries = v]
    BY <1>3, Zenon DEF HasOpened, SameOpened
<1>4. CASE \E v : g = [f EXCEPT ![s].alarms = v]
    BY <1>4, Zenon DEF HasOpened, SameOpened
<1>5. CASE \E v : g = [f EXCEPT ![s].line = v]
    BY <1>5, Zenon DEF HasOpened, SameOpened
<1>6. CASE \E v, u : g = [f EXCEPT ![s].line = v, ![s].delay = u]
  <2> PICK v, u : g = [f EXCEPT ![s].line = v, ![s].delay = u]
      BY <1>6
  <2> QED
      BY Zenon DEF HasOpened, SameOpened
<1>7. CASE \E v, u, p : g = [f EXCEPT ![s].line = v, ![s].expected[p] = Append(@, u)]
  <2> PICK v, u, p : g = [f EXCEPT ![s].line = v, ![s].expected[p] = Append(@, u)]
      BY <1>7
  <2> QED
      BY Zenon DEF HasOpened, SameOpened
<1>8. CASE \E v, u : g = [f EXCEPT ![s].line = v, ![s].expectedAny = u]
  <2> PICK v, u : g = [f EXCEPT ![s].line = v, ![s].expectedAny = u]
      BY <1>8
  <2> QED
      BY Zenon DEF HasOpened, SameOpened
<1>9. CASE \E v : g = [f EXCEPT ![s].unchecked = v]
    BY <1>9, Zenon DEF HasOpened, SameOpened
<1>10. CASE \E v, u, p : g = [f EXCEPT ![s].unchecked = v, ![s].expected[p] = u]
  <2> PICK v, u, p : g = [f EXCEPT ![s].unchecked = v, ![s].expected[p] = u]
      BY <1>10
  <2> QED
      BY Zenon DEF HasOpened, SameOpened
<1> QED
    BY <1>1, <1>2, <1>3, <1>4, <1>5, <1>6, <1>7, <1>8, <1>9, <1>10, Zenon DEF EditsScript

LEMMA SwitchFields ==
    ASSUME NEW f, NEW g, NEW s, HasOpened(f), EditsSwitch(f, g, s) PROVE SameOpened(f, g)
<1>1. CASE g = f
    BY <1>1, Zenon DEF HasOpened, SameOpened
<1>2. CASE \E v : g = [f EXCEPT ![s].state = v]
    BY <1>2, Zenon DEF HasOpened, SameOpened
<1>3. CASE \E v : g = [f EXCEPT ![s].fifo = v]
    BY <1>3, Zenon DEF HasOpened, SameOpened
<1>4. CASE \E v, u, p : g = [f EXCEPT ![s].fifo = v, ![s].out[p] = Append(@, u)]
  <2> PICK v, u, p : g = [f EXCEPT ![s].fifo = v, ![s].out[p] = Append(@, u)]
      BY <1>4
  <2> QED
      BY Zenon DEF HasOpened, SameOpened
<1>5. CASE \E v, t : g = [f EXCEPT ![t].applied = v]
  <2> PICK v, t : g = [f EXCEPT ![t].applied = v]
      BY <1>5
  <2> QED
      BY Zenon DEF HasOpened, SameOpened
<1> QED
    BY <1>1, <1>2, <1>3, <1>4, <1>5, Zenon DEF EditsSwitch

(* Only openInterface opens pipes, and it opens one on each side.          *)
LEMMA OpensBoth ==
    ASSUME InStep, NEW s \in Scripts, openInterface(s) PROVE InStep'
<1>1. \E n, m : /\ script' = [script EXCEPT ![s].opened = n]
                /\ switch' = [switch EXCEPT ![s].opened = m]
                /\ n = m
    BY DEF openInterface, InStep
<1>2. PICK n : /\ script' = [script EXCEPT ![s].opened = n]
               /\ switch' = [switch EXCEPT ![s].opened = n]
    BY <1>1, Zenon
<1>3. /\ HasOpened(script') /\ script'[s].opened = n
      /\ \A t \in Scripts \ {s} : script'[t] = script[t]
    BY <1>2, Zenon DEF InStep, HasOpened
<1>4. /\ HasOpened(switch') /\ switch'[s].opened = n
      /\ \A t \in Scripts \ {s} : switch'[t] = switch[t]
    BY <1>2, Zenon DEF InStep, HasOpened
<1> QED
    BY <1>3, <1>4 DEF InStep

LEMMA EditsKeep ==
    ASSUME InStep, NEW s,
           EditsScript(script, script', s), EditsSwitch(switch, switch', s)
    PROVE  InStep'
<1>1. HasOpened(script) /\ HasOpened(switch)
    BY DEF InStep
<1>2. SameOpened(script, script')
    BY <1>1, ScriptFields, Zenon
<1>3. SameOpened(switch, switch')
    BY <1>1, SwitchFields, Zenon
<1> QED
    BY <1>2, <1>3, Zenon DEF SameOpened, InStep

LEMMA StartKeepsStep ==
    ASSUME InStep, NEW s \in Scripts,
           \/ generate(s) \/ NoFreePort(s) \/ StartSwitch(s)
           \/ AlarmFires(s) \/ InterfacesOpen(s)
           \/ check_switch_server_ready(s) \/ WaitTimesOut(s)
           \/ StartCli(s)
    PROVE  InStep'
<1>1. CASE generate(s)
  <2>1. EditsScript(script, script', s)
      BY <1>1, Zenon DEF generate, EditsScript
  <2>2. EditsSwitch(switch, switch', s)
      BY <1>1, Zenon DEF generate, EditsSwitch
  <2> QED
      BY <2>1, <2>2, EditsKeep
<1>2. CASE NoFreePort(s)
  <2>1. EditsScript(script, script', s)
      BY <1>2, Zenon DEF NoFreePort, EditsScript
  <2>2. EditsSwitch(switch, switch', s)
      BY <1>2, Zenon DEF NoFreePort, EditsSwitch
  <2> QED
      BY <2>1, <2>2, EditsKeep
<1>3. CASE StartSwitch(s)
  <2>1. EditsScript(script, script', s)
      BY <1>3, Zenon DEF StartSwitch, Returns, EditsScript
  <2>2. EditsSwitch(switch, switch', s)
      BY <1>3, Zenon DEF StartSwitch, Returns, EditsSwitch
  <2> QED
      BY <2>1, <2>2, EditsKeep
<1>4. CASE AlarmFires(s)
  <2>1. EditsScript(script, script', s)
      BY <1>4, Zenon DEF AlarmFires, Returns, EditsScript
  <2>2. EditsSwitch(switch, switch', s)
      BY <1>4, Zenon DEF AlarmFires, Returns, EditsSwitch
  <2> QED
      BY <2>1, <2>2, EditsKeep
<1>5. CASE InterfacesOpen(s)
  <2>1. EditsScript(script, script', s)
      BY <1>5, Zenon DEF InterfacesOpen, EditsScript
  <2>2. EditsSwitch(switch, switch', s)
      BY <1>5, Zenon DEF InterfacesOpen, EditsSwitch
  <2> QED
      BY <2>1, <2>2, EditsKeep
<1>6. CASE check_switch_server_ready(s)
  <2>1. EditsScript(script, script', s)
      BY <1>6, Zenon DEF check_switch_server_ready, EditsScript
  <2>2. EditsSwitch(switch, switch', s)
      BY <1>6, Zenon DEF check_switch_server_ready, EditsSwitch
  <2> QED
      BY <2>1, <2>2, EditsKeep
<1>7. CASE WaitTimesOut(s)
  <2>1. EditsScript(script, script', s)
      BY <1>7, Zenon DEF WaitTimesOut, Returns, EditsScript
  <2>2. EditsSwitch(switch, switch', s)
      BY <1>7, Zenon DEF WaitTimesOut, Returns, EditsSwitch
  <2> QED
      BY <2>1, <2>2, EditsKeep
<1>8. CASE StartCli(s)
  <2>1. EditsScript(script, script', s)
      BY <1>8, Zenon DEF StartCli, Returns, EditsScript
  <2>2. EditsSwitch(switch, switch', s)
      BY <1>8, Zenon DEF StartCli, Returns, EditsSwitch
  <2> QED
      BY <2>1, <2>2, EditsKeep
<1> QED
    BY <1>1, <1>2, <1>3, <1>4, <1>5, <1>6, <1>7, <1>8

LEMMA CommandKeepsStep ==
    ASSUME InStep, NEW s \in Scripts,
           \/ do_cli_command(s) \/ do_packet(s) \/ do_expect(s)
           \/ do_nothing(s) \/ EndOfCommands(s)
           \/ SwitchWaitedFor(s) \/ BothWaitedFor(s)
    PROVE  InStep'
<1>1. CASE do_cli_command(s)
  <2>1. EditsScript(script, script', s)
      BY <1>1, Zenon DEF do_cli_command, Raises, StopBoth, EditsScript
  <2>2. EditsSwitch(switch, switch', s)
      BY <1>1, Zenon DEF do_cli_command, Raises, StopBoth, EditsSwitch
  <2> QED
      BY <2>1, <2>2, EditsKeep
<1>2. CASE do_packet(s)
  <2>1. EditsScript(script, script', s)
      BY <1>2, Zenon DEF do_packet, Raises, StopBoth, EditsScript
  <2>2. EditsSwitch(switch, switch', s)
      BY <1>2, Zenon DEF do_packet, Raises, StopBoth, EditsSwitch
  <2> QED
      BY <2>1, <2>2, EditsKeep
<1>3. CASE do_expect(s)
  <2>1. EditsScript(script, script', s)
      BY <1>3, Zenon DEF do_expect, EditsScript
  <2>2. EditsSwitch(switch, switch', s)
      BY <1>3, Zenon DEF do_expect, EditsSwitch
  <2> QED
      BY <2>1, <2>2, EditsKeep
<1>4. CASE do_nothing(s)
  <2>1. EditsScript(script, script', s)
      BY <1>4, Zenon DEF do_nothing, EditsScript
  <2>2. EditsSwitch(switch, switch', s)
      BY <1>4, Zenon DEF do_nothing, EditsSwitch
  <2> QED
      BY <2>1, <2>2, EditsKeep
<1>5. CASE EndOfCommands(s)
  <2>1. EditsScript(script, script', s)
      BY <1>5, Zenon DEF EndOfCommands, StopBoth, EditsScript
  <2>2. EditsSwitch(switch, switch', s)
      BY <1>5, Zenon DEF EndOfCommands, StopBoth, EditsSwitch
  <2> QED
      BY <2>1, <2>2, EditsKeep
<1>6. CASE SwitchWaitedFor(s) \/ BothWaitedFor(s)
  <2>1. EditsScript(script, script', s)
      BY <1>6, Zenon DEF SwitchWaitedFor, BothWaitedFor, Returns, EditsScript
  <2>2. EditsSwitch(switch, switch', s)
      BY <1>6, Zenon DEF SwitchWaitedFor, BothWaitedFor, EditsSwitch
  <2> QED
      BY <2>1, <2>2, EditsKeep
<1> QED
    BY <1>1, <1>2, <1>3, <1>4, <1>5, <1>6

LEMMA CheckKeepsStep ==
    ASSUME InStep, NEW s \in Scripts,
           \/ checkOutput(s) \/ corruptFile(s) \/ checkRemaining(s)
    PROVE  InStep'
<1>1. CASE checkOutput(s)
  <2>1. EditsScript(script, script', s)
      BY <1>1, Zenon DEF checkOutput, Checked, Verdict, EditsScript
  <2>2. EditsSwitch(switch, switch', s)
      BY <1>1, Zenon DEF checkOutput, Checked, Verdict, EditsSwitch
  <2> QED
      BY <2>1, <2>2, EditsKeep
<1>2. CASE corruptFile(s)
  <2>1. EditsScript(script, script', s)
      BY <1>2, Zenon DEF corruptFile, Verdict, EditsScript
  <2>2. EditsSwitch(switch, switch', s)
      BY <1>2, Zenon DEF corruptFile, Verdict, EditsSwitch
  <2> QED
      BY <2>1, <2>2, EditsKeep
<1>3. CASE checkRemaining(s)
  <2>1. EditsScript(script, script', s)
      BY <1>3, Zenon DEF checkRemaining, Verdict, EditsScript
  <2>2. EditsSwitch(switch, switch', s)
      BY <1>3, Zenon DEF checkRemaining, Verdict, EditsSwitch
  <2> QED
      BY <2>1, <2>2, EditsKeep
<1> QED
    BY <1>1, <1>2, <1>3

LEMMA ProgramKeepsStep ==
    ASSUME InStep, NEW s \in Scripts,
           \/ SwitchBinds(s) \/ SwitchForwards(s) \/ SwitchDies(s)
           \/ CliConnects(s) \/ CliApplies(s) \/ Killed(s)
           \/ SwitchStops(s) \/ CliStops(s)
    PROVE  InStep'
<1>1. CASE SwitchBinds(s)
  <2>1. EditsScript(script, script', s)
      BY <1>1, Zenon DEF SwitchBinds, EditsScript
  <2>2. EditsSwitch(switch, switch', s)
      BY <1>1, Zenon DEF SwitchBinds, EditsSwitch
  <2> QED
      BY <2>1, <2>2, EditsKeep
<1>2. CASE SwitchForwards(s)
  <2>1. EditsScript(script, script', s)
      BY <1>2, Zenon DEF SwitchForwards, EditsScript
  <2>2. EditsSwitch(switch, switch', s)
      BY <1>2, Zenon DEF SwitchForwards, EditsSwitch
  <2> QED
      BY <2>1, <2>2, EditsKeep
<1>3. CASE SwitchDies(s)
  <2>1. EditsScript(script, script', s)
      BY <1>3, Zenon DEF SwitchDies, EditsScript
  <2>2. EditsSwitch(switch, switch', s)
      BY <1>3, Zenon DEF SwitchDies, EditsSwitch
  <2> QED
      BY <2>1, <2>2, EditsKeep
<1>4. CASE CliConnects(s)
  <2>1. EditsScript(script, script', s)
      BY <1>4, Zenon DEF CliConnects, EditsScript
  <2>2. EditsSwitch(switch, switch', s)
      BY <1>4, Zenon DEF CliConnects, EditsSwitch
  <2> QED
      BY <2>1, <2>2, EditsKeep
<1>5. CASE CliApplies(s)
  <2>1. EditsScript(script, script', s)
      BY <1>5, Zenon DEF CliApplies, EditsScript
  <2>2. EditsSwitch(switch, switch', s)
      BY <1>5, Zenon DEF CliApplies, EditsSwitch
  <2> QED
      BY <2>1, <2>2, EditsKeep
<1>6. CASE Killed(s)
  <2>1. EditsScript(script, script', s)
      BY <1>6, Zenon DEF Killed, EditsScript
  <2>2. EditsSwitch(switch, switch', s)
      BY <1>6, Zenon DEF Killed, EditsSwitch
  <2> QED
      BY <2>1, <2>2, EditsKeep
<1>7. CASE SwitchStops(s) \/ CliStops(s)
  <2>1. EditsScript(script, script', s)
      BY <1>7, Zenon DEF SwitchStops, CliStops, EditsScript
  <2>2. EditsSwitch(switch, switch', s)
      BY <1>7, Zenon DEF SwitchStops, CliStops, EditsSwitch
  <2> QED
      BY <2>1, <2>2, EditsKeep
<1> QED
    BY <1>1, <1>2, <1>3, <1>4, <1>5, <1>6, <1>7

LEMMA HarnessKeepsStep ==
    ASSUME InStep, NEW s \in Scripts,
           \/ Launch(s) \/ TimesOut(s) \/ run_init_commands(s)
           \/ process_file(s) \/ Exit(s) \/ ChildStarts(s)
           \/ ChildFailsToStart(s) \/ ChildEnds(s)
    PROVE  InStep'
<1>1. CASE Launch(s)
  <2>1. EditsScript(script, script', s)
      BY <1>1, Zenon DEF Launch, runVars, EditsScript
  <2>2. EditsSwitch(switch, switch', s)
      BY <1>1, Zenon DEF Launch, runVars, EditsSwitch
  <2> QED
      BY <2>1, <2>2, EditsKeep
<1>2. CASE TimesOut(s)
  <2>1. EditsScript(script, script', s)
      BY <1>2, Zenon DEF TimesOut, EditsScript
  <2>2. EditsSwitch(switch, switch', s)
      BY <1>2, Zenon DEF TimesOut, EditsSwitch
  <2> QED
      BY <2>1, <2>2, EditsKeep
<1>3. CASE run_init_commands(s)
  <2>1. EditsScript(script, script', s)
      BY <1>3, Zenon DEF run_init_commands, Verdict, EditsScript
  <2>2. EditsSwitch(switch, switch', s)
      BY <1>3, Zenon DEF run_init_commands, Verdict, EditsSwitch
  <2> QED
      BY <2>1, <2>2, EditsKeep
<1>4. CASE process_file(s)
  <2>1. EditsScript(script, script', s)
      BY <1>4, Zenon DEF process_file, Verdict, EditsScript
  <2>2. EditsSwitch(switch, switch', s)
      BY <1>4, Zenon DEF process_file, Verdict, EditsSwitch
  <2> QED
      BY <2>1, <2>2, EditsKeep
<1>5. CASE Exit(s)
  <2>1. EditsScript(script, script', s)
      BY <1>5, Zenon DEF Exit, EditsScript
  <2>2. EditsSwitch(switch, switch', s)
      BY <1>5, Zenon DEF Exit, EditsSwitch
  <2> QED
      BY <2>1, <2>2, EditsKeep
<1>6. CASE ChildStarts(s)
  <2>1. EditsScript(script, script', s)
      BY <1>6, Zenon DEF ChildStarts, runVars, EditsScript
  <2>2. EditsSwitch(switch, switch', s)
      BY <1>6, Zenon DEF ChildStarts, runVars, EditsSwitch
  <2> QED
      BY <2>1, <2>2, EditsKeep
<1>7. CASE ChildFailsToStart(s)
  <2>1. EditsScript(script, script', s)
      BY <1>7, Zenon DEF ChildFailsToStart, runVars, EditsScript
  <2>2. EditsSwitch(switch, switch', s)
      BY <1>7, Zenon DEF ChildFailsToStart, runVars, EditsSwitch
  <2> QED
      BY <2>1, <2>2, EditsKeep
<1>8. CASE ChildEnds(s)
  <2>1. EditsScript(script, script', s)
      BY <1>8, Zenon DEF ChildEnds, runVars, EditsScript
  <2>2. EditsSwitch(switch, switch', s)
      BY <1>8, Zenon DEF ChildEnds, runVars, EditsSwitch
  <2> QED
      BY <2>1, <2>2, EditsKeep
<1> QED
    BY <1>1, <1>2, <1>3, <1>4, <1>5, <1>6, <1>7, <1>8

LEMMA InStepFirst == ASSUME TestInit PROVE InStep
<1>1. HasOpened(script) /\ \A s \in Scripts : script[s].opened = 0
    BY Zenon DEF TestInit, RunInit, HasOpened
<1>2. HasOpened(switch) /\ \A s \in Scripts : switch[s].opened = 0
    BY Zenon DEF TestInit, RunInit, HasOpened
<1> QED
    BY <1>1, <1>2 DEF InStep

LEMMA InStepKept == ASSUME InStep, [TestNext]_vars PROVE InStep'
<1>1. CASE RunNext
    BY <1>1, OpensBoth, StartKeepsStep, CommandKeepsStep, CheckKeepsStep, ProgramKeepsStep
       DEF RunNext, ScriptStep, SwitchStep, CliStep
<1>2. CASE \E s \in Scripts : HarnessStep(s) \/ ChildStep(s)
    BY <1>2, HarnessKeepsStep DEF HarnessStep, ChildStep
<1>3. CASE UNCHANGED vars
    BY <1>3 DEF vars, runVars, InStep, HasOpened
<1> QED
    BY <1>1, <1>2, <1>3 DEF TestNext

(* While both sides are opening the named pipes they are at the same one,  *)
(* for any interfaces and any number of scripts: both count from the first *)
(* and sort the interfaces in the same way (RunBMV2.run, interfaceArgs).   *)
THEOREM NoFifoDeadlockHolds == TestSpec => []NoFifoDeadlock
<1>1. InStep => NoFifoDeadlock
  <2>1. \A s \in Scripts : sortedInterfaces(s) = interfaceArgs(s)
      BY DEF sortedInterfaces, interfaceArgs
  <2> QED
      BY <2>1 DEF InStep, NoFifoDeadlock
<1> QED
    BY <1>1, InStepFirst, InStepKept, PTL DEF TestSpec

-----------------------------------------------------------------------------
(* The fields of the records, which no step adds to or takes from.         *)
ScriptParts == {"tries", "alarms", "opened", "line", "delay", "expected",
                 "expectedAny", "unchecked", "verdict"}
SwitchParts == {"state", "opened", "fifo", "applied", "out"}
CliParts == {"state", "peer", "queue"}
Shaped ==
    /\ pc \in [Scripts -> PCs]
    /\ DOMAIN script = Scripts /\ \A t \in Scripts : DOMAIN script[t] = ScriptParts
    /\ DOMAIN switch = Scripts /\ \A t \in Scripts : DOMAIN switch[t] = SwitchParts
    /\ DOMAIN cli = Scripts /\ \A t \in Scripts : DOMAIN cli[t] = CliParts

(* What a step of s leaves of the others.                                  *)
Others(s) ==
    \A t \in Scripts \ {s} : /\ pc'[t] = pc[t] /\ script'[t] = script[t]
                             /\ switch'[t] = switch[t] /\ cli'[t] = cli[t]

(* What a step leaves of the account the script keeps of its file, of the  *)
(* packets of its switch, and of the commands of its client.               *)
SameBook(s) ==
    /\ script'[s].line = script[s].line /\ script'[s].delay = script[s].delay
    /\ script'[s].expected = script[s].expected
    /\ script'[s].expectedAny = script[s].expectedAny
SamePackets(s) ==
    /\ switch'[s].fifo = switch[s].fifo /\ switch'[s].out = switch[s].out
    /\ switch'[s].applied = switch[s].applied
SameClient(s) == cli'[s].queue = cli[s].queue /\ cli'[s].peer = cli[s].peer
SameAttempts(s) == script'[s].tries = script[s].tries /\ script'[s].alarms = script[s].alarms

LEMMA Edited ==
    ASSUME NEW f, NEW S, NEW s \in S, DOMAIN f = S, NEW r
    PROVE  /\ DOMAIN [f EXCEPT ![s] = r] = S
           /\ [f EXCEPT ![s] = r][s] = r
           /\ \A t \in S \ {s} : [f EXCEPT ![s] = r][t] = f[t]
OBVIOUS

LEMMA PCMoves ==
    ASSUME Shaped, NEW s \in Scripts, NEW x \in PCs, pc' = [pc EXCEPT ![s] = x]
    PROVE  /\ pc' \in [Scripts -> PCs] /\ pc'[s] = x
           /\ \A t \in Scripts \ {s} : pc'[t] = pc[t]
BY DEF Shaped

(* A script that returns without looking at the packets.                   *)
LEMMA ReturnsEffect ==
    ASSUME Shaped, NEW s \in Scripts, NEW v, Returns(s, v) \/ Verdict(s, v)
    PROVE  /\ pc' \in [Scripts -> PCs] /\ pc'[s] = "returned"
           /\ \A t \in Scripts \ {s} : pc'[t] = pc[t]
           /\ DOMAIN script' = Scripts /\ \A t \in Scripts : DOMAIN script'[t] = ScriptParts
           /\ script'[s].verdict = v
           /\ SameBook(s) /\ SameAttempts(s)
           /\ \A t \in Scripts \ {s} : script'[t] = script[t]
<1>1. pc' = [pc EXCEPT ![s] = "returned"] /\ script' = [script EXCEPT ![s].verdict = v]
    BY DEF Returns, Verdict
<1>2. /\ DOMAIN script' = Scripts /\ \A t \in Scripts : DOMAIN script'[t] = ScriptParts
      /\ script'[s].verdict = v
      /\ SameBook(s) /\ SameAttempts(s)
      /\ \A t \in Scripts \ {s} : script'[t] = script[t]
    BY <1>1 DEF Shaped, ScriptParts, SameBook, SameAttempts
<1> QED
    BY <1>1, <1>2, PCMoves DEF PCs

(* A script that starts its switch, opens its pipes and starts its client: *)
(* it reads nothing, and gets as far as the commands or returns without a  *)
(* success.                                                                *)
Starting == {"lock", "spawn", "open", "wait", "client"}
Connected == {"wait", "client", "commands", "stopping"}
AllOpen(s) == script[s].opened = Len(sortedInterfaces(s))
OpensAll(s) ==
    pc'[s] \in Connected =>
        /\ script'[s].opened = script[s].opened
        /\ pc[s] \in Connected \/ AllOpen(s)
Starts(s) ==
    /\ pc[s] \in Starting
    /\ pc'[s] \in Starting \cup {"commands", "returned"}
    /\ pc'[s] = "returned" \/ script'[s].verdict = script[s].verdict
    /\ script'[s].verdict \in {script[s].verdict, "FAILURE", "raised"}
    /\ pc'[s] = "returned" => script'[s].verdict \in {"FAILURE", "raised"}
    /\ SameBook(s) /\ SamePackets(s) /\ SameClient(s)
    /\ \/ script'[s].tries = script[s].tries
       \/ script[s].tries < Tries /\ script'[s].tries = script[s].tries + 1
    /\ \/ script'[s].alarms = script[s].alarms
       \/ script[s].alarms < Patience /\ script'[s].alarms = script[s].alarms + 1
    /\ switch'[s].state \in {switch[s].state, "booting"}
    /\ \/ cli'[s].state = cli[s].state
       \/ pc[s] = "client" /\ pc'[s] = "commands" /\ cli'[s].state = "started"
    /\ pc[s] = "client" /\ pc'[s] = "commands" => cli'[s].state = "started"
    /\ OpensAll(s)

LEMMA generateEffect ==
    ASSUME Shaped, NEW s \in Scripts, generate(s) PROVE Shaped' /\ Others(s) /\ Starts(s)
<1>1. switch' = switch /\ cli' = cli /\ pc[s] = "lock"
    BY DEF generate
<1>2. CASE pc' = [pc EXCEPT ![s] = "spawn"] /\ script' = script
  <2>1. pc' \in [Scripts -> PCs] /\ pc'[s] = "spawn" /\ \A t \in Scripts \ {s} : pc'[t] = pc[t]
      BY <1>2, PCMoves DEF PCs
  <2>8. Shaped'
      BY <1>1, <1>2, <2>1 DEF Shaped
  <2>9. Others(s)
      BY <1>1, <1>2, <2>1 DEF Others
  <2>10. Starts(s)
      BY <1>1, <1>2, <2>1 DEF Starts, Starting, OpensAll, Connected, SameBook, SamePackets, SameClient
  <2> QED
      BY <2>8, <2>9, <2>10
<1>3. CASE /\ pc' = pc /\ script[s].tries < Tries
           /\ script' = [script EXCEPT ![s].tries = @ + 1]
  <2>1. /\ DOMAIN script' = Scripts /\ \A t \in Scripts : DOMAIN script'[t] = ScriptParts
        /\ script'[s].tries = script[s].tries + 1 /\ script'[s].alarms = script[s].alarms
        /\ script'[s].verdict = script[s].verdict /\ SameBook(s)
        /\ \A t \in Scripts \ {s} : script'[t] = script[t]
      BY <1>3 DEF Shaped, ScriptParts, SameBook
  <2>8. Shaped'
      BY <1>1, <1>3, <2>1 DEF Shaped
  <2>9. Others(s)
      BY <1>1, <1>3, <2>1 DEF Others
  <2>10. Starts(s)
      BY <1>1, <1>3, <2>1 DEF Starts, Starting, OpensAll, Connected, SamePackets, SameClient
  <2> QED
      BY <2>8, <2>9, <2>10
<1> QED
    BY <1>2, <1>3 DEF generate

LEMMA FailsToStart ==
    ASSUME Shaped, NEW s \in Scripts, pc[s] \in Starting,
           NEW v \in {"FAILURE", "raised"}, Returns(s, v) \/ Verdict(s, v),
           switch' = switch, cli' = cli
    PROVE  Shaped' /\ Others(s) /\ Starts(s)
<1>1. /\ pc' \in [Scripts -> PCs] /\ pc'[s] = "returned"
      /\ \A t \in Scripts \ {s} : pc'[t] = pc[t]
      /\ DOMAIN script' = Scripts /\ \A t \in Scripts : DOMAIN script'[t] = ScriptParts
      /\ script'[s].verdict = v
      /\ SameBook(s) /\ SameAttempts(s)
      /\ \A t \in Scripts \ {s} : script'[t] = script[t]
    BY ReturnsEffect
<1>8. Shaped'
    BY <1>1 DEF Shaped
<1>9. Others(s)
    BY <1>1 DEF Others
<1>10. Starts(s)
    BY <1>1 DEF Starts, Starting, OpensAll, Connected, SamePackets, SameClient, SameAttempts
<1> QED
    BY <1>8, <1>9, <1>10

LEMMA MovesOn ==
    ASSUME Shaped, NEW s \in Scripts, pc[s] \in Starting \ {"client"},
           NEW x \in Starting, pc' = [pc EXCEPT ![s] = x],
           script' = script, switch' = switch, cli' = cli,
           x \in Connected => pc[s] \in Connected \/ AllOpen(s)
    PROVE  Shaped' /\ Others(s) /\ Starts(s)
<1>1. pc' \in [Scripts -> PCs] /\ pc'[s] = x /\ \A t \in Scripts \ {s} : pc'[t] = pc[t]
    BY PCMoves DEF PCs, Starting
<1>8. Shaped'
    BY <1>1 DEF Shaped
<1>9. Others(s)
    BY <1>1 DEF Others
<1>10. Starts(s)
    BY <1>1 DEF Starts, Starting, OpensAll, Connected, SameBook, SamePackets, SameClient
<1> QED
    BY <1>8, <1>9, <1>10

LEMMA StartSwitchEffect ==
    ASSUME Shaped, NEW s \in Scripts, StartSwitch(s) PROVE Shaped' /\ Others(s) /\ Starts(s)
<1>1. cli' = cli /\ pc[s] = "spawn"
    BY DEF StartSwitch
<1>2. CASE Returns(s, "raised") /\ switch' = switch
    BY <1>1, <1>2, FailsToStart DEF Starting
<1>3. CASE /\ switch' = [switch EXCEPT ![s].state = "booting"] /\ script' = script
           /\ pc' = [pc EXCEPT ![s] = "open"]
  <2>1. pc' \in [Scripts -> PCs] /\ pc'[s] = "open" /\ \A t \in Scripts \ {s} : pc'[t] = pc[t]
      BY <1>3, PCMoves DEF PCs
  <2>2. /\ DOMAIN switch' = Scripts /\ \A t \in Scripts : DOMAIN switch'[t] = SwitchParts
        /\ switch'[s].state = "booting" /\ SamePackets(s)
        /\ \A t \in Scripts \ {s} : switch'[t] = switch[t]
      BY <1>3 DEF Shaped, SwitchParts, SamePackets
  <2>8. Shaped'
      BY <1>1, <1>3, <2>1, <2>2 DEF Shaped
  <2>9. Others(s)
      BY <1>1, <1>3, <2>1, <2>2 DEF Others
  <2>10. Starts(s)
      BY <1>1, <1>3, <2>1, <2>2 DEF Starts, Starting, OpensAll, Connected, SameBook, SameClient
  <2> QED
      BY <2>8, <2>9, <2>10
<1> QED
    BY <1>2, <1>3 DEF StartSwitch

LEMMA openInterfaceEffect ==
    ASSUME Shaped, NEW s \in Scripts, openInterface(s) PROVE Shaped' /\ Others(s) /\ Starts(s)
<1>1. pc' = pc /\ cli' = cli /\ pc[s] = "open"
    BY DEF openInterface
<1>2. PICK n, m : /\ script' = [script EXCEPT ![s].opened = n]
                  /\ switch' = [switch EXCEPT ![s].opened = m]
    BY DEF openInterface
<1>3. /\ DOMAIN script' = Scripts /\ \A t \in Scripts : DOMAIN script'[t] = ScriptParts
      /\ script'[s].verdict = script[s].verdict /\ SameBook(s) /\ SameAttempts(s)
      /\ \A t \in Scripts \ {s} : script'[t] = script[t]
    BY <1>2 DEF Shaped, ScriptParts, SameBook, SameAttempts
<1>4. /\ DOMAIN switch' = Scripts /\ \A t \in Scripts : DOMAIN switch'[t] = SwitchParts
      /\ switch'[s].state = switch[s].state /\ SamePackets(s)
      /\ \A t \in Scripts \ {s} : switch'[t] = switch[t]
    BY <1>2 DEF Shaped, SwitchParts, SamePackets
<1>8. Shaped'
    BY <1>1, <1>3, <1>4 DEF Shaped
<1>9. Others(s)
    BY <1>1, <1>3, <1>4 DEF Others
<1>10. Starts(s)
    BY <1>1, <1>3, <1>4 DEF Starts, Starting, OpensAll, Connected, SameClient, SameAttempts
<1> QED
    BY <1>8, <1>9, <1>10

LEMMA AlarmFiresEffect ==
    ASSUME Shaped, NEW s \in Scripts, AlarmFires(s), script[s].alarms \in 0..Patience, Patience \in Nat
    PROVE  Shaped' /\ Others(s) /\ Starts(s)
<1>1. switch' = switch /\ cli' = cli /\ pc[s] = "open"
    BY DEF AlarmFires
<1>2. CASE Returns(s, "FAILURE")
    BY <1>1, <1>2, FailsToStart DEF Starting
<1>3. CASE /\ ~GivesUp(s) /\ script' = [script EXCEPT ![s].alarms = @ + 1] /\ pc' = pc
  <2>1. /\ DOMAIN script' = Scripts /\ \A t \in Scripts : DOMAIN script'[t] = ScriptParts
        /\ script'[s].tries = script[s].tries /\ script'[s].alarms = script[s].alarms + 1
        /\ script'[s].verdict = script[s].verdict /\ SameBook(s)
        /\ \A t \in Scripts \ {s} : script'[t] = script[t]
      BY <1>3 DEF Shaped, ScriptParts, SameBook
  <2>2. script[s].alarms < Patience
      BY <1>3 DEF GivesUp
  <2>8. Shaped'
      BY <1>1, <1>3, <2>1, <2>2 DEF Shaped
  <2>9. Others(s)
      BY <1>1, <1>3, <2>1, <2>2 DEF Others
  <2>10. Starts(s)
      BY <1>1, <1>3, <2>1, <2>2 DEF Starts, Starting, OpensAll, Connected, SamePackets, SameClient
  <2> QED
      BY <2>8, <2>9, <2>10
<1> QED
    BY <1>2, <1>3 DEF AlarmFires

LEMMA StartCliEffect ==
    ASSUME Shaped, NEW s \in Scripts, StartCli(s) PROVE Shaped' /\ Others(s) /\ Starts(s)
<1>1. switch' = switch /\ pc[s] = "client"
    BY DEF StartCli
<1>2. CASE Returns(s, "raised") /\ cli' = cli
    BY <1>1, <1>2, FailsToStart DEF Starting
<1>3. CASE /\ cli' = [cli EXCEPT ![s].state = "started"] /\ script' = script
           /\ pc' = [pc EXCEPT ![s] = "commands"]
  <2>1. pc' \in [Scripts -> PCs] /\ pc'[s] = "commands" /\ \A t \in Scripts \ {s} : pc'[t] = pc[t]
      BY <1>3, PCMoves DEF PCs
  <2>2. /\ DOMAIN cli' = Scripts /\ \A t \in Scripts : DOMAIN cli'[t] = CliParts
        /\ cli'[s].state = "started" /\ SameClient(s)
        /\ \A t \in Scripts \ {s} : cli'[t] = cli[t]
      BY <1>3 DEF Shaped, CliParts, SameClient
  <2>8. Shaped'
      BY <1>1, <1>3, <2>1, <2>2 DEF Shaped
  <2>9. Others(s)
      BY <1>1, <1>3, <2>1, <2>2 DEF Others
  <2>10. Starts(s)
      BY <1>1, <1>3, <2>1, <2>2 DEF Starts, Starting, OpensAll, Connected, SameBook, SamePackets
  <2> QED
      BY <2>8, <2>9, <2>10
<1> QED
    BY <1>2, <1>3 DEF StartCli

LEMMA StartEffect ==
    ASSUME Shaped, NEW s \in Scripts, script[s].alarms \in 0..Patience, Patience \in Nat,
           \/ generate(s) \/ NoFreePort(s) \/ StartSwitch(s) \/ openInterface(s)
           \/ AlarmFires(s) \/ InterfacesOpen(s) \/ check_switch_server_ready(s)
           \/ WaitTimesOut(s) \/ StartCli(s)
    PROVE  Shaped' /\ Others(s) /\ Starts(s)
<1>1. CASE NoFreePort(s)
  <2>1. Verdict(s, "FAILURE") /\ pc[s] = "lock" /\ switch' = switch /\ cli' = cli
      BY <1>1 DEF NoFreePort, Verdict
  <2> QED
      BY <2>1, FailsToStart DEF Starting
<1>2. CASE InterfacesOpen(s)
    BY <1>2, MovesOn DEF InterfacesOpen, Starting, AllOpen
<1>3. CASE check_switch_server_ready(s)
    BY <1>3, MovesOn DEF check_switch_server_ready, Starting, Connected
<1>4. CASE WaitTimesOut(s)
    BY <1>4, FailsToStart DEF WaitTimesOut, Starting
<1> QED
    BY <1>1, <1>2, <1>3, <1>4, generateEffect, StartSwitchEffect, openInterfaceEffect,
       AlarmFiresEffect, StartCliEffect

-----------------------------------------------------------------------------
(* A script that plays its file reads a line, and no other kind of step    *)
(* puts anything in a pipe or in the input of a client.                    *)
Reads(s) ==
    LET k == script[s].line
        cmd == Stf[s][k]
    IN  /\ pc[s] = "commands" /\ pc'[s] = "commands"
        /\ k <= Len(Stf[s]) /\ script'[s].line = k + 1
        /\ script'[s].verdict = script[s].verdict /\ SameAttempts(s)
        /\ script'[s].opened = script[s].opened
        /\ switch'[s].state = switch[s].state /\ switch'[s].out = switch[s].out
        /\ switch'[s].applied = switch[s].applied
        /\ cli'[s].state = cli[s].state /\ cli'[s].peer = cli[s].peer
        /\ cmd.kind = "cli" => cmd.parses
        /\ \/ /\ cmd.kind = "cli" /\ script'[s].delay = 1
              /\ cli'[s].queue = Append(cli[s].queue, k)
              /\ switch'[s].fifo = switch[s].fifo
           \/ /\ cmd.kind # "cli" /\ script'[s].delay = script[s].delay
              /\ cli'[s].queue = cli[s].queue /\ switch'[s].fifo = switch[s].fifo
           \/ /\ cmd.kind = "packet" /\ Slept(s) /\ script'[s].delay = 0
              /\ cli'[s].queue = cli[s].queue
              /\ switch'[s].fifo = Append(switch[s].fifo, k)
        /\ script'[s].expected =
             IF cmd.kind = "expect" /\ cmd.data # <<>>
             THEN [script[s].expected EXCEPT ![cmd.port] = Append(@, cmd.data)]
             ELSE script[s].expected
        /\ script'[s].expectedAny =
             IF cmd.kind = "expect" /\ cmd.data = <<>>
             THEN script[s].expectedAny \cup {cmd.port}
             ELSE script[s].expectedAny

(* Or it asks both processes to end, and waits.                            *)
Asks(s) ==
    /\ pc[s] = "commands" /\ pc'[s] \in {"raising", "stopping"}
    /\ pc'[s] = "stopping" => script[s].line > Len(Stf[s])
    /\ script' = script /\ switch' = switch /\ cli' = cli

LEMMA AsksEffect ==
    ASSUME Shaped, NEW s \in Scripts, pc[s] = "commands",
           Raises(s) \/ EndOfCommands(s)
    PROVE  Shaped' /\ Others(s) /\ Asks(s)
<1>1. PICK x \in {"raising", "stopping"} :
            /\ pc' = [pc EXCEPT ![s] = x]
            /\ x = "stopping" => script[s].line > Len(Stf[s])
    BY Zenon DEF Raises, EndOfCommands, StopBoth
<1>2. script' = script /\ switch' = switch /\ cli' = cli
    BY DEF Raises, EndOfCommands, StopBoth
<1>3. pc' \in [Scripts -> PCs] /\ pc'[s] = x /\ \A t \in Scripts \ {s} : pc'[t] = pc[t]
    BY <1>1, PCMoves DEF PCs
<1> QED
    BY <1>1, <1>2, <1>3 DEF Shaped, Others, Asks

LEMMA cliEffect ==
    ASSUME Shaped, NEW s \in Scripts, do_cli_command(s)
    PROVE  Shaped' /\ Others(s) /\ (Reads(s) \/ Asks(s))
<1> DEFINE k == script[s].line
<1>1. /\ pc[s] = "commands" /\ k <= Len(Stf[s])
      /\ Stf[s][k].kind = "cli"
    BY DEF do_cli_command, AtLine
<1>2. CASE Raises(s)
    BY <1>1, <1>2, AsksEffect
<1>3. CASE /\ Stf[s][k].parses
           /\ cli' = [cli EXCEPT ![s].queue = Append(@, k)]
           /\ script' = [script EXCEPT ![s].line = @ + 1, ![s].delay = 1]
           /\ pc' = pc /\ switch' = switch
  <2>1. /\ DOMAIN script' = Scripts /\ \A t \in Scripts : DOMAIN script'[t] = ScriptParts
        /\ script'[s].line = k + 1 /\ script'[s].delay = 1
        /\ script'[s].expected = script[s].expected
        /\ script'[s].expectedAny = script[s].expectedAny
        /\ script'[s].verdict = script[s].verdict /\ SameAttempts(s)
        /\ script'[s].opened = script[s].opened
        /\ \A t \in Scripts \ {s} : script'[t] = script[t]
      BY <1>3, Zenon DEF Shaped, ScriptParts, SameAttempts
  <2>2. /\ DOMAIN cli' = Scripts /\ \A t \in Scripts : DOMAIN cli'[t] = CliParts
        /\ cli'[s].queue = Append(cli[s].queue, k)
        /\ cli'[s].state = cli[s].state /\ cli'[s].peer = cli[s].peer
        /\ \A t \in Scripts \ {s} : cli'[t] = cli[t]
      BY <1>3 DEF Shaped, CliParts
  <2>3. Reads(s)
      BY <1>1, <1>3, <2>1, <2>2 DEF Reads
  <2> QED
      BY <1>3, <2>1, <2>2, <2>3 DEF Shaped, Others
<1> QED
    BY <1>2, <1>3 DEF do_cli_command

LEMMA packetEffect ==
    ASSUME Shaped, NEW s \in Scripts, do_packet(s)
    PROVE  Shaped' /\ Others(s) /\ (Reads(s) \/ Asks(s))
<1> DEFINE k == script[s].line
<1>1. /\ pc[s] = "commands" /\ k <= Len(Stf[s])
      /\ Stf[s][k].kind = "packet" /\ Slept(s)
    BY DEF do_packet, AtLine
<1>2. CASE Raises(s)
    BY <1>1, <1>2, AsksEffect
<1>3. CASE /\ script' = [script EXCEPT ![s].line = @ + 1]
           /\ pc' = pc /\ switch' = switch /\ cli' = cli
  <2>1. /\ DOMAIN script' = Scripts /\ \A t \in Scripts : DOMAIN script'[t] = ScriptParts
        /\ script'[s].line = k + 1 /\ script'[s].delay = script[s].delay
        /\ script'[s].expected = script[s].expected
        /\ script'[s].expectedAny = script[s].expectedAny
        /\ script'[s].verdict = script[s].verdict /\ SameAttempts(s)
        /\ script'[s].opened = script[s].opened
        /\ \A t \in Scripts \ {s} : script'[t] = script[t]
      BY <1>3 DEF Shaped, ScriptParts, SameAttempts
  <2>2. Reads(s)
      BY <1>1, <1>3, <2>1 DEF Reads
  <2> QED
      BY <1>3, <2>1, <2>2 DEF Shaped, Others
<1>4. CASE /\ switch' = [switch EXCEPT ![s].fifo = Append(@, k)]
           /\ script' = [script EXCEPT ![s].line = @ + 1, ![s].delay = 0]
           /\ pc' = pc /\ cli' = cli
  <2>1. /\ DOMAIN script' = Scripts /\ \A t \in Scripts : DOMAIN script'[t] = ScriptParts
        /\ script'[s].line = k + 1 /\ script'[s].delay = 0
        /\ script'[s].expected = script[s].expected
        /\ script'[s].expectedAny = script[s].expectedAny
        /\ script'[s].verdict = script[s].verdict /\ SameAttempts(s)
        /\ script'[s].opened = script[s].opened
        /\ \A t \in Scripts \ {s} : script'[t] = script[t]
      BY <1>4, Zenon DEF Shaped, ScriptParts, SameAttempts
  <2>2. /\ DOMAIN switch' = Scripts /\ \A t \in Scripts : DOMAIN switch'[t] = SwitchParts
        /\ switch'[s].fifo = Append(switch[s].fifo, k)
        /\ switch'[s].state = switch[s].state /\ switch'[s].out = switch[s].out
        /\ switch'[s].applied = switch[s].applied
        /\ \A t \in Scripts \ {s} : switch'[t] = switch[t]
      BY <1>4 DEF Shaped, SwitchParts
  <2>3. Reads(s)
      BY <1>1, <1>4, <2>1, <2>2 DEF Reads
  <2> QED
      BY <1>4, <2>1, <2>2, <2>3 DEF Shaped, Others
<1> QED
    BY <1>2, <1>3, <1>4, Zenon DEF do_packet

LEMMA expectEffect ==
    ASSUME Shaped, NEW s \in Scripts, do_expect(s) \/ do_nothing(s)
    PROVE  Shaped' /\ Others(s) /\ Reads(s)
<1> DEFINE k == script[s].line
           cmd == Stf[s][k]
<1>1. /\ pc[s] = "commands" /\ k <= Len(Stf[s])
      /\ cmd.kind \in {"expect", "other"}
      /\ pc' = pc /\ switch' = switch /\ cli' = cli
    BY Zenon DEF do_expect, do_nothing, AtLine
<1>2. CASE do_nothing(s)
  <2>1. /\ DOMAIN script' = Scripts /\ \A t \in Scripts : DOMAIN script'[t] = ScriptParts
        /\ script'[s].line = k + 1 /\ script'[s].delay = script[s].delay
        /\ script'[s].expected = script[s].expected
        /\ script'[s].expectedAny = script[s].expectedAny
        /\ script'[s].verdict = script[s].verdict /\ SameAttempts(s)
        /\ script'[s].opened = script[s].opened
        /\ \A t \in Scripts \ {s} : script'[t] = script[t]
      BY <1>2 DEF do_nothing, Shaped, ScriptParts, SameAttempts
  <2>2. cmd.kind = "other"
      BY <1>2 DEF do_nothing, AtLine
  <2>3. Reads(s)
      BY <1>1, <2>1, <2>2 DEF Reads
  <2> QED
      BY <1>1, <2>1, <2>3 DEF Shaped, Others
<1>3. CASE do_expect(s)
  <2>0. cmd.kind = "expect"
      BY <1>3, ZenonT(40) DEF do_expect, AtLine
  <2>1. CASE cmd.data # <<>>
    <3>1. /\ DOMAIN script' = Scripts /\ \A t \in Scripts : DOMAIN script'[t] = ScriptParts
          /\ script'[s].line = k + 1 /\ script'[s].delay = script[s].delay
          /\ script'[s].expected = [script[s].expected EXCEPT ![cmd.port] = Append(@, cmd.data)]
          /\ script'[s].expectedAny = script[s].expectedAny
          /\ script'[s].verdict = script[s].verdict /\ SameAttempts(s)
          /\ script'[s].opened = script[s].opened
          /\ \A t \in Scripts \ {s} : script'[t] = script[t]
        BY <1>3, <2>1, Zenon DEF do_expect, Shaped, ScriptParts, SameAttempts
    <3>2. Reads(s)
        BY <1>1, <2>0, <2>1, <3>1, Zenon DEF Reads
    <3> QED
        BY <1>1, <3>1, <3>2 DEF Shaped, Others
  <2>2. CASE cmd.data = <<>>
    <3>1. /\ DOMAIN script' = Scripts /\ \A t \in Scripts : DOMAIN script'[t] = ScriptParts
          /\ script'[s].line = k + 1 /\ script'[s].delay = script[s].delay
          /\ script'[s].expected = script[s].expected
          /\ script'[s].expectedAny = script[s].expectedAny \cup {cmd.port}
          /\ script'[s].verdict = script[s].verdict /\ SameAttempts(s)
          /\ script'[s].opened = script[s].opened
          /\ \A t \in Scripts \ {s} : script'[t] = script[t]
        BY <1>3, <2>2, Zenon DEF do_expect, Shaped, ScriptParts, SameAttempts
    <3>2. Reads(s)
        BY <1>1, <2>0, <2>2, <3>1 DEF Reads
    <3> QED
        BY <1>1, <3>1, <3>2 DEF Shaped, Others
  <2> QED
      BY <2>1, <2>2
<1> QED
    BY <1>2, <1>3

(* The waits end without a success, or the packets are looked at.          *)
Raised(s) ==
    /\ pc[s] \in {"raising", "stopping"} /\ pc'[s] = "returned"
    /\ script'[s].verdict \in {"raised", "FAILURE"}
    /\ SameBook(s) /\ SameAttempts(s) /\ switch' = switch /\ cli' = cli
Finishes(s) ==
    /\ pc[s] = "stopping" /\ pc'[s] = "check" /\ ~Live(s)
    /\ script'[s].unchecked = {interfaceArgs(s)[i] : i \in 1..switch[s].opened}
    /\ script'[s].verdict = script[s].verdict
    /\ SameBook(s) /\ SameAttempts(s) /\ switch' = switch /\ cli' = cli

LEMMA RaisedEffect ==
    ASSUME Shaped, NEW s \in Scripts, pc[s] \in {"raising", "stopping"},
           NEW v \in {"raised", "FAILURE"}, Returns(s, v), switch' = switch, cli' = cli
    PROVE  Shaped' /\ Others(s) /\ Raised(s)
<1>1. /\ pc' \in [Scripts -> PCs] /\ pc'[s] = "returned"
      /\ \A t \in Scripts \ {s} : pc'[t] = pc[t]
      /\ DOMAIN script' = Scripts /\ \A t \in Scripts : DOMAIN script'[t] = ScriptParts
      /\ script'[s].verdict = v
      /\ SameBook(s) /\ SameAttempts(s)
      /\ \A t \in Scripts \ {s} : script'[t] = script[t]
    BY ReturnsEffect
<1> QED
    BY <1>1 DEF Shaped, Others, Raised

LEMMA WaitEffect ==
    ASSUME Shaped, NEW s \in Scripts, SwitchWaitedFor(s) \/ BothWaitedFor(s)
    PROVE  Shaped' /\ Others(s) /\ (Finishes(s) \/ Raised(s))
<1>1. pc[s] \in {"raising", "stopping"} /\ ~Live(s) /\ switch' = switch /\ cli' = cli
    BY DEF SwitchWaitedFor, BothWaitedFor
<1>2. CASE Returns(s, "raised") \/ Returns(s, "FAILURE")
    BY <1>1, <1>2, RaisedEffect
<1>3. CASE /\ pc[s] = "stopping" /\ pc' = [pc EXCEPT ![s] = "check"]
           /\ script' = [script EXCEPT ![s].unchecked =
                {interfaceArgs(s)[i] : i \in 1..switch[s].opened}]
  <2>1. pc' \in [Scripts -> PCs] /\ pc'[s] = "check" /\ \A t \in Scripts \ {s} : pc'[t] = pc[t]
      BY <1>3, PCMoves DEF PCs
  <2> DEFINE u == {interfaceArgs(s)[i] : i \in 1..switch[s].opened}
  <2>2. script' = [script EXCEPT ![s].unchecked = u]
      BY <1>3
  <2> HIDE DEF u
  <2>3. /\ DOMAIN script' = Scripts /\ \A t \in Scripts : DOMAIN script'[t] = ScriptParts
        /\ script'[s].unchecked = u /\ SameBook(s) /\ SameAttempts(s)
        /\ script'[s].verdict = script[s].verdict
        /\ \A t \in Scripts \ {s} : script'[t] = script[t]
      BY <2>2 DEF Shaped, ScriptParts, SameBook, SameAttempts
  <2>4. Finishes(s)
      BY <1>1, <1>3, <2>1, <2>3 DEF Finishes, u
  <2> QED
      BY <1>1, <2>1, <2>3, <2>4 DEF Shaped, Others
<1> QED
    BY <1>2, <1>3, Zenon DEF SwitchWaitedFor, BothWaitedFor

-----------------------------------------------------------------------------
(* The comparison of the packets.                                          *)
Checks(s) ==
    /\ pc[s] = "check"
    /\ switch' = switch /\ cli' = cli
    /\ script'[s].line = script[s].line /\ script'[s].delay = script[s].delay
    /\ script'[s].expectedAny = script[s].expectedAny /\ SameAttempts(s)
    /\ \/ /\ pc'[s] = "check" /\ script'[s].verdict = script[s].verdict
          /\ \E p \in script[s].unchecked :
               /\ script'[s].unchecked = script[s].unchecked \ {p}
               /\ script'[s].expected = [script[s].expected EXCEPT ![p] = <<>>]
               /\ IF p \in script[s].expectedAny THEN script[s].expected[p] = <<>>
                  ELSE /\ SameCount(script[s].expected[p], switch[s].out[p])
                       /\ AllCompare(script[s].expected[p], switch[s].out[p])
       \/ /\ pc'[s] = "returned" /\ script'[s].verdict \in {"FAILURE", "raised"}
          /\ script'[s].expected = script[s].expected
       \/ /\ pc'[s] = "returned" /\ script'[s].verdict = "SUCCESS"
          /\ script[s].unchecked = {} /\ script'[s].expected = script[s].expected

LEMMA VerdictChecks ==
    ASSUME Shaped, NEW s \in Scripts, pc[s] = "check", switch' = switch, cli' = cli,
           NEW v, Verdict(s, v),
           v \in {"FAILURE", "raised"} \/ (v = "SUCCESS" /\ script[s].unchecked = {})
    PROVE  Shaped' /\ Others(s) /\ Checks(s)
<1>1. /\ pc' \in [Scripts -> PCs] /\ pc'[s] = "returned"
      /\ \A t \in Scripts \ {s} : pc'[t] = pc[t]
      /\ DOMAIN script' = Scripts /\ \A t \in Scripts : DOMAIN script'[t] = ScriptParts
      /\ script'[s].verdict = v
      /\ SameBook(s) /\ SameAttempts(s)
      /\ \A t \in Scripts \ {s} : script'[t] = script[t]
    BY ReturnsEffect
<1>2. Checks(s)
    BY <1>1 DEF Checks, SameBook
<1> QED
    BY <1>1, <1>2 DEF Shaped, Others

LEMMA CheckEffect ==
    ASSUME Shaped, NEW s \in Scripts, checkOutput(s) \/ corruptFile(s) \/ checkRemaining(s)
    PROVE  Shaped' /\ Others(s) /\ Checks(s)
<1>1. pc[s] = "check" /\ switch' = switch /\ cli' = cli
    BY DEF checkOutput, corruptFile, checkRemaining
<1>2. CASE corruptFile(s)
    BY <1>1, <1>2, VerdictChecks DEF corruptFile
<1>3. CASE checkRemaining(s)
  <2>1. script[s].unchecked = {} /\ \E v \in {"FAILURE", "SUCCESS"} : Verdict(s, v)
      BY <1>3 DEF checkRemaining
  <2> QED
      BY <1>1, <2>1, VerdictChecks
<1>4. CASE checkOutput(s)
  <2>1. \/ \E v \in {"FAILURE", "raised"} : Verdict(s, v)
        \/ \E p \in script[s].unchecked :
             /\ Checked(s, p)
             /\ IF p \in script[s].expectedAny THEN script[s].expected[p] = <<>>
                ELSE /\ SameCount(script[s].expected[p], switch[s].out[p])
                     /\ AllCompare(script[s].expected[p], switch[s].out[p])
      BY <1>4, Zenon DEF checkOutput
  <2>2. CASE \E v \in {"FAILURE", "raised"} : Verdict(s, v)
      BY <1>1, <2>2, VerdictChecks
  <2>3. ASSUME NEW p \in script[s].unchecked, Checked(s, p),
               IF p \in script[s].expectedAny THEN script[s].expected[p] = <<>>
               ELSE /\ SameCount(script[s].expected[p], switch[s].out[p])
                    /\ AllCompare(script[s].expected[p], switch[s].out[p])
        PROVE  Shaped' /\ Others(s) /\ Checks(s)
    <3>1. /\ pc' = pc
          /\ script' = [script EXCEPT ![s].unchecked = @ \ {p}, ![s].expected[p] = <<>>]
        BY <2>3 DEF Checked
    <3>2. /\ DOMAIN script' = Scripts /\ \A t \in Scripts : DOMAIN script'[t] = ScriptParts
          /\ script'[s].line = script[s].line /\ script'[s].delay = script[s].delay
          /\ script'[s].expectedAny = script[s].expectedAny /\ SameAttempts(s)
          /\ script'[s].verdict = script[s].verdict
          /\ script'[s].unchecked = script[s].unchecked \ {p}
          /\ script'[s].expected = [script[s].expected EXCEPT ![p] = <<>>]
          /\ \A t \in Scripts \ {s} : script'[t] = script[t]
        BY <3>1, ZenonT(40) DEF Shaped, ScriptParts, SameAttempts
    <3>3. Checks(s)
        BY <1>1, <2>3, <3>1, <3>2, Zenon DEF Checks
    <3> QED
        BY <1>1, <3>1, <3>2, <3>3 DEF Shaped, Others
  <2> QED
      BY <2>1, <2>2, <2>3
<1> QED
    BY <1>2, <1>3, <1>4

-----------------------------------------------------------------------------
(* The programs outside.                                                   *)
SameScripts == script' = script /\ pc' = pc

Turns(s) ==
    /\ SameScripts /\ cli' = cli
    /\ Live(s) /\ switch'[s].state \in {"serving", "failed", "stopped"}
    /\ SamePackets(s) /\ \A t \in Scripts \ {s} : switch'[t] = switch[t]
Forwards(s) ==
    /\ SameScripts /\ cli' = cli
    /\ Live(s) /\ switch'[s].state = switch[s].state
    /\ switch'[s].applied = switch[s].applied
    /\ switch[s].fifo # <<>> /\ switch'[s].fifo = Tail(switch[s].fifo)
    /\ \/ switch'[s].out = switch[s].out
       \/ \E p \in Interfaces(s), data \in Emitted :
            switch'[s].out = [switch[s].out EXCEPT ![p] = Append(@, data)]
    /\ \A t \in Scripts \ {s} : switch'[t] = switch[t]
Connects(s) ==
    /\ SameScripts /\ switch' = switch
    /\ cli[s].state = "started" /\ cli'[s].queue = cli[s].queue
    /\ \/ cli'[s].state = "connected" /\ cli'[s].peer \in Scripts
       \/ cli'[s].state = "failed" /\ cli'[s].peer = cli[s].peer
    /\ \A t \in Scripts \ {s} : cli'[t] = cli[t]
Fails(s) ==
    /\ SameScripts /\ switch' = switch
    /\ cli[s].state \in {"started", "connected"} /\ cli'[s].state \in {"failed", "stopped"}
    /\ SameClient(s)
    /\ \A t \in Scripts \ {s} : cli'[t] = cli[t]
Applies(s) ==
    LET p == cli[s].peer IN
    /\ SameScripts
    /\ cli[s].state = "connected" /\ cli'[s].state = "connected" /\ cli'[s].peer = p
    /\ cli[s].queue # <<>> /\ cli'[s].queue = Tail(cli[s].queue)
    /\ \A t \in Scripts \ {s} : cli'[t] = cli[t]
    /\ \A t \in Scripts : /\ switch'[t].state = switch[t].state
                          /\ switch'[t].fifo = switch[t].fifo
                          /\ switch'[t].out = switch[t].out
                          /\ switch[t].applied \subseteq switch'[t].applied
    /\ p \in Scripts => <<s, Head(cli[s].queue)>> \in switch'[p].applied
Outside(s) == Turns(s) \/ Forwards(s) \/ Connects(s) \/ Fails(s) \/ Applies(s)

LEMMA TurnsEffect ==
    ASSUME Shaped, NEW s \in Scripts, SwitchBinds(s) \/ SwitchDies(s) \/ SwitchStops(s)
    PROVE  Shaped' /\ Turns(s)
<1>1. PICK v \in {"serving", "failed", "stopped"} : switch' = [switch EXCEPT ![s].state = v]
    BY DEF SwitchBinds, SwitchDies, SwitchStops
<1>2. SameScripts /\ cli' = cli /\ Live(s)
    BY DEF SwitchBinds, SwitchDies, SwitchStops, SameScripts, Live
<1>3. /\ DOMAIN switch' = Scripts /\ \A t \in Scripts : DOMAIN switch'[t] = SwitchParts
      /\ switch'[s].state = v /\ SamePackets(s)
      /\ \A t \in Scripts \ {s} : switch'[t] = switch[t]
    BY <1>1 DEF Shaped, SwitchParts, SamePackets
<1> QED
    BY <1>2, <1>3 DEF Shaped, Turns, SameScripts

LEMMA ForwardsEffect ==
    ASSUME Shaped, NEW s \in Scripts, SwitchForwards(s) PROVE Shaped' /\ Forwards(s)
<1>1. SameScripts /\ cli' = cli /\ Live(s) /\ switch[s].fifo # <<>>
    BY DEF SwitchForwards, SameScripts, Live
<1>2. CASE switch' = [switch EXCEPT ![s].fifo = Tail(@)]
  <2>1. /\ DOMAIN switch' = Scripts /\ \A t \in Scripts : DOMAIN switch'[t] = SwitchParts
        /\ switch'[s].state = switch[s].state /\ switch'[s].applied = switch[s].applied
        /\ switch'[s].fifo = Tail(switch[s].fifo) /\ switch'[s].out = switch[s].out
        /\ \A t \in Scripts \ {s} : switch'[t] = switch[t]
      BY <1>2 DEF Shaped, SwitchParts
  <2> QED
      BY <1>1, <2>1 DEF Shaped, Forwards, SameScripts
<1>3. ASSUME NEW p \in Interfaces(s), NEW data \in Emitted,
             switch' = [switch EXCEPT ![s].fifo = Tail(@), ![s].out[p] = Append(@, data)]
      PROVE  Shaped' /\ Forwards(s)
  <2>1. /\ DOMAIN switch' = Scripts /\ \A t \in Scripts : DOMAIN switch'[t] = SwitchParts
        /\ switch'[s].state = switch[s].state /\ switch'[s].applied = switch[s].applied
        /\ switch'[s].fifo = Tail(switch[s].fifo)
        /\ switch'[s].out = [switch[s].out EXCEPT ![p] = Append(@, data)]
        /\ \A t \in Scripts \ {s} : switch'[t] = switch[t]
      BY <1>3, Zenon DEF Shaped, SwitchParts
  <2> QED
      BY <1>1, <2>1 DEF Shaped, Forwards, SameScripts
<1> QED
    BY <1>2, <1>3 DEF SwitchForwards

LEMMA ConnectsEffect ==
    ASSUME Shaped, NEW s \in Scripts, CliConnects(s) PROVE Shaped' /\ Connects(s)
<1>1. SameScripts /\ switch' = switch /\ cli[s].state = "started"
    BY DEF CliConnects, SameScripts
<1>2. CASE cli' = [cli EXCEPT ![s].state = "failed"]
  <2>1. /\ DOMAIN cli' = Scripts /\ \A t \in Scripts : DOMAIN cli'[t] = CliParts
        /\ cli'[s].state = "failed" /\ SameClient(s)
        /\ \A t \in Scripts \ {s} : cli'[t] = cli[t]
      BY <1>2 DEF Shaped, CliParts, SameClient
  <2> QED
      BY <1>1, <2>1 DEF Shaped, Connects, SameScripts, SameClient
<1>3. ASSUME NEW t \in Scripts, cli' = [cli EXCEPT ![s].state = "connected", ![s].peer = t]
      PROVE  Shaped' /\ Connects(s)
  <2>1. /\ DOMAIN cli' = Scripts /\ \A u \in Scripts : DOMAIN cli'[u] = CliParts
        /\ cli'[s].state = "connected" /\ cli'[s].peer = t
        /\ cli'[s].queue = cli[s].queue
        /\ \A u \in Scripts \ {s} : cli'[u] = cli[u]
      BY <1>3, Zenon DEF Shaped, CliParts
  <2> QED
      BY <1>1, <2>1 DEF Shaped, Connects, SameScripts
<1> QED
    BY <1>2, <1>3 DEF CliConnects, Serving

LEMMA AppliesEffect ==
    ASSUME Shaped, NEW s \in Scripts, CliApplies(s)
    PROVE  Shaped' /\ (Applies(s) \/ Fails(s))
<1> DEFINE p == cli[s].peer
           c == <<s, Head(cli[s].queue)>>
<1>1. SameScripts /\ cli[s].state = "connected" /\ cli[s].queue # <<>>
    BY DEF CliApplies, SameScripts
<1>2. CASE cli' = [cli EXCEPT ![s].state = "failed"] /\ switch' = switch
  <2>1. /\ DOMAIN cli' = Scripts /\ \A t \in Scripts : DOMAIN cli'[t] = CliParts
        /\ cli'[s].state = "failed" /\ SameClient(s)
        /\ \A t \in Scripts \ {s} : cli'[t] = cli[t]
      BY <1>2 DEF Shaped, CliParts, SameClient
  <2> QED
      BY <1>1, <1>2, <2>1 DEF Shaped, Fails, SameScripts
<1>3. CASE /\ cli' = [cli EXCEPT ![s].queue = Tail(@)]
           /\ switch' = [switch EXCEPT ![p].applied = @ \cup {c}]
  <2>1. /\ DOMAIN cli' = Scripts /\ \A t \in Scripts : DOMAIN cli'[t] = CliParts
        /\ cli'[s].state = cli[s].state /\ cli'[s].peer = p
        /\ cli'[s].queue = Tail(cli[s].queue)
        /\ \A t \in Scripts \ {s} : cli'[t] = cli[t]
      BY <1>3 DEF Shaped, CliParts
  <2> HIDE DEF p, c
  <2>2. /\ DOMAIN switch' = Scripts /\ \A t \in Scripts : DOMAIN switch'[t] = SwitchParts
        /\ p \in Scripts => c \in switch'[p].applied
      BY <1>3 DEF Shaped, SwitchParts
  <2>3. ASSUME NEW t \in Scripts
        PROVE  /\ switch'[t].state = switch[t].state
               /\ switch'[t].fifo = switch[t].fifo
               /\ switch'[t].out = switch[t].out
               /\ switch[t].applied \subseteq switch'[t].applied
    <3>1. CASE t = p
        BY <1>3, <3>1 DEF Shaped, SwitchParts
    <3>2. CASE t # p
        BY <1>3, <3>2 DEF Shaped
    <3> QED
        BY <3>1, <3>2
  <2>4. Applies(s)
      BY <1>1, <2>1, <2>2, <2>3 DEF Applies, p, c
  <2> QED
      BY <1>1, <2>1, <2>2, <2>4 DEF Shaped, SameScripts
<1> QED
    BY <1>2, <1>3 DEF CliApplies

LEMMA CliStopsEffect ==
    ASSUME Shaped, NEW s \in Scripts, CliStops(s) PROVE Shaped' /\ Fails(s)
<1>1. SameScripts /\ switch' = switch /\ cli[s].state \in {"started", "connected"}
    BY DEF CliStops, CliRuns, SameScripts
<1>2. cli' = [cli EXCEPT ![s].state = "stopped"]
    BY DEF CliStops
<1>3. /\ DOMAIN cli' = Scripts /\ \A t \in Scripts : DOMAIN cli'[t] = CliParts
      /\ cli'[s].state = "stopped" /\ SameClient(s)
      /\ \A t \in Scripts \ {s} : cli'[t] = cli[t]
    BY <1>2 DEF Shaped, CliParts, SameClient
<1> QED
    BY <1>1, <1>3 DEF Shaped, Fails, SameScripts

LEMMA OutsideEffect ==
    ASSUME Shaped, NEW s \in Scripts,
           CliStep(s) \/ SwitchStep(s) \/ SwitchDies(s) \/ SwitchStops(s) \/ CliStops(s)
    PROVE  Shaped' /\ Outside(s)
BY TurnsEffect, CliStopsEffect, ForwardsEffect, ConnectsEffect, AppliesEffect
   DEF CliStep, SwitchStep, Outside

LEMMA KilledEffect ==
    ASSUME Shaped, NEW s \in Scripts, Killed(s)
    PROVE  /\ Shaped' /\ Others(s) /\ pc'[s] = "killed"
           /\ script' = script /\ switch' = switch /\ cli' = cli
<1>1. /\ pc' = [pc EXCEPT ![s] = "killed"]
      /\ script' = script /\ switch' = switch /\ cli' = cli
    BY DEF Killed
<1>2. pc' \in [Scripts -> PCs] /\ pc'[s] = "killed" /\ \A t \in Scripts \ {s} : pc'[t] = pc[t]
    BY <1>1, PCMoves DEF PCs
<1> QED
    BY <1>1, <1>2 DEF Shaped, Others

-----------------------------------------------------------------------------
(* The initialisation commands and the compiler.                           *)
ChildStates == {"none", "unborn", "running", "terminating"} \cup Ends
Compiling == /\ child \in [Scripts -> ChildStates]
             /\ ran \in [Scripts -> Nat]
             /\ compiled \in [Scripts -> {"none"} \cup Ends]

ChildMoves(s) == UNCHANGED <<pc, script, ran, compiled>>
GivesUpBefore(s) ==
    /\ pc[s] \in {"init", "compile"} /\ pc'[s] = "returned"
    /\ script'[s].verdict \in {"FAILURE", "raised"} /\ ran' = ran
CommandRan(s) ==
    /\ pc[s] = "init" /\ script' = script /\ compiled' = compiled
    /\ ran'[s] = ran[s] + 1 /\ \A t \in Scripts \ {s} : ran'[t] = ran[t]
    /\ pc'[s] = IF ran[s] + 1 = opts[s].init THEN "compile" ELSE "init"
Accepted(s) ==
    /\ pc[s] = "compile" /\ pc'[s] = "lock" /\ script' = script /\ ran' = ran
    /\ ~opts[s].errors /\ compiled'[s] = "SUCCESS"
Passed(s) ==
    /\ pc[s] = "compile" /\ pc'[s] = "returned" /\ script'[s].verdict = "SUCCESS" /\ ran' = ran
    /\ \/ opts[s].errors /\ compiled'[s] \in {"error", "signal", "terminated"}
       \/ /\ ~opts[s].errors /\ compiled'[s] = "SUCCESS"
          /\ ~(opts[s].hasBMv2 /\ opts[s].stf)
Leaves(s) ==
    /\ pc[s] = "returned" /\ pc'[s] = "exited" /\ ran' = ran /\ compiled' = compiled
    /\ script'[s].verdict =
         IF script[s].verdict = "raised" THEN "FAILURE" ELSE script[s].verdict
Harness(s) ==
    /\ switch' = switch /\ cli' = cli /\ opts' = opts /\ locks' = locks /\ slot' = slot
    /\ SameBook(s) /\ SameAttempts(s)
    /\ \A t \in Scripts \ {s} : compiled'[t] = compiled[t]
    /\ \/ ChildMoves(s) \/ GivesUpBefore(s) \/ CommandRan(s) \/ Accepted(s)
       \/ Passed(s) \/ Leaves(s)

LEMMA VerdictEffect ==
    ASSUME Shaped, NEW s \in Scripts, NEW v, Verdict(s, v), switch' = switch, cli' = cli
    PROVE  /\ Shaped' /\ Others(s) /\ SameBook(s) /\ SameAttempts(s)
           /\ pc'[s] = "returned" /\ script'[s].verdict = v
<1>1. /\ pc' \in [Scripts -> PCs] /\ pc'[s] = "returned"
      /\ \A t \in Scripts \ {s} : pc'[t] = pc[t]
      /\ DOMAIN script' = Scripts /\ \A t \in Scripts : DOMAIN script'[t] = ScriptParts
      /\ script'[s].verdict = v
      /\ SameBook(s) /\ SameAttempts(s)
      /\ \A t \in Scripts \ {s} : script'[t] = script[t]
    BY ReturnsEffect
<1> QED
    BY <1>1 DEF Shaped, Others

LEMMA PCEffect ==
    ASSUME Shaped, NEW s \in Scripts, NEW x \in PCs, pc' = [pc EXCEPT ![s] = x],
           script' = script, switch' = switch, cli' = cli
    PROVE  Shaped' /\ Others(s) /\ SameBook(s) /\ SameAttempts(s) /\ pc'[s] = x
<1>1. pc' \in [Scripts -> PCs] /\ pc'[s] = x /\ \A t \in Scripts \ {s} : pc'[t] = pc[t]
    BY PCMoves
<1> QED
    BY <1>1 DEF Shaped, Others, SameBook, SameAttempts

LEMMA ChildMovesEffect ==
    ASSUME Shaped, Compiling, NEW s \in Scripts, Launch(s) \/ ChildStep(s)
    PROVE  Shaped' /\ Compiling' /\ Others(s) /\ Harness(s)
<1>1. /\ UNCHANGED <<runVars, opts, ran, compiled>>
      /\ \E c \in ChildStates : child' = [child EXCEPT ![s] = c]
    BY Zenon DEF Launch, ChildStep, ChildStarts, ChildFailsToStart, ChildEnds, Ends, ChildStates
<1>2. child' \in [Scripts -> ChildStates]
    BY <1>1 DEF Compiling
<1> QED
    BY <1>1, <1>2 DEF runVars, Shaped, Compiling, Others, Harness, ChildMoves, SameBook,
       SameAttempts

LEMMA TimesOutEffect ==
    ASSUME Shaped, Compiling, NEW s \in Scripts, TimesOut(s)
    PROVE  Shaped' /\ Compiling' /\ Others(s) /\ Harness(s)
<1>1. /\ switch' = switch /\ cli' = cli /\ opts' = opts /\ locks' = locks /\ slot' = slot
      /\ ran' = ran /\ compiled' = compiled /\ pc[s] \in {"init", "compile"}
      /\ \/ child' = [child EXCEPT ![s] = "terminating"] /\ pc' = pc /\ script' = script
         \/ child' = child /\ Verdict(s, "raised")
    BY DEF TimesOut, Verdict
<1>2. Compiling'
    BY <1>1 DEF Compiling, ChildStates, Ends
<1>3. CASE pc' = pc /\ script' = script
    BY <1>1, <1>2, <1>3 DEF Shaped, Others, Harness, ChildMoves, SameBook, SameAttempts
<1>4. CASE Verdict(s, "raised")
  <2>1. /\ Shaped' /\ Others(s) /\ SameBook(s) /\ SameAttempts(s)
        /\ pc'[s] = "returned" /\ script'[s].verdict = "raised"
      BY <1>1, <1>4, VerdictEffect
  <2> QED
      BY <1>1, <1>2, <2>1 DEF Harness, GivesUpBefore
<1> QED
    BY <1>1, <1>3, <1>4

LEMMA InitEffect ==
    ASSUME Shaped, Compiling, NEW s \in Scripts, run_init_commands(s)
    PROVE  Shaped' /\ Compiling' /\ Others(s) /\ Harness(s)
<1>1. /\ switch' = switch /\ cli' = cli /\ opts' = opts /\ locks' = locks /\ slot' = slot
      /\ compiled' = compiled /\ pc[s] = "init" /\ child' = [child EXCEPT ![s] = "none"]
      /\ \/ Verdict(s, "FAILURE") /\ ran' = ran
         \/ /\ ran' = [ran EXCEPT ![s] = @ + 1] /\ script' = script
            /\ pc' = [pc EXCEPT ![s] = IF ran[s] + 1 = opts[s].init THEN "compile" ELSE @]
    BY DEF run_init_commands
<1>2. child' \in [Scripts -> ChildStates]
    BY <1>1 DEF Compiling, ChildStates
<1>3. CASE Verdict(s, "FAILURE") /\ ran' = ran
  <2>1. /\ Shaped' /\ Others(s) /\ SameBook(s) /\ SameAttempts(s)
        /\ pc'[s] = "returned" /\ script'[s].verdict = "FAILURE"
      BY <1>1, <1>3, VerdictEffect
  <2> QED
      BY <1>1, <1>2, <1>3, <2>1 DEF Compiling, Harness, GivesUpBefore
<1>4. CASE /\ ran' = [ran EXCEPT ![s] = @ + 1] /\ script' = script
           /\ pc' = [pc EXCEPT ![s] = IF ran[s] + 1 = opts[s].init THEN "compile" ELSE @]
  <2> DEFINE x == IF ran[s] + 1 = opts[s].init THEN "compile" ELSE "init"
  <2>1. x \in PCs /\ pc' = [pc EXCEPT ![s] = x]
      BY <1>1, <1>4 DEF PCs
  <2> HIDE DEF x
  <2>2. Shaped' /\ Others(s) /\ SameBook(s) /\ SameAttempts(s) /\ pc'[s] = x
      BY <1>1, <1>4, <2>1, PCEffect
  <2>3. /\ ran' \in [Scripts -> Nat] /\ ran'[s] = ran[s] + 1
        /\ \A t \in Scripts \ {s} : ran'[t] = ran[t]
      BY <1>4 DEF Compiling
  <2>4. CommandRan(s)
      BY <1>1, <1>4, <2>2, <2>3 DEF CommandRan, x
  <2> QED
      BY <1>1, <1>2, <2>2, <2>3, <2>4 DEF Compiling, Harness
<1> QED
    BY <1>1, <1>3, <1>4

LEMMA ResultsAre ==
    ASSUME NEW s, NEW end \in Ends
    PROVE  /\ ResultOf(s, end) \in {"FAILURE", "SUCCESS", "model"}
           /\ ResultOf(s, end) = "SUCCESS" =>
                opts[s].errors /\ end \in {"error", "signal", "terminated"}
           /\ ResultOf(s, end) = "model" => ~opts[s].errors /\ end = "SUCCESS"
<1>1. CASE end = "bug"
    BY <1>1 DEF ResultOf
<1>2. CASE end # "bug" /\ opts[s].errors
    BY <1>2 DEF ResultOf, Ends
<1>3. CASE end # "bug" /\ ~opts[s].errors
    BY <1>3 DEF ResultOf, Ends
<1> QED
    BY <1>1, <1>2, <1>3

LEMMA CompileEffect ==
    ASSUME Shaped, Compiling, NEW s \in Scripts, process_file(s)
    PROVE  Shaped' /\ Compiling' /\ Others(s) /\ Harness(s)
<1> DEFINE result == ResultOf(s, child[s])
<1>1. /\ switch' = switch /\ cli' = cli /\ opts' = opts /\ locks' = locks /\ slot' = slot
      /\ ran' = ran /\ pc[s] = "compile" /\ child[s] \in Ends
      /\ child' = [child EXCEPT ![s] = "none"]
      /\ compiled' = [compiled EXCEPT ![s] = child[s]]
    BY DEF process_file
<1>2. /\ Compiling' /\ compiled'[s] = child[s]
      /\ \A t \in Scripts \ {s} : compiled'[t] = compiled[t]
    BY <1>1 DEF Compiling, ChildStates
<1>3. /\ result \in {"FAILURE", "SUCCESS", "model"}
      /\ result = "SUCCESS" => opts[s].errors /\ child[s] \in {"error", "signal", "terminated"}
      /\ result = "model" => ~opts[s].errors /\ child[s] = "SUCCESS"
    BY <1>1, ResultsAre
<1>4. CASE result = "model" /\ opts[s].hasBMv2 /\ opts[s].stf
  <2>1. pc' = [pc EXCEPT ![s] = "lock"] /\ script' = script
      BY <1>4 DEF process_file
  <2>2. Shaped' /\ Others(s) /\ SameBook(s) /\ SameAttempts(s) /\ pc'[s] = "lock"
      BY <1>1, <2>1, PCEffect DEF PCs
  <2> QED
      BY <1>1, <1>2, <1>3, <1>4, <2>1, <2>2 DEF Harness, Accepted
<1>5. CASE result = "model" /\ ~(opts[s].hasBMv2 /\ opts[s].stf)
  <2>1. Verdict(s, "SUCCESS")
      BY <1>5 DEF process_file
  <2>2. /\ Shaped' /\ Others(s) /\ SameBook(s) /\ SameAttempts(s)
        /\ pc'[s] = "returned" /\ script'[s].verdict = "SUCCESS"
      BY <1>1, <2>1, VerdictEffect
  <2> QED
      BY <1>1, <1>2, <1>3, <1>5, <2>2 DEF Harness, Passed
<1>6. CASE result # "model"
  <2>1. Verdict(s, result)
      BY <1>6 DEF process_file
  <2> HIDE DEF result
  <2>2. /\ Shaped' /\ Others(s) /\ SameBook(s) /\ SameAttempts(s)
        /\ pc'[s] = "returned" /\ script'[s].verdict = result
      BY <1>1, <2>1, VerdictEffect
  <2> QED
      BY <1>1, <1>2, <1>3, <1>6, <2>2 DEF Harness, Passed, GivesUpBefore
<1> QED
    BY <1>4, <1>5, <1>6

LEMMA ExitEffect ==
    ASSUME Shaped, Compiling, NEW s \in Scripts, Exit(s)
    PROVE  Shaped' /\ Compiling' /\ Others(s) /\ Harness(s)
<1> DEFINE v == IF script[s].verdict = "raised" THEN "FAILURE" ELSE script[s].verdict
<1>1. /\ pc[s] = "returned" /\ pc' = [pc EXCEPT ![s] = "exited"]
      /\ script' = [script EXCEPT ![s].verdict = v]
      /\ UNCHANGED <<locks, slot, switch, cli, opts, child, ran, compiled>>
    BY DEF Exit
<1>2. pc' \in [Scripts -> PCs] /\ pc'[s] = "exited" /\ \A t \in Scripts \ {s} : pc'[t] = pc[t]
    BY <1>1, PCMoves DEF PCs
<1> HIDE DEF v
<1>3. /\ DOMAIN script' = Scripts /\ \A t \in Scripts : DOMAIN script'[t] = ScriptParts
      /\ script'[s].verdict = v
      /\ SameBook(s) /\ SameAttempts(s)
      /\ \A t \in Scripts \ {s} : script'[t] = script[t]
    BY <1>1 DEF Shaped, ScriptParts, SameBook, SameAttempts
<1>4. Leaves(s)
    BY <1>1, <1>2, <1>3 DEF Leaves, v
<1> QED
    BY <1>1, <1>2, <1>3, <1>4 DEF Shaped, Others, Compiling, Harness

LEMMA HarnessEffect ==
    ASSUME Shaped, Compiling, NEW s \in Scripts, HarnessStep(s) \/ ChildStep(s)
    PROVE  Shaped' /\ Compiling' /\ Others(s) /\ Harness(s)
BY ChildMovesEffect, TimesOutEffect, InitEffect, CompileEffect, ExitEffect DEF HarnessStep

-----------------------------------------------------------------------------
(* The types of the fields.                                                *)
Verdicts == {"none", "SUCCESS", "FAILURE", "raised"}
SwitchStates == {"none", "booting", "serving", "failed", "stopped"}
CliStates == {"none", "started", "connected", "failed", "stopped"}
TypedBook(s) ==
    /\ script[s].tries \in 0..Tries /\ script[s].alarms \in 0..Patience
    /\ script[s].line \in 1..(Len(Stf[s]) + 1) /\ script[s].delay \in {0, 1}
    /\ script[s].verdict \in Verdicts
    /\ script[s].expected \in [Interfaces(s) -> Seq(Seq(STRING))]
TypedPackets(s) ==
    /\ switch[s].state \in SwitchStates /\ switch[s].fifo \in Seq(Nat)
    /\ switch[s].out \in [Interfaces(s) -> Seq(Emitted)]
TypedClient(s) ==
    /\ cli[s].state \in CliStates /\ cli[s].queue \in Seq(Nat) /\ cli[s].peer \in Scripts
TypedRan(s) ==
    /\ opts[s].init \in Nat /\ ran[s] \in 0..opts[s].init
    /\ pc[s] = "init" => ran[s] < opts[s].init
Typed ==
    /\ Shaped /\ Compiling
    /\ \A s \in Scripts : TypedBook(s) /\ TypedPackets(s) /\ TypedClient(s) /\ TypedRan(s)

(* The kinds of steps.                                                     *)
ScriptKind(s) ==
    /\ UNCHANGED testVars /\ Others(s)
    /\ \/ Starts(s) \/ Reads(s) \/ Asks(s) \/ Raised(s) \/ Finishes(s) \/ Checks(s)
       \/ pc'[s] = "killed" /\ script' = script /\ switch' = switch /\ cli' = cli
OutsideKind(s) == UNCHANGED testVars /\ Outside(s)
HarnessKind(s) == Others(s) /\ Harness(s)

LEMMA Kinds ==
    ASSUME Typed, [TestNext]_vars
    PROVE  /\ Shaped' /\ Compiling'
           /\ \/ \E s \in Scripts : ScriptKind(s) \/ OutsideKind(s) \/ HarnessKind(s)
              \/ UNCHANGED vars
<1>0. Shaped /\ Compiling
    BY DEF Typed
<1>1. ASSUME NEW s \in Scripts, UNCHANGED testVars, ScriptStep(s) \/ Killed(s)
      PROVE  Shaped' /\ ScriptKind(s)
  <2>1. script[s].alarms \in 0..Patience /\ Patience \in Nat
      BY PatienceAssumption DEF Typed, TypedBook
  <2>2. \/ generate(s) \/ NoFreePort(s) \/ StartSwitch(s) \/ openInterface(s)
        \/ AlarmFires(s) \/ InterfacesOpen(s) \/ check_switch_server_ready(s)
        \/ WaitTimesOut(s) \/ StartCli(s)
        \/ do_cli_command(s) \/ do_packet(s) \/ do_expect(s) \/ do_nothing(s)
        \/ EndOfCommands(s) /\ pc[s] = "commands"
        \/ SwitchWaitedFor(s) \/ BothWaitedFor(s) \/ checkOutput(s) \/ corruptFile(s) \/ checkRemaining(s)
        \/ Killed(s)
      BY <1>1 DEF ScriptStep, EndOfCommands
  <2> QED
      BY <1>0, <1>1, <2>1, <2>2, StartEffect, cliEffect, packetEffect, expectEffect,
         AsksEffect, WaitEffect, CheckEffect, KilledEffect DEF ScriptKind
<1>2. ASSUME NEW s \in Scripts, UNCHANGED testVars,
             CliStep(s) \/ SwitchStep(s) \/ SwitchDies(s) \/ SwitchStops(s) \/ CliStops(s)
      PROVE  Shaped' /\ OutsideKind(s)
    BY <1>0, <1>2, OutsideEffect DEF OutsideKind
<1>3. ASSUME NEW s \in Scripts, HarnessStep(s) \/ ChildStep(s)
      PROVE  Shaped' /\ Compiling' /\ HarnessKind(s)
    BY <1>0, <1>3, HarnessEffect DEF HarnessKind
<1>4. CASE RunNext /\ UNCHANGED testVars
  <2>1. Compiling'
      BY <1>0, <1>4 DEF Compiling, testVars
  <2> QED
      BY <1>1, <1>2, <1>4, <2>1 DEF RunNext
<1>5. CASE UNCHANGED vars
    BY <1>0, <1>5 DEF vars, runVars, testVars, Shaped, Compiling
<1> QED
    BY <1>3, <1>4, <1>5 DEF TestNext

LEMMA CommandTypes ==
    ASSUME NEW s \in Scripts
    PROVE  /\ Len(Stf[s]) \in Nat /\ DOMAIN Stf[s] = 1..Len(Stf[s])
           /\ \A i \in 1..Len(Stf[s]) :
                Stf[s][i].kind = "expect" =>
                    Stf[s][i].port \in Interfaces(s) /\ Stf[s][i].data \in Seq(STRING)
<1>1. Stf[s] \in Seq(Command)
    BY StfAssumption
<1>2. Len(Stf[s]) \in Nat /\ DOMAIN Stf[s] = 1..Len(Stf[s])
      /\ \A i \in 1..Len(Stf[s]) : Stf[s][i] \in Command
    BY <1>1
<1>3. \A i \in 1..Len(Stf[s]) : Stf[s][i].kind = "expect" => Stf[s][i].data \in Seq(STRING)
    BY <1>2 DEF Command
<1>4. \A i \in 1..Len(Stf[s]) : Stf[s][i].kind = "expect" => Stf[s][i].port \in Interfaces(s)
    BY <1>2 DEF Interfaces
<1> QED
    BY <1>2, <1>3, <1>4

(* What a step leaves of the types of the scripts it is not a step of.     *)
LEMMA OthersTyped ==
    ASSUME Typed, NEW s \in Scripts, Others(s), NEW t \in Scripts \ {s}
    PROVE  TypedBook(t)' /\ TypedPackets(t)' /\ TypedClient(t)'
BY DEF Typed, Others, TypedBook, TypedPackets, TypedClient

LEMMA StartsTyped ==
    ASSUME Typed, NEW s \in Scripts, Starts(s)
    PROVE  TypedBook(s)' /\ TypedPackets(s)' /\ TypedClient(s)'
<1>1. TypedBook(s) /\ TypedPackets(s) /\ TypedClient(s)
    BY DEF Typed
<1>2. TypedBook(s)'
  <2>1. script'[s].tries \in 0..Tries
      BY <1>1, TriesAssumption DEF Starts, TypedBook
  <2>2. script'[s].alarms \in 0..Patience
      BY <1>1, PatienceAssumption DEF Starts, TypedBook
  <2> QED
      BY <1>1, <2>1, <2>2 DEF Starts, TypedBook, SameBook, Verdicts
<1>3. TypedPackets(s)'
    BY <1>1 DEF Starts, TypedPackets, SamePackets, SwitchStates
<1>4. TypedClient(s)'
    BY <1>1 DEF Starts, TypedClient, SameClient, CliStates
<1> QED
    BY <1>2, <1>3, <1>4

LEMMA ReadsTyped ==
    ASSUME Typed, NEW s \in Scripts, Reads(s)
    PROVE  TypedBook(s)' /\ TypedPackets(s)' /\ TypedClient(s)'
<1> DEFINE k == script[s].line
           cmd == Stf[s][k]
<1>1. TypedBook(s) /\ TypedPackets(s) /\ TypedClient(s)
    BY DEF Typed
<1>2. k \in Nat /\ k \in 1..Len(Stf[s]) /\ Len(Stf[s]) \in Nat
  <2>1. k <= Len(Stf[s])
      BY Zenon DEF Reads
  <2>2. k \in 1..(Len(Stf[s]) + 1) /\ Len(Stf[s]) \in Nat
      BY <1>1, CommandTypes DEF TypedBook
  <2> QED
      BY <2>1, <2>2
<1>3. script'[s].expected \in [Interfaces(s) -> Seq(Seq(STRING))]
  <2>1. CASE cmd.kind = "expect" /\ cmd.data # <<>>
    <3>1. cmd.port \in Interfaces(s) /\ cmd.data \in Seq(STRING)
        BY <1>2, <2>1, CommandTypes
    <3>2. script[s].expected \in [Interfaces(s) -> Seq(Seq(STRING))]
        BY <1>1 DEF TypedBook
    <3>3. Append(script[s].expected[cmd.port], cmd.data) \in Seq(Seq(STRING))
        BY <3>1, <3>2
    <3>4. script'[s].expected = [script[s].expected EXCEPT ![cmd.port] = Append(@, cmd.data)]
        BY <2>1, ZenonT(60) DEF Reads
    <3> QED
        BY <3>2, <3>3, <3>4, Zenon
  <2>2. CASE ~(cmd.kind = "expect" /\ cmd.data # <<>>)
      BY <1>1, <2>2, Zenon DEF Reads, TypedBook
  <2> QED
      BY <2>1, <2>2
<1>4. TypedBook(s)'
  <2>1. /\ script'[s].line = k + 1 /\ script'[s].verdict = script[s].verdict
        /\ SameAttempts(s)
      BY Zenon DEF Reads
  <2>2. script'[s].delay \in {0, 1, script[s].delay}
      BY Zenon DEF Reads
  <2> QED
      BY <1>1, <1>2, <1>3, <2>1, <2>2 DEF TypedBook, SameAttempts
<1>5. TypedPackets(s)'
  <2>1. /\ switch'[s].state = switch[s].state /\ switch'[s].out = switch[s].out
        /\ switch'[s].fifo \in {switch[s].fifo, Append(switch[s].fifo, k)}
      BY Zenon DEF Reads
  <2>2. switch[s].fifo \in Seq(Nat)
      BY <1>1 DEF TypedPackets
  <2>3. Append(switch[s].fifo, k) \in Seq(Nat)
      BY <1>2, <2>2
  <2>4. switch'[s].fifo \in Seq(Nat)
      BY <2>1, <2>2, <2>3, Zenon
  <2> QED
      BY <1>1, <2>1, <2>4, Zenon DEF TypedPackets
<1>6. TypedClient(s)'
  <2>1. /\ cli'[s].state = cli[s].state /\ cli'[s].peer = cli[s].peer
        /\ cli'[s].queue \in {cli[s].queue, Append(cli[s].queue, k)}
      BY Zenon DEF Reads
  <2>2. cli[s].queue \in Seq(Nat)
      BY <1>1 DEF TypedClient
  <2>3. Append(cli[s].queue, k) \in Seq(Nat)
      BY <1>2, <2>2
  <2>4. cli'[s].queue \in Seq(Nat)
      BY <2>1, <2>2, <2>3
  <2> QED
      BY <1>1, <2>1, <2>4, Zenon DEF TypedClient
<1> QED
    BY <1>4, <1>5, <1>6

LEMMA ChecksTyped ==
    ASSUME Typed, NEW s \in Scripts, Checks(s)
    PROVE  TypedBook(s)' /\ TypedPackets(s)' /\ TypedClient(s)'
<1>1. TypedBook(s) /\ TypedPackets(s) /\ TypedClient(s)
    BY DEF Typed
<1>2. script'[s].expected \in [Interfaces(s) -> Seq(Seq(STRING))]
  <2>1. script[s].expected \in [Interfaces(s) -> Seq(Seq(STRING))]
      BY <1>1 DEF TypedBook
  <2>2. \/ script'[s].expected = script[s].expected
        \/ \E p : script'[s].expected = [script[s].expected EXCEPT ![p] = <<>>]
      BY DEF Checks
  <2>3. ASSUME NEW p, script'[s].expected = [script[s].expected EXCEPT ![p] = <<>>]
        PROVE  script'[s].expected \in [Interfaces(s) -> Seq(Seq(STRING))]
    <3>1. <<>> \in Seq(Seq(STRING))
        OBVIOUS
    <3> HIDE DEF Interfaces
    <3> DEFINE S == Seq(Seq(STRING))
    <3> HIDE DEF S
    <3>2. script'[s].expected \in [Interfaces(s) -> S]
        BY <2>1, <2>3, <3>1 DEF S
    <3> QED
        BY <3>2 DEF S
  <2> QED
      BY <2>1, <2>2, <2>3
<1>3. script'[s].verdict \in Verdicts
    BY <1>1 DEF Checks, TypedBook, Verdicts
<1>4. TypedBook(s)'
    BY <1>1, <1>2, <1>3 DEF Checks, TypedBook, SameAttempts
<1> QED
    BY <1>1, <1>4 DEF Checks, TypedPackets, TypedClient

LEMMA ScriptTyped ==
    ASSUME Typed, NEW s \in Scripts, ScriptKind(s)
    PROVE  TypedBook(s)' /\ TypedPackets(s)' /\ TypedClient(s)'
<1>1. TypedBook(s) /\ TypedPackets(s) /\ TypedClient(s)
    BY DEF Typed
<1>2. CASE Starts(s)
    BY <1>2, StartsTyped
<1>3. CASE Reads(s)
    BY <1>3, ReadsTyped
<1>4. CASE Raised(s)
    BY <1>1, <1>4 DEF Raised, TypedBook, TypedPackets, TypedClient, SameBook, SameAttempts, Verdicts
<1>5. CASE Finishes(s)
    BY <1>1, <1>5 DEF Finishes, TypedBook, TypedPackets, TypedClient, SameBook, SameAttempts
<1>6. CASE Checks(s)
    BY <1>6, ChecksTyped
<1>7. CASE script' = script /\ switch' = switch /\ cli' = cli
    BY <1>1, <1>7 DEF TypedBook, TypedPackets, TypedClient
<1> QED
    BY <1>2, <1>3, <1>4, <1>5, <1>6, <1>7 DEF ScriptKind, Asks

LEMMA OutsideTyped ==
    ASSUME Typed, NEW s \in Scripts, Outside(s), NEW t \in Scripts
    PROVE  TypedBook(t)' /\ TypedPackets(t)' /\ TypedClient(t)'
<1>1. TypedBook(t) /\ TypedPackets(t) /\ TypedClient(t)
    BY DEF Typed
<1>2. TypedBook(t)'
    BY <1>1 DEF Outside, Turns, Forwards, Connects, Fails, Applies, SameScripts, TypedBook
<1>3. CASE Turns(s)
  <2>1. cli' = cli /\ switch'[t].fifo = switch[t].fifo /\ switch'[t].out = switch[t].out
        /\ switch'[t].state \in {switch[t].state, "serving", "failed", "stopped"}
      BY <1>3 DEF Turns, SamePackets
  <2> QED
      BY <1>1, <1>2, <2>1 DEF TypedPackets, TypedClient, SwitchStates
<1>4. CASE Forwards(s)
  <2>1. CASE t = s
    <3>1. switch[s].fifo \in Seq(Nat) /\ switch[s].fifo # <<>>
        BY <1>1, <1>4, <2>1 DEF Forwards, TypedPackets
    <3>2. switch'[s].fifo \in Seq(Nat)
        BY <1>4, <3>1 DEF Forwards
    <3>3. switch[s].out \in [Interfaces(s) -> Seq(Emitted)]
        BY <1>1, <2>1 DEF TypedPackets
    <3>4. switch'[s].out \in [Interfaces(s) -> Seq(Emitted)]
      <4>1. CASE switch'[s].out = switch[s].out
          BY <3>3, <4>1
      <4>2. ASSUME NEW p \in Interfaces(s), NEW d \in Emitted,
                   switch'[s].out = [switch[s].out EXCEPT ![p] = Append(@, d)]
            PROVE  switch'[s].out \in [Interfaces(s) -> Seq(Emitted)]
          BY <3>3, <4>2
      <4> QED
          BY <1>4, <4>1, <4>2 DEF Forwards
    <3> QED
        BY <1>1, <1>2, <1>4, <2>1, <3>2, <3>4 DEF Forwards, TypedPackets, TypedClient
  <2>2. CASE t # s
      BY <1>1, <1>2, <1>4, <2>2 DEF Forwards, TypedPackets, TypedClient
  <2> QED
      BY <2>1, <2>2
<1>5. CASE Connects(s) \/ Fails(s)
    BY <1>1, <1>2, <1>5 DEF Connects, Fails, TypedPackets, TypedClient, CliStates, SameClient
<1>6. CASE Applies(s)
  <2>1. TypedPackets(t)'
      BY <1>1, <1>6 DEF Applies, TypedPackets
  <2>2. TypedClient(t)'
    <3>1. CASE t = s
      <4>1. cli[s].queue \in Seq(Nat) /\ cli[s].queue # <<>> /\ cli'[s].queue = Tail(cli[s].queue)
          BY <1>1, <1>6, <3>1 DEF Applies, TypedClient
      <4>2. cli'[s].queue \in Seq(Nat)
          BY <4>1
      <4> QED
          BY <1>1, <1>6, <3>1, <4>2 DEF Applies, TypedClient, CliStates
    <3>2. CASE t # s
        BY <1>1, <1>6, <3>2 DEF Applies, TypedClient
    <3> QED
        BY <3>1, <3>2
  <2> QED
      BY <1>2, <2>1, <2>2
<1> QED
    BY <1>3, <1>4, <1>5, <1>6 DEF Outside

LEMMA HarnessTyped ==
    ASSUME Typed, NEW s \in Scripts, Harness(s)
    PROVE  TypedBook(s)' /\ TypedPackets(s)' /\ TypedClient(s)'
<1>1. TypedBook(s) /\ TypedPackets(s) /\ TypedClient(s)
    BY DEF Typed
<1>2. script'[s].verdict \in Verdicts
    BY <1>1 DEF Harness, ChildMoves, GivesUpBefore, CommandRan, Accepted, Passed, Leaves,
       TypedBook, Verdicts
<1> QED
    BY <1>1, <1>2 DEF Harness, SameBook, SameAttempts, TypedBook, TypedPackets, TypedClient

(* The commands that have run are counted as long as there are any left.   *)
LEMMA RanTyped ==
    ASSUME Typed, NEW s \in Scripts, ScriptKind(s) \/ OutsideKind(s) \/ HarnessKind(s),
           NEW t \in Scripts
    PROVE  TypedRan(t)'
<1>1. TypedRan(t)
    BY DEF Typed
<1>2. CASE ScriptKind(s)
  <2>1. UNCHANGED testVars /\ (pc'[t] = "init" => pc[t] = "init")
      BY <1>2, Zenon DEF ScriptKind, Others, Starts, Starting, Reads, Asks, Raised, Finishes, Checks
  <2> QED
      BY <1>1, <2>1 DEF testVars, TypedRan
<1>3. CASE OutsideKind(s)
  <2>1. UNCHANGED testVars /\ pc' = pc
      BY <1>3 DEF OutsideKind, Outside, Turns, Forwards, Connects, Fails, Applies, SameScripts
  <2> QED
      BY <1>1, <2>1, SMTT(30) DEF testVars, TypedRan
<1>4. CASE HarnessKind(s)
  <2>1. CASE t = s
      BY <1>1, <1>4, <2>1 DEF HarnessKind, Harness, TypedRan, ChildMoves, GivesUpBefore,
         CommandRan, Accepted, Passed, Leaves
  <2>2. CASE t # s
    <3>1. pc'[t] = pc[t] /\ opts' = opts /\ ran'[t] = ran[t]
        BY <1>4, <2>2 DEF HarnessKind, Harness, Others, ChildMoves, GivesUpBefore,
           CommandRan, Accepted, Passed, Leaves
    <3> QED
        BY <1>1, <3>1 DEF TypedRan
  <2> QED
      BY <2>1, <2>2
<1> QED
    BY <1>2, <1>3, <1>4

LEMMA TypedKept == ASSUME Typed, [TestNext]_vars PROVE Typed'
<1>1. Shaped' /\ Compiling'
    BY Kinds
<1>2. ASSUME NEW s \in Scripts, ScriptKind(s) \/ OutsideKind(s) \/ HarnessKind(s), NEW t \in Scripts
      PROVE  TypedBook(t)' /\ TypedPackets(t)' /\ TypedClient(t)' /\ TypedRan(t)'
  <2>1. TypedRan(t)'
      BY <1>2, RanTyped
  <2>2. CASE OutsideKind(s)
      BY <2>1, <2>2, OutsideTyped DEF OutsideKind
  <2>3. CASE ScriptKind(s) \/ HarnessKind(s)
    <3>1. Others(s)
        BY <2>3 DEF ScriptKind, HarnessKind
    <3>2. CASE t # s
        BY <2>1, <3>1, <3>2, OthersTyped
    <3>3. CASE t = s
        BY <2>1, <2>3, <3>3, ScriptTyped, HarnessTyped DEF HarnessKind
    <3> QED
        BY <3>2, <3>3
  <2> QED
      BY <1>2, <2>2, <2>3
<1>3. CASE UNCHANGED vars
    BY <1>1, <1>3 DEF vars, runVars, testVars, Typed, TypedBook, TypedPackets, TypedClient, TypedRan
<1> QED
    BY <1>1, <1>2, <1>3, Kinds DEF Typed

LEMMA OptionTypes ==
    ASSUME TestInit, NEW s \in Scripts
    PROVE  opts[s] \in [errors : BOOLEAN, hasBMv2 : BOOLEAN, stf : BOOLEAN, init : Nat, cleanup : BOOLEAN]
BY OptionsAssumption DEF TestInit

LEMMA TypedFirst == ASSUME TestInit PROVE Typed
<1>1. pc \in [Scripts -> PCs]
    BY DEF TestInit, PCs
<1>2. /\ DOMAIN script = Scripts
      /\ \A s \in Scripts : script[s] =
            [tries |-> 0, alarms |-> 0, opened |-> 0, line |-> 1, delay |-> 0,
             expected |-> [p \in Interfaces(s) |-> <<>>], expectedAny |-> {},
             unchecked |-> {}, verdict |-> "none"]
    BY DEF TestInit, RunInit
<1>3. /\ DOMAIN switch = Scripts
      /\ \A s \in Scripts : switch[s] =
            [state |-> "none", opened |-> 0, fifo |-> <<>>, applied |-> {},
             out |-> [p \in Interfaces(s) |-> <<>>]]
    BY DEF TestInit, RunInit
<1>4. /\ DOMAIN cli = Scripts
      /\ \A s \in Scripts : cli[s] = [state |-> "none", peer |-> s, queue |-> <<>>]
    BY DEF TestInit, RunInit
<1>5. Shaped
    BY <1>1, <1>2, <1>3, <1>4 DEF Shaped, ScriptParts, SwitchParts, CliParts
<1>8. ASSUME NEW s \in Scripts
      PROVE  /\ script[s].tries = 0 /\ script[s].alarms = 0 /\ script[s].line = 1
             /\ script[s].delay = 0 /\ script[s].verdict = "none"
             /\ script[s].expected = [p \in Interfaces(s) |-> <<>>]
             /\ switch[s].state = "none" /\ switch[s].fifo = <<>>
             /\ switch[s].out = [p \in Interfaces(s) |-> <<>>]
             /\ cli[s].state = "none" /\ cli[s].queue = <<>> /\ cli[s].peer = s
    BY <1>2, <1>3, <1>4
<1>6. Compiling
    BY DEF TestInit, Compiling, ChildStates
<1>7. ASSUME NEW s \in Scripts PROVE TypedBook(s) /\ TypedPackets(s) /\ TypedClient(s) /\ TypedRan(s)
  <2>1. TypedBook(s)
    <3>1. 1 \in 1..(Len(Stf[s]) + 1) /\ 0 \in 0..Tries /\ 0 \in 0..Patience
        BY CommandTypes, TriesAssumption, PatienceAssumption
    <3>2. <<>> \in Seq(Seq(STRING))
        OBVIOUS
    <3>3. script[s].expected \in [Interfaces(s) -> Seq(Seq(STRING))]
        BY <1>8, <3>2, ZenonT(40)
    <3> QED
        BY <1>8, <3>1, <3>3 DEF TypedBook, Verdicts
  <2>2. TypedPackets(s)
    <3>1. <<>> \in Seq(Emitted) /\ <<>> \in Seq(Nat)
        OBVIOUS
    <3>2. switch[s].out \in [Interfaces(s) -> Seq(Emitted)]
        BY <1>8, <3>1, Zenon
    <3> QED
        BY <1>8, <3>1, <3>2, Zenon DEF TypedPackets, SwitchStates
  <2>3. TypedClient(s)
    <3>1. <<>> \in Seq(Nat)
        OBVIOUS
    <3> QED
        BY <1>8, <3>1, Zenon DEF TypedClient, CliStates
  <2>4. TypedRan(s)
    <3>1. opts[s].init \in Nat /\ ran[s] = 0
        BY OptionTypes DEF TestInit
    <3>2. pc[s] = "init" => opts[s].init > 0
        BY DEF TestInit
    <3> QED
        BY <3>1, <3>2 DEF TypedRan
  <2> QED
      BY <2>1, <2>2, <2>3, <2>4
<1> QED
    BY <1>5, <1>6, <1>7 DEF Typed

-----------------------------------------------------------------------------
(* Only integers that a lock can be taken on are ever locked.              *)
LEMMA LocksStay ==
    ASSUME Places, locks \subseteq Slots, [TestNext]_vars PROVE locks' \subseteq Slots
<1>1. CASE \E s \in Scripts : StepsOf(s)
    BY <1>1 DEF StepsOf, Takes, Gives, GoesOn, Dies
<1>2. CASE UNCHANGED <<locks, pc, slot>>
    BY <1>2
<1> QED
    BY <1>1, <1>2, TestSteps

(* The scripts, their processes and what they share keep their types, for  *)
(* any STF files, options and bounds: no script passes the end of its file *)
(* or runs more initialisation commands than it has (process_file,         *)
(* RunBMV2.run, do_command).                                               *)
THEOREM TypeOKHolds == TestSpec => []TypeOK
<1> DEFINE TypeInv == Typed /\ LockInv /\ locks \subseteq Slots
<1>1. TestInit => TypeInv
    BY TypedFirst, LockFirst
<1>2. TypeInv /\ [TestNext]_vars => TypeInv'
    BY TypedKept, LockKept, LocksStay DEF LockInv
<1>3. TypeInv => TypeOK
  <2> SUFFICES ASSUME TypeInv PROVE TypeOK
      OBVIOUS
  <2>1. /\ locks \subseteq Slots /\ slot \in [Scripts -> Slots \cup {NoSlot}]
        /\ pc \in [Scripts -> PCs]
      BY DEF LockInv, Places
  <2>2. ASSUME NEW s \in Scripts
        PROVE  /\ script[s].tries \in 0..Tries
               /\ script[s].alarms \in 0..Patience
               /\ script[s].line \in 1..(Len(Stf[s]) + 1)
               /\ script[s].delay \in {0, 1}
               /\ script[s].verdict \in {"none", "SUCCESS", "FAILURE", "raised"}
               /\ switch[s].state \in {"none", "booting", "serving", "failed", "stopped"}
               /\ cli[s].state \in {"none", "started", "connected", "failed", "stopped"}
               /\ \A p \in Interfaces(s) : switch[s].out[p] \in Seq(Emitted)
               /\ child[s] \in {"none", "unborn", "running", "terminating"} \cup Ends
               /\ ran[s] \in 0..opts[s].init
    <3>1. TypedBook(s) /\ TypedPackets(s) /\ TypedClient(s) /\ TypedRan(s) /\ Compiling
        BY DEF Typed
    <3>2. \A p \in Interfaces(s) : switch[s].out[p] \in Seq(Emitted)
        BY <3>1 DEF TypedPackets
    <3>3. child[s] \in {"none", "unborn", "running", "terminating"} \cup Ends
        BY <3>1 DEF Compiling, ChildStates
    <3> QED
        BY <3>1, <3>2, <3>3, Zenon DEF TypedBook, TypedPackets, TypedClient, TypedRan, Verdicts,
           SwitchStates, CliStates
  <2> QED
      BY <2>1, <2>2, Zenon DEF TypeOK, PCs
<1> QED
    BY <1>1, <1>2, <1>3, PTL DEF TestSpec

-----------------------------------------------------------------------------
(* Commands and packets.  A client that may carry out commands on the      *)
(* switch of its own script has every command that was read in its input   *)
(* or behind it; behind it, when the last thing read was a packet or no    *)
(* command was; and behind it is every command above a packet that is      *)
(* still in a pipe.                                                        *)
IsCli(s, c) == Stf[s][c].kind = "cli"
Talks(s) == cli[s].state = "started" \/ (cli[s].state = "connected" /\ cli[s].peer = s)
Took(s, c) == <<s, c>> \in switch[s].applied
Early == {"init", "compile"} \cup Starting

InPipes(s) ==
    \A i \in Range(switch[s].fifo) : i < script[s].line /\ Stf[s][i].kind = "packet"
Handed(s) ==
    \A c \in 1..(script[s].line - 1) : IsCli(s, c) => c \in Range(cli[s].queue) \/ Took(s, c)
Waited(s) ==
    script[s].delay = 0 => \A c \in 1..(script[s].line - 1) : IsCli(s, c) => Took(s, c)
Above(s) ==
    \A i \in Range(switch[s].fifo) : \A c \in 1..(i - 1) : IsCli(s, c) => Took(s, c)
Ordered(s) ==
    /\ pc[s] \in Early => script[s].line = 1
    /\ InPipes(s)
    /\ Talks(s) => Handed(s) /\ Waited(s) /\ Above(s)

(* A step that reads nothing and gives the client nothing.                 *)
Calm(s) ==
    /\ pc'[s] \in Early => pc[s] \in Early
    /\ script'[s].line = script[s].line /\ script'[s].delay = script[s].delay
    /\ Range(switch'[s].fifo) \subseteq Range(switch[s].fifo)
    /\ switch[s].applied \subseteq switch'[s].applied
    /\ Talks(s)' => Talks(s)
    /\ Range(cli'[s].queue) = Range(cli[s].queue)

LEMMA CalmOrdered == ASSUME NEW s, Ordered(s), Calm(s) PROVE Ordered(s)'
<1>1. (pc[s] \in Early => script[s].line = 1)'
    BY DEF Ordered, Calm
<1>2. InPipes(s)'
    BY DEF Ordered, Calm, InPipes
<1>3. \A c : Took(s, c) => Took(s, c)'
    BY DEF Calm, Took
<1>4. ASSUME Talks(s)' PROVE (Handed(s) /\ Waited(s) /\ Above(s))'
  <2>1. Handed(s) /\ Waited(s) /\ Above(s)
      BY <1>4 DEF Ordered, Calm
  <2>2. Handed(s)'
      BY <1>3, <2>1 DEF Calm, Handed, IsCli
  <2>3. Waited(s)'
      BY <1>3, <2>1 DEF Calm, Waited, IsCli
  <2>4. Above(s)'
      BY <1>3, <2>1 DEF Calm, Above, IsCli
  <2> QED
      BY <2>2, <2>3, <2>4
<1> QED
    BY <1>1, <1>2, <1>4 DEF Ordered

LEMMA StartsOrdered ==
    ASSUME Typed, NEW s \in Scripts, Ordered(s), Starts(s) PROVE Ordered(s)'
<1>1. pc[s] \in Early
    BY DEF Starts, Early
<1>2. script[s].line = 1 /\ script'[s].line = 1
    BY <1>1 DEF Ordered, Starts, SameBook
<1>3. switch[s].fifo \in Seq(Nat) /\ switch'[s].fifo = switch[s].fifo
    BY DEF Typed, TypedPackets, Starts, SamePackets
<1>4. \A i \in Range(switch'[s].fifo) : i \in Nat /\ i < 1 /\ Stf[s][i].kind = "packet"
    BY <1>2, <1>3 DEF Ordered, InPipes, Range
<1>5. InPipes(s)'
    BY <1>2, <1>4 DEF InPipes
<1>6. Handed(s)' /\ Waited(s)'
    BY <1>2 DEF Handed, Waited
<1>7. Above(s)'
  <2>1. \A i \in Range(switch'[s].fifo) : i = 0
      BY <1>4
  <2> QED
      BY <2>1 DEF Above
<1> QED
    BY <1>2, <1>5, <1>6, <1>7 DEF Ordered

LEMMA RangeAppend ==
    ASSUME NEW S, NEW q \in Seq(S), NEW x \in S PROVE Range(Append(q, x)) = Range(q) \cup {x}
<1>1. /\ Append(q, x) \in Seq(S) /\ Len(Append(q, x)) = Len(q) + 1 /\ Len(q) \in Nat
      /\ \A i \in 1..Len(q) : Append(q, x)[i] = q[i]
      /\ Append(q, x)[Len(q) + 1] = x
      /\ DOMAIN q = 1..Len(q) /\ DOMAIN Append(q, x) = 1..(Len(q) + 1)
    OBVIOUS
<1>2. \A i \in 1..(Len(q) + 1) : i \in 1..Len(q) \/ i = Len(q) + 1
    BY <1>1
<1>3. 1..Len(q) \subseteq 1..(Len(q) + 1) /\ Len(q) + 1 \in 1..(Len(q) + 1)
    BY <1>1
<1> QED
    BY <1>1, <1>2, <1>3, Zenon DEF Range

LEMMA RangeTail ==
    ASSUME NEW S, NEW q \in Seq(S), q # <<>>
    PROVE  Range(Tail(q)) \subseteq Range(q) /\ Range(q) = Range(Tail(q)) \cup {Head(q)}
<1>1. /\ Tail(q) \in Seq(S) /\ Len(Tail(q)) = Len(q) - 1 /\ Len(q) \in Nat \ {0}
      /\ \A i \in 1..(Len(q) - 1) : Tail(q)[i] = q[i + 1]
      /\ Head(q) = q[1]
      /\ DOMAIN q = 1..Len(q) /\ DOMAIN Tail(q) = 1..(Len(q) - 1)
    OBVIOUS
<1>2. \A i \in 1..(Len(q) - 1) : i + 1 \in 1..Len(q)
    BY <1>1
<1>3. \A i \in 1..Len(q) : i = 1 \/ (i - 1 \in 1..(Len(q) - 1) /\ (i - 1) + 1 = i)
    BY <1>1
<1>4. 1 \in 1..Len(q)
    BY <1>1
<1>5. Range(Tail(q)) \subseteq Range(q)
  <2> SUFFICES ASSUME NEW i \in DOMAIN Tail(q) PROVE Tail(q)[i] \in Range(q)
      BY Zenon DEF Range
  <2>1. Tail(q)[i] = q[i + 1] /\ i + 1 \in DOMAIN q
      BY <1>1, <1>2
  <2> QED
      BY <2>1, Zenon DEF Range
<1>6. \A i \in 1..Len(q) : i = 1 \/ q[i] \in Range(Tail(q))
  <2> SUFFICES ASSUME NEW i \in 1..Len(q), i # 1 PROVE q[i] \in Range(Tail(q))
      OBVIOUS
  <2>1. i - 1 \in DOMAIN Tail(q) /\ Tail(q)[i - 1] = q[(i - 1) + 1] /\ (i - 1) + 1 = i
      BY <1>1, <1>3
  <2> QED
      BY <2>1, Zenon DEF Range
<1> QED
    BY <1>1, <1>4, <1>5, <1>6, Zenon DEF Range

LEMMA ReadsOrdered ==
    ASSUME Typed, NEW s \in Scripts, Ordered(s), Reads(s) PROVE Ordered(s)'
<1> DEFINE k == script[s].line
           cmd == Stf[s][k]
<1>1. /\ pc'[s] = "commands" /\ script'[s].line = k + 1
      /\ switch'[s].applied = switch[s].applied
      /\ cli'[s].state = cli[s].state /\ cli'[s].peer = cli[s].peer
    BY Zenon DEF Reads
<1>2. \/ /\ cmd.kind = "cli" /\ script'[s].delay = 1
         /\ cli'[s].queue = Append(cli[s].queue, k)
         /\ switch'[s].fifo = switch[s].fifo
      \/ /\ cmd.kind # "cli" /\ script'[s].delay = script[s].delay
         /\ cli'[s].queue = cli[s].queue /\ switch'[s].fifo = switch[s].fifo
      \/ /\ cmd.kind = "packet" /\ Slept(s) /\ script'[s].delay = 0
         /\ cli'[s].queue = cli[s].queue
         /\ switch'[s].fifo = Append(switch[s].fifo, k)
    BY Zenon DEF Reads
<1>3. /\ switch[s].fifo \in Seq(Nat) /\ cli[s].queue \in Seq(Nat)
      /\ k \in Nat /\ k >= 1
    BY CommandTypes DEF Typed, TypedPackets, TypedClient, TypedBook
<1>4. k \in Nat
    BY <1>3
<1>5. \A i \in Range(switch[s].fifo) : i \in Nat /\ i < k /\ Stf[s][i].kind = "packet"
    BY <1>3 DEF Ordered, InPipes, Range
<1>6. /\ Range(Append(switch[s].fifo, k)) = Range(switch[s].fifo) \cup {k}
      /\ Range(Append(cli[s].queue, k)) = Range(cli[s].queue) \cup {k}
    BY <1>3, RangeAppend
<1>7. \A c \in 1..((k + 1) - 1) : c = k \/ c \in 1..(k - 1)
    BY <1>4
<1>8. Talks(s)' <=> Talks(s)
    BY <1>1 DEF Talks
<1>9. \A c : Took(s, c)' <=> Took(s, c)
    BY <1>1 DEF Took
<1>10. "commands" \notin Early
    BY DEF Early, Starting
<1> HIDE DEF k
<1>11. \A i \in Nat : i < k => i < k + 1
    BY <1>4
<1>12. k < k + 1
    BY <1>4
<1>13. CASE /\ cmd.kind = "cli" /\ script'[s].delay = 1
            /\ cli'[s].queue = Append(cli[s].queue, k)
            /\ switch'[s].fifo = switch[s].fifo
  <2>1. InPipes(s)'
      BY <1>1, <1>5, <1>11, <1>13 DEF InPipes
  <2>2. ASSUME Talks(s) PROVE (Handed(s) /\ Waited(s) /\ Above(s))'
    <3>1. Handed(s) /\ Above(s)
        BY <2>2 DEF Ordered
    <3>2. Handed(s)'
        BY <1>1, <1>6, <1>7, <1>9, <1>13, <3>1 DEF Handed, IsCli, k
    <3>3. Waited(s)'
        BY <1>13 DEF Waited
    <3>4. Above(s)'
        BY <1>9, <1>13, <3>1 DEF Above, IsCli
    <3> QED
        BY <3>2, <3>3, <3>4
  <2> QED
      BY <1>1, <1>8, <1>10, <2>1, <2>2 DEF Ordered
<1>14. CASE /\ cmd.kind # "cli" /\ script'[s].delay = script[s].delay
            /\ cli'[s].queue = cli[s].queue /\ switch'[s].fifo = switch[s].fifo
  <2>1. InPipes(s)'
      BY <1>1, <1>5, <1>11, <1>14 DEF InPipes
  <2>2. ASSUME Talks(s) PROVE (Handed(s) /\ Waited(s) /\ Above(s))'
    <3>1. Handed(s) /\ Waited(s) /\ Above(s)
        BY <2>2 DEF Ordered
    <3>2. Handed(s)'
        BY <1>1, <1>7, <1>9, <1>14, <3>1 DEF Handed, IsCli, k
    <3>3. Waited(s)'
        BY <1>1, <1>7, <1>9, <1>14, <3>1 DEF Waited, IsCli, k
    <3>4. Above(s)'
        BY <1>9, <1>14, <3>1 DEF Above, IsCli
    <3> QED
        BY <3>2, <3>3, <3>4
  <2> QED
      BY <1>1, <1>8, <1>10, <2>1, <2>2 DEF Ordered
<1>15. CASE /\ cmd.kind = "packet" /\ Slept(s) /\ script'[s].delay = 0
            /\ cli'[s].queue = cli[s].queue
            /\ switch'[s].fifo = Append(switch[s].fifo, k)
  <2>1. InPipes(s)'
      BY <1>1, <1>5, <1>6, <1>11, <1>12, <1>15 DEF InPipes
  <2>2. ASSUME Talks(s) PROVE (Handed(s) /\ Waited(s) /\ Above(s))'
    <3>1. Handed(s) /\ Waited(s) /\ Above(s)
        BY <2>2 DEF Ordered
    <3>2. \A c \in 1..(k - 1) : IsCli(s, c) => Took(s, c)
      <4>1. CASE script[s].delay = 0
          BY <3>1, <4>1 DEF Waited, k
      <4>2. CASE cli[s].queue = <<>>
        <5>1. Range(cli[s].queue) = {}
            BY <4>2 DEF Range
        <5> QED
            BY <3>1, <5>1 DEF Handed, k
      <4>3. cli[s].state # "failed"
          BY <2>2 DEF Talks
      <4> QED
          BY <1>15, <4>1, <4>2, <4>3 DEF Slept
    <3>3. Handed(s)' /\ Waited(s)'
        BY <1>1, <1>7, <1>9, <1>15, <3>2 DEF Handed, Waited, IsCli
    <3>4. Above(s)'
        BY <1>6, <1>9, <1>15, <3>1, <3>2 DEF Above, IsCli
    <3> QED
        BY <3>3, <3>4
  <2> QED
      BY <1>1, <1>8, <1>10, <2>1, <2>2 DEF Ordered
<1> QED
    BY <1>2, <1>13, <1>14, <1>15

LEMMA ScriptOrdered ==
    ASSUME Typed, NEW s \in Scripts, Ordered(s), ScriptKind(s) PROVE Ordered(s)'
<1>1. CASE Asks(s) \/ Raised(s) \/ Finishes(s)
  <2>1. /\ SameBook(s) /\ switch' = switch /\ cli' = cli
        /\ pc'[s] \in {"raising", "stopping", "returned", "check"}
      BY <1>1 DEF Asks, Raised, Finishes, SameBook
  <2> QED
      BY <2>1, CalmOrdered DEF SameBook, Calm, Talks, Early, Starting
<1>2. CASE Checks(s)
    BY <1>2, CalmOrdered DEF Checks, Calm, Talks, Early, Starting
<1>3. CASE pc'[s] = "killed" /\ script' = script /\ switch' = switch /\ cli' = cli
    BY <1>3, CalmOrdered DEF Calm, Talks, Early, Starting
<1> QED
    BY <1>1, <1>2, <1>3, StartsOrdered, ReadsOrdered DEF ScriptKind

LEMMA OthersOrdered ==
    ASSUME NEW s, Others(s), NEW t \in Scripts \ {s}, Ordered(t) PROVE Ordered(t)'
BY CalmOrdered DEF Others, Calm, Talks

LEMMA HarnessOrdered ==
    ASSUME NEW s \in Scripts, Ordered(s), Harness(s) PROVE Ordered(s)'
<1>1. /\ switch' = switch /\ cli' = cli /\ SameBook(s)
      /\ pc'[s] \in Early => pc[s] \in Early
    BY DEF Harness, ChildMoves, GivesUpBefore, CommandRan, Accepted, Passed, Leaves, Early, Starting
<1> QED
    BY <1>1, CalmOrdered DEF Calm, Talks, SameBook

LEMMA OutsideOrdered ==
    ASSUME Typed, NEW s \in Scripts, Outside(s), NEW t \in Scripts, Ordered(t) PROVE Ordered(t)'
<1>1. script' = script /\ pc' = pc
    BY DEF Outside, Turns, Forwards, Connects, Fails, Applies, SameScripts
<1>2. CASE Turns(s)
  <2>1. cli' = cli /\ switch'[t].fifo = switch[t].fifo /\ switch'[t].applied = switch[t].applied
      BY <1>2 DEF Turns, SamePackets
  <2> QED
      BY <1>1, <2>1, CalmOrdered DEF Calm, Talks
<1>3. CASE Forwards(s)
  <2>1. cli' = cli /\ switch'[t].applied = switch[t].applied
      BY <1>3 DEF Forwards
  <2>2. Range(switch'[t].fifo) \subseteq Range(switch[t].fifo)
    <3>1. CASE t = s
      <4>1. switch[s].fifo \in Seq(Nat) /\ switch[s].fifo # <<>>
            /\ switch'[s].fifo = Tail(switch[s].fifo)
          BY <1>3 DEF Forwards, Typed, TypedPackets
      <4> QED
          BY <3>1, <4>1, RangeTail
    <3>2. CASE t # s
        BY <1>3, <3>2 DEF Forwards
    <3> QED
        BY <3>1, <3>2
  <2> QED
      BY <1>1, <2>1, <2>2, CalmOrdered DEF Calm, Talks
<1>4. CASE Connects(s) \/ Fails(s)
  <2>1. switch' = switch /\ cli'[t].queue = cli[t].queue /\ (Talks(t)' => Talks(t))
      BY <1>4 DEF Connects, Fails, SameClient, Talks
  <2> QED
      BY <1>1, <2>1, CalmOrdered DEF Calm
<1>5. CASE Applies(s) /\ t # s
  <2>1. /\ cli'[t] = cli[t] /\ switch'[t].fifo = switch[t].fifo
        /\ switch[t].applied \subseteq switch'[t].applied
      BY <1>5 DEF Applies
  <2> QED
      BY <1>1, <2>1, CalmOrdered DEF Calm, Talks
<1>6. CASE Applies(s) /\ t = s
  <2>1. /\ cli[s].queue \in Seq(Nat) /\ cli[s].queue # <<>>
        /\ cli'[s].queue = Tail(cli[s].queue)
        /\ switch'[s].fifo = switch[s].fifo
        /\ cli'[s].state = "connected" /\ cli[s].state = "connected"
        /\ cli'[s].peer = cli[s].peer
        /\ cli[s].peer = s => <<s, Head(cli[s].queue)>> \in switch'[s].applied
    <3>1. cli[s].queue \in Seq(Nat)
        BY DEF Typed, TypedClient
    <3> QED
      <4>1. /\ cli[s].queue # <<>> /\ cli'[s].queue = Tail(cli[s].queue)
            /\ cli'[s].state = "connected" /\ cli[s].state = "connected"
            /\ cli'[s].peer = cli[s].peer
          BY <1>6, Zenon DEF Applies
      <4>2. switch'[s].fifo = switch[s].fifo
          BY <1>6 DEF Applies
      <4>3. cli[s].peer = s => <<s, Head(cli[s].queue)>> \in switch'[s].applied
          BY <1>6 DEF Applies
      <4> QED
          BY <3>1, <4>1, <4>2, <4>3
  <2>2. \A c : Took(s, c) => Took(s, c)'
      BY <1>6 DEF Applies, Took
  <2>3. Range(cli[s].queue) = Range(cli'[s].queue) \cup {Head(cli[s].queue)}
      BY <2>1, RangeTail
  <2>4. ASSUME Talks(s)' PROVE (Handed(s) /\ Waited(s) /\ Above(s))'
    <3>1. cli[s].peer = s
        BY <2>1, <2>4 DEF Talks
    <3>2. Handed(s) /\ Waited(s) /\ Above(s)
        BY <1>6, <2>1, <3>1 DEF Ordered, Talks
    <3>3. Handed(s)'
      <4> PICK h : h = Head(cli[s].queue)
          OBVIOUS
      <4>1. Took(s, h)'
          BY <2>1, <3>1 DEF Took
      <4>2. \A c : c \in Range(cli[s].queue) \/ Took(s, c) => c \in Range(cli'[s].queue) \/ Took(s, c)'
          BY <2>2, <2>3, <4>1
      <4>3. script'[s].line = script[s].line
          BY <1>1
      <4> QED
          BY <3>2, <4>2, <4>3, Zenon DEF Handed, IsCli
    <3>4. Waited(s)' /\ Above(s)'
        BY <1>1, <2>1, <2>2, <3>2 DEF Waited, Above, IsCli
    <3> QED
        BY <3>3, <3>4
  <2>5. InPipes(s)' /\ (pc[s] \in Early => script[s].line = 1)'
      BY <1>1, <1>6, <2>1 DEF Ordered, InPipes
  <2> QED
      BY <1>6, <2>4, <2>5 DEF Ordered
<1> QED
    BY <1>2, <1>3, <1>4, <1>5, <1>6 DEF Outside

(* A packet reaches the switch after the commands above it took effect,    *)
(* for any STF file, however the commands and packets are interleaved and  *)
(* whatever becomes of the switches (do_cli_command, do_command).          *)
THEOREM CommandsFirstHolds == TestSpec => []CommandsFirst
<1> DEFINE OrderInv == Typed /\ \A s \in Scripts : Ordered(s)
<1>1. TestInit => OrderInv
  <2> SUFFICES ASSUME TestInit PROVE OrderInv
      OBVIOUS
  <2>1. \A s \in Scripts : script[s].line = 1 /\ switch[s].fifo = <<>> /\ cli[s].state = "none"
      BY DEF TestInit, RunInit
  <2>2. Range(<<>>) = {}
      BY DEF Range
  <2> QED
      BY <2>1, <2>2, TypedFirst DEF Ordered, InPipes, Talks
<1>2. OrderInv /\ [TestNext]_vars => OrderInv'
  <2> SUFFICES ASSUME OrderInv, [TestNext]_vars PROVE OrderInv'
      OBVIOUS
  <2>1. Typed'
      BY TypedKept
  <2>2. ASSUME NEW s \in Scripts, ScriptKind(s) \/ OutsideKind(s) \/ HarnessKind(s), NEW t \in Scripts
        PROVE  Ordered(t)'
    <3>1. CASE OutsideKind(s)
        BY <3>1, OutsideOrdered DEF OutsideKind
    <3>2. CASE ~OutsideKind(s) /\ t # s
        BY <2>2, <3>2, OthersOrdered DEF ScriptKind, HarnessKind
    <3>3. CASE ~OutsideKind(s) /\ t = s
        BY <2>2, <3>3, ScriptOrdered, HarnessOrdered DEF HarnessKind
    <3> QED
        BY <3>1, <3>2, <3>3
  <2>3. CASE UNCHANGED vars
      BY <2>1, <2>3 DEF vars, runVars, Ordered, InPipes, Talks, Handed, Waited, Above, IsCli, Took
  <2> QED
      BY <2>1, <2>2, <2>3, Kinds
<1>3. OrderInv => CommandsFirst
  <2> SUFFICES ASSUME OrderInv, NEW s \in Scripts, cli[s].state = "connected", cli[s].peer = s,
                      NEW i \in Range(switch[s].fifo), NEW c \in 1..i, IsCli(s, c)
               PROVE  Took(s, c)
      BY DEF CommandsFirst, IsCli, Took
  <2>1. Above(s) /\ Stf[s][i].kind = "packet"
      BY DEF Ordered, InPipes, Talks
  <2>2. i \in Nat
      BY DEF Typed, TypedPackets, Range
  <2>3. c # i
      BY <2>1 DEF IsCli
  <2>4. c \in 1..(i - 1)
      BY <2>2, <2>3
  <2> QED
      BY <2>1, <2>4 DEF Above
<1> QED
    BY <1>1, <1>2, <1>3, PTL DEF TestSpec

-----------------------------------------------------------------------------
(* Every finite set of numbers is sorted, with nothing left out.           *)
LEMMA Least ==
    ASSUME NEW T \in SUBSET Nat, T # {}
    PROVE  \E n \in T : \A m \in T : n <= m
<1>1. PICK n \in T : \A m \in T : <<m, n>> \notin OpToRel(<, Nat)
    BY WFMin, NatLessThanWellFounded, Zenon
<1>2. \A m \in T : ~(m < n)
    BY <1>1, Zenon DEF OpToRel
<1> QED
    BY <1>2

Enumerates(f, n, T) ==
    /\ f \in [1..n -> T] /\ Range(f) = T
    /\ \A i, j \in 1..n : i < j => f[i] < f[j]

LEMMA SortedLarger ==
    ASSUME NEW n \in Nat, NEW T \in SUBSET Nat, NEW m \in T, \A x \in T : m <= x,
           NEW f, Enumerates(f, n, T \ {m})
    PROVE  \E g : Enumerates(g, n + 1, T)
<1> DEFINE g == [i \in 1..(n + 1) |-> IF i = 1 THEN m ELSE f[i - 1]]
<1>1. /\ f \in [1..n -> T \ {m}] /\ Range(f) = T \ {m}
      /\ \A i, j \in 1..n : i < j => f[i] < f[j]
    BY DEF Enumerates
<1>2. \A i \in 1..(n + 1) : i # 1 => i - 1 \in 1..n
    OBVIOUS
<1>3. \A i \in 1..n : i + 1 \in 1..(n + 1) /\ i + 1 # 1 /\ (i + 1) - 1 = i
    OBVIOUS
<1>4. 1 \in 1..(n + 1)
    OBVIOUS
<1>5. g \in [1..(n + 1) -> T]
    BY <1>1, <1>2
<1>6. g[1] = m /\ \A i \in 1..(n + 1) : i # 1 => g[i] = f[i - 1]
    BY <1>4
<1>7. \A i \in 1..n : g[i + 1] = f[i]
    BY <1>3
<1> HIDE DEF g
<1>8. Range(g) = T
  <2>1. \A x \in T : \E i \in 1..(n + 1) : g[i] = x
    <3> SUFFICES ASSUME NEW x \in T, x # m PROVE \E i \in 1..(n + 1) : g[i] = x
        BY <1>4, <1>6
    <3>1. PICK i \in 1..n : f[i] = x
        BY <1>1 DEF Range
    <3> QED
        BY <1>3, <1>7, <3>1
  <2> QED
      BY <1>5, <2>1 DEF Range
<1>9. ASSUME NEW i \in 1..(n + 1), NEW j \in 1..(n + 1), i < j PROVE g[i] < g[j]
  <2>1. j # 1 /\ j - 1 \in 1..n /\ g[j] = f[j - 1]
      BY <1>2, <1>6, <1>9
  <2>2. CASE i = 1
    <3>1. f[j - 1] \in T \ {m} /\ f[j - 1] \in Nat /\ m \in Nat
        BY <1>1, <2>1
    <3>2. m <= f[j - 1] /\ m # f[j - 1]
        BY <3>1
    <3> QED
        BY <1>6, <2>1, <2>2, <3>1, <3>2
  <2>3. CASE i # 1
    <3>1. i - 1 \in 1..n /\ g[i] = f[i - 1] /\ i - 1 < j - 1
        BY <1>2, <1>6, <1>9, <2>3
    <3> QED
        BY <1>1, <2>1, <3>1
  <2> QED
      BY <2>2, <2>3
<1> QED
    BY <1>5, <1>8, <1>9 DEF Enumerates

LEMMA SortedExists ==
    ASSUME NEW S \in SUBSET Nat, IsFiniteSet(S)
    PROVE  \E f : Enumerates(f, Cardinality(S), S)
<1> DEFINE Bad == {n \in Nat : \E T \in SUBSET S : /\ Cardinality(T) = n
                                                   /\ ~\E f : Enumerates(f, n, T)}
<1>1. \A T \in SUBSET S : IsFiniteSet(T) /\ Cardinality(T) \in Nat
    BY FS_Subset, FS_CardinalityType
<1>2. SUFFICES Bad = {}
    BY <1>1
<1>3. SUFFICES ASSUME Bad # {} PROVE FALSE
    OBVIOUS
<1>4. PICK n \in Bad : \A k \in Bad : n <= k
    BY <1>3, Least
<1>5. PICK T \in SUBSET S : Cardinality(T) = n /\ ~\E f : Enumerates(f, n, T)
    BY <1>4
<1>6. n # 0
  <2> SUFFICES ASSUME n = 0 PROVE FALSE
      OBVIOUS
  <2>1. T = {}
      BY <1>1, <1>5, FS_EmptySet
  <2>2. 1..0 = {}
      OBVIOUS
  <2>3. Enumerates([i \in {} |-> 0], 0, {})
      BY <2>2 DEF Enumerates, Range
  <2> QED
      BY <1>5, <2>1, <2>3
<1>7. T # {} /\ T \in SUBSET Nat
    BY <1>5, <1>6, FS_EmptySet
<1>8. PICK m \in T : \A x \in T : m <= x
    BY <1>7, Least
<1>9. n \in Nat /\ Cardinality(T \ {m}) = n - 1
    BY <1>1, <1>4, <1>5, FS_RemoveElement
<1>10. n - 1 \in Nat /\ ~(n <= n - 1)
    BY <1>6, <1>9
<1>11. n - 1 \notin Bad
    BY <1>4, <1>10
<1>12. PICK f : Enumerates(f, n - 1, T \ {m})
    BY <1>9, <1>10, <1>11
<1>13. \E g : Enumerates(g, (n - 1) + 1, T)
    BY <1>7, <1>8, <1>10, <1>12, SortedLarger
<1>14. (n - 1) + 1 = n
    BY <1>9
<1> QED
    BY <1>5, <1>13, <1>14

LEMMA InterfacesFinite ==
    ASSUME NEW s \in Scripts PROVE Interfaces(s) \in SUBSET Nat /\ IsFiniteSet(Interfaces(s))
<1> DEFINE f == Stf[s]
           D == {j \in DOMAIN f : f[j].kind \in {"packet", "expect"}}
           g == [i \in D |-> f[i].port]
<1>1. Len(f) \in Nat /\ DOMAIN f = 1..Len(f) /\ \A i \in DOMAIN f : f[i] \in Command
    BY StfAssumption
<1>2. \A i \in D : f[i].port \in Nat
    BY <1>1 DEF Command
<1>3. Interfaces(s) = {f[i].port : i \in D}
    BY DEF Interfaces
<1>4. D \in SUBSET (1..Len(f))
    BY <1>1
<1>5. IsFiniteSet(D)
  <2> HIDE DEF D
  <2>1. IsFiniteSet(1..Len(f))
      BY <1>1, FS_Interval
  <2> QED
      BY <1>4, <2>1, FS_Subset, Zenon
<1> HIDE DEF D, f
<1>6. g \in Surjection(D, Interfaces(s))
    BY <1>3 DEF Surjection
<1>7. IsFiniteSet(Interfaces(s))
  <2> HIDE DEF g
  <2> QED
      BY <1>5, <1>6, FS_Surjection
<1> QED
    BY <1>2, <1>3, <1>7

LEMMA SortedAll ==
    ASSUME NEW s \in Scripts
    PROVE  /\ interfaceArgs(s) = sortedInterfaces(s)
           /\ {interfaceArgs(s)[i] : i \in 1..Len(sortedInterfaces(s))} = Interfaces(s)
<1> DEFINE S == Interfaces(s)
           n == Cardinality(S)
<1>1. interfaceArgs(s) = sorted(S) /\ sortedInterfaces(s) = sorted(S)
    BY DEF interfaceArgs, sortedInterfaces
<1>2. S \in SUBSET Nat /\ IsFiniteSet(S) /\ n \in Nat
    BY InterfacesFinite, FS_CardinalityType
<1> HIDE DEF S
<1>3. \E f \in [1..n -> S] : Range(f) = S /\ \A i, j \in DOMAIN f : i < j => f[i] < f[j]
    BY <1>2, SortedExists DEF Enumerates
<1> DEFINE q == sorted(S)
<1>4. q \in [1..n -> S] /\ Range(q) = S
    BY <1>3 DEF sorted
<1> HIDE DEF q, n
<1>5. Len(q) = n
    BY <1>2, <1>4
<1>6. {q[i] : i \in 1..n} = S
    BY <1>4 DEF Range
<1> QED
    BY <1>1, <1>5, <1>6 DEF q, S

-----------------------------------------------------------------------------
(* The packets a file expects on an interface, up to a line of it.         *)
Upto(s, p, n) == {i \in Expectations(s, p) : i <= n}

LEMMA UptoFinite ==
    ASSUME NEW s \in Scripts, NEW p, NEW n
    PROVE  /\ IsFiniteSet(Upto(s, p, n)) /\ Cardinality(Upto(s, p, n)) \in Nat
           /\ IsFiniteSet(Expectations(s, p))
<1>1. Len(Stf[s]) \in Nat /\ DOMAIN Stf[s] = 1..Len(Stf[s])
    BY CommandTypes
<1>2. IsFiniteSet(1..Len(Stf[s]))
    BY <1>1, FS_Interval
<1>3. Upto(s, p, n) \subseteq 1..Len(Stf[s]) /\ Expectations(s, p) \subseteq 1..Len(Stf[s])
    BY <1>1 DEF Upto, Expectations, ExpectLines
<1>4. IsFiniteSet(Upto(s, p, n)) /\ IsFiniteSet(Expectations(s, p))
    BY <1>2, <1>3, FS_Subset, Zenon
<1> QED
    BY <1>4, FS_CardinalityType

LEMMA UptoNone == ASSUME NEW s \in Scripts, NEW p PROVE Upto(s, p, 0) = {}
<1>1. Len(Stf[s]) \in Nat /\ DOMAIN Stf[s] = 1..Len(Stf[s])
    BY CommandTypes
<1> QED
    BY <1>1 DEF Upto, Expectations, ExpectLines

LEMMA UptoAll ==
    ASSUME NEW s \in Scripts, NEW p PROVE Upto(s, p, Len(Stf[s])) = Expectations(s, p)
<1>1. Len(Stf[s]) \in Nat /\ DOMAIN Stf[s] = 1..Len(Stf[s])
    BY CommandTypes
<1> QED
    BY <1>1 DEF Upto, Expectations, ExpectLines

LEMMA UptoNext ==
    ASSUME NEW s \in Scripts, NEW p, NEW k \in Nat \ {0}
    PROVE  /\ k \in Expectations(s, p) =>
                /\ Upto(s, p, k) = Upto(s, p, k - 1) \cup {k}
                /\ Cardinality(Upto(s, p, k)) = Cardinality(Upto(s, p, k - 1)) + 1
           /\ k \notin Expectations(s, p) => Upto(s, p, k) = Upto(s, p, k - 1)
<1>1. Expectations(s, p) \subseteq Nat
  <2>1. DOMAIN Stf[s] \subseteq Nat
      BY CommandTypes
  <2> QED
      BY <2>1 DEF Expectations, ExpectLines
<1>2. \A i \in Nat : i <= k <=> i <= k - 1 \/ i = k
    OBVIOUS
<1>3. k \in Expectations(s, p) => Upto(s, p, k) = Upto(s, p, k - 1) \cup {k}
    BY <1>1, <1>2 DEF Upto
<1>4. k \notin Expectations(s, p) => Upto(s, p, k) = Upto(s, p, k - 1)
    BY <1>1, <1>2 DEF Upto
<1>5. k \notin Upto(s, p, k - 1)
    BY DEF Upto
<1> QED
    BY <1>3, <1>4, <1>5, UptoFinite, FS_AddElement

(* Of the packets of an interface the script keeps those above the line it *)
(* is at, in the order of the file; of the whole file it keeps the         *)
(* interfaces where anything will do, and that it could read it.           *)
KeptPort(s, p) ==
    /\ Len(script[s].expected[p]) = Cardinality(Upto(s, p, script[s].line - 1))
    /\ \A i \in Upto(s, p, script[s].line - 1) :
         /\ Place(s, p, i) \in DOMAIN script[s].expected[p]
         /\ script[s].expected[p][Place(s, p, i)] = Stf[s][i].data
KeptAny(s) ==
    script[s].expectedAny =
        {Stf[s][i].port : i \in {j \in ExpectLines(s) :
            j < script[s].line /\ Stf[s][j].data = <<>>}}
Understood(s) ==
    \A i \in 1..(script[s].line - 1) : Stf[s][i].kind = "cli" => Stf[s][i].parses

LEMMA PlaceIs == ASSUME NEW s, NEW p, NEW i PROVE Place(s, p, i) = Cardinality(Upto(s, p, i))
BY DEF Place, Upto

LEMMA AppendAt ==
    ASSUME NEW S, NEW q \in Seq(S), NEW x \in S
    PROVE  /\ Len(Append(q, x)) = Len(q) + 1 /\ Len(q) \in Nat
           /\ Len(q) + 1 \in DOMAIN Append(q, x) /\ Append(q, x)[Len(q) + 1] = x
           /\ \A i \in DOMAIN q : i \in DOMAIN Append(q, x) /\ Append(q, x)[i] = q[i]
OBVIOUS

LEMMA ReadsPort ==
    ASSUME Typed, NEW s \in Scripts, Reads(s), NEW p \in Interfaces(s), KeptPort(s, p)
    PROVE  KeptPort(s, p)'
<1> DEFINE k == script[s].line
           cmd == Stf[s][k]
           q == script[s].expected[p]
<1>1. script[s].expected \in [Interfaces(s) -> Seq(Seq(STRING))]
    BY DEF Typed, TypedBook
<1>2. k \in Nat \ {0} /\ k \in 1..Len(Stf[s]) /\ Len(Stf[s]) \in Nat
  <2>1. k <= Len(Stf[s])
      BY Zenon DEF Reads
  <2>2. k \in 1..(Len(Stf[s]) + 1) /\ Len(Stf[s]) \in Nat
      BY CommandTypes DEF Typed, TypedBook
  <2> QED
      BY <2>1, <2>2
<1>3. script'[s].line - 1 = k
  <2>1. script'[s].line = k + 1
      BY Zenon DEF Reads
  <2> QED
      BY <1>2, <2>1
<1>4. q \in Seq(Seq(STRING))
    BY <1>1
<1>5. /\ Len(q) = Cardinality(Upto(s, p, k - 1))
      /\ \A i \in Upto(s, p, k - 1) : Place(s, p, i) \in DOMAIN q /\ q[Place(s, p, i)] = Stf[s][i].data
    BY DEF KeptPort
<1>6. CASE k \in Expectations(s, p)
  <2>1. cmd.kind = "expect" /\ cmd.data # <<>> /\ cmd.port = p
      BY <1>6 DEF Expectations, ExpectLines
  <2>2. cmd.data \in Seq(STRING)
      BY <1>2, <2>1, CommandTypes
  <2>3. script'[s].expected = [script[s].expected EXCEPT ![cmd.port] = Append(@, cmd.data)]
      BY <2>1 DEF Reads
  <2>4. script'[s].expected[p] = Append(q, cmd.data)
      BY <1>1, <2>1, <2>3
  <2>5. /\ Upto(s, p, k) = Upto(s, p, k - 1) \cup {k}
        /\ Cardinality(Upto(s, p, k)) = Len(q) + 1
      BY <1>2, <1>5, <1>6, UptoNext
  <2>6. Place(s, p, k) = Len(q) + 1
      BY <2>5, PlaceIs
  <2> DEFINE x == cmd.data
  <2> HIDE DEF k, q, x
  <2>7. /\ Len(Append(q, x)) = Len(q) + 1
        /\ Len(q) + 1 \in DOMAIN Append(q, x) /\ Append(q, x)[Len(q) + 1] = x
        /\ \A i \in DOMAIN q : i \in DOMAIN Append(q, x) /\ Append(q, x)[i] = q[i]
      BY <1>4, <2>2, AppendAt DEF x
  <2>8. ASSUME NEW i \in Upto(s, p, k)
        PROVE  /\ Place(s, p, i) \in DOMAIN Append(q, x)
               /\ Append(q, x)[Place(s, p, i)] = Stf[s][i].data
    <3>1. CASE i = k
        BY <2>6, <2>7, <3>1 DEF x
    <3>2. CASE i \in Upto(s, p, k - 1)
        BY <1>5, <2>7, <3>2
    <3> QED
        BY <2>5, <3>1, <3>2
  <2>9. script'[s].expected[p] = Append(q, x)
      BY <2>4 DEF x
  <2> QED
      BY <1>3, <2>5, <2>7, <2>8, <2>9 DEF KeptPort
<1>7. CASE k \notin Expectations(s, p)
  <2>1. ~(cmd.kind = "expect" /\ cmd.data # <<>> /\ cmd.port = p)
      BY <1>2, <1>7, CommandTypes DEF Expectations, ExpectLines
  <2>2. script'[s].expected[p] = q
    <3>1. CASE cmd.kind = "expect" /\ cmd.data # <<>>
      <4>1. script'[s].expected = [script[s].expected EXCEPT ![cmd.port] = Append(@, cmd.data)]
          BY <3>1, Zenon DEF Reads
      <4>2. cmd.port # p
          BY <2>1, <3>1
      <4>3. p \in DOMAIN script[s].expected
          BY <1>1, Zenon
      <4> QED
          BY <1>1, <4>1, <4>2, <4>3, Zenon
    <3>2. CASE ~(cmd.kind = "expect" /\ cmd.data # <<>>)
        BY <3>2, Zenon DEF Reads
    <3> QED
        BY <3>1, <3>2
  <2>3. Upto(s, p, k) = Upto(s, p, k - 1)
      BY <1>2, <1>7, UptoNext
  <2> QED
      BY <1>3, <1>5, <2>2, <2>3 DEF KeptPort
<1> QED
    BY <1>6, <1>7

LEMMA ReadsFile ==
    ASSUME Typed, NEW s \in Scripts, Reads(s), KeptAny(s), Understood(s)
    PROVE  KeptAny(s)' /\ Understood(s)'
<1> DEFINE k == script[s].line
           cmd == Stf[s][k]
<1>1. /\ script'[s].line = k + 1
      /\ cmd.kind = "cli" => cmd.parses
      /\ script'[s].expectedAny =
            IF cmd.kind = "expect" /\ cmd.data = <<>>
            THEN script[s].expectedAny \cup {cmd.port}
            ELSE script[s].expectedAny
    BY Zenon DEF Reads
<1>2. k \in Nat \ {0} /\ k \in 1..Len(Stf[s]) /\ Len(Stf[s]) \in Nat /\ DOMAIN Stf[s] = 1..Len(Stf[s])
  <2>1. k <= Len(Stf[s])
      BY Zenon DEF Reads
  <2>2. k \in 1..(Len(Stf[s]) + 1) /\ Len(Stf[s]) \in Nat
      BY CommandTypes DEF Typed, TypedBook
  <2> QED
      BY <2>1, <2>2, CommandTypes
<1> HIDE DEF k
<1>3. \A i \in 1..((k + 1) - 1) : i = k \/ i \in 1..(k - 1)
    BY <1>2
<1>4. Understood(s)'
    BY <1>1, <1>3 DEF Understood, k
<1>5. \A j \in ExpectLines(s) : j < k + 1 <=> j < k \/ j = k
    BY <1>2 DEF ExpectLines
<1>6. KeptAny(s)'
  <2> DEFINE A(n) == {j \in ExpectLines(s) : j < n /\ Stf[s][j].data = <<>>}
             P(n) == {Stf[s][i].port : i \in A(n)}
  <2>1. script[s].expectedAny = P(k)
      BY DEF KeptAny, k
  <2>2. CASE cmd.kind = "expect" /\ cmd.data = <<>>
    <3>1. k \in ExpectLines(s)
        BY <1>2, <2>2 DEF ExpectLines
    <3>2. A(k + 1) = A(k) \cup {k}
        BY <1>5, <2>2, <3>1
    <3>3. P(k + 1) = P(k) \cup {cmd.port}
        BY <3>2
    <3> QED
        BY <1>1, <2>1, <2>2, <3>3 DEF KeptAny
  <2>3. CASE ~(cmd.kind = "expect" /\ cmd.data = <<>>)
    <3>1. A(k + 1) = A(k)
        BY <1>5, <2>3 DEF ExpectLines
    <3>2. script'[s].expectedAny = P(k + 1)
        BY <1>1, <2>1, <2>3, <3>1
    <3> QED
        BY <1>1, <3>2 DEF KeptAny
  <2> QED
      BY <2>2, <2>3
<1> QED
    BY <1>4, <1>6

-----------------------------------------------------------------------------
(* From where a script waits for the server on, both sides have opened     *)
(* every pipe.                                                             *)
Opened == InStep /\ \A s \in Scripts : pc[s] \in Connected => AllOpen(s)

LEMMA OpenedKept == ASSUME Typed, Opened, [TestNext]_vars PROVE Opened'
<1>1. InStep'
    BY InStepKept DEF Opened
<1>2. ASSUME NEW s \in Scripts, ScriptKind(s) \/ OutsideKind(s) \/ HarnessKind(s),
             NEW t \in Scripts, pc'[t] \in Connected
      PROVE  /\ script'[t].opened = script[t].opened
             /\ pc[t] \in Connected \/ AllOpen(t)
  <2>1. CASE OutsideKind(s)
      BY <1>2, <2>1 DEF OutsideKind, Outside, Turns, Forwards, Connects, Fails, Applies, SameScripts
  <2>2. CASE ~OutsideKind(s) /\ t # s
      BY <1>2, <2>2 DEF ScriptKind, HarnessKind, Others
  <2>3. CASE ScriptKind(s) /\ t = s
    <3>1. \/ Starts(s) \/ Reads(s) \/ Asks(s) \/ Raised(s) \/ Finishes(s) \/ Checks(s)
          \/ pc'[s] = "killed"
        BY <2>3 DEF ScriptKind
    <3>2. CASE Starts(s)
        BY <1>2, <2>3, <3>2 DEF Starts, OpensAll
    <3>3. CASE Reads(s)
      <4>1. pc[s] = "commands" /\ script'[s].opened = script[s].opened
          BY <3>3, Zenon DEF Reads
      <4> QED
          BY <2>3, <4>1 DEF Connected
    <3>4. CASE Asks(s) \/ Raised(s) \/ Finishes(s) \/ Checks(s) \/ pc'[s] = "killed"
        BY <1>2, <2>3, <3>4 DEF Asks, Raised, Finishes, Checks, Connected
    <3> QED
        BY <3>1, <3>2, <3>3, <3>4
  <2>4. CASE HarnessKind(s) /\ t = s
      BY <1>2, <2>4 DEF HarnessKind, Harness, ChildMoves, GivesUpBefore, CommandRan, Accepted,
         Passed, Leaves, Connected
  <2> QED
      BY <1>2, <2>1, <2>2, <2>3, <2>4, SMTT(30)
<1>3. CASE UNCHANGED vars
    BY <1>1, <1>3 DEF vars, runVars, Opened, AllOpen
<1> QED
    BY <1>1, <1>2, <1>3, Kinds DEF Opened, AllOpen

(* How far a script has come, and what a success of it has stood on.       *)
Met(s, p) ==
    IF Anything(s, p) THEN Expectations(s, p) = {}
    ELSE /\ Cardinality(Expectations(s, p)) = Len(switch[s].out[p])
         /\ \A i \in Expectations(s, p) :
              comparePacket(Stf[s][i].data, switch[s].out[p][Place(s, p, i)])
Compiled(s) ==
    /\ s \in Direct => pc[s] \notin {"init", "compile"}
    /\ pc[s] = "compile" => ran[s] = opts[s].init
    /\ s \notin Direct /\ pc[s] \in Starting \cup {"commands", "stopping", "check"} =>
         ran[s] = opts[s].init /\ ~opts[s].errors /\ compiled[s] = "SUCCESS"
Kept(s) ==
    /\ pc[s] \in Early \cup {"commands", "stopping", "check"} => KeptAny(s) /\ Understood(s)
    /\ pc[s] \in Early \cup {"commands", "stopping"} => \A p \in Interfaces(s) : KeptPort(s, p)
    /\ pc[s] = "stopping" => script[s].line > Len(Stf[s])
Compared(s) ==
    pc[s] = "check" =>
        /\ ~Live(s) /\ script[s].line = Len(Stf[s]) + 1
        /\ \A p \in Interfaces(s) :
             IF p \in script[s].unchecked THEN KeptPort(s, p) ELSE Met(s, p)
Sound(s) ==
    /\ s \notin Direct => ran[s] = opts[s].init
    /\ \/ /\ s \notin Direct
          /\ opts[s].errors
          /\ compiled[s] \in {"error", "signal", "terminated"}
       \/ /\ s \in Direct \/ (~opts[s].errors /\ compiled[s] = "SUCCESS")
          /\ s \in Direct \/ (opts[s].hasBMv2 /\ opts[s].stf) => Meets(s) /\ ~Live(s)
Judged(s) ==
    pc[s] \in {"returned", "exited"} /\ script[s].verdict = "SUCCESS" => Sound(s)
Fair(s) == Compiled(s) /\ Kept(s) /\ Compared(s) /\ Judged(s)

(* A step that leaves a script where it is, and the packets of its switch  *)
(* if that has stopped.                                                    *)
Idle(s) ==
    /\ pc'[s] \in {pc[s], "killed"} /\ script'[s] = script[s]
    /\ opts'[s] = opts[s] /\ ran'[s] = ran[s] /\ compiled'[s] = compiled[s]
    /\ ~Live(s) => ~Live(s)' /\ switch'[s].out = switch[s].out

LEMMA MeetsMet ==
    ASSUME NEW s
    PROVE  Meets(s) <=> /\ \A i \in DOMAIN Stf[s] : Stf[s][i].kind = "cli" => Stf[s][i].parses
                        /\ \A p \in Interfaces(s) : Met(s, p)
BY Zenon DEF Meets, Met

LEMMA SameMet ==
    ASSUME NEW s, switch'[s].out = switch[s].out
    PROVE  (\A p : Met(s, p)' <=> Met(s, p)) /\ (Meets(s)' <=> Meets(s))
<1>1. \A p : Met(s, p)' <=> Met(s, p)
    BY DEF Met
<1>2. Meets(s)' <=> Meets(s)
    BY DEF Meets
<1> QED
    BY <1>1, <1>2

LEMMA IdleFair == ASSUME NEW s \in Scripts, Fair(s), Idle(s) PROVE Fair(s)'
<1>1. CASE pc'[s] = "killed"
    BY <1>1 DEF Fair, Compiled, Kept, Compared, Judged, Early, Starting
<1>2. CASE pc'[s] = pc[s]
  <2>1. /\ script'[s] = script[s] /\ opts'[s] = opts[s] /\ ran'[s] = ran[s]
        /\ compiled'[s] = compiled[s]
      BY DEF Idle
  <2>2. Compiled(s)'
      BY <1>2, <2>1 DEF Fair, Compiled
  <2>3. /\ KeptAny(s)' <=> KeptAny(s)
        /\ Understood(s)' <=> Understood(s)
        /\ \A p : KeptPort(s, p)' <=> KeptPort(s, p)
      BY <2>1 DEF KeptAny, Understood, KeptPort
  <2>4. Kept(s)'
      BY <1>2, <2>1, <2>3 DEF Fair, Kept
  <2>5. Compared(s)'
    <3> SUFFICES ASSUME pc[s] = "check"
                 PROVE  /\ ~Live(s)' /\ script'[s].line = Len(Stf[s]) + 1
                        /\ \A p \in Interfaces(s) :
                             IF p \in script'[s].unchecked THEN KeptPort(s, p)' ELSE Met(s, p)'
        BY <1>2 DEF Compared
    <3>1. /\ ~Live(s) /\ script[s].line = Len(Stf[s]) + 1
          /\ \A p \in Interfaces(s) :
               IF p \in script[s].unchecked THEN KeptPort(s, p) ELSE Met(s, p)
        BY DEF Fair, Compared
    <3>2. ~Live(s)' /\ \A p : Met(s, p)' <=> Met(s, p)
        BY <3>1, SameMet DEF Idle
    <3> QED
        BY <2>1, <2>3, <3>1, <3>2
  <2>6. Judged(s)'
    <3> SUFFICES ASSUME Sound(s) PROVE Sound(s)'
        BY <1>2, <2>1 DEF Fair, Judged
    <3>1. Meets(s) /\ ~Live(s) => Meets(s)' /\ ~Live(s)'
        BY SameMet DEF Idle
    <3> QED
        BY <2>1, <3>1 DEF Sound
  <2> QED
      BY <2>2, <2>4, <2>5, <2>6 DEF Fair
<1> QED
    BY <1>1, <1>2 DEF Idle

LEMMA StartsFair ==
    ASSUME NEW s \in Scripts, Fair(s), UNCHANGED testVars, Starts(s) PROVE Fair(s)'
<1>1. /\ pc[s] \in Starting /\ pc'[s] \in Starting \cup {"commands", "returned"}
      /\ pc'[s] = "returned" => script'[s].verdict \in {"FAILURE", "raised"}
      /\ SameBook(s)
    BY DEF Starts
<1>2. opts' = opts /\ ran' = ran /\ compiled' = compiled
    BY DEF testVars
<1>3. Compiled(s)'
    BY <1>1, <1>2 DEF Fair, Compiled, Starting
<1>4. Kept(s)'
  <2>1. KeptAny(s) /\ Understood(s) /\ \A p \in Interfaces(s) : KeptPort(s, p)
      BY <1>1 DEF Fair, Kept, Early
  <2>2. KeptAny(s)' /\ Understood(s)' /\ \A p \in Interfaces(s) : KeptPort(s, p)'
      BY <1>1, <2>1 DEF SameBook, KeptAny, Understood, KeptPort
  <2> QED
      BY <1>1, <2>2 DEF Kept, Starting
<1>5. Compared(s)' /\ Judged(s)'
    BY <1>1 DEF Compared, Judged, Starting
<1> QED
    BY <1>3, <1>4, <1>5 DEF Fair

LEMMA ReadsFair ==
    ASSUME Typed, NEW s \in Scripts, Fair(s), UNCHANGED testVars, Reads(s) PROVE Fair(s)'
<1>1. pc[s] = "commands" /\ pc'[s] = "commands"
    BY Zenon DEF Reads
<1>2. opts' = opts /\ ran' = ran /\ compiled' = compiled
    BY DEF testVars
<1>3. Compiled(s)'
    BY <1>1, <1>2 DEF Fair, Compiled
<1>4. KeptAny(s) /\ Understood(s) /\ \A p \in Interfaces(s) : KeptPort(s, p)
    BY <1>1 DEF Fair, Kept
<1>5. KeptAny(s)' /\ Understood(s)' /\ \A p \in Interfaces(s) : KeptPort(s, p)'
    BY <1>4, ReadsFile, ReadsPort
<1>6. Compared(s)' /\ Judged(s)'
    BY <1>1 DEF Compared, Judged
<1> QED
    BY <1>1, <1>3, <1>5, <1>6 DEF Fair, Kept

LEMMA FinishesFair ==
    ASSUME Typed, Opened, NEW s \in Scripts, Fair(s), UNCHANGED testVars, Finishes(s)
    PROVE  Fair(s)'
<1>1. /\ pc[s] = "stopping" /\ pc'[s] = "check" /\ script[s].line > Len(Stf[s])
      /\ script'[s].unchecked = {interfaceArgs(s)[i] : i \in 1..switch[s].opened}
      /\ SameBook(s) /\ ~Live(s) /\ switch' = switch
    BY DEF Finishes, Fair, Kept
<1>2. Compiled(s)'
    BY <1>1 DEF Fair, Compiled, testVars
<1>3. KeptAny(s) /\ Understood(s) /\ \A p \in Interfaces(s) : KeptPort(s, p)
    BY <1>1 DEF Fair, Kept
<1>4. KeptAny(s)' /\ Understood(s)' /\ \A p \in Interfaces(s) : KeptPort(s, p)'
    BY <1>1, <1>3 DEF SameBook, KeptAny, Understood, KeptPort
<1>5. script'[s].unchecked = Interfaces(s)
  <2>1. switch[s].opened = Len(sortedInterfaces(s))
      BY <1>1 DEF Opened, InStep, Connected, AllOpen
  <2> QED
      BY <1>1, <2>1, SortedAll
<1>6. ~Live(s)'
    BY <1>1 DEF Live
<1>7. script'[s].line = Len(Stf[s]) + 1
  <2>1. script[s].line \in 1..(Len(Stf[s]) + 1) /\ Len(Stf[s]) \in Nat
      BY CommandTypes DEF Typed, TypedBook
  <2> QED
      BY <1>1, <2>1 DEF SameBook
<1>8. Compared(s)'
    BY <1>4, <1>5, <1>6, <1>7 DEF Compared
<1>9. Judged(s)'
    BY <1>1 DEF Judged
<1> QED
    BY <1>1, <1>2, <1>4, <1>8, <1>9 DEF Fair, Kept

(* An interface that passes the comparison carried what the file asks for. *)
LEMMA PassesMet ==
    ASSUME NEW s \in Scripts, NEW p, KeptPort(s, p), KeptAny(s),
           script[s].line = Len(Stf[s]) + 1,
           IF p \in script[s].expectedAny THEN script[s].expected[p] = <<>>
           ELSE /\ SameCount(script[s].expected[p], switch[s].out[p])
                /\ AllCompare(script[s].expected[p], switch[s].out[p])
    PROVE  Met(s, p)
<1> DEFINE q == script[s].expected[p]
           out == switch[s].out[p]
<1>1. Len(Stf[s]) \in Nat /\ DOMAIN Stf[s] = 1..Len(Stf[s])
    BY CommandTypes
<1>2. script[s].line - 1 = Len(Stf[s])
    BY <1>1
<1>3. /\ Len(q) = Cardinality(Expectations(s, p))
      /\ \A i \in Expectations(s, p) :
           Place(s, p, i) \in DOMAIN q /\ q[Place(s, p, i)] = Stf[s][i].data
    BY <1>2, UptoAll DEF KeptPort
<1>4. p \in script[s].expectedAny <=> Anything(s, p)
  <2>1. \A j \in ExpectLines(s) : j < script[s].line
      BY <1>1 DEF ExpectLines
  <2> QED
      BY <2>1, Zenon DEF KeptAny, Anything
<1>5. CASE Anything(s, p)
  <2>1. q = <<>>
      BY <1>4, <1>5
  <2>2. Len(q) = 0
      BY <2>1
  <2>3. Expectations(s, p) = {}
      BY <1>3, <2>2, UptoFinite, FS_EmptySet
  <2> QED
      BY <1>5, <2>3 DEF Met
<1>6. CASE ~Anything(s, p)
  <2>1. SameCount(q, out) /\ AllCompare(q, out)
      BY <1>4, <1>6
  <2>2. Cardinality(Expectations(s, p)) = Len(out)
      BY <1>3, <2>1 DEF SameCount
  <2>3. \A i \in Expectations(s, p) : comparePacket(Stf[s][i].data, out[Place(s, p, i)])
    <3> SUFFICES ASSUME NEW i \in Expectations(s, p)
                 PROVE  comparePacket(Stf[s][i].data, out[Place(s, p, i)])
        OBVIOUS
    <3>1. PICK n : n = Place(s, p, i)
        OBVIOUS
    <3>2. n \in DOMAIN q /\ q[n] = Stf[s][i].data
        BY <1>3, <3>1
    <3>3. comparePacket(q[n], out[n])
        BY <2>1, <3>2, Zenon DEF AllCompare
    <3> QED
        BY <3>1, <3>2, <3>3
  <2> QED
      BY <1>6, <2>2, <2>3 DEF Met
<1> QED
    BY <1>5, <1>6

LEMMA ChecksFair ==
    ASSUME Typed, NEW s \in Scripts, Fair(s), UNCHANGED testVars, Checks(s) PROVE Fair(s)'
<1>1. pc[s] = "check" /\ switch' = switch
    BY DEF Checks
<1>2. opts' = opts /\ ran' = ran /\ compiled' = compiled
    BY DEF testVars
<1>3. /\ KeptAny(s) /\ Understood(s) /\ ~Live(s) /\ script[s].line = Len(Stf[s]) + 1
      /\ \A p \in Interfaces(s) :
           IF p \in script[s].unchecked THEN KeptPort(s, p) ELSE Met(s, p)
    BY <1>1 DEF Fair, Kept, Compared
<1>4. CASE pc'[s] = "check"
  <2>1. PICK p \in script[s].unchecked :
               /\ script'[s].unchecked = script[s].unchecked \ {p}
               /\ script'[s].expected = [script[s].expected EXCEPT ![p] = <<>>]
               /\ IF p \in script[s].expectedAny THEN script[s].expected[p] = <<>>
                  ELSE /\ SameCount(script[s].expected[p], switch[s].out[p])
                       /\ AllCompare(script[s].expected[p], switch[s].out[p])
      BY <1>4 DEF Checks
  <2>2. script'[s].line = script[s].line /\ script'[s].expectedAny = script[s].expectedAny
      BY DEF Checks
  <2>3. Compiled(s)'
      BY <1>1, <1>2, <1>4 DEF Fair, Compiled
  <2>4. KeptAny(s)' /\ Understood(s)'
      BY <1>3, <2>2 DEF KeptAny, Understood
  <2>5. ASSUME NEW r \in Interfaces(s)
        PROVE  IF r \in script'[s].unchecked THEN KeptPort(s, r)' ELSE Met(s, r)'
    <3>1. Met(s, r)' <=> Met(s, r)
        BY <1>1, SameMet
    <3>2. CASE r = p
      <4>1. Met(s, p)
          BY <1>3, <2>1, <3>2, PassesMet
      <4> QED
          BY <2>1, <3>1, <3>2, <4>1
    <3>3. CASE r # p
      <4>1. r \in script'[s].unchecked <=> r \in script[s].unchecked
          BY <2>1, <3>3
      <4>2. script'[s].expected[r] = script[s].expected[r]
        <5>1. DOMAIN script[s].expected = Interfaces(s)
            BY DEF Typed, TypedBook
        <5> QED
            BY <2>1, <3>3, <5>1, Zenon
      <4>3. KeptPort(s, r)' <=> KeptPort(s, r)
          BY <2>2, <4>2 DEF KeptPort
      <4> QED
          BY <1>3, <3>1, <4>1, <4>3
    <3> QED
        BY <3>2, <3>3
  <2>6. Compared(s)'
      BY <1>1, <1>3, <2>2, <2>5 DEF Compared, Live
  <2>7. Judged(s)'
      BY <1>4 DEF Judged
  <2> QED
      BY <1>4, <2>3, <2>4, <2>6, <2>7 DEF Fair, Kept, Early, Starting
<1>5. CASE pc'[s] = "returned"
  <2>1. Compiled(s)' /\ Kept(s)' /\ Compared(s)'
      BY <1>5 DEF Compiled, Kept, Compared, Early, Starting
  <2>2. script'[s].verdict = "SUCCESS" => script[s].unchecked = {}
      BY <1>5 DEF Checks
  <2>3. ASSUME script[s].unchecked = {} PROVE Sound(s)'
    <3>1. \A p \in Interfaces(s) : Met(s, p)
        BY <1>3, <2>3
    <3>2. \A i \in DOMAIN Stf[s] : Stf[s][i].kind = "cli" => Stf[s][i].parses
      <4>1. script[s].line - 1 = Len(Stf[s]) /\ DOMAIN Stf[s] = 1..Len(Stf[s])
          BY <1>3, CommandTypes
      <4> QED
          BY <1>3, <4>1 DEF Understood
    <3>3. Meets(s)' /\ ~Live(s)'
        BY <1>1, <1>3, <3>1, <3>2, MeetsMet, SameMet DEF Live
    <3>4. s \notin Direct => ran[s] = opts[s].init /\ ~opts[s].errors /\ compiled[s] = "SUCCESS"
        BY <1>1 DEF Fair, Compiled
    <3> QED
        BY <1>2, <3>3, <3>4 DEF Sound
  <2> QED
      BY <2>1, <2>2, <2>3 DEF Fair, Judged
<1> QED
    BY <1>4, <1>5 DEF Checks

LEMMA AsksFair ==
    ASSUME NEW s \in Scripts, Fair(s), UNCHANGED testVars, Asks(s) PROVE Fair(s)'
<1>1. /\ pc[s] = "commands" /\ pc'[s] \in {"raising", "stopping"}
      /\ pc'[s] = "stopping" => script[s].line > Len(Stf[s])
      /\ script' = script /\ opts' = opts /\ ran' = ran /\ compiled' = compiled
    BY DEF Asks, testVars
<1>2. Compiled(s)'
    BY <1>1 DEF Fair, Compiled, Starting
<1>3. KeptAny(s) /\ Understood(s) /\ \A p \in Interfaces(s) : KeptPort(s, p)
    BY <1>1 DEF Fair, Kept
<1>4. KeptAny(s)' /\ Understood(s)' /\ \A p \in Interfaces(s) : KeptPort(s, p)'
    BY <1>1, <1>3 DEF KeptAny, Understood, KeptPort
<1> QED
    BY <1>1, <1>2, <1>4 DEF Fair, Kept, Compared, Judged

LEMMA RaisedFair ==
    ASSUME NEW s \in Scripts, Raised(s) PROVE Fair(s)'
BY DEF Raised, Fair, Compiled, Kept, Compared, Judged, Early, Starting

LEMMA HarnessFair ==
    ASSUME NEW s \in Scripts, Fair(s), Harness(s), Others(s) PROVE Fair(s)'
<1>1. switch' = switch /\ opts' = opts /\ SameBook(s)
    BY DEF Harness
<1>2. /\ KeptAny(s)' <=> KeptAny(s)
      /\ Understood(s)' <=> Understood(s)
      /\ \A p : KeptPort(s, p)' <=> KeptPort(s, p)
    BY <1>1 DEF SameBook, KeptAny, Understood, KeptPort
<1>3. Meets(s)' /\ ~Live(s)' <=> Meets(s) /\ ~Live(s)
    BY <1>1, SameMet DEF Live
<1>4. CASE ChildMoves(s)
    BY <1>1, <1>4, IdleFair DEF ChildMoves, Idle, Live
<1>5. CASE GivesUpBefore(s)
    BY <1>5 DEF GivesUpBefore, Fair, Compiled, Kept, Compared, Judged, Early, Starting
<1>6. CASE CommandRan(s)
  <2>1. /\ pc[s] = "init" /\ pc'[s] \in {"init", "compile"}
        /\ pc'[s] = "compile" => ran'[s] = opts'[s].init
      BY <1>1, <1>6 DEF CommandRan
  <2>2. Compiled(s)'
      BY <2>1 DEF Fair, Compiled, Starting
  <2>3. Kept(s)' /\ Compared(s)' /\ Judged(s)'
      BY <1>2, <2>1 DEF Fair, Kept, Compared, Judged, Early
  <2> QED
      BY <2>2, <2>3 DEF Fair
<1>7. CASE Accepted(s)
  <2>1. /\ pc[s] = "compile" /\ pc'[s] = "lock" /\ ran' = ran
        /\ ~opts[s].errors /\ compiled'[s] = "SUCCESS"
      BY <1>7 DEF Accepted
  <2>2. Compiled(s)'
      BY <1>1, <2>1 DEF Fair, Compiled
  <2>3. Kept(s)' /\ Compared(s)' /\ Judged(s)'
      BY <1>2, <2>1 DEF Fair, Kept, Compared, Judged, Early, Starting
  <2> QED
      BY <2>2, <2>3 DEF Fair
<1>8. CASE Passed(s)
  <2>1. /\ pc[s] = "compile" /\ pc'[s] = "returned" /\ ran' = ran
        /\ \/ opts[s].errors /\ compiled'[s] \in {"error", "signal", "terminated"}
           \/ /\ ~opts[s].errors /\ compiled'[s] = "SUCCESS"
              /\ ~(opts[s].hasBMv2 /\ opts[s].stf)
      BY <1>8 DEF Passed
  <2>2. s \notin Direct /\ ran[s] = opts[s].init
      BY <2>1 DEF Fair, Compiled
  <2>3. Sound(s)'
      BY <1>1, <2>1, <2>2 DEF Sound
  <2> QED
      BY <2>1, <2>3 DEF Fair, Compiled, Kept, Compared, Judged, Early, Starting
<1>9. CASE Leaves(s)
  <2>1. /\ pc[s] = "returned" /\ pc'[s] = "exited" /\ ran' = ran /\ compiled' = compiled
        /\ script'[s].verdict = "SUCCESS" => script[s].verdict = "SUCCESS"
      BY <1>9 DEF Leaves
  <2>2. Sound(s) => Sound(s)'
      BY <1>1, <1>3, <2>1 DEF Sound
  <2> QED
      BY <2>1, <2>2 DEF Fair, Compiled, Kept, Compared, Judged, Early, Starting
<1> QED
    BY <1>4, <1>5, <1>6, <1>7, <1>8, <1>9 DEF Harness

(* What other scripts, and the programs outside, do to a script.           *)
LEMMA OthersIdle ==
    ASSUME NEW s \in Scripts, NEW t \in Scripts \ {s},
           ScriptKind(s) \/ HarnessKind(s)
    PROVE  Idle(t)
<1>1. Others(s) /\ opts'[t] = opts[t] /\ ran'[t] = ran[t] /\ compiled'[t] = compiled[t]
    BY DEF ScriptKind, HarnessKind, testVars, Harness, ChildMoves, GivesUpBefore, CommandRan,
       Accepted, Passed, Leaves
<1> QED
    BY <1>1 DEF Others, Idle, Live

LEMMA OutsideIdle ==
    ASSUME NEW s \in Scripts, NEW t \in Scripts, OutsideKind(s) PROVE Idle(t)
<1>1. script' = script /\ pc' = pc /\ opts' = opts /\ ran' = ran /\ compiled' = compiled
    BY DEF OutsideKind, testVars, Outside, Turns, Forwards, Connects, Fails, Applies, SameScripts
<1>2. ~Live(t) => ~Live(t)' /\ switch'[t].out = switch[t].out
  <2>1. CASE Turns(s) \/ Forwards(s)
      BY <2>1 DEF Turns, Forwards, Live
  <2>2. CASE Connects(s) \/ Fails(s) \/ Applies(s)
      BY <2>2 DEF Connects, Fails, Applies, Live
  <2> QED
      BY <2>1, <2>2 DEF OutsideKind, Outside
<1> QED
    BY <1>1, <1>2 DEF Idle

LEMMA FairFirst == ASSUME TestInit, NEW s \in Scripts PROVE Fair(s)
<1>1. /\ script[s].line = 1 /\ script[s].expectedAny = {}
      /\ script[s].expected = [p \in Interfaces(s) |-> <<>>]
    BY DEF TestInit, RunInit
<1>2. KeptAny(s)
  <2>1. DOMAIN Stf[s] = 1..Len(Stf[s])
      BY CommandTypes
  <2> QED
      BY <1>1, <2>1 DEF KeptAny, ExpectLines
<1>3. Understood(s)
    BY <1>1 DEF Understood
<1>4. ASSUME NEW p \in Interfaces(s) PROVE KeptPort(s, p)
  <2>1. Upto(s, p, script[s].line - 1) = {} /\ Len(script[s].expected[p]) = 0
      BY <1>1, UptoNone
  <2> QED
      BY <2>1, FS_EmptySet DEF KeptPort
<1>5. opts[s].init \in Nat /\ ran[s] = 0
    BY OptionTypes DEF TestInit
<1>6. pc[s] = IF s \in Direct THEN "lock" ELSE IF opts[s].init > 0 THEN "init" ELSE "compile"
    BY DEF TestInit
<1>7. Compiled(s)
    BY <1>5, <1>6 DEF Compiled, Starting
<1>8. Compared(s) /\ Judged(s)
    BY <1>6 DEF Compared, Judged
<1> QED
    BY <1>2, <1>3, <1>4, <1>6, <1>7, <1>8 DEF Fair, Kept

(* A test that succeeds has earned it, for any STF file, any options and   *)
(* whatever the compiler, the switch and the client do (process_file,      *)
(* run_model, do_command, checkOutputs).                                   *)
THEOREM VerdictSoundHolds == TestSpec => []VerdictSound
<1> DEFINE FairInv == Typed /\ Opened /\ \A s \in Scripts : Fair(s)
<1>1. TestInit => FairInv
  <2> SUFFICES ASSUME TestInit PROVE FairInv
      OBVIOUS
  <2>1. \A s \in Scripts : pc[s] \notin Connected
      BY DEF TestInit, Connected
  <2> QED
      BY <2>1, TypedFirst, InStepFirst, FairFirst DEF Opened
<1>2. FairInv /\ [TestNext]_vars => FairInv'
  <2> SUFFICES ASSUME FairInv, [TestNext]_vars PROVE FairInv'
      OBVIOUS
  <2>1. Typed' /\ Opened'
      BY TypedKept, OpenedKept
  <2>2. ASSUME NEW s \in Scripts, ScriptKind(s) \/ OutsideKind(s) \/ HarnessKind(s), NEW t \in Scripts
        PROVE  Fair(t)'
    <3>1. CASE OutsideKind(s)
        BY <3>1, OutsideIdle, IdleFair
    <3>2. CASE ~OutsideKind(s) /\ t # s
        BY <2>2, <3>2, OthersIdle, IdleFair
    <3>3. CASE HarnessKind(s) /\ t = s
        BY <3>3, HarnessFair DEF HarnessKind
    <3>4. CASE ScriptKind(s) /\ t = s
      <4>1. UNCHANGED testVars
          BY <3>4 DEF ScriptKind
      <4>2. CASE pc'[s] = "killed" /\ script' = script /\ switch' = switch /\ cli' = cli
        <5>1. Idle(s)
            BY <4>1, <4>2 DEF testVars, Idle, Live
        <5> QED
            BY <3>4, <5>1, IdleFair
      <4>3. CASE Starts(s) \/ Reads(s) \/ Asks(s) \/ Raised(s) \/ Finishes(s) \/ Checks(s)
          BY <3>4, <4>1, <4>3, StartsFair, ReadsFair, AsksFair, RaisedFair, FinishesFair, ChecksFair
      <4> QED
          BY <3>4, <4>2, <4>3 DEF ScriptKind
    <3> QED
        BY <2>2, <3>1, <3>2, <3>3, <3>4
  <2>3. CASE UNCHANGED vars
    <3>1. \A s \in Scripts : Idle(s)
        BY <2>3 DEF vars, runVars, testVars, Idle, Live
    <3> QED
        BY <2>1, <3>1, IdleFair
  <2> QED
      BY <2>1, <2>2, <2>3, Kinds
<1>3. FairInv => VerdictSound
    BY DEF Fair, Judged, Sound, VerdictSound
<1> QED
    BY <1>1, <1>2, <1>3, PTL DEF TestSpec
=============================================================================
