---------------------------- MODULE Bmv2Test ----------------------------
(***************************************************************************)
(* run-bmv2-test.py, the script that tests one P4 program: it runs the     *)
(* initialisation commands, compiles the program in a temporary directory, *)
(* decides what the exit of the compiler means, and has RunBMV2 (Bmv2Run)  *)
(* try the compiled program on a switch.  A script may also be bmv2stf.py  *)
(* itself, started by hand on a program that is already compiled.          *)
(*                                                                         *)
(* A child process runs in a thread that starts it and waits for it        *)
(* (run_timeout); the script waits for the thread, at most for a time.     *)
(***************************************************************************)
EXTENDS Bmv2Run

CONSTANTS
    Direct,      \* the scripts that are bmv2stf.py started by hand
    OptionSet    \* for each script, the options and files it may be given:
                 \*   errors   the program is one that should be rejected
                 \*   hasBMv2  config.h names a switch
                 \*   stf      there is an STF file for it, or an empty one
                 \*   init     the number of initialisation commands
                 \*   cleanup  the temporary directory is to be removed

ASSUME OptionsAssumption ==
    \A s \in Scripts : OptionSet[s] \subseteq
        [errors : BOOLEAN, hasBMv2 : BOOLEAN, stf : BOOLEAN, init : Nat, cleanup : BOOLEAN]

VARIABLES
    opts,        \* the options of each script
    child,       \* the thread and process of run_timeout
    ran,         \* how many initialisation commands have succeeded
    compiled,    \* how the compiler ended, "none" while it has not
    tmpdir       \* whether the temporary directory of each script exists

testVars == <<opts, child, ran, compiled, tmpdir>>
vars == <<runVars, testVars>>

(* How a child process ends: exit 0, another exit, another exit with the  *)
(* words "Compiler Bug" on standard error, a crash, or run_timeout's       *)
(* terminate().                                                            *)
Ends == {"SUCCESS", "error", "bug", "signal", "terminated"}

TestInit ==
    /\ RunInit
    /\ opts \in [Scripts -> UNION Range(OptionSet)]
    /\ \A s \in Scripts : opts[s] \in OptionSet[s]
    /\ child = [s \in Scripts |-> "none"]
    /\ ran = [s \in Scripts |-> 0]
    /\ compiled = [s \in Scripts |-> "none"]
    /\ tmpdir = [s \in Scripts |-> s \in Direct]
    /\ pc = [s \in Scripts |->
                IF s \in Direct THEN "lock"
                ELSE IF opts[s].init > 0 THEN "init" ELSE "compile"]

-----------------------------------------------------------------------------
(* run_timeout, for an initialisation command or the compiler.             *)

Launch(s) ==
    /\ pc[s] \in {"init", "compile"}
    /\ child[s] = "none"
    /\ child' = [child EXCEPT ![s] = "unborn"]
    /\ tmpdir' = [tmpdir EXCEPT ![s] = @ \/ pc[s] = "compile"]     \* mkdtemp
    /\ UNCHANGED <<runVars, opts, ran, compiled>>

ChildStarts(s) ==
    /\ child[s] = "unborn"
    /\ child' = [child EXCEPT ![s] = "running"]
    /\ UNCHANGED <<runVars, opts, ran, compiled, tmpdir>>

(* Popen raises in the thread: the thread ends, there is no process, and   *)
(* run_timeout returns -1.                                                 *)
ChildFailsToStart(s) ==
    /\ child[s] = "unborn"
    /\ child' = [child EXCEPT ![s] = "error"]
    /\ UNCHANGED <<runVars, opts, ran, compiled, tmpdir>>

(* A child that was terminated may still end in a way of its own.          *)
ChildEnds(s) ==
    /\ \/ /\ child[s] = "running"
          /\ \E e \in Ends \ {"terminated"} : child' = [child EXCEPT ![s] = e]
       \/ /\ child[s] = "terminating"
          /\ \E e \in Ends : child' = [child EXCEPT ![s] = e]
    /\ UNCHANGED <<runVars, opts, ran, compiled, tmpdir>>

(* terminate() asks a running child to end, and the thread is waited for   *)
(* without a limit.  On a process that was not started yet terminate() is  *)
(* an exception; the thread goes on, and starts the child after all.       *)
TimesOut(s) ==
    /\ pc[s] \in {"init", "compile"}
    /\ CASE child[s] = "running" ->
              /\ child' = [child EXCEPT ![s] = "terminating"]
              /\ UNCHANGED <<pc, script>>
         [] child[s] = "unborn" ->
              /\ pc' = [pc EXCEPT ![s] = "returned"]
              /\ script' = [script EXCEPT ![s].verdict = "raised"]
              /\ UNCHANGED child
         [] OTHER -> FALSE
    /\ UNCHANGED <<locks, slot, switch, cli, opts, ran, compiled, tmpdir>>

run_init_commands(s) ==
    /\ pc[s] = "init"
    /\ child[s] \in Ends
    /\ child' = [child EXCEPT ![s] = "none"]
    /\ IF child[s] # "SUCCESS"
       THEN /\ Verdict(s, "FAILURE")
            /\ UNCHANGED ran
       ELSE /\ ran' = [ran EXCEPT ![s] = @ + 1]
            /\ pc' = [pc EXCEPT ![s] =
                        IF ran[s] + 1 = opts[s].init THEN "compile" ELSE @]
            /\ UNCHANGED script
    /\ UNCHANGED <<locks, slot, switch, cli, opts, compiled, tmpdir>>

(* What process_file makes of the compiler's exit: the result is inverted  *)
(* for a program that should be rejected, after compiler bugs are sorted   *)
(* out by the words they leave on standard error.                          *)
ResultOf(s, end) ==
    CASE end = "bug" -> "FAILURE"
      [] end # "bug" /\ opts[s].errors ->
            IF end = "SUCCESS" THEN "FAILURE" ELSE "SUCCESS"
      [] OTHER -> IF end = "SUCCESS" THEN "model" ELSE "FAILURE"

(* A compiler bug is the only verdict that skips the removal of tmpdir.    *)
process_file(s) ==
    /\ pc[s] = "compile"
    /\ child[s] \in Ends
    /\ child' = [child EXCEPT ![s] = "none"]
    /\ compiled' = [compiled EXCEPT ![s] = child[s]]
    /\ LET result == ResultOf(s, child[s]) IN
       CASE result = "model" /\ opts[s].hasBMv2 /\ opts[s].stf ->
              /\ pc' = [pc EXCEPT ![s] = "lock"]
              /\ UNCHANGED script
         [] result = "model" /\ ~(opts[s].hasBMv2 /\ opts[s].stf) ->
              Verdict(s, "SUCCESS")
         [] OTHER -> Verdict(s, result)
    /\ UNCHANGED <<locks, slot, switch, cli, opts, ran, tmpdir>>

(* A thread of run_timeout that has not come to its end.                   *)
Threaded(s) == child[s] \in {"unborn", "running", "terminating"}

(* The end of process_file or of bmv2stf.main: an exception leaves the     *)
(* temporary directory behind, and main turns it into a failure.  The      *)
(* interpreter ends when its threads have.                                 *)
Exit(s) ==
    /\ pc[s] = "returned"
    /\ ~Threaded(s)
    /\ pc' = [pc EXCEPT ![s] = "exited"]
    /\ tmpdir' = [tmpdir EXCEPT ![s] =
            @ /\ ~( /\ script[s].verdict # "raised"
                    /\ compiled[s] # "bug"
                    /\ opts[s].cleanup)]
    /\ script' = [script EXCEPT ![s].verdict =
            IF @ = "raised" THEN "FAILURE" ELSE @]
    /\ UNCHANGED <<locks, slot, switch, cli, opts, child, ran, compiled>>

-----------------------------------------------------------------------------
HarnessStep(s) ==
    \/ Launch(s) \/ TimesOut(s) \/ run_init_commands(s) \/ process_file(s)
    \/ Exit(s)

ChildStep(s) == ChildStarts(s) \/ ChildFailsToStart(s) \/ ChildEnds(s)

TestNext ==
    \/ RunNext /\ UNCHANGED testVars
    \/ \E s \in Scripts : HarnessStep(s) \/ ChildStep(s)

(* The scripts are scheduled, their timers go off, and the client answers  *)
(* or fails.  Nothing is assumed of the switch or of the compiler, not     *)
(* even that they end when they are terminated.                            *)
Fairness ==
    \A s \in Scripts :
        /\ WF_vars(HarnessStep(s))
        /\ WF_vars(ScriptStep(s) /\ UNCHANGED testVars)
        /\ WF_vars(CliStep(s) /\ UNCHANGED testVars)

TestSpec == TestInit /\ [][TestNext]_vars /\ Fairness

-----------------------------------------------------------------------------
(* The shape of the state: of the scripts, of their processes and of what  *)
(* they share.                                                             *)
TypeOK ==
    /\ locks \subseteq Slots
    /\ pc \in [Scripts -> {"init", "compile", "lock", "spawn", "open", "wait",
            "client", "commands", "raising", "stopping", "check", "returned",
            "exited", "killed"}]
    /\ slot \in [Scripts -> Slots \cup {NoSlot}]
    /\ \A s \in Scripts :
         /\ script[s].tries \in 0..Tries
         /\ script[s].alarms \in 0..Patience
         /\ script[s].line \in 1..(Len(Stf[s]) + 1)
         /\ script[s].delay \in {0, 1}
         /\ script[s].verdict \in {"none", "SUCCESS", "FAILURE", "raised"}
         /\ switch[s].state \in
              {"none", "booting", "serving", "failed", "stopped"}
         /\ cli[s].state \in {"none", "started", "connected", "failed", "stopped"}
         /\ \A p \in Interfaces(s) : switch[s].out[p] \in Seq(Emitted)
         /\ child[s] \in {"none", "unborn", "running", "terminating"} \cup Ends
         /\ ran[s] \in 0..opts[s].init

(* A lock directory belongs to one script, which removes it however run()  *)
(* ends; only a script that is killed leaves one (generate and release of  *)
(* ConcurrentInteger, the finally clause of run).                          *)
LockOwner ==
    /\ \A s \in Scripts : Held(s) => slot[s] \in locks
    /\ \A s, t \in Scripts : Held(s) /\ Held(t) /\ s # t => slot[s] # slot[t]
    /\ \A n \in locks : \E s \in Scripts :
            slot[s] = n /\ (Held(s) \/ pc[s] = "killed")

(* While both sides are opening the named pipes they are at the same one:  *)
(* each opens the next pipe and waits for the other side of it, so two     *)
(* different pipes would be waited for until the script gives up (the      *)
(* DANGER comment in run).                                                 *)
NoFifoDeadlock ==
    \A s \in Scripts :
        /\ pc[s] = "open"
        /\ script[s].opened < Len(sortedInterfaces(s))
        /\ switch[s].state = "booting"
        => sortedInterfaces(s)[script[s].opened + 1]
             = interfaceArgs(s)[switch[s].opened + 1]

(* A packet of the STF file reaches the switch after the table commands    *)
(* above it took effect (the delay that do_cli_command sets and the packet *)
(* command sleeps), when the client talks to the script's own switch.      *)
CommandsFirst ==
    \A s \in Scripts :
        switch[s].state = "serving" /\ cli[s].state = "connected" /\ cli[s].peer = s =>
            \A i \in Range(switch[s].fifo) : \A c \in 1..i :
                Stf[s][c].kind = "cli" => <<s, c>> \in switch[s].applied

ExpectLines(s) == {i \in DOMAIN Stf[s] : Stf[s][i].kind = "expect"}
Anything(s, p) == \E i \in ExpectLines(s) : Stf[s][i].port = p /\ Stf[s][i].data = <<>>
Expectations(s, p) == {i \in ExpectLines(s) : Stf[s][i].port = p /\ Stf[s][i].data # <<>>}
Place(s, p, i) == Cardinality({j \in Expectations(s, p) : j <= i})

Meets(s) ==
    /\ \A i \in DOMAIN Stf[s] : Stf[s][i].kind = "cli" => Stf[s][i].parses
    /\ \A p \in Interfaces(s) :
         IF Anything(s, p) THEN Expectations(s, p) = {}
         ELSE /\ Cardinality(Expectations(s, p)) = Len(switch[s].out[p])
              /\ \A i \in Expectations(s, p) :
                   comparePacket(Stf[s][i].data, switch[s].out[p][Place(s, p, i)])

(* A test that succeeds has earned it: a program that should be rejected   *)
(* was, by something other than a compiler bug; one that should compile    *)
(* did, after every initialisation command, and when there is a switch and *)
(* an STF file, every command was understood and every interface carried   *)
(* the packets the file asks for, no more and no fewer (process_file,      *)
(* run_model, do_command, checkOutputs).                                   *)
VerdictSound ==
    \A s \in Scripts :
        pc[s] = "exited" /\ script[s].verdict = "SUCCESS" =>
            /\ s \notin Direct => ran[s] = opts[s].init
            /\ \/ /\ s \notin Direct
                  /\ opts[s].errors
                  /\ compiled[s] \in {"error", "signal", "terminated"}
               \/ /\ s \in Direct \/ (~opts[s].errors /\ compiled[s] = "SUCCESS")
                  /\ s \in Direct \/ (opts[s].hasBMv2 /\ opts[s].stf) => Meets(s)

(* Once a script has started its client, its switch does not outlive it:   *)
(* the exception path stops it too.  Before that, each early return leaves *)
(* a switch behind.                                                        *)
SwitchStopped ==
    \A s \in Scripts :
        pc[s] \in {"returned", "exited"} /\ cli[s].state # "none" => ~Live(s)

(* The waits that have no limit: for the Thrift server, when the alarm was *)
(* set to zero because opening the pipes took all of the minute; for the   *)
(* switch and the client after they were terminated; and for the thread of *)
(* run_timeout, after its child was terminated, or when the time was up    *)
(* before the thread had a child to terminate.                             *)
WaitsForServer(s) == pc[s] = "wait" /\ script[s].alarms = Patience
WaitsForTerminated(s) ==
    \/ pc[s] \in {"raising", "stopping"} /\ Live(s)
    \/ pc[s] = "stopping" /\ CliRuns(s)
    \/ pc[s] \in {"init", "compile"} /\ child[s] = "terminating"
WaitsForThread(s) == pc[s] = "returned" /\ child[s] \in {"unborn", "running"}

(* Every test comes to an end, whatever the switch, the client and the     *)
(* compiler do, but for one that stays for ever in one of these waits: on  *)
(* an unlimited wait for the server, on a process that does not end when   *)
(* it is terminated, or on a child started too late to be terminated.      *)
TestEnds ==
    \A s \in Scripts :
        \/ <>(pc[s] \in {"exited", "killed"})
        \/ <>[]WaitsForServer(s)
        \/ <>[]WaitsForTerminated(s)
        \/ <>[]WaitsForThread(s)

-----------------------------------------------------------------------------
(* "we need the many simulator instances to use different port numbers"    *)
(* (ConcurrentInteger): no two switches that run have the same port.       *)
PortsDiffer ==
    \A s, t \in Scripts : Live(s) /\ Live(t) /\ s # t => slot[s] # slot[t]
=============================================================================
