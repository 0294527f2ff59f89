---------------------------- MODULE Bmv2Run ----------------------------
(***************************************************************************)
(* RunBMV2 of bmv2stf.py: the script that starts a switch process, opens   *)
(* the named pipes it reads packets from, starts the switch's command-line *)
(* client, plays an STF file to both, stops them and compares the packets  *)
(* the switch wrote with the ones the STF file expects.  make runs several *)
(* of these scripts at once; they share the lock directories that hand out *)
(* the Thrift ports, and the ports.                                        *)
(*                                                                         *)
(* The switch and its client are external programs: they are modelled by   *)
(* what the script relies on.  A packet is a sequence of hexadecimal       *)
(* digits; the text of a command is abstracted to whether the script can   *)
(* translate it.                                                           *)
(***************************************************************************)
EXTENDS Integers, Sequences, FiniteSets, SequencesExt

CONSTANTS
    Scripts,    \* the invocations of the script that run at the same time
    NoSlot,     \* what generate() returns when it found none
    Slots,      \* the integers a lock can be taken on (0..1000 in the code)
    Tries,      \* the attempts at a lock (10 in the code)
    Patience,   \* the two-second alarms that fit in sw_timeout (30 in the code)
    Stf,        \* the STF file of each script, a sequence of commands
    Emitted,    \* the packets a switch may send
    Killable    \* the scripts that may be killed from outside

(* The lines of an STF file.  An expected packet with no digits is one of  *)
(* which anything will do.                                                 *)
Command ==
    [kind : {"packet"}, port : Nat, hex : BOOLEAN]
      \cup [kind : {"expect"}, port : Nat, data : Seq(STRING)]
      \cup [kind : {"cli"}, parses : BOOLEAN]
      \cup [kind : {"other"}]

ASSUME SlotsAssumption == Slots # {}
ASSUME TriesAssumption == Tries \in Nat \ {0}
ASSUME PatienceAssumption == Patience \in Nat
ASSUME NoSlotAssumption == NoSlot \notin Slots
ASSUME StfAssumption == \A s \in Scripts : Stf[s] \in Seq(Command)

VARIABLES
    locks,      \* the lock directories that exist
    pc,         \* where each script is
    slot,       \* what generate() returned to each script
    script,     \* the locals of run() and the fields of RunBMV2
    switch,     \* the switch process of each script
    cli         \* the command-line client of each script

runVars == <<locks, pc, slot, script, switch, cli>>

Interfaces(s) ==
    LET f == Stf[s] IN
    {f[i].port : i \in {j \in DOMAIN f : f[j].kind \in {"packet", "expect"}}}

\* Python's sorted, of numbers.
sorted(S) ==
    CHOOSE f \in [1..Cardinality(S) -> S] :
        /\ Range(f) = S
        /\ \A i, j \in DOMAIN f : i < j => f[i] < f[j]

sortedInterfaces(s) == sorted(Interfaces(s))

\* Mutant of interfaceArgs: the interfaces are passed in another order.
interfaceArgsReversed(s) == Reverse(sortedInterfaces(s))

interfaceArgs(s) == sorted(Interfaces(s))

Live(s) == switch[s].state \in {"booting", "serving"}
Serving(n) == {t \in Scripts : switch[t].state = "serving" /\ slot[t] = n}
CliRuns(s) == cli[s].state \in {"started", "connected"}

(* The places of run() between generate() and release().                   *)
Held(s) ==
    pc[s] \in {"spawn", "open", "wait", "client", "commands", "raising", "stopping"}

RunInit ==
    /\ locks = {}
    /\ slot = [s \in Scripts |-> NoSlot]
    /\ script = [s \in Scripts |->
            [tries |-> 0, alarms |-> 0, opened |-> 0, line |-> 1, delay |-> 0,
             expected |-> [p \in Interfaces(s) |-> <<>>], expectedAny |-> {},
             unchecked |-> {}, verdict |-> "none"]]
    /\ switch = [s \in Scripts |->
            [state |-> "none", opened |-> 0, fifo |-> <<>>, applied |-> {},
             out |-> [p \in Interfaces(s) |-> <<>>]]]
    /\ cli = [s \in Scripts |-> [state |-> "none", peer |-> s, queue |-> <<>>]]

-----------------------------------------------------------------------------
(* How run() ends: with a verdict, or with an exception.  The finally      *)
(* clause removes the lock in both cases.                                  *)

\* Mutant of release: the lock directory stays.
releaseForgets(s) == UNCHANGED locks

release(s) == locks' = locks \ {slot[s]}

Returns(s, verdict) ==
    /\ pc' = [pc EXCEPT ![s] = "returned"]
    /\ script' = [script EXCEPT ![s].verdict = verdict]
    /\ release(s)

(* terminate() of both processes only asks them to end; what follows it    *)
(* waits for them, without a limit and with the lock still held.           *)
StopBoth(s, wait) ==
    /\ pc' = [pc EXCEPT ![s] = wait]
    /\ UNCHANGED <<locks, script, switch, cli>>

(* An exception in the commands goes to the except clause.                 *)
Raises(s) == StopBoth(s, "raising")

-----------------------------------------------------------------------------
(* The steps of the script.                                                *)

generate(s) ==
    /\ pc[s] = "lock"
    /\ \E n \in Slots :
         IF n \notin locks
         THEN /\ locks' = locks \cup {n}
              /\ slot' = [slot EXCEPT ![s] = n]
              /\ pc' = [pc EXCEPT ![s] = "spawn"]
              /\ UNCHANGED script
         ELSE /\ script[s].tries < Tries
              /\ script' = [script EXCEPT ![s].tries = @ + 1]
              /\ UNCHANGED <<locks, slot, pc>>
    /\ UNCHANGED <<switch, cli>>

NoFreePort(s) ==
    /\ pc[s] = "lock"
    /\ script[s].tries = Tries
    /\ pc' = [pc EXCEPT ![s] = "returned"]
    /\ script' = [script EXCEPT ![s].verdict = "FAILURE"]
    /\ UNCHANGED <<locks, slot, switch, cli>>

StartSwitch(s) ==
    /\ pc[s] = "spawn"
    /\ \/ /\ switch' = [switch EXCEPT ![s].state = "booting"]
          /\ pc' = [pc EXCEPT ![s] = "open"]
          /\ UNCHANGED <<locks, script>>
       \/ Returns(s, "raised") /\ UNCHANGED switch      \* no such program
    /\ UNCHANGED <<slot, cli>>

(* Opening a named pipe blocks until the other side opens the same one.    *)
openInterface(s) ==
    LET n == script[s].opened + 1
        m == switch[s].opened + 1
    IN  /\ pc[s] = "open"
        /\ n <= Len(sortedInterfaces(s))
        /\ switch[s].state = "booting"
        /\ sortedInterfaces(s)[n] = interfaceArgs(s)[m]
        /\ script' = [script EXCEPT ![s].opened = n]
        /\ switch' = [switch EXCEPT ![s].opened = m]
        /\ UNCHANGED <<locks, pc, slot, cli>>

\* Mutant of GivesUp: one alarm too many.
GivesUpLate(s) == script[s].alarms > Patience \/ ~Live(s)

GivesUp(s) == script[s].alarms >= Patience \/ ~Live(s)

(* The alarm may also go off between the open and its cancellation; the    *)
(* pipe is then opened again, at once, which is the same as a later open.  *)
AlarmFires(s) ==
    /\ pc[s] = "open"
    /\ script[s].opened < Len(sortedInterfaces(s))
    /\ IF GivesUp(s)
       THEN Returns(s, "FAILURE")
       ELSE /\ script' = [script EXCEPT ![s].alarms = @ + 1]
            /\ UNCHANGED <<locks, pc>>
    /\ UNCHANGED <<slot, switch, cli>>

InterfacesOpen(s) ==
    /\ pc[s] = "open"
    /\ script[s].opened = Len(sortedInterfaces(s))
    /\ pc' = [pc EXCEPT ![s] = "wait"]
    /\ UNCHANGED <<locks, slot, script, switch, cli>>

(* The answer of check_switch_server_ready is not looked at: the script    *)
(* goes on when its switch has died, and when any process has the port.    *)
check_switch_server_ready(s) ==
    /\ pc[s] = "wait"
    /\ ~Live(s) \/ Serving(slot[s]) # {}
    /\ pc' = [pc EXCEPT ![s] = "client"]
    /\ UNCHANGED <<locks, slot, script, switch, cli>>

\* Mutant of WaitTimesOut: no alarm is set for the Thrift server.
WaitForever(s) == FALSE /\ UNCHANGED runVars

(* alarm(0), or an alarm of a negative time, never goes off.               *)
WaitTimesOut(s) ==
    /\ pc[s] = "wait"
    /\ script[s].alarms < Patience
    /\ Returns(s, "FAILURE")
    /\ UNCHANGED <<slot, switch, cli>>

(* When the client cannot be started its variable is not bound, and the    *)
(* except clause fails on it before it stops the switch.                   *)
StartCli(s) ==
    /\ pc[s] = "client"
    /\ \/ /\ cli' = [cli EXCEPT ![s].state = "started"]
          /\ pc' = [pc EXCEPT ![s] = "commands"]
          /\ UNCHANGED <<locks, script>>
       \/ Returns(s, "raised") /\ UNCHANGED cli
    /\ UNCHANGED <<slot, switch>>

-----------------------------------------------------------------------------
(* do_command: one line of the STF file.                                   *)

AtLine(s, kind) ==
    /\ pc[s] = "commands"
    /\ script[s].line <= Len(Stf[s])
    /\ Stf[s][script[s].line].kind = kind

do_cli_command(s) ==
    LET cmd == Stf[s][script[s].line] IN
    /\ AtLine(s, "cli")
    /\ IF cmd.parses /\ cli[s].state # "failed"
       THEN /\ cli' = [cli EXCEPT ![s].queue = Append(@, script[s].line)]
            /\ script' = [script EXCEPT ![s].line = @ + 1, ![s].delay = 1]
            /\ UNCHANGED <<locks, pc, switch>>
       ELSE Raises(s)                        \* bad command, or a broken pipe
    /\ UNCHANGED slot

\* Mutant of Slept: a packet is sent without any delay.
SleptNot(s) == TRUE

(* What the script assumes of a second's sleep: the client has had time    *)
(* to carry out what is in its input.                                      *)
Slept(s) ==
    script[s].delay = 0 \/ cli[s].queue = <<>> \/ cli[s].state = "failed"

do_packet(s) ==
    LET cmd == Stf[s][script[s].line] IN
    /\ AtLine(s, "packet")
    /\ Slept(s)
    /\ CASE ~cmd.hex ->             \* returns FAILURE, which nobody looks at
              /\ script' = [script EXCEPT ![s].line = @ + 1]
              /\ UNCHANGED <<locks, pc, switch, cli>>
         [] cmd.hex /\ Live(s) ->
              /\ switch' = [switch EXCEPT ![s].fifo = Append(@, script[s].line)]
              /\ script' = [script EXCEPT ![s].line = @ + 1, ![s].delay = 0]
              /\ UNCHANGED <<locks, pc, cli>>
         [] OTHER -> Raises(s)                             \* a broken pipe
    /\ UNCHANGED slot

do_expect(s) ==
    LET cmd == Stf[s][script[s].line] IN
    /\ AtLine(s, "expect")
    /\ script' = IF cmd.data # <<>>
                 THEN [script EXCEPT ![s].line = @ + 1,
                          ![s].expected[cmd.port] = Append(@, cmd.data)]
                 ELSE [script EXCEPT ![s].line = @ + 1,
                          ![s].expectedAny = @ \cup {cmd.port}]
    /\ UNCHANGED <<locks, pc, slot, switch, cli>>

(* Blank lines, comments, and commands the script does not know.           *)
do_nothing(s) ==
    /\ AtLine(s, "other")
    /\ script' = [script EXCEPT ![s].line = @ + 1]
    /\ UNCHANGED <<locks, pc, slot, switch, cli>>

(* After the last line: close the pipes, sleep, terminate both.            *)
EndOfCommands(s) ==
    /\ pc[s] = "commands"
    /\ script[s].line > Len(Stf[s])
    /\ StopBoth(s, "stopping")
    /\ UNCHANGED slot

\* Mutant of SwitchWaitedFor: sw.wait() is left out of the except clause.
SwitchNotWaitedFor(s) ==
    /\ pc[s] = "raising"
    /\ Returns(s, "raised")
    /\ UNCHANGED <<slot, switch, cli>>

(* The except clause waits for the switch, not for the client.             *)
SwitchWaitedFor(s) ==
    /\ pc[s] = "raising"
    /\ ~Live(s)
    /\ Returns(s, "raised")
    /\ UNCHANGED <<slot, switch, cli>>

(* Without an exception both are waited for, and how they ended is looked  *)
(* at.                                                                     *)
BothWaitedFor(s) ==
    /\ pc[s] = "stopping"
    /\ ~Live(s) /\ ~CliRuns(s)
    /\ IF switch[s].state = "failed" \/ cli[s].state = "failed"
       THEN Returns(s, "FAILURE")
       ELSE /\ pc' = [pc EXCEPT ![s] = "check"]
            /\ script' = [script EXCEPT ![s].unchecked =
                    {interfaceArgs(s)[i] : i \in 1..switch[s].opened}]
            /\ release(s)
    /\ UNCHANGED <<slot, switch, cli>>

-----------------------------------------------------------------------------
(* checkOutputs: the files the switch wrote, in whatever order glob lists  *)
(* them, against the packets expected on their interfaces.                 *)

(* An expected packet is a prefix of the received one up to the don't-care *)
(* digits, and all of it when it ends in "$".                              *)
comparePacket(expected, received) ==
    LET strict == Last(expected) = "$"
        digits == IF strict THEN Front(expected) ELSE expected
    IN  /\ Len(received) >= Len(digits)
        /\ \A i \in DOMAIN digits : digits[i] \in {"*", received[i]}
        /\ strict => Len(received) <= Len(digits)

\* Mutant of SameCount: more packets than expected go unnoticed.
AtLeast(expected, received) == Len(expected) <= Len(received)

SameCount(expected, received) == Len(expected) = Len(received)

AllCompare(expected, received) ==
    \A i \in DOMAIN expected : comparePacket(expected[i], received[i])

Verdict(s, v) ==
    /\ pc' = [pc EXCEPT ![s] = "returned"]
    /\ script' = [script EXCEPT ![s].verdict = v]

Checked(s, p) ==
    /\ script' = [script EXCEPT ![s].unchecked = @ \ {p},
                                ![s].expected[p] = <<>>]
    /\ UNCHANGED pc

checkOutput(s) ==
    /\ pc[s] = "check"
    /\ \E p \in script[s].unchecked :
         LET expected == script[s].expected[p]
             received == switch[s].out[p]
         IN  CASE p \in script[s].expectedAny ->
                    IF expected = <<>> THEN Checked(s, p)
                    ELSE Verdict(s, "raised")    \* adds an int to a string
               [] OTHER ->
                    IF SameCount(expected, received) /\ AllCompare(expected, received)
                    THEN Checked(s, p)
                    ELSE Verdict(s, "FAILURE")
    /\ UNCHANGED <<locks, slot, switch, cli>>

(* A file the switch was killed in the middle of writing cannot be read.   *)
corruptFile(s) ==
    /\ pc[s] = "check"
    /\ \E p \in script[s].unchecked : switch[s].out[p] # <<>>
    /\ Verdict(s, "FAILURE")
    /\ UNCHANGED <<locks, slot, switch, cli>>

checkRemaining(s) ==
    /\ pc[s] = "check"
    /\ script[s].unchecked = {}
    /\ Verdict(s, IF \E p \in Interfaces(s) : script[s].expected[p] # <<>>
                  THEN "FAILURE" ELSE "SUCCESS")
    /\ UNCHANGED <<locks, slot, switch, cli>>

(* A signal ends the script without its finally clauses.                   *)
Killed(s) ==
    /\ s \in Killable
    /\ pc[s] \notin {"returned", "killed", "exited"}
    /\ pc' = [pc EXCEPT ![s] = "killed"]
    /\ UNCHANGED <<locks, slot, script, switch, cli>>

-----------------------------------------------------------------------------
(* The external programs.                                                  *)

(* The Thrift server is the last thing a switch starts; it needs its port. *)
SwitchBinds(s) ==
    /\ switch[s].state = "booting"
    /\ switch[s].opened = Len(interfaceArgs(s))
    /\ switch' = [switch EXCEPT ![s].state =
            IF Serving(slot[s]) = {} THEN "serving" ELSE "failed"]
    /\ UNCHANGED <<locks, pc, slot, script, cli>>

SwitchDies(s) ==
    /\ Live(s)
    /\ switch' = [switch EXCEPT ![s].state = "failed"]
    /\ UNCHANGED <<locks, pc, slot, script, cli>>

(* A process that was asked to end does so, or not.                        *)
SwitchStops(s) ==
    /\ pc[s] \in {"raising", "stopping"}
    /\ Live(s)
    /\ switch' = [switch EXCEPT ![s].state = "stopped"]
    /\ UNCHANGED <<locks, pc, slot, script, cli>>

CliStops(s) ==
    /\ pc[s] \in {"raising", "stopping", "returned", "exited"}
    /\ CliRuns(s)
    /\ cli' = [cli EXCEPT ![s].state = "stopped"]
    /\ UNCHANGED <<locks, pc, slot, script, switch>>

SwitchForwards(s) ==
    /\ switch[s].state = "serving"
    /\ switch[s].fifo # <<>>
    /\ \/ switch' = [switch EXCEPT ![s].fifo = Tail(@)]              \* dropped
       \/ \E p \in Interfaces(s), data \in Emitted :
            switch' = [switch EXCEPT ![s].fifo = Tail(@),
                                     ![s].out[p] = Append(@, data)]
    /\ UNCHANGED <<locks, pc, slot, script, cli>>

CliConnects(s) ==
    /\ cli[s].state = "started"
    /\ \/ \E t \in Serving(slot[s]) :
            cli' = [cli EXCEPT ![s].state = "connected", ![s].peer = t]
       \/ /\ Serving(slot[s]) = {}
          /\ cli' = [cli EXCEPT ![s].state = "failed"]
    /\ UNCHANGED <<locks, pc, slot, script, switch>>

CliApplies(s) ==
    /\ cli[s].state = "connected"
    /\ cli[s].queue # <<>>
    /\ LET t == cli[s].peer IN
       IF switch[t].state = "serving"
       THEN /\ cli' = [cli EXCEPT ![s].queue = Tail(@)]
            /\ switch' = [switch EXCEPT ![t].applied =
                    @ \cup {<<s, Head(cli[s].queue)>>}]
       ELSE /\ cli' = [cli EXCEPT ![s].state = "failed"]
            /\ UNCHANGED switch
    /\ UNCHANGED <<locks, pc, slot, script>>

-----------------------------------------------------------------------------
ScriptStep(s) ==
    \/ generate(s) \/ NoFreePort(s) \/ StartSwitch(s)
    \/ openInterface(s) \/ AlarmFires(s) \/ InterfacesOpen(s)
    \/ check_switch_server_ready(s) \/ WaitTimesOut(s) \/ StartCli(s)
    \/ do_cli_command(s) \/ do_packet(s) \/ do_expect(s) \/ do_nothing(s)
    \/ EndOfCommands(s) \/ SwitchWaitedFor(s) \/ BothWaitedFor(s)
    \/ checkOutput(s) \/ corruptFile(s) \/ checkRemaining(s)

CliStep(s) == CliConnects(s) \/ CliApplies(s)
SwitchStep(s) == SwitchBinds(s) \/ SwitchForwards(s)

RunNext ==
    \E s \in Scripts :
        \/ ScriptStep(s)
        \/ CliStep(s)
        \/ SwitchStep(s)
        \/ SwitchDies(s) \/ SwitchStops(s) \/ CliStops(s)
        \/ Killed(s)
=============================================================================
