--------------------------- MODULE P4cDriver ---------------------------
(***************************************************************************)
(* The p4c compiler driver (tools/driver): main.py picks a back end from   *)
(* the command line and the environment, the back end turns the options    *)
(* into the command lines of its tools, and run() runs the enabled tools   *)
(* one after the other.  The tools hand the program over in a file, the    *)
(* .p4i the preprocessor writes; it outlives the run that made it, and     *)
(* every source with the same base name shares it.                         *)
(*                                                                         *)
(* One directory is used for one run of the driver after another, while    *)
(* somebody edits the sources.  What the tools do is external.  Left out:  *)
(* developer options, --fromJson and the options that are only handed on   *)
(* to the compiler (log levels, P4Runtime files, annotations).             *)
(***************************************************************************)
EXTENDS Integers, Sequences, FiniteSets, SequencesExt

CONSTANTS
    Sources,      \* the source files, which all have the same base name
    Requests,     \* the command lines a user may give
    Environments, \* the P4C_DEFAULT_* variables and the installed tools
    SiteTargets,  \* the back ends that a site adds to those of the tree
    LoadOrders,   \* the orders glob may list the configuration files in
    Codes,        \* what a tool may return: 0, a status or minus a signal
    MaxRuns, MaxVersion

ASSUME CodesAssumption == 0 \in Codes /\ Codes \subseteq -64 .. 255
ASSUME BoundsAssumption == MaxRuns \in Nat /\ MaxVersion \in Nat

(* A request has all the options, given or defaulted.  The words a user    *)
(* hands on to a tool are neither its input nor its language again.        *)
Options == {"target", "arch", "source", "language", "words", "early",
            "help_pragmas", "dry_run", "debug_info", "run_preprocessor_only",
            "skip_preprocessor", "run_till_assembler"}
OwnWords == {"in", "-I", "--p4v"}     \* the words that only the driver gives
ASSUME RequestAssumption ==
    \A o \in Requests : DOMAIN o = Options /\ \A w \in o.words : w[1] \notin OwnWords

VARIABLES
    targets,   \* config.target: the back ends, in the order they were loaded
    env, ver,  \* the environment, and the version of each source file
    p4i, out,  \* the preprocessed program and the output of the compiler
    run,       \* how many times the driver was started
    pc, opts, backend, cmdline,   \* where main is, and what it has found out
    todo,      \* the enabled commands not yet run
    pending,   \* how many set-up or cleanup commands are left
    rc, ran, status  \* the last code, all of this run's, and the exit status

files == <<ver, p4i, out>>
setup == <<opts, backend, cmdline>>
vars == <<targets, env, ver, p4i, out, run, pc, opts, backend, cmdline,
          todo, pending, rc, ran, status>>

None == [source |-> "none"]        \* no such file
Torn == [source |-> "torn"]        \* a file whose writer was stopped

-----------------------------------------------------------------------------
(* The back ends of the p4c.*.cfg files.  first holds the words of each    *)
(* command line before any option is added, relative the tools that are    *)
(* looked up in the PATH, before and after how many set-up and cleanup     *)
(* commands each command has: none, in the tree.                           *)

Backend(name, kind, commands, enabled) ==
    [name |-> name, kind |-> kind, enabled |-> enabled,
     first |-> [c \in commands |-> IF c = "preprocessor" THEN {<<"-E">>} ELSE {}],
     relative |-> {"preprocessor", "cleaner"},
     before |-> [c \in commands |-> 0], after |-> [c \in commands |-> 0]]

BMV2Backend ==
    Backend(<<"bmv2", "v1model">>, "bmv2", {"preprocessor", "compiler"},
            <<"preprocessor", "compiler">>)
psa_target == Backend(<<"bmv2", "psa">>, "base", {"none"}, <<"none">>)
DPDKCleansEarly ==   \* mutant of DPDKBackend: the file is gone too early
    Backend(<<"dpdk", "psa">>, "dpdk", {"preprocessor", "compiler", "cleaner"},
            <<"preprocessor", "cleaner", "compiler">>)
DPDKBackend ==
    Backend(<<"dpdk", "psa">>, "dpdk", {"preprocessor", "compiler", "cleaner"},
            <<"preprocessor", "compiler", "cleaner">>)
EBPFBackend ==
    Backend(<<"ebpf", "v1model">>, "ebpf", {"preprocessor", "compiler"},
            <<"preprocessor", "compiler">>)

(* What each configuration file adds to config.target.                     *)
CfgFiles ==
    [bmv2 |-> <<BMV2Backend, psa_target>>, dpdk |-> <<DPDKBackend>>,
     ebpf |-> <<EBPFBackend>>, site |-> SiteTargets]

ASSUME LoadOrdersAssumption == LoadOrders \subseteq [1 .. 4 -> DOMAIN CfgFiles]

(* The order that the commands of a back end are listed in makes sense:    *)
(* nothing is compiled before it is preprocessed, nor removed before it is *)
(* compiled.                                                               *)
WellOrdered(commands) ==
    \A i \in DOMAIN commands :
       /\ commands[i] = "compiler" => \E j \in 1 .. i - 1 : commands[j] = "preprocessor"
       /\ commands[i] = "cleaner" =>
             \E j \in 1 .. i - 1 : /\ commands[j] = "compiler"
                                  /\ \A k \in j .. i : commands[k] # "preprocessor"
WellFormed(b) ==
    /\ b.enabled \in Seq(DOMAIN b.first) /\ WellOrdered(b.enabled)
    /\ b.before \in [DOMAIN b.first -> Nat] /\ b.after \in [DOMAIN b.first -> Nat]
    /\ \A c \in DOMAIN b.first : \A w \in b.first[c] : w[1] \notin OwnWords
    /\ "compiler" \in DOMAIN b.first => "preprocessor" \in DOMAIN b.first
ASSUME SiteAssumption ==
    /\ SiteTargets \in Seq(Range(SiteTargets))
    /\ \A b \in Range(SiteTargets) : b.kind = "site" /\ WellFormed(b)

Init ==
    /\ \E order \in LoadOrders :
          targets = CfgFiles[order[1]] \o CfgFiles[order[2]]
                    \o CfgFiles[order[3]] \o CfgFiles[order[4]]
    /\ env \in Environments
    /\ ver = [s \in Sources |-> 0]
    /\ p4i = None
    /\ out = None
    /\ run = 0
    /\ pc = "idle"
    /\ opts = None
    /\ backend = psa_target
    /\ cmdline = <<>>
    /\ todo = <<>>
    /\ pending = 0
    /\ rc = 0
    /\ ran = <<>>
    /\ status = 0

-----------------------------------------------------------------------------
(* main                                                                    *)

(* A variable of the environment overrides the option, and is one of the   *)
(* two spellings of a language too.                                        *)
Default(value, option) == IF value = "unset" THEN option ELSE value
Spelling(language) ==
    CASE language = "p4_14" -> "p4-14"
      [] language = "p4_16" -> "p4-16"
      [] OTHER -> language
SpelledFirst(o) ==   \* mutant of Effective: spells the option, not the variable
    [o EXCEPT !.language = Default(env.version, Spelling(@)),
              !.target = Default(env.target, @),
              !.arch = IF env.arch = "unset" THEN @ ELSE <<env.arch>>]
Effective(o) ==
    [o EXCEPT !.language = Spelling(Default(env.version, @)),
              !.target = Default(env.target, @),
              !.arch = IF env.arch = "unset" THEN @ ELSE <<env.arch>>]

(* The names are matched as regular expressions from the start of the      *)
(* request, and need not reach its end; the first that matches is taken.   *)
Matching(o) ==
    {i \in DOMAIN targets : IsPrefix(targets[i].name, <<o.target>> \o o.arch)}

Start(o) ==
    /\ pc = "idle"
    /\ run < MaxRuns
    /\ run' = run + 1
    /\ opts' = Effective(o)
    /\ ran' = <<>>
    /\ cmdline' = <<>> /\ todo' = <<>> /\ pending' = 0 /\ rc' = 0
    /\ pc' = "main"
    /\ UNCHANGED <<targets, env, files, backend, status>>

Finish(code) ==      \* sys.exit, which keeps the low byte of the code
    /\ pc' = "idle"
    /\ status' = code % 256

CheckInput == ~opts.help_pragmas

ExitEarly ==         \* -V and --help-targets
    /\ pc = "main"
    /\ opts.early
    /\ Finish(0)
    /\ UNCHANGED <<targets, env, files, run, setup, todo, pending, rc, ran>>

Reject ==            \* parser.error, or a source that does not exist
    /\ pc = "main"
    /\ ~opts.early
    /\ \/ Matching(opts) = {} /\ Finish(2)
       \/ Matching(opts) # {} /\ CheckInput /\ opts.source = "none" /\ Finish(2)
       \/ /\ Matching(opts) # {}
          /\ CheckInput
          /\ opts.source \notin Sources \cup {"none"}
          /\ Finish(1)
    /\ UNCHANGED <<targets, env, files, run, setup, todo, pending, rc, ran>>

-----------------------------------------------------------------------------
(* process_command_line_options                                            *)

(* An option for a command that the back end does not have is dropped.     *)
add_command_option(line, options) ==
    [c \in DOMAIN line |->
        line[c] \cup (IF c \in DOMAIN options THEN options[c] ELSE {})]

Only(condition, words) == IF condition THEN words ELSE {}
Standard(o) == IF o.language = "p4-16" THEN 16 ELSE 14
Include(o) == {<<"-I", Standard(o)>>}
Debug(o) == Only(o.debug_info, {<<"-g">>})

BaseOptions(o) ==
    [preprocessor |-> o.words \cup {<<"-undef">>, <<"-nostdinc">>} \cup Include(o),
     compiler |-> o.words \cup Debug(o) \cup Include(o) \cup {<<"--p4v", Standard(o)>>},
     assembler |-> o.words \cup Debug(o),
     linker |-> o.words \cup Debug(o)]

(* What each derived class adds: the names of the files, and for all but   *)
(* ebpf the architecture of the back end, not the one asked for.           *)
OwnOptions(b, o) ==
    LET psa == Only(b.kind = "dpdk" /\ o.language = "p4-16", {<<"-Idpdk">>}) IN
    [preprocessor |-> psa \cup {<<"-o", "p4i">>, <<"in", o.source>>},
     compiler |-> psa \cup {<<"-o", "out">>, <<"in", "p4i">>}
                  \cup Only(b.kind # "ebpf", {<<"--arch", b.name[2]>>}),
     cleaner |-> Only(b.kind = "dpdk", {<<"in", "p4i">>})]

Line(b, o) ==
    LET base == add_command_option(b.first, BaseOptions(o))
    IN IF b.kind = "base" THEN base ELSE add_command_option(base, OwnOptions(b, o))

(* Which commands are run, in the order of this list or that of the back   *)
(* end; list.remove takes the first occurrence away.                       *)
Known(b, c) == IF c \in DOMAIN b.first THEN <<c>> ELSE <<>>
enable_commands(b, known) == IF known = <<>> THEN b.enabled ELSE known
disable_commands(b, c) ==
    LET at == {i \in DOMAIN b.enabled : b.enabled[i] = c}
    IN IF at = {} THEN b.enabled ELSE RemoveAt(b.enabled, Min(at))

Enabled(b, o) ==
    CASE o.run_preprocessor_only -> enable_commands(b, Known(b, "preprocessor"))
      [] ~o.run_preprocessor_only /\ o.skip_preprocessor ->
            disable_commands(b, "preprocessor")
      [] ~o.run_preprocessor_only /\ ~o.skip_preprocessor /\ o.run_till_assembler ->
            enable_commands(b, Known(b, "preprocessor") \o Known(b, "compiler"))
      [] OTHER -> b.enabled

Configure ==
    /\ pc = "main"
    /\ ~opts.early
    /\ Matching(opts) # {}
    /\ CheckInput => opts.source \in Sources
    /\ LET b == targets[Min(Matching(opts))]
           o == [opts EXCEPT !.source = IF CheckInput THEN @ ELSE "dummy.p4"]
       IN /\ backend' = b
          /\ opts' = o
          /\ cmdline' = Line(b, o)
          /\ todo' = Enabled(b, o)
          /\ IF b.kind = "bmv2" /\ o.help_pragmas
             THEN Finish(0)
             ELSE pc' = "makedirs" /\ UNCHANGED status
    /\ UNCHANGED <<targets, env, files, run, pending, rc, ran>>

-----------------------------------------------------------------------------
(* run                                                                     *)

Next_command ==      \* the loop of run: set up the next command, or return 0
    /\ IF todo' = <<>>
       THEN Finish(0) /\ pending' = 0
       ELSE /\ pc' = "preRun"
            /\ pending' = backend.before[todo'[1]]
            /\ UNCHANGED status

MakeDirs ==          \* os.makedirs may raise, and nothing catches it
    /\ pc = "makedirs"
    /\ UNCHANGED todo
    /\ Next_command \/ (Finish(1) /\ UNCHANGED pending)
    /\ UNCHANGED <<targets, env, files, run, setup, rc, ran>>

Ended(code, kind) == Append(ran, [command |-> todo[1], kind |-> kind, code |-> code])

CodesOf == IF opts.dry_run THEN {0} ELSE Codes

preRun(code) ==
    /\ pc = "preRun"
    /\ pending > 0
    /\ code \in CodesOf
    /\ ran' = Ended(code, "before")
    /\ pending' = pending - 1
    /\ IF code # 0 THEN Finish(code) ELSE UNCHANGED <<pc, status>>
    /\ UNCHANGED <<targets, env, files, run, setup, todo, rc>>

NotFound == todo[1] \in backend.relative /\ todo[1] \notin env.path

FindBin ==           \* not even tried for a tool with an absolute path
    /\ pc = "preRun"
    /\ pending = 0
    /\ IF NotFound THEN Finish(1) ELSE pc' = "runCmd" /\ UNCHANGED status
    /\ UNCHANGED <<targets, env, files, run, setup, todo, pending, rc, ran>>

(* The words of a command line.                                            *)
Word(c, tag) == {w[2] : w \in {w \in cmdline[c] : w[1] = tag}}

Text(source) ==
    [source |-> source, version |-> ver[source], run |-> run,
     language |-> CHOOSE l \in Word("preprocessor", "-I") : l \in {14, 16}]
Output == [source |-> "compiled", text |-> p4i,
           language |-> CHOOSE l \in Word("compiler", "--p4v") : TRUE]

(* What the tools leave behind (external): cc and the compiler can only    *)
(* succeed on a file that exists, and when they fail may leave an old, a   *)
(* torn or no output.                                                      *)
Works(c) ==
    \/ /\ c = "preprocessor"
       /\ \E s \in Word(c, "in") \cap Sources : p4i' = Text(s)
       /\ UNCHANGED out
    \/ c = "compiler" /\ p4i # None /\ out' = Output /\ UNCHANGED p4i
    \/ c = "cleaner" /\ p4i # None /\ p4i' = None /\ UNCHANGED out
    \/ c \notin {"preprocessor", "compiler", "cleaner"} /\ UNCHANGED <<p4i, out>>
Fails(c) ==
    /\ IF c = "preprocessor" THEN p4i' \in {p4i, Torn, None} ELSE UNCHANGED p4i
    /\ IF c = "compiler" THEN out' \in {out, None} ELSE UNCHANGED out

runCmd(code) ==
    /\ pc = "runCmd"
    /\ code \in CodesOf
    /\ rc' = code
    /\ ran' = Ended(code, "command")
    /\ CASE opts.dry_run -> UNCHANGED <<p4i, out>>
         [] ~opts.dry_run /\ code = 0 -> Works(todo[1])
         [] OTHER -> Fails(todo[1])
    /\ pc' = "postRun"
    /\ pending' = backend.after[todo[1]]
    /\ UNCHANGED <<targets, env, ver, run, setup, todo, status>>

GivesUpCleaning(code) ==   \* mutant of postRun: stops at the first failure
    /\ pc = "postRun"
    /\ pending > 0
    /\ code \in CodesOf
    /\ ran' = Ended(code, "after")
    /\ pending' = IF code # 0 THEN 0 ELSE pending - 1
    /\ UNCHANGED <<targets, env, files, run, pc, setup, todo, rc, status>>

postRun(code) ==     \* the codes are added up and thrown away
    /\ pc = "postRun"
    /\ pending > 0
    /\ code \in CodesOf
    /\ ran' = Ended(code, "after")
    /\ pending' = pending - 1
    /\ UNCHANGED <<targets, env, files, run, pc, setup, todo, rc, status>>

GoesOn ==            \* mutant of AfterCommand: runs the next command anyway
    /\ pc = "postRun"
    /\ pending = 0
    /\ todo' = Tail(todo)
    /\ Next_command
    /\ UNCHANGED <<targets, env, files, run, setup, rc, ran>>

AfterCommand ==
    /\ pc = "postRun"
    /\ pending = 0
    /\ todo' = Tail(todo)
    /\ IF rc # 0 THEN Finish(rc) /\ UNCHANGED pending ELSE Next_command
    /\ UNCHANGED <<targets, env, files, run, setup, rc, ran>>

(* The user stops the driver, and the tool it is waiting for.              *)
Interrupt ==
    /\ pc \in {"preRun", "runCmd", "postRun"}
    /\ Finish(-2)
    /\ IF pc = "runCmd" THEN Fails(todo[1]) ELSE UNCHANGED <<p4i, out>>
    /\ ran' = Ended(-2, "interrupt")
    /\ UNCHANGED <<targets, env, ver, run, setup, todo, pending, rc>>

Edit(s) ==
    /\ ver[s] < MaxVersion
    /\ ver' = [ver EXCEPT ![s] = @ + 1]
    /\ UNCHANGED <<targets, env, p4i, out, run, pc, setup, todo, pending, rc,
                   ran, status>>

Next ==
    \/ \E o \in Requests : Start(o)
    \/ ExitEarly \/ Reject \/ Configure \/ MakeDirs \/ FindBin
    \/ \E code \in Codes : preRun(code) \/ runCmd(code) \/ postRun(code)
    \/ AfterCommand \/ Interrupt
    \/ \E s \in Sources : Edit(s)

Spec == Init /\ [][Next]_vars

-----------------------------------------------------------------------------
(* What the compiler compiles is what the preprocessor of the same run     *)
(* made of the source the user named, and never what an earlier run, or a  *)
(* failed or stopped one, left under the same name: unless the user asked  *)
(* to skip the preprocessor.                                               *)
CompiledThisRun ==
    [][ out' \notin {out, None} =>
          \/ opts.skip_preprocessor
          \/ out'.text # Torn /\ out'.text.run = run /\ out'.text.source = opts.source ]_vars

(* The preprocessor and the compiler of one run take the program for the   *)
(* same language: the one the environment names, or else the command line, *)
(* in either spelling.                                                     *)
Asked(o) == IF env.version = "unset" THEN o.language ELSE env.version
LanguagesAgree ==
    [][ /\ \A o \in Requests : Start(o) =>
             (opts'.language = "p4-16" <=> Asked(o) \in {"p4-16", "p4_16"})
        /\ out' \notin {out, None} =>
             /\ out'.language = (IF opts.language = "p4-16" THEN 16 ELSE 14)
             /\ out'.text # Torn /\ out'.text.run = run
                   => out'.text.language = out'.language ]_vars

(* The .p4i file is removed only by a back end that cleans up, after its   *)
(* compiler has succeeded on it in the same run; and a run of such a back  *)
(* end that was to run everything and reports success leaves none behind.  *)
Worked(c) == \E i \in DOMAIN ran : ran[i] = [command |-> c, kind |-> "command", code |-> 0]
RunsAll(o) == ~o.run_preprocessor_only /\ (o.run_till_assembler => o.skip_preprocessor)
CleanedAfterUse ==
    [][ /\ p4i' = None /\ p4i # None =>
             \/ todo[1] = "preprocessor"
             \/ Worked("compiler") /\ out # None /\ out.text = p4i
        /\ /\ pc # "idle" /\ pc' = "idle" /\ status' = 0 /\ ran # <<>>
           /\ backend.kind = "dpdk" /\ ~opts.dry_run /\ RunsAll(opts)
           => p4i = None ]_vars

(* A run that ran any command ends with the code of the first command that *)
(* failed, or of a failed set-up, and no later command was started; it is  *)
(* 0 only when every command enabled was run, in that order.  All the      *)
(* cleanup commands of every command that ran were run right after it,     *)
(* however it ended, and however they did.                                 *)
Place(i) == Cardinality({j \in 1 .. i : ran[j].kind = "command"})
StopsAtFailure ==
    \A i \in DOMAIN ran : ran[i].kind # "after" /\ ran[i].code # 0 =>
       /\ status = ran[i].code % 256
       /\ \A j \in i + 1 .. Len(ran) : ran[j].kind = "after"
AllWereRun(commands) ==
    /\ Place(Len(ran)) = Len(commands)
    /\ \A i \in DOMAIN ran : ran[i].kind = "command" => ran[i].command = commands[Place(i)]
CleanedUpAfter(i) ==
    LET last == i + backend.after[ran[i].command] IN
    /\ last <= Len(ran)
    /\ \A j \in i + 1 .. last : ran[j].kind = "after" /\ ran[j].command = ran[i].command
    /\ last < Len(ran) => ran[last + 1].kind # "after"
EndsAsItsCommands ==
    pc = "idle" /\ ran # <<>> /\ (\A i \in DOMAIN ran : ran[i].kind # "interrupt") =>
      /\ StopsAtFailure
      /\ status = 0 => AllWereRun(Enabled(backend, opts))
      /\ \A i \in DOMAIN ran : ran[i].kind = "command" => CleanedUpAfter(i)
=============================================================================
