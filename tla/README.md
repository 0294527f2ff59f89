# Petr4: models, checks and proofs

Petr4 is a semantics of P4 written in Coq, an interpreter extracted from it, and an OCaml front
end and test driver around it. The repository also carries the Python tools that P4 programs are
compiled and tested with (`p4c_manual`): the test scripts of the BMV2 switch, the `p4c` compiler
driver, and `cpplint.py`. This directory models the two parts that *run*:

- what runs packets in Petr4: the STF driver, the V1Model pipeline, the interpreter's calls, its
  store of headers, and table matching;
- the Python tools: test scripts that start switches, share ports and wait for processes; the
  compiler driver that runs tools one after the other; and the state `cpplint.py` keeps while it
  reads a file and goes from file to file.

For Petr4 the modules follow the executable interpreter
(`coq/lib/P4light/Semantics/Interpreter.v` and the functions it calls), not the relational
semantics beside it. What the code leaves to its inputs and its environment (which statement of a
P4 program comes next, what a switch answers, how a compiler ends) is a free choice of the model.
Paths below are relative to `src/`; `p4c_manual/` is left out of the paths of the Python tools.

## The system

| Component | State | Operations | Hard part |
|---|---|---|---|
| STF driver (`lib/stf.ml`, `p4stf/test.ml`) | statements left, results, expectations, extern state | packet, expect, the final comparison; all other statements raise | two accumulators compared by position; the extern state outlives a packet |
| V1Model pipeline (`V1ModelTarget.v`, `interp_prog`) | extern objects `packet_in` and `packet_out`, headers, standard metadata, packet body, port | parser, verify, ingress, egress, checksum, deparser, and the glue between them | a failing parser goes on; values are read in one module and used four modules later |
| Interpreter: calls (`interp_stmt`, `interp_block`, `interp_call`, `interp_func`) | memory (a map from paths), extern state, a signal | statements, calls of actions, functions, externs and tables | saved and restored memory, rejecting arguments found only after the call has run, exits |
| Interpreter: store (`interp_read`, `interp_write`, `interp_builtin`) | header values with three-valued validity and undefined bits | assignment, setValid, setInvalid, push_front, pop_front, copy-out | one valid member per union, indices out of range, undefined contents |
| Tables (`interp_table_match`, `extern_match`) | const entries, entries in the extern state | add an entry, look up a key | order of entries, prefix lengths, masks, ranges |
| Test script (`backends/bmv2/run-bmv2-test.py`) | options, a temporary directory, one child process in a thread | initialisation commands, compile, judge the exit, run the model, clean up | time-outs that race with the child; a child that never started; a verdict taken from exit codes |
| Switch runner (`backends/bmv2/bmv2stf.py`) | a lock directory, named pipes, two processes, expectations per interface | take a port, start the switch, open the pipes, wait for Thrift, play the STF file, stop, compare | scripts run concurrently and share ports; both sides open the pipes in turn; commands and packets take different ways to the switch |
| STF table commands (`bmv2stf.py`) | the tables of the JSON file, the key and arguments read so far | resolve names, make keys, print the command | shortened names, `*` digits, order of keys and arguments |
| Compiler driver (`tools/driver/p4c_src`) | registered back ends, command lines, the `.p4i` file, exit codes | choose a back end, build command lines, run the enabled commands, clean up | a file handed over between tools and left over between runs; an interrupt between two tools |
| cpplint: text of a file (`tools/cpplint.py`) | lines, cleared lines, the raw string that is open | clear comments, raw strings and strings; find the other bracket | what is inside of what, across lines |
| cpplint: from line to line | open blocks and their checkpoints, includes and their section, function length, NOLINT lines | one update of each per line | `#if`/`#else` branches that open the same block twice |
| cpplint: from file to file | settings, filters and their backup, counts | command line, `CPPLINT.cfg` files, filtering, counting, exit status | configurations of nested directories override each other; the filters are restored and other settings are not |
| cpplint: checks of one line | - | some hundred regular expressions | |
| STF grammar, pcap helpers (`tools/stf`, `tools/testutils.py`) | - | PLY grammar, wrappers of subprocess calls | |
| Registers, hash (`V1ModelTarget.v`) | extern objects | relational only: the interpreter's versions always fail | |
| Loading and instantiation (`Semantics.v`) | static environments | `gen_ge`, `instantiate_prog` | |
| Front end (`lib/lexer.mll`, `p4parser.mly`, `context.ml`, `elaborate.ml`, `checker.ml`) | scopes in mutable globals | parse, elaborate, check | lexing depends on the scopes |
| P4light transformations | a counter or a set of names | fresh names, hoisting | freshness, order of evaluation |
| P4cub and back ends (`Compile/`, `P4cub/`, `GCL/`, `Ccomp/`) | - | translations | header stacks compiled to assignments |
| Tofino target, web page, printers, command line | - | - | - |

**How they interact.** In Petr4 by calls, without threads: the driver calls the extracted `interp`
once per packet and passes on the extern state it returns; `interp_prog` calls the six modules
with headers and metadata as values; a module is a call of its `apply` method; calls and
statements read and write the store; a table application asks the target for the matching entry
and calls its action. What is hard there is order: what is threaded through, saved, restored,
read early and used late.

The test tools interact through processes and the file system. `make` starts many test scripts at
once. Each runs a compiler in a thread and waits for it with a timer; then it takes one of a
number of lock directories in `/tmp`, whose number gives its switch a Thrift port, starts the
switch on that port with one named pipe per interface, starts a client that sends table commands
to *whoever listens on that port*, writes packets into the pipes, and in the end stops client and
switch and reads what the switch wrote. What is hard there is concurrency and failure: every one of these
processes may be slow, fail, or be killed.

**What makes each component correct**, in a sentence: the switch sends the parsed prefix of its
own packet, as rewritten, followed by exactly the rest, and nothing of another packet; the
driver's verdict is the script's; a call behaves as if it had private parameters copied in and
out, and a rejected call as if it had not been made; at most one member of a union is valid and a
write that hits nothing changes nothing; the table's answer is the best entry. A test that
succeeds has earned it, ends, and leaves neither lock nor switch behind; a packet reaches the
switch after the commands above it; the entry that is installed is the one the line describes;
the compiler compiles the source it was given, and the driver's status is that of its
tools; the elided text is the code of the file, every error that is printed is one the settings in
force allow, and what cpplint takes for the state of a line is what the first branches of the
conditionals make it.

## Modules

| Module | Models | Variables and what they are in the code |
|---|---|---|
| `V1Switch` | driver, `interp_prog`, extract and emit | `todo`, `results`, `expected`: the arguments of `run_test`; `es`: the extern state; `hdr`, `std`, `body`, `port`: `hdr2`..`hdr6`, `standard_metadata2`..`5`, `pkt_body`, `port`; `pc`: the module that runs |
| `PacketForwarder` | abstract: what a switch promises | implemented by `V1Switch` |
| `HeaderStore` | a header union and a header stack in the store | `union`, `stack`, `next`: a `ValBaseUnion` and a `ValBaseStack`; `signal`: the result of the last statement |
| `CallStack` | calls | `frames`: the Coq stack of `interp_call`s, with the state `st` each holds; `mem`, `ext`: the two halves of `state`; `sig`: the signal |
| `CallByCopy` | abstract: calls with private parameters | implemented by `CallStack` |
| `TableMatch` | `extern_match` and what it calls | `kinds`, `const`: the table's declaration; `installed`: its `ObjTable` |
| `Bmv2Run` | `RunBMV2` and `ConcurrentInteger`, with the switch and its client as external processes | `locks`: the lock directories; `pc`, `slot`, `script`: where `run()` is, what `generate()` returned, its locals and fields; `switch`, `cli`: the two processes |
| `Bmv2Test` | `run-bmv2-test.py` around it | `opts`; `child`: thread and process of `run_timeout`; `ran`, `compiled`, `tmpdir`: progress of `run_init_commands` and `process_file` |
| `Bmv2Commands` | `do_cli_command` and what it calls | `line`, `rest`: words read and unread; `table`, `action`, `prio`; `values`: `TableKeyInstance`; `args`: `BMV2ActionArguments`; `sent` |
| `P4cDriver` | `main.py`, `driver.py`, `config.py` and the `p4c.*.cfg` back ends | `targets`: `config.target`; `opts`, `backend`, `cmdline`: what `main` has worked out; `todo`, `pending`, `rc`: the loop of `run()`; `ver`, `p4i`, `out`: the files |
| `LintText` | `CleansedLines` and the bracket scans | `lines`, `clean`: `raw_lines` and `lines_without_raw_strings`; `delimiter`; `kept`, `rest`: the line being scanned |
| `LintLines` | `ProcessLine` over a file | `stack`, `previous_stack_top`, `pp_stack`: `NestingState`; `include_list`, `section`, `last_header`: `_IncludeState`; `function`: `_FunctionState`; `suppressions` |
| `LintFiles` | `main`, `ParseArguments`, `ProcessConfigOverrides`, `error`, the counts | `settings`: the module's globals; `filters`, `_filters_backup`, `error_count`, `errors_by_category`: `_CppLintState`; `config`, `queue`, `item`: the directory being read, the files and errors left |
| `V1Switch_proofs`, `HeaderStore_proofs`, `CallStack_proofs`, `TableMatch_proofs`, `Bmv2Test_proofs`, `P4cDriver_proofs`, `LintLines_proofs`, `LintFiles_proofs` | theorems | |
| `MC...` | the values of the constants for TLC | |

`Bmv2Test` extends `Bmv2Run`: its next-state relation is that of the runner together with the
steps of the script around it, so the runs and proofs are about the composition.

**V1Switch.** A module of the P4 program is a set of small actions it may take in any order and
number (`Extract`, `Emit`, `SetValidity`, `Rewrite`, `CopyHeader`, `SetStd`), allowed where the
V1Model signature gives the module the object, followed by the step with which `interp_prog` picks
up its result (`ParserAccepts` ... `DeparserEnds`), or by an error (`ModuleFails`). Bits are
opaque: `Bit` is a set of values, all different in the runs, so that each bit of an answer can be
traced to where it came from. An arithmetic result is a bit of `Fresh`. `Extract` follows the code
in consuming a header field by field: `Cuts` lists the field boundaries, and a packet that ends
inside a header has lost the whole fields before its end (`ExtractTooShort`).

**HeaderStore.** An lvalue is a member of the union or an element of the stack at any index,
in range or not, including `stack.next`. `Read` is `interp_read` (behind the end: the first
element), `Eval` is `interp_expr` (behind the end: a header of unknown validity); the difference
is the code's. `Det` is the determinisation between a right-hand side and the store.

**CallStack.** A frame is a call in progress. The interpreter finds out that an argument cannot be
evaluated *before* the call (`interp_args` returns a signal) but runs the call all the same and
then drops its state (line 779); the same happens, for a target, in an assignment (line 628). So a
frame keeps the state from before the call, and `LeaveDropped` restores it. Every callee has one
parameter, in, out or inout; nothing is recursive, as P4 demands.

**TableMatch.** Entries are sets of bit vectors; the code's conversions (`valset_to_valsett`,
`lpm_set_of_set`) and its merge sort, which splits by parity and merges by insertion, are kept as
they are, because the properties are about what they do to the answer. The sort is written as a
function on the depth of the recursion, the length of the list (`MergeSortTo`); the lists are of
any length.

**Bmv2Run and Bmv2Test.** One step of a script is one call that another process can get in
between of: taking a lock, starting a process, opening one pipe, one alarm, one line of the STF
file. Opening a pipe is a rendezvous: it ends when the other side opens the same pipe. The client
talks to whichever switch serves the port when it starts (`cli[s].peer`), which need not be its
own. A packet is a sequence of hexadecimal digits and an expectation may have `*` and a final `$`.
The exceptions of the code (a packet that is no hexadecimal, a list and a flag mixed for one
interface, a client that is gone) end in the step that the `finally` clause and the caller make of
them; a script that is killed takes no further step and leaves what it holds. `terminate()` only
asks a process to end: the script then waits in `pc` "raising" (the `except` clause, which waits
for the switch) or "stopping" (which waits for the client too), with its lock still held, until
the external steps `SwitchStops` and `CliStops` have happened, if they do. In the same way a
compiler that was terminated is "terminating" until its thread sees it end, and an interpreter
with a thread that has not ended does not exit.

**Bmv2Commands** resolves a line word by word, in the order of the code, and ends with the command
or an error. Names are sequences of parts because all the code asks of a name is whether another
one ends with it. **P4cDriver** keeps the command lines as sets of words, because the words
and not their order decide what a tool reads, writes and takes for its language; a tool is external,
and either writes its output or not. **LintText**
works on tokens instead of characters; **LintLines** takes from a line what the regular expressions
find in it; **LintFiles** takes from a file the errors the checks find in it. The three follow each other in
`ProcessFileData`; what passes between them is just these, so they are separate.

An included header of `LintLines` is one that is checked, a third-party header (which the code
leaves out of its lists and of the order) or a source file of another directory (which it reports and
then leaves alone). In `LintFiles` a file that may be named twice is in `Tree` twice, as the code's
sorted list of names has it, and `--recursive`, which makes a set of the names, takes it once. A
filter without a sign ends the run where it is added, in `ParseArguments` or at the first file below
its `CPPLINT.cfg`; so does an option of a `CPPLINT.cfg` that cannot be used (option "invalid"). The
settings are all kept and overridden as in the code, but of the checks that depend on them only that
of the line length is modelled (`Raised`), and of the choice of files that by extension.

## Runs

| Run | Checks | Bounds, and why they are enough |
|---|---|---|
| `V1Switch` | `TypeOK`, `ParsedPrefix`, `AllAccountedFor`, `VerdictSound`, the refinement `Forwards`, the liveness `RunEnds` | two headers of two one-bit fields, packets of one to three distinct bits (one too short for a header, one exactly a header, one longer), three scripts (expectations before and after, a missing one, an unimplemented statement), `packet_out` up to 4 bits (both headers). Two packets in a row are what staleness needs. 182,988 states |
| `HeaderStore` | `TypeOK`, `ValidityKnown`, `AtMostOneValid`, `VoidWritesHarmless`, `ShiftsKeepOrder` | two members, three elements, indices -1 to 3, shifts by 0 to 4 (more than the whole stack), `next` up to 5, two past the end. 29,160 states |
| `CallStack` | `TypeOK`, `CopiesInAndOut`, `ExitIsFinal` | one variable, two actions and two functions, every direction, two levels of calls: an action or a function in an action, a function in a function; one extern call. 721,068 states |
| `TableMatch` | `TypeOK`, `LongestWins`, `MissesJustified`, `AddIsLocal` | two-bit keys (every prefix length, masks that are no prefix), up to four entries (both halves of the merge sort get two), at most one of them const. 279,322 states |
| `Bmv2Test` | `TypeOK`, `LockOwner`, `NoFifoDeadlock`, `CommandsFirst`, `VerdictSound`, `SwitchStopped`, the liveness `TestEnds` | two scripts, one port and one attempt, so that they always compete; one of the two goes through the compiler, the other is started by hand and may be killed; two interfaces (a pipe can be opened out of turn), two commands and two packets, an interface where anything is fine, a packet that raises; one alarm before patience ends. 348,300 states |
| `Bmv2Commands` | `EntriesAsWritten` | three tables with keys of every type, among them names that are the end of two others; lines of up to two keys (given twice, in the wrong order, unknown) and two or three arguments, values with `*`, a prefix length, no base. 28,217 states |
| `P4cDriver` | `EndsAsItsCommands`, `CompiledThisRun`, `LanguagesAgree`, `CleanedAfterUse` | two runs in one directory, two sources with one base name, one edit; twenty command lines with every mode, five environments, the back ends of the tree and one with set-up and cleanup commands, in two load orders; tools that succeed, fail or die of a signal. 429,144 states |
| `LintText` | `CodeRemains`, `BracketsMatch` | comments in files of four lines; two lines of up to three tokens for raw strings and for brackets; one line of up to six for strings and comments. 1,449,982 states |
| `LintLines` | `FirstBranchesCount`, `IncludesRemembered`, `OrderJustified`, `FunctionsMeasured`, `NolintHonoured` | all files of four to six lines over eight small alphabets, one for each thing remembered, with the directives it interacts with, and one for the headers that are not remembered (third-party headers, source files of other directories): six lines hold two nested conditionals, or one with a brace in each branch. `Trigger` is one line. 631,988 states |
| `LintFiles` | `PrintedJustified`, `CountsAgree`, `LintedExactly` | four files in three levels of directories, one of which can be named twice, 180 combinations of outer, middle and inner configurations, five command lines; line lengths above and below the width of a long line. 9,081 states |

**What they show.**

`ParsedPrefix` and `Forwards` say that the parsed part and the body are complementary and that no
bit of another packet is sent. `AllAccountedFor` and `VerdictSound` relate the driver's lists to
the script it started from. `CopiesInAndOut` is `CallByCopy` under a refinement mapping in which
the memory of a suspended call is found in the frame of the next function call above it, and a
dropped call is one that has not happened. `LongestWins` and `MissesJustified` compare the sorted
lookup with a definition of the best candidate; what "a candidate" is follows the code (see
below for where that is not what the tests expect). `AddIsLocal` says how far adding an entry
can reach.

`LockOwner` is the mutual exclusion of the scripts, and that no way out of `run()` forgets the
lock. `NoFifoDeadlock` says that script and switch never wait at different pipes. `CommandsFirst`
relates the two ways to the switch: what is in the pipe, and which commands took effect. The
condition that the client talks to the script's own switch is needed: the answer of
`check_switch_server_ready` is ignored, so a client may be connected to the switch of a
killed script, or to that of one that gave up, on the same port. `VerdictSound` holds even so, because the outputs are read from the
script's own switch. `SwitchStopped` is limited to scripts that have started their client, as the
early returns leave the switch running (run `PortShared`). `TestEnds` says that every test ends but
for the waits the code sets no limit to, each a disjunct of its own: the wait for the Thrift server
with an alarm of zero seconds; the waits for switch, client and compiler after `terminate()`, when
the process does not end; and the thread of `run_timeout` when the time was up before it had a child
(the script fails, but the thread starts the child after all and the interpreter waits for it). A
test that does not end stays in one of these for ever.

`EntriesAsWritten` compares what the client is sent with what the words mean, digit by digit: it
is about clear lines (each key names one field, once). `CompiledThisRun` and `CleanedAfterUse`
follow the `.p4i` file through runs, edits, failures and interrupts; `LanguagesAgree` follows the
language from the environment to both tools; `EndsAsItsCommands` is about the exit status and the
cleanup commands.

`CodeRemains` compares four successive passes with one automaton that reads the file as C++ does;
its premise `Tame` names what cpplint does not claim to read. `BracketsMatch` says the forward and
the backward scan are inverse. `FirstBranchesCount` replays the file without its other branches and
compares the stacks. `IncludesRemembered` and `OrderJustified` define from the lines alone what
should be found or reported, third-party headers and source files of other directories excepted; so
do `FunctionsMeasured` and `NolintHonoured`. `PrintedJustified`
computes from the filters in the configuration files of a file's own directories what is shown, and
thereby says that no *filter* is left over from the file before. Settings are left over, as the code
restores the filters only, and the property says for the line length what that means: a line is too
long by the length of the outermost of its directories that gives one, and if none does, by the one
that the last file before it has left, even if that file was excluded halfway through its
configuration. `CountsAgree` relates counts, output and exit status;
`LintedExactly` relates the exclusions of the command line and of three levels of files.

**Fairness.** `RunEnds` uses weak fairness of the driver and of `ModuleEnd`. The driver is a
recursive function that never waits. Controls and deparsers are loop-free in P4 and the
interpreter gives them unlimited fuel, so they end; for parsers, which may loop, termination is an
assumption about the program. No fairness is assumed of any particular result.

`TestEnds` uses weak fairness of the steps of each script and of its client. Both are
processes the operating system schedules, and the timers that go off (`TimesOut`, the alarms) are
steps of the script: a signal is delivered to a process that waits. A packet command sleeps for a
second, which the model takes as waiting until the client has carried out its queue or failed;
weak fairness of the client says that it does one of the two. Nothing is assumed of the switch or of the
compiler: they may hang, and nothing makes them, or the client, end when they are terminated.

**Deadlock** is checked in the runs of the Petr4 modules, whose `Terminated`, `Stopped` and `Full`
steps keep a finished system in place. The runs of the Python tools turn it off: scripts exit, a
line has been sent, a file is at its end, and a compiler driver has used up its runs; a switch and
a compiler may hang. Where a test script may wait for ever, and that it
does nowhere else, is `NoFifoDeadlock` and `TestEnds`.

**Bounds** that appear in guards: `MaxEmitted` (V1Switch), `MaxCount` and `MaxNext` (HeaderStore),
`MaxDepth` and `MaxExt` (CallStack), `MaxConst` and `MaxEntries` (TableMatch), `Tries` and
`Patience` (the code's own limits, 10 and 30, made small), `MaxRuns` and `MaxVersion` (P4cDriver),
`Trigger` (the code's 250 or 400 lines).

**Disagreements.** Two runs check a statement of the repository that the code does not meet;
`PROJECT.json` quotes it and gives the lines.

| Run | Statement | What the code does |
|---|---|---|
| `LpmMatch` | an lpm table finds an entry whose prefix the key has (`table-entries-lpm-bmv2.stf`) | usual prefix masks empty the table, other masks lose the value |
| `PortShared` | simulator instances use different port numbers (comment on `ConcurrentInteger`) | a script that gives up before its client is started leaves its switch and removes the lock of its port |

The modules follow the code in further places where its documentation, comments or tests say
something else, or where a reader would expect something else. No run is spent on them:

- Petr4: a parser's error is not stored in the standard metadata (`V1ModelTarget.v:764`); a
  union member made invalid leaves another one valid (`Semantics.v:903`); setInvalid keeps the
  contents (`Interpreter.v:512`); under a ternary mask a 0 of the key matches a 1 of the value
  (`V1ModelTarget.v:464`); a range is taken for value and mask (365).
- `bmv2stf.py`: a lpm key in decimal with a prefix becomes `0x0x...` (269); with no time left
  `alarm(0)` sets no alarm (636); the answer to the question whether the server is ready is
  ignored (637).
- `run-bmv2-test.py`: a compiler that dies of a signal, or is stopped by the time-out, passes a
  test of a program that should be rejected (304-310).
- `p4c`: the name of a back end is compared by its beginning, so the order in which configuration
  files are loaded can decide; the codes of cleanup commands are thrown away; with `-e -S` the
  DPDK back end removes the file all the same.
- `cpplint.py`: the usage text says that a `CPPLINT.cfg` has an effect on files in its directory and
  below "unless overridden by a nested configuration file" (269-270). Its line length, extensions,
  headers, root and include order stay in force for later files elsewhere (only filters are restored,
  6716), and the *outermost* directory's stays (6590-6605, read from the inside out). Comments over
  several lines are cleared before raw strings are (6510), even inside one; a filter without a sign is an uncaught exception, and an
  include order nobody knows in a `CPPLINT.cfg` prints the usage text and ends the run.

## Proofs

All theorems hold for every value of the constants that satisfies the assumptions in the modules:
- finite header widths with their field boundaries, `Fresh` a non-empty set of bits, port 0 among
  the ports, packets of the script without wildcards;
- keys of at least one bit; the sets an entry can have for a key are singletons, masks and ranges of
  bits, and the universal set, whatever the match kind;
- a stack of at least one element, `Zero` among the values; actions, functions and variables with
  different names;
- `NoSlot` no slot, at least one slot and one attempt; a patience that is a number; STF files that
  are sequences of the commands the script tells apart, their interfaces numbered from 0; options
  of their types (`OptionsAssumption`);
- a tool returns 0, a status or minus a signal; the words a user hands on to a tool are neither its
  input nor its language again; a back end that a site adds lists its commands in an order that
  makes sense (`WellFormed`: nothing is compiled before it is preprocessed, nor removed before it
  is compiled), which the back ends of the tree are proved to do;
- files are sequences of lines, an `#include` is a line of its own; directories have (possibly
  empty) configuration files.

`V1Switch_proofs`
- `TypeCorrect`, `Spec => []TypeOK`. `TypeOK` is inductive as it stands because it says where the
  extern objects must be present: `packet_in` in every module, `packet_out` in the deparser.
- `PrefixParsed`, `Spec => []ParsedPrefix`, inductive relative to `TypeOK`. The argument: extracting
  moves the cut forward, and bits that were before it stay before it (`PrefixGrows`); every other
  action builds headers from headers or from `Fresh`; resets at the start of a packet and before
  the deparser remove the previous packet's bits.
- `NothingLost`, `Spec => []AllAccountedFor`, inductive relative to `TypeOK`: taking the first
  statement off the script lowers the count of its kind by one (`CountTail`), and each branch of
  `run_test` puts it in exactly one list.
- `VerdictsSound`, `Spec => []VerdictSound`. The inductive `VerdictInv` says that what is left is the
  end of the script and that the expectations are those of the statements read, each at its rank
  (`ExpectedRead`); a rank grows by one at a statement of its kind and not otherwise (`RankStep`).
- `Implements`, `Spec => Forwards`: every step maps to a step of `PacketForwarder` or to a stutter,
  under `TypeOK` and `ParsedPrefix`. The only difficult step is `DeparserEnds` (`AnswerSent`):
  the invariant supplies the cut at which the answer splits.

`HeaderStore_proofs`
- The inductive invariant is the conjunction of `TypeOK`, `ValidityKnown` and `AtMostOneValid`.
  They need each other: a union member that could be unknown would break exclusivity, and the
  validity of what is stored depends on the type of what is read. All statements go through one
  lemma (`StatementInv`), as all writes go through `interp_write`.
- `TypeCorrect`, `NoUnknownValidity`, `UnionExclusive` follow; `VoidWrites` is the action property
  `VoidWritesHarmless`, from the invariant.
- `ShiftsInOrder`, `Spec => ShiftsKeepOrder`, for stacks of every size and shifts by every count. The
  valid headers of a stretch of the stack are a function of its two ends (`Collects`); a stretch
  that moves as a whole keeps them (`SameHeaders`), and a stretch behind another appends its own
  (`AppendBehind`). A push is a moved prefix behind invalid headers (`PushCollects`), a pop the
  rest in front of them (`PopCollects`); what falls off is `count` elements and so at most as many
  headers (`CollectsFew`).

`CallStack_proofs`, for any callees, parameter directions, values and depth
- The inductive invariant is `CallInv`: the types of all variables, frames included, `Calls` and
  `Defined`. `TypeOK` alone is not inductive: that what can be named has a value must also hold of
  the memory each frame has saved, which a function's return or a dropped call puts back
  (`CalledFrom`), and an action is called by actions only, so that all their parameters live in
  the one memory. `TypeCorrect` follows.
- `ExitEndsAll`, `Spec => ExitIsFinal`, from the invariant: without a dropped call on the stack
  only `Leave` and `TableFails` can follow an exit.
- `Implements`, `Spec => CopiesInAndOut`. What is added to the invariant (`RefInv`) is the shape of
  the stack: its calls of actions are below those of functions (`Boundary`), no callee occurs
  twice, and arguments and targets are what the caller can name. With the boundary known, the
  memory of the i-th call is found in one place (`MemOfIs`), so a write changes one abstract
  variable or parameter (`WriteAbs`), a call adds one (`PushAbs`) and a return takes it away
  (`PopAbs`). A stack with a dropped call maps to what is below the first one (`AbsSome`): all that
  happens above is a stutter (`StillDropped`) until it ends, which is a reject of its caller.

`TableMatch_proofs`, for keys of any width, any number of entries and any list of match kinds
- `TypesHold`, `Spec => []TypeOK`, inductive as it stands. The other theorems follow from it and from
  what the lookup computes; the state itself is simple.
- The sort. `Inserted(s, t, p, r)` says that `t` is `s` with `r` put in at place `p`; `InsertRow` does
  this at a place that keeps a list descending (`InsertRowInserts`, `InsertRowDescends`), so merging
  does (`MergeDescends`) and loses nothing (`MergeElements`), and so, by induction on the depth,
  does the sort: the result has the rows of the list, longest first (`MergeSortSorts`).
- `LongestPrefixWins`, `Spec => []LongestWins`, and `EveryMissIsJustified`, `Spec => []MissesJustified`.
  `SortLpmResult` says what `sort_lpm` returns: nothing when a row is no prefix, else the rows before
  the first default, longest first, then the default. With a second key the rows are filtered first
  (`MatchingIs`); `Stands` says which entry a row that is left speaks for. The first row of such a
  list that matches is the best (`HitIsBest`), and there is none only for one of the two reasons
  (`MissIsJust`).
- `AddingIsLocal`, `Spec => AddIsLocal`. The difficulty is that the new entry is the last of the list:
  it moves no element to the other half when the sort splits by parity, but which half it ends up
  in, and where, depends on the length (`EveryOtherAppend`, `TailAppend`). `OneMore(s, t, r)`, "`t`
  is `s` with `r` somewhere in it", is what goes through: merging keeps it on either side
  (`MergeOneMoreLeft`, `MergeOneMoreRight`), so the sort of the longer list is the sort of the
  shorter one with one row more (`MergeSortOneMore`) - the sort is stable enough for this - and so is
  what `sort_lpm` returns (`SortLpmAppend`). Then the first match is what it was, or the new row
  (`FirstMatchOneMore`).

`Bmv2Test_proofs`, for any number of scripts, slots, attempts and STF files
- `LockOwnerHolds`, `TestSpec => []LockOwner`. The inductive invariant is `LockInv`: `LockOwner`
  with the domains of `pc` and `slot`. Every step of every process is one of four kinds (a script
  takes a lock, gives its own back, is killed, or goes on), which is shown once for the whole
  next-state relation (`TestSteps`); then each kind keeps the invariant. The last part of
  `LockOwner` (every lock has an owner) is what makes the second (no two scripts hold one slot)
  go through: a slot that may be taken is not in `locks`, so nobody holds it.
- `SwitchStoppedHolds`, `TestSpec => []SwitchStopped`. `SwitchStopped` speaks of scripts that have
  returned; the inductive `StopInv` says for each script where it can be once its client is
  started (`Serves`): playing the STF file, waiting for its end, killed, or past that with a switch that has
  ended. Each step either leaves the client unstarted, leaves pc and switch, or goes on because the
  switch has ended.
- `NoFifoDeadlockHolds`, `TestSpec => []NoFifoDeadlock`. The inductive invariant `InStep` says that a
  script has opened as many pipes as its switch, at every moment of the run. Only `openInterface`
  changes either number, and it changes both (`OpensBoth`); every other step is an edit of other
  fields of the two records (`EditsScript`, `EditsSwitch`), which leaves the numbers (`EditsKeep`).
  The invariant is what turns "both sides sort the interfaces alike" into "both are at one pipe".
- `TypeOKHolds`, `TestSpec => []TypeOK`. `Kinds` says of every step what kind it is (the
  script starts, reads a line, is raised out of the commands, finishes, checks an interface; a
  switch forwards, a client connects, applies or fails; the compiler side moves, passes, gives up),
  each stated by the fields it changes and those it leaves. The inductive `Typed` is shown kind by
  kind; it needs the shape of the records, the pipes and queues that `TypeOK` does not mention,
  and that a script at its initialisation commands has one left (`TypedRan`).
- `CommandsFirstHolds`, `TestSpec => []CommandsFirst`, from the same kinds. `Ordered` says of a client
  that may still reach its own switch: a command that was read is in its input or has taken effect
  (`Handed`); when no delay is pending, the commands read have all taken effect (`Waited`); and so
  have those above any packet in a pipe (`Above`). A packet is sent when the delay is over, which
  is where `Slept` turns `Handed` into `Above`. Nothing is said of a client that has connected to
  another switch, failed or stopped: it never reaches its own again (`Talks`).
- `VerdictSoundHolds`, `TestSpec => []VerdictSound`. `Fair` follows one script from the compiler to
  the exit: what the compiler and the initialisation commands have settled (`Compiled`); that the
  packets kept for an interface are those of the file above the current line, in order (`Kept`,
  with `Upto` counting them: `UptoNext`); that every interface of the file is compared or still to
  be (`Compared`), which rests on `Opened` - a script that reads the file has opened every pipe, and so
  has its switch - and on the sorted interfaces being all of them (`SortedAll`); and what a success
  stands on (`Sound`). It must say that the switch is not alive, since a live one could still write
  to an interface after it was compared (`IdleFair`).

`P4cDriver_proofs`, for any requests, environments, load orders, well-formed back ends and edits,
and any number of runs
- The inductive `DriverInv` says what a back end that can be found looks like (`IsBackend`), that
  what is left to do is the end of the list of commands (`Progress`), and that the command lines are
  those of the options (`Line`). What a mode leaves of that list is still in order, except for the
  preprocessor that was skipped (`EnabledOrder`).
- `CompiledInTheRun`, `LanguagesTheSame` and `RemovedAfterUse`, the action properties
  `CompiledThisRun`, `LanguagesAgree` and `CleanedAfterUse`. `FilesInv` says of every command that
  has succeeded in this run what that means for the files: the preprocessed text is of this run and
  of the user's source, or gone; the output is of this text; after the cleaner there is none. It is
  an invariant although anything may fail or be stopped, because a run goes on only after a success.
  The rest is the order of the commands.
- `EndsAsCommanded`, `Spec => []EndsAsItsCommands`. `EndsAsItsCommands` speaks of runs that have
  ended; `RanInv` says it of a run under way: of the entries of `ran` that are over (`Over`), with
  all their cleanup, none has failed (`OverInv`), and the commands among them are the first ones of
  the list in their order (`PlaceInv`); the rest is the last command and the part of its cleanup
  that was run, as counted by `pending`.

`LintLines_proofs`, for files of any length
- `NolintObeyed`, `Spec => []NolintHonoured`. `Commented`: the suppressions on record are those of
  the lines read; an error is about a line that was read or is being read, and a comment does not
  speak of lines before its own, so no later line changes what is hidden.
- `FirstBranchesKept`, `Spec => []FirstBranchesCount`. `Branches` relates the stack of checkpoints
  to the conditionals that are open (`Aligned`): outside other branches the blocks are those of the
  file without other branches, and inside, the checkpoint of the *outermost* conditional that went
  on has kept them (`FirstKept`). `BranchStep` shows it for one directive on any stacks.
- `FunctionsWellMeasured`, `Spec => []FunctionsMeasured`. `Measured` says which function is open and
  how many of its lines were counted; `Behind`, that errors are about lines already read, so that a
  verdict stays.
- `OrderWellJustified`, `Spec => []OrderJustified`. `Reached` says that `section` is the greatest rank
  of the headers since the last directive, 0 when there is none; the rank of a header that was out
  of order is that of the ones before it, which is why a wrong include does not condemn the next.
- `HeadersRemembered`, `Spec => [](AssemblyWhole => IncludesRemembered)`. `#else` clears the last list,
  but `#endif` takes none away, so that list need not be the one its own `#if` appended. `Headers`
  says what holds all the same: a header that is still included is found, and if a conditional was
  opened after it that is still open, it is found *below the last list*. An `#else` has such a
  conditional, which began after every header still included (`OwnIfExists`, `ElseForgets`). The
  condition `AssemblyWhole` is that no `#if` is taken for inline assembly whose `#else` is not: no
  list was appended for it, so its `#else` clears one of the code around it. Without the condition
  the property is false of the code: inside inline assembly, a brace on an `#elif` line, or a `)` after
  a class head whose body has not begun, changes the block that decides.
- `PlainHeadersRemembered`, `Spec /\ []PlainDirective => []IncludesRemembered`: the `#if`, `#elif`
  and `#else` lines open no scopes and no braces and close the brackets they open, as in
  `#if defined(X)`; one with brackets does not stand between the head of a class or namespace and its
  brace, where a closing bracket ends the head (`BracketsIgnored`). `Marked` says
  that the checkpoint of an open conditional tells whether its `#if` was skipped; its `#else` goes on
  with the same blocks and so is treated alike (`DirectiveSkipped`).

`LintFiles_proofs`, for any tree of directories and configuration files
- `PrintedAsConfigured`, `Spec => []PrintedJustified`. What the lines of one file make of the
  settings (`FileRead`), and the files from a directory upwards (`LevelsRead`), is shown by induction
  along the two loops of `ProcessConfigOverrides`: of several filters on a category the last
  appended decides, so the innermost directory does (`ConfigDecides`). The invariant then says that
  the filters in force are those of the file being linted, and the base filters in between. For the
  line length the same two loops are followed (`FileLength`, `LevelLength`), up to the line that
  excludes the file; `LengthInForce` then says that the length in force is the one which the files up
  to the one in hand have left, and `OneFileMore` what a file adds to that.
- `CountsAreThose`, `Spec => []CountsAgree`: `Counts` adds to the property what `old_errors` says in
  the middle of a file.
- `SelectionExact`, `Spec => []LintedExactly`: `Selected` says what has been linted of what is wanted
  while files are still queued.

**Induction over data.** The library's induction theorems cannot be used here, but a recursive
function on `0 .. n` can be reasoned about without them: a set of numbers at which it is not as
claimed has a least element (`Least`), which the definition of the function refutes
(`StepByStep`). That such a function exists at all is shown in the same way
(`ComputationExists`). The proofs about `LintLines`, `LintFiles`, `TableMatch` (the sort by its
depth, the filter by the length of the list) and the shifts of `HeaderStore` rest on this, and so does
`SortedExists` of `Bmv2Test_proofs`: every finite set of numbers can be enumerated in order.

**Only model-checked.** Liveness. `LintText` and `Bmv2Commands`, whose operators are recursive in
the same way the code is. What becomes of `IncludesRemembered` when conditional directives inside
inline assembly carry braces or brackets that do not match, or stand between a head and its brace,
is in no theorem and in no file of the run.

## Not modelled

- The relational semantics of Petr4 and its soundness proofs are Coq theorems already. Checker,
  elaborator, compilers and printers are pure functions over syntax trees with no state and no
  useful small inputs; the C runtime and the web page are outside the core. Registers and hash
  cannot be run by the interpreter: calling one is `ModuleFails`.
- The header stacks of P4cub: what they compile to is run by nothing in the repository.
- The lexer's scopes: their order of use is the grammar of `p4parser.mly`.
- The checks cpplint makes of one line (most of its length): regular expressions without state. A
  model of them would be a copy of them. `LintFiles` has their results as the errors of a file.
- `stf_parser.py`, `stf_lexer.py` and `testutils.py`: a grammar nothing calls, and wrappers.
- Left out within the modelled components. Petr4: user metadata, varbit (unimplemented in the
  code), value sets, keys that are not `bit<W>`, structs and bit slices in the store, `isValid`,
  instances of sub-controls, the parser's state machine (the parser is free to take any action in
  any order), and the resolution of an entry's action name. Test scripts: the debugger, reading of
  options and of `config.h`, the pcap format, the message of the observation log. Table commands:
  splitting a line into words, handles. `p4c`: developer options and those that are only handed
  on. cpplint: output formats, access specifiers and templates in `NestingState`, white space,
  global suppressions, options that are not valid on the command line, and what `--root`,
  `--includeorder` and `--headers` change in the checks of a file.

## Order of the work

The core came first: `V1Switch` with `PacketForwarder` and its proofs, `HeaderStore` with its
proofs, `CallStack` with `CallByCopy` and the proof of the refinement, `TableMatch`. Then the tools around it: `Bmv2Run` and
`Bmv2Test` with proofs, `Bmv2Commands`, `P4cDriver`, and cpplint from the text (`LintText`) over the lines
(`LintLines`) to the files (`LintFiles`). What would come next: the states of the parser
(`load_parser_state`, accept and reject) in place of the free parser of `V1Switch`.
