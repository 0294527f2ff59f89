--------------------------- MODULE LintFiles ---------------------------
(***************************************************************************)
(* What cpplint.py keeps from one file to the next: the settings of the    *)
(* command line, which CPPLINT.cfg files override on the way, the filters  *)
(* that decide which errors are printed (_CppLintState), and the error     *)
(* counts.  main processes the files in sorted order; the errors the       *)
(* checks find in a file are its "items" here, what they depend on from    *)
(* line to line is the subject of LintLines.                               *)
(*                                                                         *)
(* An option of a CPPLINT.cfg is a record of its name and, under that      *)
(* name, its value; the name "invalid" stands for an option that ends the  *)
(* whole run.  A path is a sequence of names.  An error category and the   *)
(* pattern of a filter are sequences too: <<"build", "include">>; a        *)
(* pattern matches the categories it is a prefix of.  The files still to   *)
(* be processed are a set, from which the first in the order of Tree is    *)
(* taken; a file that can be named twice is in Tree twice.                 *)
(***************************************************************************)
EXTENDS Integers, Sequences, FiniteSets, SequencesExt

CONSTANTS
    Word,       \* names, options, signs: the strings this is about
    Tree,       \* the files, sorted: records path, time (the first time it is
                \* named, the second, ...), ext, readable, items
    Arguments,  \* the command lines: records names (how often each), excludes,
                \* recursive, filters, settings, verbose, counting, quiet
    HeaderLike, \* the extensions with an "h" in them
    Configs     \* functions from directories to the options in their
                \* CPPLINT.cfg, empty when there is none

Path == Seq(Word)
Category == Seq(Word)
Filter == [sign : Word, pattern : Category]
Item == [category : Category, confidence : Nat, width : Nat, nolint : BOOLEAN]
Settings ==
    [linelength : Int, extensions : SUBSET Word, headers : SUBSET Word,
     root : Path, includeorder : Word]

\* an option has the value that goes with its name
IsOption(o) ==
    /\ o.name \in Word
    /\ o.name = "filter" => o.filter \in Seq(Filter)
    /\ o.name = "linelength" => o.linelength \in Int
    /\ o.name = "extensions" => o.extensions \in SUBSET Word
    /\ o.name = "headers" => o.headers \in SUBSET Word
    /\ o.name = "root" => o.root \in Path
    /\ o.name = "includeorder" => o.includeorder \in Word

DirOf(path, level) == SubSeq(path, 1, level - 1)

ASSUME WordAssumption == {"-", "build", "include_alpha", "default"} \subseteq Word
ASSUME TreeAssumption ==
    Tree \in Seq([path : Path, time : Nat \ {0}, ext : Word, readable : BOOLEAN,
                  items : Seq(Item)])
ASSUME ArgumentsAssumption ==
    \A a \in Arguments :
        /\ a.filters \in Seq(Filter)
        /\ a.settings \in Settings
ASSUME ConfigAssumption ==
    \A c \in Configs : \A f \in DOMAIN Tree : \A l \in DOMAIN Tree[f].path :
        LET dir == DirOf(Tree[f].path, l) IN
        /\ dir \in DOMAIN c
        /\ Len(c[dir]) \in Nat
        /\ DOMAIN c[dir] = 1 .. Len(c[dir])
        /\ \A i \in DOMAIN c[dir] : IsOption(c[dir][i])

VARIABLES
    args, config,
    pc, queue, item,
    settings,                            \* _line_length, _valid_extensions, ...
    filters, _filters_backup,
    error_count, errors_by_category, old_errors,
    printed, linted, done                \* history: what was reported, checked, announced

countVars == <<error_count, errors_by_category>>
vars == <<args, config, pc, queue, item, settings, filters, _filters_backup,
          countVars, old_errors, printed, linted, done>>

DefaultFilters == <<[sign |-> "-", pattern |-> <<"build", "include_alpha">>]>>

DefaultSettings ==
    [linelength |-> 80, extensions |-> {}, headers |-> {}, root |-> <<>>,
     includeorder |-> "default"]

-----------------------------------------------------------------------------
(* The extensions of the files to check, from the options that were given. *)

GetHeaderExtensions(st) ==
    CASE st.headers # {} -> st.headers
      [] st.headers = {} /\ st.extensions # {} -> st.extensions \cap HeaderLike
      [] OTHER -> {"h", "hh", "hpp", "hxx", "h++", "cuh"}

GetAllExtensions(st) ==
    GetHeaderExtensions(st) \cup
        (IF st.extensions # {} THEN st.extensions
         ELSE {"c", "cc", "cpp", "cxx", "c++", "cu"})

-----------------------------------------------------------------------------
(* ParseArguments                                                          *)

\* Mutant of _IsParentOrSame: only the path itself is excluded.
_IsSame(parent, child) == parent = child

(* A path is excluded when it is, or is under, an excluded path.           *)
_IsParentOrSame(parent, child) == IsPrefix(parent, child)

(* With --recursive the names are put into a set: no file is there twice.  *)
_ExpandDirectories(names, st) ==
    {f \in DOMAIN Tree :
        /\ \E n \in DOMAIN names : IsPrefix(n, Tree[f].path)
        /\ Tree[f].time = 1
        /\ Tree[f].ext \in GetAllExtensions(st)}

_FilterExcludedFiles(files, excludes) ==
    {f \in files : ~\E e \in excludes : _IsParentOrSame(e, Tree[f].path)}

Filenames(a) ==
    _FilterExcludedFiles(IF a.recursive THEN _ExpandDirectories(a.names, a.settings)
                         ELSE {f \in DOMAIN Tree :
                                  /\ Tree[f].path \in DOMAIN a.names
                                  /\ Tree[f].time <= a.names[Tree[f].path]},
                         a.excludes)

(* A filter without a sign makes AddFilters raise, and nothing catches it. *)
Malformed(fs) == \E i \in DOMAIN fs : fs[i].sign \notin {"+", "-"}

ParseArguments ==
    /\ pc = "arguments"
    /\ queue' = Filenames(args)
    /\ settings' = args.settings
    /\ filters' = DefaultFilters \o args.filters
    /\ error_count' = 0 /\ errors_by_category' = <<>>
    /\ pc' = IF Malformed(args.filters) THEN "crashed" ELSE "next"
    /\ UNCHANGED <<args, config, item, _filters_backup, old_errors, printed, linted, done>>

-----------------------------------------------------------------------------
(* ProcessConfigOverrides: from the directory of the file up to the root.  *)

\* Mutant of InPriority: the outermost directory has the last word.
InReadOrder(cfg_filters, filter) == cfg_filters \o filter

(* "Apply all the accumulated filters in reverse order": what is read      *)
(* first comes last.                                                       *)
InPriority(cfg_filters, filter) == filter \o cfg_filters

(* One line of a CPPLINT.cfg file; base is the name, in the directory of   *)
(* that file, that leads to the file being linted.  An includeorder option *)
(* here is the one that changes the order.  An invalid one (an unknown     *)
(* order, a pattern that is none) ends the run, by an exit or an exception.*)
Over(acc) == acc.excluded \/ acc.fails

ApplyOption(acc, option, base) ==
    CASE Over(acc) -> acc
      [] ~Over(acc) /\ option.name \in {"set noparent", "unreadable"} ->
            [acc EXCEPT !.keep_looking = FALSE]
      [] ~Over(acc) /\ option.name = "filter" ->
            [acc EXCEPT !.cfg_filters = InPriority(@, option.filter)]
      [] ~Over(acc) /\ option.name = "exclude_files" ->
            [acc EXCEPT !.excluded = base \in option.exclude_files]
      [] ~Over(acc) /\ option.name = "invalid" -> [acc EXCEPT !.fails = TRUE]
      [] ~Over(acc) /\ option.name \in {"linelength", "extensions", "headers",
                                        "root", "includeorder"} ->
            [acc EXCEPT !.settings[option.name] = option[option.name]]
      [] OTHER -> acc      \* filematch, includeorder=default, or not an option

AfterOptions(acc, options, base) ==
    LET after[n \in 0 .. Len(options)] ==
            IF n = 0 THEN acc ELSE ApplyOption(after[n - 1], options[n], base)
    IN  after

ApplyConfig(acc, path, level) ==
    LET options == config[DirOf(path, level)] IN
    IF acc.keep_looking /\ ~Over(acc)
    THEN AfterOptions(acc, options, path[level])[Len(options)]
    ELSE acc

AfterLevels(path) ==
    LET start == [keep_looking |-> TRUE, excluded |-> FALSE, fails |-> FALSE,
                  cfg_filters |-> <<>>, settings |-> settings]
        after[n \in 0 .. Len(path)] ==
            IF n = 0 THEN start ELSE ApplyConfig(after[n - 1], path, Len(path) + 1 - n)
    IN  after

ProcessConfigOverrides(path) == AfterLevels(path)[Len(path)]

-----------------------------------------------------------------------------
(* ProcessFile                                                             *)

Restored == _filters_backup

First(files) == CHOOSE f \in files : \A g \in files : f <= g

StartFile ==
    /\ pc = "next"
    /\ queue # {}
    /\ _filters_backup' = filters
    /\ old_errors' = error_count
    /\ LET f == First(queue)
           cfg == ProcessConfigOverrides(Tree[f].path)
           added == filters \o cfg.cfg_filters
       IN  /\ settings' = cfg.settings
           /\ CASE cfg.fails \/ (~cfg.excluded /\ Malformed(added)) ->
                     /\ pc' = "crashed"
                     /\ UNCHANGED <<queue, filters, linted>>
                [] ~cfg.fails /\ cfg.excluded ->
                     /\ queue' = queue \ {First(queue)}
                     /\ UNCHANGED <<pc, filters, linted>>
                [] ~Over(cfg) /\ ~Malformed(added) /\ ~Tree[f].readable ->
                     /\ queue' = queue \ {First(queue)}
                     /\ UNCHANGED <<pc, filters, linted>>
                [] ~Over(cfg) /\ ~Malformed(added) /\ Tree[f].readable ->
                     /\ filters' = added
                     /\ pc' = IF Tree[f].ext \in GetAllExtensions(cfg.settings)
                              THEN "lint" ELSE "finish"
                     /\ linted' = IF pc' = "lint" THEN linted \cup {f} ELSE linted
                     /\ UNCHANGED queue
    /\ item' = 1
    /\ UNCHANGED <<args, config, countVars, printed, done>>

(* The last filter that matches decides.                                   *)
Filtered(fs, category) ==
    LET matching == {i \in DOMAIN fs : IsPrefix(fs[i].pattern, category)} IN
    \E i \in matching : (\A j \in matching : j <= i) /\ fs[i].sign = "-"

_ShouldPrintError(e) ==
    /\ ~e.nolint
    /\ e.confidence >= args.verbose
    /\ ~Filtered(filters, e.category)

CategoryCounted(category) ==
    IF args.counting = "toplevel" THEN SubSeq(category, 1, 1) ELSE category

\* Mutant of Increment: the first error of a category is not counted.
IncrementFromZero(counts, category) ==
    IF category \in DOMAIN counts
    THEN [counts EXCEPT ![category] = @ + 1]
    ELSE [c \in DOMAIN counts \cup {category} |-> IF c = category THEN 0 ELSE counts[c]]

Increment(counts, category) ==
    [c \in DOMAIN counts \cup {category} |->
        IF c = category
        THEN (IF c \in DOMAIN counts THEN counts[c] ELSE 0) + 1
        ELSE counts[c]]

IncrementErrorCount(category) ==
    /\ error_count' = error_count + 1
    /\ errors_by_category' =
         IF args.counting \in {"toplevel", "detailed"}
         THEN Increment(errors_by_category, CategoryCounted(category))
         ELSE errors_by_category

(* A check found something.  Whether it does may depend on the settings:   *)
(* here, for the width of a line; what root, includeorder and the header   *)
(* extensions change in other checks is not modelled.                      *)
Raised(e) == e.width = 0 \/ e.width > settings.linelength

Error ==
    /\ pc = "lint"
    /\ LET f == First(queue) IN
       /\ item <= Len(Tree[f].items)
       /\ LET e == Tree[f].items[item] IN
          IF Raised(e) /\ _ShouldPrintError(e)
          THEN /\ IncrementErrorCount(e.category)
               /\ printed' = printed \cup {<<f, item>>}
          ELSE UNCHANGED <<countVars, printed>>
    /\ item' = item + 1
    /\ UNCHANGED <<args, config, pc, queue, settings, filters, _filters_backup,
                   old_errors, linted, done>>

(* --quiet silences the "Done processing" of a file without errors.        *)
FinishFile ==
    /\ pc \in {"lint", "finish"}
    /\ pc = "lint" => item > Len(Tree[First(queue)].items)
    /\ done' = IF ~args.quiet \/ old_errors # error_count
               THEN done \cup {First(queue)} ELSE done
    /\ filters' = Restored
    /\ queue' = queue \ {First(queue)}
    /\ pc' = "next"
    /\ UNCHANGED <<args, config, item, settings, _filters_backup, countVars,
                   old_errors, printed, linted>>

Exit ==
    /\ pc = "next"
    /\ queue = {}
    /\ pc' = IF error_count > 0 THEN "failure" ELSE "success"
    /\ UNCHANGED <<args, config, queue, item, settings, filters, _filters_backup,
                   countVars, old_errors, printed, linted, done>>

-----------------------------------------------------------------------------
Init ==
    /\ args \in Arguments
    /\ config \in Configs
    /\ pc = "arguments" /\ queue = {} /\ item = 1
    /\ settings = DefaultSettings
    /\ filters = DefaultFilters /\ _filters_backup = DefaultFilters
    /\ error_count = 0 /\ errors_by_category = <<>> /\ old_errors = 0
    /\ printed = {} /\ linted = {} /\ done = {}

Next == ParseArguments \/ StartFile \/ Error \/ FinishFile \/ Exit
Spec == Init /\ [][Next]_vars

-----------------------------------------------------------------------------
(* The CPPLINT.cfg files that are read for a file: from its directory      *)
(* upwards, to the first that says it has no parent or cannot be read.     *)
Stops(dir) == \E i \in DOMAIN config[dir] : config[dir][i].name \in {"set noparent", "unreadable"}
Levels(path) ==
    {l \in DOMAIN path : \A m \in DOMAIN path : m > l => ~Stops(DirOf(path, m))}

(* The signs of the filters of one filter= line that match, last one first.*)
Verdict(fs, category) ==
    IF \E i \in DOMAIN fs : IsPrefix(fs[i].pattern, category)
    THEN IF Filtered(fs, category) THEN "-" ELSE "+"
    ELSE "none"

(* The lines of the configuration files of a file that give one option, in *)
(* the order in which they are read: the innermost directory first and, in *)
(* one CPPLINT.cfg, the first line.                                        *)
LinesOf(path, name) ==
    UNION {{l} \X {i \in DOMAIN config[DirOf(path, l)] : config[DirOf(path, l)][i].name = name} :
              l \in Levels(path)}
FilterLines(path) == LinesOf(path, "filter")
Outranks(a, b) == a[1] > b[1] \/ (a[1] = b[1] /\ a[2] < b[2])

Shows(path, category) ==
    LET says(x) == Verdict(config[DirOf(path, x[1])][x[2]].filter, category)
        speaking == {x \in FilterLines(path) : says(x) # "none"}
        default == Verdict(DefaultFilters \o args.filters, category)
    IN  IF speaking = {} THEN default # "-"
        ELSE \E x \in speaking :
                says(x) = "+" /\ \A y \in speaking : y = x \/ Outranks(x, y)

(* The linelength= lines that are read on the way to a file: those of its  *)
(* directories, up to a line that excludes the file.                       *)
LengthLines(path) ==
    {x \in LinesOf(path, "linelength") :
        ~\E y \in LinesOf(path, "exclude_files") :
            Outranks(y, x) /\ path[y[1]] \in config[DirOf(path, y[1])][y[2]].exclude_files}
LengthOf(path, x) == config[DirOf(path, x[1])][x[2]].linelength

(* A line is too long after some files were processed, by the length that  *)
(* the last of them with such lines has left, the one that was read last.  *)
TooLongAfter(files, width) ==
    LET giving == {g \in files : LengthLines(Tree[g].path) # {}} IN
    IF giving = {} THEN width > args.settings.linelength
    ELSE \E g \in giving : \E x \in LengthLines(Tree[g].path) :
            /\ \A h \in giving : h <= g
            /\ \A y \in LengthLines(Tree[g].path) : y = x \/ Outranks(y, x)
            /\ width > LengthOf(Tree[g].path, x)

Found(f, e) == e.width = 0 \/ TooLongAfter({g \in Filenames(args) : g <= f}, e.width)

(* Which errors of a file are printed is decided, as far as the filters    *)
(* go, by the command line and the configuration files of its own          *)
(* directories, innermost first: no filter of an earlier file or its       *)
(* directories is left.  Which of its lines are too long is decided by the *)
(* outermost of its directories that gives a length and, when none does,   *)
(* by what the last file before it has left, be it in another directory or *)
(* excluded halfway (ProcessConfigOverrides, which assigns _line_length as *)
(* it reads; _BackupFilters, _RestoreFilters, _ShouldPrintError).          *)
PrintedJustified ==
    \A f \in linted : \A i \in DOMAIN Tree[f].items :
        LET e == Tree[f].items[i] IN
        queue = {} \/ pc = "next" \/ f # First(queue) \/ i < item
        => (<<f, i>> \in printed
              <=> /\ Found(f, e)
                  /\ ~e.nolint /\ e.confidence >= args.verbose
                  /\ Shows(Tree[f].path, e.category))

(* The counts add up: as many errors as were printed, in either style of   *)
(* counting every category as many as were printed of it, the exit status  *)
(* tells whether there were any, and with --quiet exactly the files with   *)
(* errors were announced (IncrementErrorCount, ProcessFile, main).         *)
Counted(p) == CategoryCounted(Tree[p[1]].items[p[2]].category)

CountsAgree ==
    /\ error_count = Cardinality(printed)
    /\ args.counting \in {"toplevel", "detailed"} =>
         /\ DOMAIN errors_by_category = {Counted(p) : p \in printed}
         /\ \A c \in DOMAIN errors_by_category :
              errors_by_category[c] = Cardinality({p \in printed : Counted(p) = c})
    /\ pc \in {"failure", "success"} => (pc = "failure" <=> printed # {})
    /\ args.quiet /\ pc \in {"next", "failure", "success"} => done = {p[1] : p \in printed}

Excluded(path) ==
    \E l \in Levels(path) : \E i \in DOMAIN config[DirOf(path, l)] :
        LET o == config[DirOf(path, l)][i] IN
        o.name = "exclude_files" /\ path[l] \in o.exclude_files

(* No file is linted that a CPPLINT.cfg in its reach excludes, by its name *)
(* or the name of a directory above it, or that --exclude names; and when  *)
(* no configuration file changes the extensions, every other file that was *)
(* asked for and can be read is linted.                                    *)
LintedExactly ==
    /\ \A f \in linted :
         /\ ~Excluded(Tree[f].path)
         /\ ~\E e \in args.excludes : IsPrefix(e, Tree[f].path)
    /\ pc \in {"failure", "success"}
       /\ (\A d \in DOMAIN config : \A i \in DOMAIN config[d] : 
              config[d][i].name \notin {"extensions", "headers"})
       => linted = {f \in Filenames(args) :
                       /\ Tree[f].readable
                       /\ Tree[f].ext \in GetAllExtensions(args.settings)
                       /\ ~Excluded(Tree[f].path)}

=============================================================================
