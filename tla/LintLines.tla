--------------------------- MODULE LintLines ---------------------------
(***************************************************************************)
(* What cpplint.py keeps from one line of a C++ file to the next: the      *)
(* stack of open blocks and its checkpoints at preprocessor conditionals   *)
(* (NestingState), the headers included so far and the section they have   *)
(* reached (_IncludeState), the length of the current function             *)
(* (_FunctionState), and the lines on which NOLINT comments suppress       *)
(* errors.  ProcessFileData visits the lines in order and ProcessLine      *)
(* updates all four.                                                       *)
(*                                                                         *)
(* A line is a record of what the regular expressions find in it:          *)
(*   pp        its conditional directive: "if", "else" (or elif), "endif"  *)
(*   include   the header it includes, NoHeader when it includes none. Its *)
(*             kind is "foreign" for a file that is no header (.cc) and is *)
(*             of another directory, "thirdParty" when its name is of the  *)
(*             form of Python.h or lua.h and it does not belong to the     *)
(*             file, "checked" otherwise                                   *)
(*   parens    its opening parentheses minus its closing ones              *)
(*   asm       it starts with asm                                          *)
(*   spaces    the namespaces declared at its start; each is TRUE when a   *)
(*             brace follows it                                            *)
(*   class     a class head comes next                                     *)
(*   tokens    the braces, semicolons and closing parentheses of the rest  *)
(*   forward   it ends with a forward declaration of a class               *)
(*   indented  it starts with white space and is no part of a macro        *)
(*   text      what CheckForFunctionLengths takes it for: "start" when it  *)
(*             looks like the start of a function, "end" for a lone brace  *)
(*             at its beginning, "blank", or "code"                        *)
(*   nolint    the NOLINT comment on it: "none", or the category it names, *)
(*             "*" when it names none; nextLine when it is NOLINTNEXTLINE  *)
(***************************************************************************)
EXTENDS Integers, Sequences, FiniteSets, SequencesExt

CONSTANTS
    Files,      \* the files to lint, sequences of lines
    NoHeader,   \* what "include" is on a line that includes nothing
    Trigger     \* the lines a function may have (250, 400 for a test, in the
                \* code, doubled by each level of verbosity)

Categories == {"build/class", "build/namespaces", "build/include",
    "build/include_order", "build/include_alpha", "readability/fn_size",
    "runtime/indentation_namespace", "readability/nolint"}

Header ==
    [name : Nat, type : {"likely", "possible", "c", "cpp", "othersys", "other"},
     kind : {"checked", "thirdParty", "foreign"}]

Line ==
    [pp : {"", "if", "else", "endif"}, include : {NoHeader} \cup Header,
     parens : Int, asm : BOOLEAN, spaces : Seq(BOOLEAN), class : BOOLEAN,
     tokens : Seq({"{", "}", ";", ")", "extern {", "asm {"}),
     forward : BOOLEAN, indented : BOOLEAN,
     text : {"start", "end", "blank", "code"},
     nolint : Categories \cup {"*", "none", "unknown"}, nextLine : BOOLEAN]

(* A line that includes a header is no conditional, and no line at which   *)
(* functions start or end.                                                 *)
ASSUME FilesAssumption ==
    /\ Files \subseteq Seq(Line)
    /\ \A f \in Files : \A n \in DOMAIN f :
          f[n].include # NoHeader => f[n].pp = "" /\ f[n].text = "code"
ASSUME HeaderAssumption == NoHeader \notin Header

VARIABLES
    file, linenum,
    stack, previous_stack_top, pp_stack,          \* NestingState
    include_list, section, last_header,           \* _IncludeState
    function,                                     \* _FunctionState
    suppressions,                                 \* _error_suppressions
    errors,      \* the calls of error, and whether a comment suppressed them
    skipped      \* history: the lines left to the assembler

nestVars == <<stack, previous_stack_top, pp_stack>>
includeVars == <<include_list, section, last_header>>
vars == <<file, linenum, nestVars, includeVars, function, suppressions, errors, skipped>>

None == [type |-> "none"]

Init ==
    /\ file \in Files
    /\ linenum = 1
    /\ stack = <<>> /\ previous_stack_top = None /\ pp_stack = <<>>
    /\ include_list = << <<>> >> /\ section = 0 /\ last_header = 0
    /\ function = [in_a_function |-> FALSE, lines |-> 0]
    /\ suppressions = {} /\ errors = {} /\ skipped = {}

-----------------------------------------------------------------------------
(* NOLINT                                                                  *)

\* Mutant of SuppressedLine: NOLINTNEXTLINE is taken for NOLINT.
SuppressedSameLine(line, n) == n

SuppressedLine(line, n) == IF line.nextLine THEN n + 1 ELSE n

ParseNolintSuppressions(line, n) ==
    IF line.nolint \in Categories \cup {"*"}
    THEN suppressions \cup {[category |-> line.nolint, line |-> SuppressedLine(line, n)]}
    ELSE suppressions

IsErrorSuppressedByNolint(supp, category, n) ==
    \E c \in {"*", category} : [category |-> c, line |-> n] \in supp

(* A call of error; the comments up to the current line have been read.    *)
Reported(supp, category, n) ==
    [category |-> category, line |-> n, at |-> linenum,
     shown |-> ~IsErrorSuppressedByNolint(supp, category, n)]

-----------------------------------------------------------------------------
(* NestingState                                                            *)

Block(type, open, asm, n) ==
    [type |-> type, open |-> open, parens |-> 0, asm |-> asm, starting_linenum |-> n]

SeenOpenBrace(blocks) == blocks = <<>> \/ Last(blocks).open
Top(blocks) == IF blocks = <<>> THEN None ELSE Last(blocks)
ReplaceTop(blocks, b) == Append(Front(blocks), b)

Conditional(before) ==
    [stack_before_if |-> before, stack_before_else |-> <<>>, seen_else |-> FALSE]

\* Mutant of SeeElse: every #elif is remembered, not only the first.
SeeEveryElse(pp, blocks) == [pp EXCEPT !.seen_else = TRUE, !.stack_before_else = blocks]

SeeElse(pp, blocks) ==
    IF pp.seen_else THEN pp
    ELSE [pp EXCEPT !.seen_else = TRUE, !.stack_before_else = blocks]

(* The checkpoints after a line's directive, and the stack it goes on with.*)
UpdatePreprocessor(pp, blocks, line) ==
    CASE line.pp = "if" ->
            [pps |-> Append(pp, Conditional(blocks)), stack |-> blocks]
      [] line.pp = "else" /\ pp # <<>> ->
            [pps |-> ReplaceTop(pp, SeeElse(Last(pp), blocks)),
             stack |-> Last(pp).stack_before_if]
      [] line.pp = "endif" /\ pp # <<>> ->
            [pps |-> Front(pp),
             stack |-> IF Last(pp).seen_else THEN Last(pp).stack_before_else
                       ELSE blocks]
      [] OTHER -> [pps |-> pp, stack |-> blocks]

(* Parentheses and inline assembly, in the innermost block.                *)
CountParentheses(blocks, line) ==
    IF blocks = <<>> THEN blocks ELSE
    LET b == [Last(blocks) EXCEPT !.parens = @ + line.parens]
        enters == line.parens # 0 /\ b.parens = 1 /\ line.asm
        asm == CASE b.asm \in {"no", "end"} -> IF enters THEN "inside" ELSE "no"
                 [] b.asm = "inside" /\ b.parens = 0 -> "end"
                 [] OTHER -> b.asm
    IN  ReplaceTop(blocks, [b EXCEPT !.asm = asm])

DeclareScopes(blocks, line, n) ==
    LET named == blocks \o [i \in DOMAIN line.spaces |->
                                Block("namespace", line.spaces[i], "no", n)]
    IN  IF line.class /\ (named = <<>> \/ Last(named).parens = 0)
        THEN Append(named, Block("class", FALSE, "no", n))
        ELSE named

(* One brace, semicolon or closing parenthesis.                            *)
Consume(blocks, token, n) ==
    CASE token \in {"{", "extern {", "asm {"} /\ ~SeenOpenBrace(blocks) ->
            ReplaceTop(blocks, [Last(blocks) EXCEPT !.open = TRUE])
      [] token = "extern {" /\ SeenOpenBrace(blocks) ->
            Append(blocks, Block("extern", TRUE, "no", n))
      [] token \in {"{", "asm {"} /\ SeenOpenBrace(blocks) ->
            Append(blocks, Block("block", TRUE,
                                 IF token = "asm {" THEN "block" ELSE "no", n))
      [] token \in {";", ")"} /\ ~SeenOpenBrace(blocks) -> Front(blocks)
      [] token = "}" /\ blocks # <<>> -> Front(blocks)
      [] OTHER -> blocks

AfterTokens(blocks, tokens, n) ==
    LET after[i \in 0 .. Len(tokens)] ==
            IF i = 0 THEN blocks ELSE Consume(after[i - 1], tokens[i], n)
    IN  after

(* What a line does to the stack, its directive aside.                     *)
ApplyLine(blocks, line, n) ==
    AfterTokens(DeclareScopes(CountParentheses(blocks, line), line, n),
                line.tokens, n)[Len(line.tokens)]

InAsmBlock(blocks) == blocks # <<>> /\ Last(blocks).asm # "no"

Scope(b) == b.type \in {"class", "namespace"}

(* A scope this line opened directly in a namespace, or a class it only    *)
(* declares there.  The block below the new scope must be the very object  *)
(* that was the top before, whatever has been written to it: the stack has *)
(* grown by one, and no directive has put a copy in its place.             *)
InNamespace(top, blocks, line) ==
    LET item == /\ line.pp = ""
                /\ Len(blocks) = Len(stack) + 1
                /\ Scope(Last(blocks))
                /\ top.type = "namespace"
    IN  IF line.forward THEN Top(blocks).type = "namespace" ELSE item

-----------------------------------------------------------------------------
(* _IncludeState                                                           *)

FindHeader(lists, header) ==
    \E i \in DOMAIN lists : \E j \in DOMAIN lists[i] : lists[i][j] = header.name

\* Mutant of ResetList: an #else forgets every header.
ResetAllLists(lists, pp) ==
    IF pp = "if" THEN Append(lists, <<>>)
    ELSE IF pp = "else" THEN << <<>> >> ELSE lists

ResetList(lists, pp) ==
    CASE pp = "if" -> Append(lists, <<>>)
      [] pp = "else" -> ReplaceTop(lists, <<>>)
      [] OTHER -> lists

System == {"c", "cpp", "othersys"}

SectionOf(type) ==
    CASE type \in {"likely", "possible"} -> 1
      [] type = "c" -> 2
      [] type = "cpp" -> 3
      [] type = "othersys" -> 4
      [] OTHER -> 5

\* Mutant of NextSection: an out-of-order header moves the section back.
NextSectionBack(current, type) ==
    IF type \in System THEN SectionOf(type)
    ELSE IF current <= SectionOf(type) THEN SectionOf(type) ELSE 5

(* CheckNextIncludeOrder: a system header may not come after a later       *)
(* section; a header the file may implement falls back to the last one.    *)
NextSection(current, type) ==
    IF current <= SectionOf(type) THEN SectionOf(type)
    ELSE IF type \in System THEN current ELSE 5

OutOfOrder(current, type) == type \in System /\ current > SectionOf(type)

(* A header seen already and a source file of another directory are        *)
(* reported, a third-party header is left alone: none of them is           *)
(* remembered or moves the section.                                        *)
CheckIncludeLine(line, supp, before) ==
    LET h == line.include
        next == NextSection(section, h.type)
        late == OutOfOrder(section, h.type)
        last == IF late \/ next # section THEN 0 ELSE last_header
        alpha == last > h.name /\ linenum > 1 /\ file[linenum - 1].include # NoHeader
    IN  \/ /\ FindHeader(include_list, h) \/ h.kind = "foreign"
           /\ errors' = before \cup {Reported(supp, "build/include", linenum)}
           /\ UNCHANGED includeVars
        \/ /\ ~FindHeader(include_list, h) /\ h.kind = "thirdParty"
           /\ errors' = before
           /\ UNCHANGED includeVars
        \/ /\ ~FindHeader(include_list, h) /\ h.kind = "checked"
           /\ include_list' =
                  ReplaceTop(include_list, Append(Last(include_list), h.name))
           /\ section' = next
           /\ last_header' = h.name
           /\ errors' = before
                  \cup (IF late THEN {Reported(supp, "build/include_order", linenum)} ELSE {})
                  \cup (IF alpha THEN {Reported(supp, "build/include_alpha", linenum)} ELSE {})

-----------------------------------------------------------------------------
(* _FunctionState                                                          *)

(* The first line, from n on, that ends a declaration or opens a body.     *)
Ends(line) == \E i \in DOMAIN line.tokens : line.tokens[i] \in {";", "}"}
Opens(line) == \E i \in DOMAIN line.tokens : line.tokens[i] \in {"{", "extern {", "asm {"}
Decides(n) == {i \in n..Len(file) : Ends(file[i]) \/ Opens(file[i])}
StartsBody(n) ==
    \E i \in Decides(n) : (\A j \in Decides(n) : i <= j) /\ ~Ends(file[i])

\* Mutant of Begin: the lines counted so far are kept.
BeginKeepsCount(f) == [f EXCEPT !.in_a_function = TRUE]

Begin(f) == [in_a_function |-> TRUE, lines |-> 0]
Count(f) == IF f.in_a_function THEN [f EXCEPT !.lines = @ + 1] ELSE f
TooLong(f) == f.in_a_function /\ f.lines > Trigger

NextFunction(f, line, n) ==
    CASE line.text = "start" -> IF StartsBody(n) THEN Begin(f) ELSE f
      [] line.text = "end" -> [f EXCEPT !.in_a_function = FALSE]
      [] line.text = "code" -> Count(f)
      [] OTHER -> f

FunctionErrors(line, supp) ==
    IF (line.text = "end" /\ TooLong(function))
       \/ (line.text = "start" /\ Decides(linenum) = {})
    THEN {Reported(supp, "readability/fn_size", linenum)}
    ELSE {}

-----------------------------------------------------------------------------
(* ProcessLine                                                             *)

EarlyErrors(line, supp) ==
    (IF line.nolint = "unknown" THEN {Reported(supp, "readability/nolint", linenum)} ELSE {})
    \cup
    (IF line.indented /\ InNamespace(previous_stack_top', stack', line)
     THEN {Reported(supp, "runtime/indentation_namespace", linenum)} ELSE {})

Nest(line) ==
    LET pp == UpdatePreprocessor(pp_stack, stack, line) IN
    /\ suppressions' = ParseNolintSuppressions(line, linenum)
    /\ previous_stack_top' = Top(stack)
    /\ pp_stack' = pp.pps
    /\ stack' = ApplyLine(pp.stack, line, linenum)
    /\ linenum' = linenum + 1
    /\ UNCHANGED file

(* A line of inline assembly ends the processing early.                    *)
AsmLine ==
    /\ linenum <= Len(file)
    /\ LET line == file[linenum] IN
       /\ Nest(line)
       /\ InAsmBlock(stack')
       /\ errors' = errors \cup EarlyErrors(line, suppressions')
       /\ skipped' = skipped \cup {linenum}
    /\ UNCHANGED <<includeVars, function>>

IncludeLine ==
    /\ linenum <= Len(file)
    /\ LET line == file[linenum] IN
       /\ line.include # NoHeader
       /\ Nest(line)
       /\ ~InAsmBlock(stack')
       /\ CheckIncludeLine(line, suppressions', errors \cup EarlyErrors(line, suppressions'))
       /\ function' = NextFunction(function, line, linenum)
    /\ UNCHANGED skipped

CodeLine ==
    /\ linenum <= Len(file)
    /\ LET line == file[linenum] IN
       /\ line.include = NoHeader
       /\ Nest(line)
       /\ ~InAsmBlock(stack')
       /\ errors' = errors \cup EarlyErrors(line, suppressions')
                           \cup FunctionErrors(line, suppressions')
       /\ function' = NextFunction(function, line, linenum)
       /\ IF line.pp = ""
          THEN UNCHANGED includeVars
          ELSE /\ include_list' = ResetList(include_list, line.pp)
               /\ section' = 0
               /\ last_header' = 0
    /\ UNCHANGED skipped

(* After the last line: the scopes that are still open are reported at the *)
(* lines that opened them.                                                 *)
CheckCompletedBlocks ==
    /\ linenum = Len(file) + 1
    /\ errors' = errors \cup
         {Reported(suppressions,
                   IF stack[i].type = "class" THEN "build/class" ELSE "build/namespaces",
                   stack[i].starting_linenum)
             : i \in {j \in DOMAIN stack : Scope(stack[j])}}
    /\ linenum' = linenum + 1
    /\ UNCHANGED <<file, nestVars, includeVars, function, suppressions, skipped>>

Next == AsmLine \/ IncludeLine \/ CodeLine \/ CheckCompletedBlocks
Spec == Init /\ [][Next]_vars

-----------------------------------------------------------------------------
(* The conditionals open after the first n lines, outermost first; TRUE    *)
(* for one whose #else has been seen.                                      *)
Directive(open, line) ==
    CASE line.pp = "if" -> Append(open, FALSE)
      [] line.pp = "else" /\ open # <<>> -> ReplaceTop(open, TRUE)
      [] line.pp = "endif" /\ open # <<>> -> Front(open)
      [] OTHER -> open

Conditionals(lines) ==
    LET open[n \in 0 .. Len(lines)] ==
            IF n = 0 THEN <<>> ELSE Directive(open[n - 1], lines[n])
    IN  open

InFirstBranches(open) == \A i \in DOMAIN open : ~open[i]

(* The blocks open after the first n lines for a reader who leaves out     *)
(* the lines in other branches than the first ones.                        *)
FirstBranches(lines) ==
    LET blocks[n \in 0 .. Len(lines)] ==
            CASE n = 0 -> <<>>
              [] n > 0 /\ InFirstBranches(Conditionals(lines)[n]) ->
                    ApplyLine(blocks[n - 1], lines[n], n)
              [] OTHER -> blocks[n - 1]
    IN  blocks

Seen == {n \in DOMAIN file : n < linenum}

(* "Preprocessor condition evaluates to true from #if up to first          *)
(* #else/#elif/#endif" (UpdatePreprocessor): outside the other branches,   *)
(* the blocks that are open are the ones a reader finds who leaves all     *)
(* other branches out, however conditionals nest and wherever scopes start *)
(* and end in them.                                                        *)
FirstBranchesCount ==
    linenum <= Len(file) + 1 /\ InFirstBranches(Conditionals(file)[linenum - 1]) =>
        stack = FirstBranches(file)[linenum - 1]

(* Line n includes a header whose order is checked.                        *)
Kept(n) == file[n].include # NoHeader /\ file[n].include.kind = "checked"

(* Line n includes a header that is kept, it was looked at, and no         *)
(* conditional that it is in has gone on to another branch.                *)
StillIncluded(n) ==
    /\ Kept(n)
    /\ n \notin skipped
    /\ ~\E m \in Seen :
          /\ m > n
          /\ file[m].pp = "else"
          /\ \A k \in n..m : Len(Conditionals(file)[k]) >= Len(Conditionals(file)[m])

(* An #else forgets the headers of its own conditional at most: any other  *)
(* header included so far is found when it is included again, unless it is *)
(* one that is never kept, a third-party header or a source file of        *)
(* another directory (ResetSection, FindHeader, CheckIncludeLine).         *)
IncludesRemembered ==
    \A n \in Seen : StillIncluded(n) => FindHeader(include_list, file[n].include)

(* The headers that CheckNextIncludeOrder has seen since the last          *)
(* directive before line n.                                                *)
SameSection(n) ==
    {m \in 1..(n - 1) :
        /\ Kept(m)
        /\ m \notin skipped
        /\ ~\E e \in errors : e.category = "build/include" /\ e.line = m
        /\ \A k \in m..n : file[k].pp = "" \/ k \in skipped}

Rank(n) ==
    LET s == SectionOf(file[n].include.type) IN
    IF \E m \in SameSection(n) : SectionOf(file[m].include.type) > s
    THEN IF file[n].include.type \in System THEN s ELSE 5
    ELSE s

(* An include is reported as out of order exactly when it is a system      *)
(* header and one of a later kind came before it in the same stretch       *)
(* between directives; an include that was itself out of order does not    *)
(* excuse or condemn the ones after it.  Third-party headers and source    *)
(* files of other directories, wherever they stand, are not reported as    *)
(* out of order and put no other header out of order.                      *)
OrderJustified ==
    \A n \in Seen :
        (\E e \in errors : e.category = "build/include_order" /\ e.line = n)
        <=> /\ Kept(n)
            /\ n \notin skipped
            /\ ~\E e \in errors : e.category = "build/include" /\ e.line = n
            /\ file[n].include.type \in System
            /\ \E m \in SameSection(n) : Rank(m) > SectionOf(file[n].include.type)

(* The lines of the function whose body ends before line n, from its start.*)
BodyStart(m, n) ==
    /\ m < n
    /\ file[m].text = "start" /\ m \notin skipped /\ StartsBody(m)
    /\ \A k \in (m + 1)..(n - 1) :
         k \in skipped \/ ~(file[k].text = "end" \/ (file[k].text = "start" /\ StartsBody(k)))

(* A function is reported as too long exactly when the lines of code       *)
(* between its start and the brace that ends it are too many: lines of     *)
(* another function, of a declaration inside, and of inline assembly are   *)
(* not counted (CheckForFunctionLengths).                                  *)
FunctionsMeasured ==
    \A n \in Seen : file[n].text = "end" /\ n \notin skipped =>
        ((\E e \in errors : e.category = "readability/fn_size" /\ e.line = n)
         <=> \E m \in 1..n :
                /\ BodyStart(m, n)
                /\ Cardinality({k \in (m + 1)..(n - 1) :
                        file[k].text = "code" /\ k \notin skipped}) > Trigger)

(* A reported error is hidden exactly when a NOLINT comment speaks of its  *)
(* line and its category, or of all: also for the errors that only come up *)
(* at the end of the file, about lines long past.                          *)
NolintHonoured ==
    \A e \in errors :
        e.shown <=> ~\E n \in 1..Len(file) :
            /\ file[n].nolint \in {"*", e.category}
            /\ n = IF file[n].nextLine THEN e.line - 1 ELSE e.line
=============================================================================
