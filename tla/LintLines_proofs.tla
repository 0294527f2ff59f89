--------------------------- MODULE LintLines_proofs ---------------------------
(* Proofs of the safety properties of LintLines, for all files and whatever  *)
(* the length that functions may have.                                       *)
EXTENDS LintLines, FiniteSetTheorems, WellFoundedInduction, TLAPS

-----------------------------------------------------------------------------
(* Induction over the steps of a computation, from the least number that is  *)
(* not as claimed.                                                           *)
LEMMA Least ==
  ASSUME NEW T \in SUBSET Nat, T # {}
  PROVE  \E n \in T : \A m \in T : n <= m
<1>1. PICK n \in T : \A m \in T : <<m, n>> \notin OpToRel(<, Nat)
  BY WFMin, NatLessThanWellFounded, Zenon
<1>2. \A m \in T : ~(m < n)
  BY <1>1, Zenon DEF OpToRel
<1> QED
  BY <1>2

LEMMA StepByStep ==
  ASSUME NEW N \in Nat, NEW Good, 0 \in Good,
         \A n \in 1 .. N : n - 1 \in Good => n \in Good
  PROVE  \A n \in 0 .. N : n \in Good
<1> SUFFICES ASSUME NEW k \in 0 .. N, k \notin Good PROVE FALSE
  OBVIOUS
<1> DEFINE T == {n \in 0 .. N : n \notin Good}
<1>1. T \in SUBSET Nat /\ T # {}
  OBVIOUS
<1>2. PICK n \in T : \A m \in T : n <= m
  BY <1>1, Least
<1>3. n # 0
  BY <1>2
<1>4. n - 1 \notin T /\ n - 1 \in 0 .. N
  BY <1>2, <1>3
<1> QED
  BY <1>2, <1>3, <1>4

(* A computation of N steps on the set A is a function on 0 .. N.            *)
Computes(f, a, step, N) == f[0] = a /\ \A n \in 1 .. N : f[n] = step[<<f[n - 1], n>>]

LEMMA ComputationExists ==
  ASSUME NEW A, NEW N \in Nat, NEW a \in A, NEW step \in [A \X (1 .. N) -> A]
  PROVE  \E f \in [0 .. N -> A] : Computes(f, a, step, N)
<1> DEFINE Good == {n \in 0 .. N : \E f \in [0 .. n -> A] : Computes(f, a, step, n)}
<1>1. 0 \in Good
  <2>1. [n \in 0 .. 0 |-> a] \in [0 .. 0 -> A] /\ Computes([n \in 0 .. 0 |-> a], a, step, 0)
    BY DEF Computes
  <2> QED
    BY <2>1
<1>2. ASSUME NEW n \in 1 .. N, n - 1 \in Good PROVE n \in Good
  <2>1. PICK f \in [0 .. n - 1 -> A] : Computes(f, a, step, n - 1)
    BY <1>2
  <2> DEFINE g == [m \in 0 .. n |-> IF m = n THEN step[<<f[n - 1], n>>] ELSE f[m]]
  <2>2. f[n - 1] \in A /\ step[<<f[n - 1], n>>] \in A
    BY <2>1
  <2>3. g \in [0 .. n -> A]
    BY <2>1, <2>2
  <2>4. g[0] = a
    BY <2>1 DEF Computes
  <2>5. ASSUME NEW m \in 1 .. n PROVE g[m] = step[<<g[m - 1], m>>]
    <3>1. CASE m = n
      BY <3>1, SMTT(30)
    <3>2. CASE m # n
      <4>1. m \in 1 .. n - 1
        BY <3>2
      <4>2. g[m] = f[m] /\ g[m - 1] = f[m - 1]
        BY <4>1
      <4> QED
        BY <2>1, <4>1, <4>2 DEF Computes
    <3> QED
      BY <3>1, <3>2
  <2> HIDE DEF g
  <2>6. Computes(g, a, step, n)
    BY <2>4, <2>5 DEF Computes
  <2> QED
    BY <2>3, <2>6
<1> HIDE DEF Good
<1>3. N \in Good
  BY <1>1, <1>2, StepByStep
<1> QED
  BY <1>3 DEF Good

-----------------------------------------------------------------------------
(* Blocks.                                                                   *)
BlockRecord ==
    [type : {"namespace", "class", "extern", "block"}, open : BOOLEAN,
     parens : Int, asm : {"no", "inside", "end", "block"}, starting_linenum : Nat]

Blocks == Seq(BlockRecord)

LEMMA LenType == ASSUME NEW S, NEW s \in Seq(S) PROVE Len(s) \in Nat
OBVIOUS

LEMMA FrontType ==
  ASSUME NEW S, NEW s \in Seq(S), s # <<>>
  PROVE  /\ Front(s) \in Seq(S)
         /\ Len(Front(s)) = Len(s) - 1
         /\ \A i \in 1 .. Len(s) - 1 : Front(s)[i] = s[i]
         /\ Last(s) \in S
<1>1. Len(s) \in Nat /\ Len(s) >= 1
  OBVIOUS
<1>2. Front(s) = [i \in 1 .. Len(s) - 1 |-> s[i]]
  BY <1>1 DEF Front
<1>3. \A i \in 1 .. Len(s) : s[i] \in S
  OBVIOUS
<1> QED
  BY <1>1, <1>2, <1>3 DEF Last

LEMMA AppendType ==
  ASSUME NEW S, NEW s \in Seq(S), NEW e \in S
  PROVE  /\ Append(s, e) \in Seq(S)
         /\ Len(Append(s, e)) = Len(s) + 1
         /\ Append(s, e)[Len(s) + 1] = e
         /\ \A i \in 1 .. Len(s) : Append(s, e)[i] = s[i]
OBVIOUS

LEMMA ReplaceTopType ==
  ASSUME NEW S, NEW s \in Seq(S), s # <<>>, NEW b \in S
  PROVE  /\ ReplaceTop(s, b) \in Seq(S)
         /\ Len(ReplaceTop(s, b)) = Len(s)
         /\ ReplaceTop(s, b)[Len(s)] = b
         /\ \A i \in 1 .. Len(s) - 1 : ReplaceTop(s, b)[i] = s[i]
<1>1. /\ Front(s) \in Seq(S) /\ Len(Front(s)) = Len(s) - 1
      /\ \A i \in 1 .. Len(s) - 1 : Front(s)[i] = s[i]
  BY FrontType
<1> HIDE DEF Front
<1> QED
  BY <1>1 DEF ReplaceTop

LEMMA LineParts ==
  ASSUME NEW line \in Line
  PROVE  /\ line.parens \in Int
         /\ line.asm \in BOOLEAN
         /\ line.spaces \in Seq(BOOLEAN)
         /\ line.class \in BOOLEAN
         /\ line.tokens \in Seq({"{", "}", ";", ")", "extern {", "asm {"})
         /\ line.include \in {NoHeader} \cup Header
         /\ line.pp \in {"", "if", "else", "endif"}
         /\ line.text \in {"start", "end", "blank", "code"}
         /\ line.nolint \in Categories \cup {"*", "none", "unknown"}
         /\ line.nextLine \in BOOLEAN
BY Zenon DEF Line

LEMMA ParenthesesType ==
  ASSUME NEW blocks \in Blocks, NEW line \in Line
  PROVE  CountParentheses(blocks, line) \in Blocks
<1>1. CASE blocks = <<>>
  BY <1>1 DEF CountParentheses
<1>2. CASE blocks # <<>>
  <2> DEFINE b == [Last(blocks) EXCEPT !.parens = @ + line.parens]
             enters == line.parens # 0 /\ b.parens = 1 /\ line.asm
             asm == CASE b.asm \in {"no", "end"} -> IF enters THEN "inside" ELSE "no"
                      [] b.asm = "inside" /\ b.parens = 0 -> "end"
                      [] OTHER -> b.asm
  <2>1. Last(blocks) \in BlockRecord
    BY <1>2, FrontType DEF Blocks
  <2>2. b \in BlockRecord
    <3>1. line.parens \in Int
      BY LineParts, Zenon
    <3> QED
      BY <2>1, <3>1 DEF BlockRecord
  <2>3. asm \in {"no", "inside", "end", "block"}
    <3> HIDE DEF b
    <3> QED
      BY <2>2 DEF BlockRecord
  <2> HIDE DEF b, asm
  <2>4. [b EXCEPT !.asm = asm] \in BlockRecord
    BY <2>2, <2>3 DEF BlockRecord
  <2>5. CountParentheses(blocks, line) = ReplaceTop(blocks, [b EXCEPT !.asm = asm])
    BY <1>2 DEF CountParentheses, b, asm
  <2> QED
    BY <1>2, <2>4, <2>5, ReplaceTopType DEF Blocks
<1> QED
  BY <1>1, <1>2

LEMMA ScopesType ==
  ASSUME NEW blocks \in Blocks, NEW line \in Line, NEW n \in Nat
  PROVE  DeclareScopes(blocks, line, n) \in Blocks
<1> DEFINE spaces == [i \in DOMAIN line.spaces |-> Block("namespace", line.spaces[i], "no", n)]
           named == blocks \o spaces
<1>1. line.spaces \in Seq(BOOLEAN) /\ line.class \in BOOLEAN
  BY LineParts
<1>2. \A i \in DOMAIN line.spaces : Block("namespace", line.spaces[i], "no", n) \in BlockRecord
  BY <1>1 DEF Block, BlockRecord
<1>3. spaces \in Seq(BlockRecord)
  BY <1>1, <1>2
<1> HIDE DEF spaces
<1>4. named \in Blocks
  BY <1>3 DEF Blocks
<1>5. Block("class", FALSE, "no", n) \in BlockRecord
  BY DEF Block, BlockRecord
<1>6. \/ DeclareScopes(blocks, line, n) = named
      \/ DeclareScopes(blocks, line, n) = Append(named, Block("class", FALSE, "no", n))
  BY DEF DeclareScopes, spaces
<1> HIDE DEF named
<1>7. Append(named, Block("class", FALSE, "no", n)) \in Blocks
  BY <1>4, <1>5, AppendType DEF Blocks
<1> QED
  BY <1>4, <1>6, <1>7

LEMMA ConsumeType ==
  ASSUME NEW blocks \in Blocks, NEW token, NEW n \in Nat
  PROVE  Consume(blocks, token, n) \in Blocks
<1> DEFINE open == [Last(blocks) EXCEPT !.open = TRUE]
           extern == Append(blocks, Block("extern", TRUE, "no", n))
           block == Append(blocks, Block("block", TRUE, IF token = "asm {" THEN "block" ELSE "no", n))
<1>1. /\ Block("extern", TRUE, "no", n) \in BlockRecord
      /\ Block("block", TRUE, IF token = "asm {" THEN "block" ELSE "no", n) \in BlockRecord
  BY DEF Block, BlockRecord
<1>2. extern \in Blocks /\ block \in Blocks
  BY <1>1, AppendType DEF Blocks
<1>3. CASE blocks # <<>>
  <2>1. Front(blocks) \in Blocks /\ Last(blocks) \in BlockRecord
    BY <1>3, FrontType DEF Blocks
  <2>2. open \in BlockRecord
    BY <2>1 DEF BlockRecord
  <2> HIDE DEF open
  <2>3. ReplaceTop(blocks, open) \in Blocks
    BY <1>3, <2>2, ReplaceTopType DEF Blocks
  <2> HIDE DEF extern, block
  <2>4. \/ Consume(blocks, token, n) = blocks
        \/ Consume(blocks, token, n) = Front(blocks)
        \/ Consume(blocks, token, n) = ReplaceTop(blocks, open)
        \/ Consume(blocks, token, n) = extern
        \/ Consume(blocks, token, n) = block
    BY <1>3 DEF Consume, open, extern, block
  <2> QED
    BY <1>2, <2>1, <2>3, <2>4
<1>4. CASE blocks = <<>>
  <2>1. SeenOpenBrace(blocks)
    BY <1>4 DEF SeenOpenBrace
  <2> HIDE DEF extern, block
  <2>2. \/ Consume(blocks, token, n) = blocks
        \/ Consume(blocks, token, n) = extern
        \/ Consume(blocks, token, n) = block
    BY <1>4, <2>1 DEF Consume, extern, block
  <2> QED
    BY <1>2, <2>2
<1> QED
  BY <1>3, <1>4

LEMMA TokensType ==
  ASSUME NEW start \in Blocks, NEW tokens, NEW N \in Nat, Len(tokens) = N, NEW n \in Nat
  PROVE  AfterTokens(start, tokens, n)[N] \in Blocks
<1> DEFINE step == [x \in Blocks \X (1 .. N) |-> Consume(x[1], tokens[x[2]], n)]
           f == AfterTokens(start, tokens, n)
           IsRun(g) == g = [i \in 0 .. N |-> IF i = 0 THEN start
                                             ELSE Consume(g[i - 1], tokens[i], n)]
<1>1. step \in [Blocks \X (1 .. N) -> Blocks]
  BY ConsumeType
<1>2. PICK g \in [0 .. N -> Blocks] : Computes(g, start, step, N)
  BY <1>1, ComputationExists
<1>3. \A i \in 1 .. N : <<g[i - 1], i>> \in Blocks \X (1 .. N)
  BY <1>2
<1>4. \A i \in 1 .. N : step[<<g[i - 1], i>>] = Consume(g[i - 1], tokens[i], n)
  BY <1>3
<1> HIDE DEF step
<1>5. \A i \in 0 .. N : g[i] = IF i = 0 THEN start ELSE Consume(g[i - 1], tokens[i], n)
  <2>1. \A i \in 1 .. N : g[i] = Consume(g[i - 1], tokens[i], n)
    BY <1>2, <1>4, Zenon DEF Computes
  <2>2. g[0] = start
    BY <1>2, Zenon DEF Computes
  <2>3. ASSUME NEW i \in 0 .. N PROVE i = 0 \/ i \in 1 .. N
    OBVIOUS
  <2>4. 0 \notin 1 .. N
    OBVIOUS
  <2> QED
    BY <2>1, <2>2, <2>3, <2>4, Zenon
<1>6. IsRun(g)
  BY <1>2, <1>5
<1>7. f = CHOOSE h : IsRun(h)
  BY DEF AfterTokens
<1>8. IsRun(f)
  <2> HIDE DEF f, IsRun
  <2> QED
    BY <1>6, <1>7, Zenon
<1> HIDE DEF f
<1>9. \A i \in 0 .. N : f[i] = IF i = 0 THEN start ELSE Consume(f[i - 1], tokens[i], n)
  BY <1>8, Zenon
<1> HIDE DEF IsRun
<1> DEFINE Good == {i \in 0 .. N : f[i] \in Blocks}
<1>10. 0 \in Good
  BY <1>9
<1>11. ASSUME NEW i \in 1 .. N, i - 1 \in Good PROVE i \in Good
  <2>1. f[i] = Consume(f[i - 1], tokens[i], n)
    BY <1>9
  <2>2. Consume(f[i - 1], tokens[i], n) \in Blocks
    BY <1>11, ConsumeType
  <2> QED
    BY <2>1, <2>2
<1> HIDE DEF Good
<1>12. N \in Good
  BY <1>10, <1>11, StepByStep
<1> QED
  BY <1>12 DEF Good, f

LEMMA ApplyType ==
  ASSUME NEW blocks \in Blocks, NEW line \in Line, NEW n \in Nat
  PROVE  ApplyLine(blocks, line, n) \in Blocks
<1>1. DeclareScopes(CountParentheses(blocks, line), line, n) \in Blocks
  BY ParenthesesType, ScopesType
<1>2. line.tokens \in Seq({"{", "}", ";", ")", "extern {", "asm {"})
  BY LineParts, Zenon
<1>3. Len(line.tokens) \in Nat
  BY <1>2, LenType, Zenon
<1> QED
  BY <1>1, <1>3, TokensType, Zenon DEF ApplyLine

-----------------------------------------------------------------------------
(* Types.                                                                    *)
Checkpoint ==
    [stack_before_if : Blocks, stack_before_else : Blocks, seen_else : BOOLEAN]

Types ==
    /\ file \in Files
    /\ linenum \in 1 .. Len(file) + 2
    /\ stack \in Blocks
    /\ pp_stack \in Seq(Checkpoint)
    /\ function \in [in_a_function : BOOLEAN, lines : Nat]
    /\ section \in 0 .. 5
    /\ \A n \in skipped : n \in DOMAIN file /\ n < linenum
    /\ \A e \in errors : e.category \in Categories /\ e.line \in Nat

LEMMA FileType ==
  ASSUME NEW f \in Files
  PROVE  /\ Len(f) \in Nat
         /\ DOMAIN f = 1 .. Len(f)
         /\ \A n \in 1 .. Len(f) :
              /\ f[n] \in Line
              /\ f[n].include # NoHeader => f[n].pp = "" /\ f[n].text = "code"
<1>1. f \in Seq(Line)
  BY FilesAssumption, Zenon
<1>2. Len(f) \in Nat /\ DOMAIN f = 1 .. Len(f) /\ \A n \in 1 .. Len(f) : f[n] \in Line
  BY <1>1
<1> QED
  BY <1>2, FilesAssumption, Zenon

LEMMA FileFacts ==
  ASSUME Types
  PROVE  /\ linenum \in Nat /\ linenum >= 1 /\ linenum <= Len(file) + 2
         /\ Len(file) \in Nat
         /\ DOMAIN file = 1 .. Len(file)
         /\ file \in Files
<1>1. file \in Files /\ linenum \in 1 .. Len(file) + 2
  BY Zenon DEF Types
<1>2. Len(file) \in Nat /\ DOMAIN file = 1 .. Len(file)
  BY <1>1, FileType, Zenon
<1> QED
  BY <1>1, <1>2

LEMMA PreprocessorType ==
  ASSUME NEW pp \in Seq(Checkpoint), NEW blocks \in Blocks, NEW line
  PROVE  /\ UpdatePreprocessor(pp, blocks, line).pps \in Seq(Checkpoint)
         /\ UpdatePreprocessor(pp, blocks, line).stack \in Blocks
<1> DEFINE r == UpdatePreprocessor(pp, blocks, line)
<1>1. CASE line.pp = "if"
  <2>1. Conditional(blocks) \in Checkpoint
    BY DEF Conditional, Checkpoint, Blocks
  <2>2. r = [pps |-> Append(pp, Conditional(blocks)), stack |-> blocks]
    BY <1>1 DEF UpdatePreprocessor
  <2> QED
    BY <2>1, <2>2, AppendType
<1>2. CASE line.pp = "else" /\ pp # <<>>
  <2>1. Last(pp) \in Checkpoint
    BY <1>2, FrontType
  <2>2. SeeElse(Last(pp), blocks) \in Checkpoint
    BY <2>1 DEF SeeElse, Checkpoint
  <2>3. r = [pps |-> ReplaceTop(pp, SeeElse(Last(pp), blocks)),
             stack |-> Last(pp).stack_before_if]
    BY <1>2 DEF UpdatePreprocessor
  <2>4. Last(pp).stack_before_if \in Blocks
    BY <2>1 DEF Checkpoint
  <2>5. ReplaceTop(pp, SeeElse(Last(pp), blocks)) \in Seq(Checkpoint)
    BY <1>2, <2>2, ReplaceTopType
  <2> QED
    BY <2>3, <2>4, <2>5
<1>3. CASE line.pp = "endif" /\ pp # <<>>
  <2>1. Front(pp) \in Seq(Checkpoint) /\ Last(pp) \in Checkpoint
    BY <1>3, FrontType
  <2>2. r = [pps |-> Front(pp),
             stack |-> IF Last(pp).seen_else THEN Last(pp).stack_before_else ELSE blocks]
    BY <1>3 DEF UpdatePreprocessor
  <2> QED
    BY <2>1, <2>2 DEF Checkpoint
<1>4. CASE ~(line.pp = "if") /\ ~(line.pp = "else" /\ pp # <<>>)
           /\ ~(line.pp = "endif" /\ pp # <<>>)
  <2>1. r = [pps |-> pp, stack |-> blocks]
    BY <1>4 DEF UpdatePreprocessor
  <2> QED
    BY <2>1
<1> QED
  BY <1>1, <1>2, <1>3, <1>4

(* Every line that is read is nested, and is reported about at its place.    *)
LineStep ==
    /\ linenum \in 1 .. Len(file)
    /\ AsmLine \/ IncludeLine \/ CodeLine
    /\ Nest(file[linenum])
    /\ errors \subseteq errors'
    /\ \A e \in errors' \ errors : \E c \in Categories : e = Reported(suppressions', c, linenum)

EndStep ==
    /\ linenum = Len(file) + 1 /\ linenum' = linenum + 1
    /\ UNCHANGED <<file, nestVars, includeVars, function, suppressions, skipped>>
    /\ errors \subseteq errors'
    /\ \A e \in errors' \ errors :
         \E c \in {"build/class", "build/namespaces"}, i \in DOMAIN stack :
            e = Reported(suppressions, c, stack[i].starting_linenum)

LEMMA EarlyCategory ==
  ASSUME NEW line, NEW supp, NEW e \in EarlyErrors(line, supp)
  PROVE  \E c \in {"readability/nolint", "runtime/indentation_namespace"} :
            e = Reported(supp, c, linenum)
BY Zenon DEF EarlyErrors

LEMMA FunctionCategory ==
  ASSUME NEW line, NEW supp, NEW e \in FunctionErrors(line, supp)
  PROVE  e = Reported(supp, "readability/fn_size", linenum)
BY Zenon DEF FunctionErrors

LEMMA AreCategories ==
  /\ "readability/nolint" \in Categories /\ "runtime/indentation_namespace" \in Categories
  /\ "readability/fn_size" \in Categories /\ "build/include" \in Categories
  /\ "build/include_order" \in Categories /\ "build/include_alpha" \in Categories
  /\ "build/class" \in Categories /\ "build/namespaces" \in Categories
BY Zenon DEF Categories

LEMMA Steps ==
  ASSUME Types, [Next]_vars
  PROVE  \/ LineStep
         \/ EndStep
         \/ UNCHANGED vars
<1>0. linenum \in Nat /\ linenum >= 1 /\ Len(file) \in Nat
  BY FileFacts, Zenon
<1>5. linenum <= Len(file) => linenum \in 1 .. Len(file)
  BY <1>0
<1>1. CASE AsmLine
  <2>1. linenum \in 1 .. Len(file) /\ Nest(file[linenum])
    BY <1>1, <1>5, Zenon DEF AsmLine
  <2>2. errors' = errors \cup EarlyErrors(file[linenum], suppressions')
    BY <1>1, Zenon DEF AsmLine
  <2> QED
    BY <1>1, <2>1, <2>2, EarlyCategory, AreCategories, Zenon DEF LineStep
<1>2. CASE IncludeLine
  <2> DEFINE line == file[linenum]
             before == errors \cup EarlyErrors(line, suppressions')
  <2>1. linenum \in 1 .. Len(file) /\ Nest(line)
    BY <1>2, <1>5, Zenon DEF IncludeLine
  <2>2. CheckIncludeLine(line, suppressions', before)
    BY <1>2, Zenon DEF IncludeLine
  <2> HIDE DEF before
  <2>3. /\ before \subseteq errors'
        /\ \A e \in errors' \ before :
              \E c \in {"build/include", "build/include_order", "build/include_alpha"} :
                 e = Reported(suppressions', c, linenum)
    BY <2>2, Zenon DEF CheckIncludeLine
  <2>4. errors \subseteq errors'
    BY <2>3, Zenon DEF before
  <2>5. \A e \in errors' \ errors : \E c \in Categories : e = Reported(suppressions', c, linenum)
    <3> SUFFICES ASSUME NEW e \in errors', e \notin errors
                 PROVE  \E c \in Categories : e = Reported(suppressions', c, linenum)
      BY Zenon
    <3>1. CASE e \in before
      <4>1. e \in EarlyErrors(line, suppressions')
        BY <3>1, Zenon DEF before
      <4> QED
        BY <4>1, EarlyCategory, AreCategories, Zenon
    <3>2. CASE e \notin before
      BY <2>3, <3>2, AreCategories, Zenon
    <3> QED
      BY <3>1, <3>2, Zenon
  <2> QED
    BY <1>2, <2>1, <2>4, <2>5, Zenon DEF LineStep
<1>3. CASE CodeLine
  <2>1. linenum \in 1 .. Len(file) /\ Nest(file[linenum])
    BY <1>3, <1>5, Zenon DEF CodeLine
  <2>2. errors' = errors \cup EarlyErrors(file[linenum], suppressions')
                         \cup FunctionErrors(file[linenum], suppressions')
    BY <1>3, Zenon DEF CodeLine
  <2> QED
    BY <1>3, <2>1, <2>2, EarlyCategory, FunctionCategory, AreCategories, Zenon DEF LineStep
<1>4. CASE CheckCompletedBlocks
  <2>1. /\ linenum = Len(file) + 1 /\ linenum' = linenum + 1
        /\ UNCHANGED <<file, nestVars, includeVars, function, suppressions, skipped>>
    BY <1>4, Zenon DEF CheckCompletedBlocks
  <2>2. errors' = errors \cup
         {Reported(suppressions,
                   IF stack[i].type = "class" THEN "build/class" ELSE "build/namespaces",
                   stack[i].starting_linenum)
             : i \in {j \in DOMAIN stack : Scope(stack[j])}}
    BY <1>4, Zenon DEF CheckCompletedBlocks
  <2>3. errors \subseteq errors'
    BY <2>2, Zenon
  <2>4. ASSUME NEW e \in errors' \ errors
        PROVE  \E c \in {"build/class", "build/namespaces"}, i \in DOMAIN stack :
                  e = Reported(suppressions, c, stack[i].starting_linenum)
    <3>1. PICK i \in {j \in DOMAIN stack : Scope(stack[j])} :
            e = Reported(suppressions,
                   IF stack[i].type = "class" THEN "build/class" ELSE "build/namespaces",
                   stack[i].starting_linenum)
      BY <2>2, <2>4, Zenon
    <3> DEFINE c == IF stack[i].type = "class" THEN "build/class" ELSE "build/namespaces"
    <3>2. c \in {"build/class", "build/namespaces"}
      OBVIOUS
    <3> QED
      BY <3>1, <3>2, Zenon
  <2> QED
    BY <2>1, <2>3, <2>4, Zenon DEF EndStep
<1> QED
  BY <1>1, <1>2, <1>3, <1>4, Zenon DEF Next

LEMMA ReportedParts ==
  ASSUME NEW supp, NEW c, NEW n
  PROVE  /\ Reported(supp, c, n).category = c
         /\ Reported(supp, c, n).line = n
         /\ Reported(supp, c, n).shown = ~IsErrorSuppressedByNolint(supp, c, n)
BY Zenon DEF Reported

LEMMA BlockLine ==
  ASSUME NEW blocks \in Blocks, NEW i \in DOMAIN blocks
  PROVE  blocks[i].starting_linenum \in Nat
<1>1. blocks[i] \in BlockRecord
  BY DEF Blocks
<1> QED
  BY <1>1, Zenon DEF BlockRecord

LEMMA NestType ==
  ASSUME Types, LineStep
  PROVE  /\ stack' \in Blocks /\ pp_stack' \in Seq(Checkpoint)
         /\ file' = file /\ linenum' = linenum + 1
<1> DEFINE pp == UpdatePreprocessor(pp_stack, stack, file[linenum])
<1>0. file[linenum] \in Line /\ linenum \in Nat
  BY FileFacts, FileType, Zenon DEF LineStep
<1>1. /\ pp_stack' = pp.pps
      /\ stack' = ApplyLine(pp.stack, file[linenum], linenum)
      /\ file' = file /\ linenum' = linenum + 1
  BY Zenon DEF LineStep, Nest
<1>2. pp.pps \in Seq(Checkpoint) /\ pp.stack \in Blocks
  BY PreprocessorType DEF Types
<1> HIDE DEF pp
<1>3. ApplyLine(pp.stack, file[linenum], linenum) \in Blocks
  BY <1>0, <1>2, ApplyType
<1> QED
  BY <1>1, <1>2, <1>3

LEMMA FunctionType ==
  ASSUME Types, IncludeLine \/ CodeLine
  PROVE  function' \in [in_a_function : BOOLEAN, lines : Nat]
<1>1. function' = NextFunction(function, file[linenum], linenum)
  BY Zenon DEF IncludeLine, CodeLine
<1>2. \/ function' = function
      \/ function' = Begin(function)
      \/ function' = [function EXCEPT !.in_a_function = FALSE]
      \/ function' = [function EXCEPT !.lines = @ + 1]
  BY <1>1, Zenon DEF NextFunction, Count
<1>3. function \in [in_a_function : BOOLEAN, lines : Nat]
  BY Zenon DEF Types
<1>4. Begin(function) \in [in_a_function : BOOLEAN, lines : Nat]
  BY DEF Begin
<1>5. [function EXCEPT !.in_a_function = FALSE] \in [in_a_function : BOOLEAN, lines : Nat]
  BY <1>3
<1>6. [function EXCEPT !.lines = @ + 1] \in [in_a_function : BOOLEAN, lines : Nat]
  BY <1>3
<1> QED
  BY <1>2, <1>3, <1>4, <1>5, <1>6, Zenon

LEMMA SectionType ==
  ASSUME Types, IncludeLine \/ CodeLine
  PROVE  section' \in 0 .. 5
<1>1. CASE IncludeLine
  <2>1. section' = section \/ section' = NextSection(section, file[linenum].include.type)
    BY <1>1, Zenon DEF IncludeLine, CheckIncludeLine, includeVars
  <2> QED
    BY <2>1 DEF Types, NextSection, SectionOf
<1>2. CASE CodeLine
  <2>1. section' = section \/ section' = 0
    BY <1>2, Zenon DEF CodeLine, includeVars
  <2> QED
    BY <2>1 DEF Types
<1> QED
  BY <1>1, <1>2

LEMMA InitTypes == Init => Types
<1> SUFFICES ASSUME Init PROVE Types
  OBVIOUS
<1>1. file \in Files /\ Len(file) \in Nat
  BY FileType DEF Init
<1> QED
  BY <1>1 DEF Init, Types, Blocks

LEMMA StepTypes == Types /\ [Next]_vars => Types'
<1> SUFFICES ASSUME Types, [Next]_vars PROVE Types'
  OBVIOUS
<1>0. file \in Files /\ Len(file) \in Nat /\ DOMAIN file = 1 .. Len(file) /\ linenum \in Nat
  BY FileFacts, Zenon
<1>1. CASE LineStep
  <2>1. /\ stack' \in Blocks /\ pp_stack' \in Seq(Checkpoint)
        /\ file' = file /\ linenum' = linenum + 1
    BY <1>1, NestType
  <2>2. linenum \in 1 .. Len(file)
    BY <1>1 DEF LineStep
  <2>3. function' \in [in_a_function : BOOLEAN, lines : Nat] /\ section' \in 0 .. 5
    <3>1. CASE AsmLine
      BY <3>1 DEF AsmLine, Types, includeVars
    <3> QED
      BY <1>1, <3>1, FunctionType, SectionType, Zenon DEF LineStep
  <2>4. skipped' = skipped \/ skipped' = skipped \cup {linenum}
    BY <1>1, Zenon DEF LineStep, AsmLine, IncludeLine, CodeLine
  <2>5. \A n \in skipped' : n \in DOMAIN file' /\ n < linenum'
    BY <1>0, <2>1, <2>2, <2>4 DEF Types
  <2>6. \A e \in errors' : e.category \in Categories /\ e.line \in Nat
    <3> SUFFICES ASSUME NEW e \in errors' PROVE e.category \in Categories /\ e.line \in Nat
      BY Zenon
    <3>1. CASE e \in errors
      BY <3>1, Zenon DEF Types
    <3>2. CASE e \notin errors
      <4>1. PICK c \in Categories : e = Reported(suppressions', c, linenum)
        BY <1>1, <3>2, Zenon DEF LineStep
      <4> QED
        <5>1. e.category = c /\ e.line = linenum
          BY <4>1, ReportedParts
        <5> QED
          BY <1>0, <5>1, Zenon
    <3> QED
      BY <3>1, <3>2, Zenon
  <2>7. linenum' \in 1 .. Len(file') + 2
    BY <1>0, <2>1, <2>2
  <2>8. file' \in Files
    BY <1>0, <2>1
  <2> QED
    BY <2>1, <2>3, <2>5, <2>6, <2>7, <2>8, Zenon DEF Types
<1>2. CASE EndStep
  <2>1. \A i \in DOMAIN stack : stack[i].starting_linenum \in Nat
    BY BlockLine, Zenon DEF Types
  <2>2. \A e \in errors' : e.category \in Categories /\ e.line \in Nat
    <3> SUFFICES ASSUME NEW e \in errors' PROVE e.category \in Categories /\ e.line \in Nat
      BY Zenon
    <3>1. CASE e \in errors
      BY <3>1, Zenon DEF Types
    <3>2. CASE e \notin errors
      <4>1. PICK c \in {"build/class", "build/namespaces"}, i \in DOMAIN stack :
                e = Reported(suppressions, c, stack[i].starting_linenum)
        BY <1>2, <3>2, Zenon DEF EndStep
      <4> QED
        <5>1. e.category = c /\ e.line = stack[i].starting_linenum
          BY <4>1, ReportedParts
        <5> QED
          BY <2>1, <5>1, AreCategories, Zenon
    <3> QED
      BY <3>1, <3>2, Zenon
  <2>3. linenum' \in 1 .. Len(file') + 2 /\ file' \in Files
    BY <1>0, <1>2 DEF EndStep
  <2>4. \A n \in skipped' : n \in DOMAIN file' /\ n < linenum'
    BY <1>0, <1>2 DEF EndStep, Types
  <2> QED
    BY <1>2, <2>2, <2>3, <2>4 DEF EndStep, Types, nestVars, includeVars
<1>3. CASE UNCHANGED vars
  BY <1>3 DEF vars, nestVars, includeVars, Types
<1> QED
  BY <1>1, <1>2, <1>3, Steps

-----------------------------------------------------------------------------
(* NOLINT: the comments of the lines that were read, and no others, are on   *)
(* record; a comment speaks of no line before its own.                       *)
Commented ==
    \A c \in Categories \cup {"*"}, k \in Int :
        [category |-> c, line |-> k] \in suppressions <=>
            \E n \in 1 .. Len(file) :
                n < linenum /\ file[n].nolint = c /\ SuppressedLine(file[n], n) = k

LEMMA InitCommented == Init => Commented
<1> SUFFICES ASSUME Init PROVE Commented
  OBVIOUS
<1>1. linenum = 1 /\ suppressions = {} /\ file \in Files
  BY Zenon DEF Init
<1>2. Len(file) \in Nat
  BY <1>1, FileType, Zenon
<1> QED
  BY <1>1, <1>2 DEF Commented

LEMMA StepCommented == Types /\ Commented /\ [Next]_vars => Commented'
<1> SUFFICES ASSUME Types, Commented, [Next]_vars PROVE Commented'
  OBVIOUS
<1>0. Len(file) \in Nat /\ linenum \in Nat
  BY FileFacts, Zenon
<1>1. CASE LineStep
  <2> DEFINE line == file[linenum]
             this == [category |-> line.nolint, line |-> SuppressedLine(line, linenum)]
  <2>1. /\ linenum \in 1 .. Len(file) /\ linenum' = linenum + 1 /\ file' = file
        /\ suppressions' = ParseNolintSuppressions(line, linenum)
    BY <1>1, Zenon DEF LineStep, Nest
  <2> SUFFICES ASSUME NEW c \in Categories \cup {"*"}, NEW k \in Int
               PROVE  [category |-> c, line |-> k] \in suppressions' <=>
                        \E n \in 1 .. Len(file) : n < linenum + 1 /\ file[n].nolint = c
                                                  /\ SuppressedLine(file[n], n) = k
    BY <2>1, ZenonT(40) DEF Commented
  <2>2. [category |-> c, line |-> k] \in suppressions <=>
          \E n \in 1 .. Len(file) : n < linenum /\ file[n].nolint = c
                                    /\ SuppressedLine(file[n], n) = k
    BY Zenon DEF Commented
  <2>3. [category |-> c, line |-> k] = this <=> line.nolint = c /\ SuppressedLine(line, linenum) = k
    OBVIOUS
  <2>4. [category |-> c, line |-> k] \in suppressions' <=>
          \/ [category |-> c, line |-> k] \in suppressions
          \/ line.nolint = c /\ SuppressedLine(line, linenum) = k
    <3>1. CASE line.nolint \in Categories \cup {"*"}
      <4>1. suppressions' = suppressions \cup {this}
        BY <2>1, <3>1, Zenon DEF ParseNolintSuppressions
      <4> HIDE DEF this, line
      <4> QED
        BY <2>3, <4>1, Zenon
    <3>2. CASE line.nolint \notin Categories \cup {"*"}
      <4>1. suppressions' = suppressions
        BY <2>1, <3>2, Zenon DEF ParseNolintSuppressions
      <4>2. line.nolint # c
        BY <3>2, Zenon
      <4> QED
        BY <4>1, <4>2, Zenon
    <3> QED
      BY <3>1, <3>2, Zenon
  <2>5. \A n \in 1 .. Len(file) : n < linenum + 1 <=> n < linenum \/ n = linenum
    BY <1>0
  <2> QED
    BY <2>1, <2>2, <2>4, <2>5, Zenon
<1>2. CASE EndStep
  <2>1. /\ linenum = Len(file) + 1 /\ linenum' = linenum + 1
        /\ file' = file /\ suppressions' = suppressions
    BY <1>2, Zenon DEF EndStep
  <2>2. \A n \in 1 .. Len(file) : n < linenum /\ n < linenum'
    BY <1>0, <2>1
  <2> QED
    BY <2>1, <2>2, Zenon DEF Commented
<1>3. CASE UNCHANGED vars
  BY <1>3, Zenon DEF vars, Commented
<1> QED
  BY <1>1, <1>2, <1>3, Steps, Zenon

SpeaksOf(line, n, c, k) ==
    line.nolint \in {"*", c} /\ n = IF line.nextLine THEN k - 1 ELSE k

(* All comments that can speak of line k being read, an error about it is    *)
(* suppressed when one of the file does.                                     *)
LEMMA SuppressedWhenSpokenOf ==
  ASSUME Types, NEW supp, NEW k \in Int, NEW c \in Categories, NEW last \in Int,
         k < last \/ last > Len(file),
         \A c2 \in Categories \cup {"*"} :
            [category |-> c2, line |-> k] \in supp <=>
                \E n \in 1 .. Len(file) :
                    n < last /\ file[n].nolint = c2 /\ SuppressedLine(file[n], n) = k
  PROVE  IsErrorSuppressedByNolint(supp, c, k) <=>
            \E n \in 1 .. Len(file) : SpeaksOf(file[n], n, c, k)
<1>0. Len(file) \in Nat
  BY FileFacts, Zenon
<1>1. ASSUME NEW n \in 1 .. Len(file), NEW c2
      PROVE  n < last /\ file[n].nolint = c2 /\ SuppressedLine(file[n], n) = k
             <=> file[n].nolint = c2 /\ n = IF file[n].nextLine THEN k - 1 ELSE k
  BY <1>0 DEF SuppressedLine
<1>2. IsErrorSuppressedByNolint(supp, c, k) <=>
        \E c2 \in {"*", c} : \E n \in 1 .. Len(file) :
            file[n].nolint = c2 /\ n = IF file[n].nextLine THEN k - 1 ELSE k
  BY <1>1, ZenonT(40) DEF IsErrorSuppressedByNolint
<1> QED
  BY <1>2, Zenon DEF SpeaksOf

LEMMA StepNolint == Types /\ Commented /\ NolintHonoured /\ [Next]_vars => NolintHonoured'
<1> SUFFICES ASSUME Types, Commented, NolintHonoured, [Next]_vars PROVE NolintHonoured'
  OBVIOUS
<1>0. Len(file) \in Nat /\ linenum \in Nat
  BY FileFacts, Zenon
<1> DEFINE Right(e) == e.shown <=> ~\E n \in 1 .. Len(file) : SpeaksOf(file[n], n, e.category, e.line)
<1>4. \A e \in errors : Right(e)
  BY Zenon DEF NolintHonoured, SpeaksOf
<1>5. ASSUME NEW supp, NEW k \in Int, NEW c \in Categories,
             IsErrorSuppressedByNolint(supp, c, k) <=>
               \E n \in 1 .. Len(file) : SpeaksOf(file[n], n, c, k)
      PROVE  Right(Reported(supp, c, k))
  <2> DEFINE P == \E n \in 1 .. Len(file) : SpeaksOf(file[n], n, c, k)
             e == Reported(supp, c, k)
  <2>1. e.category = c /\ e.line = k /\ e.shown = ~IsErrorSuppressedByNolint(supp, c, k)
    BY ReportedParts
  <2>2. e.shown <=> ~IsErrorSuppressedByNolint(supp, c, k)
    BY <2>1, Zenon
  <2> HIDE DEF e
  <2>3. \A n \in 1 .. Len(file) : SpeaksOf(file[n], n, e.category, e.line) <=> SpeaksOf(file[n], n, c, k)
    BY <2>1, Zenon
  <2> QED
    BY <1>5, <2>2, <2>3, Zenon DEF e
<1>6. file' = file /\ (\A e \in errors' : Right(e)) => NolintHonoured'
  <2> HIDE DEF Right
  <2> SUFFICES ASSUME file' = file, \A e \in errors' : Right(e), NEW e \in errors'
               PROVE  e.shown <=> ~\E n \in 1 .. Len(file) :
                          /\ file[n].nolint \in {"*", e.category}
                          /\ n = IF file[n].nextLine THEN e.line - 1 ELSE e.line
    BY Zenon DEF NolintHonoured
  <2> QED
    BY Zenon DEF Right, SpeaksOf
<1>1. CASE LineStep
  <2>1. linenum \in 1 .. Len(file) /\ linenum' = linenum + 1 /\ file' = file
    BY <1>1, Zenon DEF LineStep, Nest
  <2>2. Commented'
    BY StepCommented
  <2>3. \A c2 \in Categories \cup {"*"} :
            [category |-> c2, line |-> linenum] \in suppressions' <=>
                \E n \in 1 .. Len(file) :
                    n < linenum + 1 /\ file[n].nolint = c2 /\ SuppressedLine(file[n], n) = linenum
    BY <1>0, <2>1, <2>2 DEF Commented
  <2>4. ASSUME NEW e \in errors' PROVE Right(e)
    <3>1. CASE e \in errors
      BY <1>4, <3>1, Zenon
    <3>2. CASE e \notin errors
      <4>1. PICK c \in Categories : e = Reported(suppressions', c, linenum)
        BY <1>1, <3>2, Zenon DEF LineStep
      <4>2. linenum \in Int /\ linenum + 1 \in Int /\ linenum < linenum + 1
        BY <1>0
      <4>3. IsErrorSuppressedByNolint(suppressions', c, linenum) <=>
               \E n \in 1 .. Len(file) : SpeaksOf(file[n], n, c, linenum)
        BY <2>3, <4>2, SuppressedWhenSpokenOf, Zenon
      <4> HIDE DEF Right
      <4> QED
        BY <1>5, <4>1, <4>2, <4>3, Zenon
    <3> QED
      BY <3>1, <3>2, Zenon
  <2> HIDE DEF Right
  <2> QED
    BY <1>6, <2>1, <2>4, Zenon
<1>2. CASE EndStep
  <2>1. linenum = Len(file) + 1 /\ file' = file
    BY <1>2, Zenon DEF EndStep
  <2>2. linenum \in Int /\ linenum > Len(file)
    BY <1>0, <2>1
  <2>4. ASSUME NEW e \in errors' PROVE Right(e)
    <3>1. CASE e \in errors
      BY <1>4, <3>1, Zenon
    <3>2. CASE e \notin errors
      <4>1. PICK c \in {"build/class", "build/namespaces"}, i \in DOMAIN stack :
              e = Reported(suppressions, c, stack[i].starting_linenum)
        BY <1>2, <3>2, Zenon DEF EndStep
      <4> DEFINE k == stack[i].starting_linenum
      <4>2. k \in Int /\ c \in Categories
        <5>1. k \in Nat
          BY BlockLine, Zenon DEF Types
        <5> HIDE DEF k
        <5>2. k \in Int
          BY <5>1
        <5> QED
          BY <5>2, AreCategories, Zenon
      <4> HIDE DEF k
      <4>3. IsErrorSuppressedByNolint(suppressions, c, k) <=>
               \E n \in 1 .. Len(file) : SpeaksOf(file[n], n, c, k)
        BY <2>2, <4>2, SuppressedWhenSpokenOf, ZenonT(40) DEF Commented
      <4> HIDE DEF Right
      <4> QED
        BY <1>5, <4>1, <4>2, <4>3, Zenon DEF k
    <3> QED
      BY <3>1, <3>2, Zenon
  <2> HIDE DEF Right
  <2> QED
    BY <1>6, <2>1, <2>4, Zenon
<1>3. CASE UNCHANGED vars
  BY <1>3, Zenon DEF vars, NolintHonoured
<1> QED
  BY <1>1, <1>2, <1>3, Steps, Zenon

(* Every reported error is hidden exactly when a NOLINT comment of the file, *)
(* read before or not, speaks of its line and category (NolintHonoured).     *)
THEOREM NolintObeyed == Spec => []NolintHonoured
<1>1. Init => NolintHonoured
  BY Zenon DEF Init, NolintHonoured
<1> QED
  BY <1>1, InitTypes, StepTypes, InitCommented, StepCommented, StepNolint, PTL DEF Spec

-----------------------------------------------------------------------------
(* The recursive definitions over the lines of a file.                       *)
LEMMA DirectiveType ==
  ASSUME NEW open \in Seq(BOOLEAN), NEW line
  PROVE  Directive(open, line) \in Seq(BOOLEAN)
<1>1. open # <<>> => Front(open) \in Seq(BOOLEAN) /\ ReplaceTop(open, TRUE) \in Seq(BOOLEAN)
  BY FrontType, ReplaceTopType
<1>2. Append(open, FALSE) \in Seq(BOOLEAN)
  BY AppendType
<1> QED
  BY <1>1, <1>2, Zenon DEF Directive

LEMMA ConditionalsValue ==
  ASSUME NEW lines, Len(lines) \in Nat
  PROVE  /\ Conditionals(lines)[0] = <<>>
         /\ \A n \in 1 .. Len(lines) :
              Conditionals(lines)[n] = Directive(Conditionals(lines)[n - 1], lines[n])
         /\ \A n \in 0 .. Len(lines) : Conditionals(lines)[n] \in Seq(BOOLEAN)
<1> DEFINE N == Len(lines)
           A == Seq(BOOLEAN)
           step == [x \in A \X (1 .. N) |-> Directive(x[1], lines[x[2]])]
           f == Conditionals(lines)
           IsRun(g) == g = [n \in 0 .. N |-> IF n = 0 THEN <<>>
                                             ELSE Directive(g[n - 1], lines[n])]
<1>1. step \in [A \X (1 .. N) -> A] /\ <<>> \in A
  BY DirectiveType
<1> HIDE DEF A
<1>2. PICK g \in [0 .. N -> A] : Computes(g, <<>>, step, N)
  <2> HIDE DEF step
  <2> QED
    BY <1>1, ComputationExists
<1>3. \A n \in 1 .. N : <<g[n - 1], n>> \in A \X (1 .. N)
  BY <1>2
<1>4. \A n \in 1 .. N : step[<<g[n - 1], n>>] = Directive(g[n - 1], lines[n])
  BY <1>3
<1> HIDE DEF step
<1>5. \A n \in 0 .. N : g[n] = IF n = 0 THEN <<>> ELSE Directive(g[n - 1], lines[n])
  <2>1. \A n \in 1 .. N : g[n] = Directive(g[n - 1], lines[n])
    BY <1>2, <1>4, Zenon DEF Computes
  <2>2. g[0] = <<>>
    BY <1>2, Zenon DEF Computes
  <2>3. ASSUME NEW n \in 0 .. N PROVE n = 0 \/ n \in 1 .. N
    OBVIOUS
  <2>4. 0 \notin 1 .. N
    OBVIOUS
  <2> QED
    BY <2>1, <2>2, <2>3, <2>4, Zenon
<1>6. IsRun(g)
  BY <1>2, <1>5
<1>7. f = CHOOSE h : IsRun(h)
  BY DEF Conditionals
<1>8. IsRun(f)
  <2> HIDE DEF f, IsRun
  <2> QED
    BY <1>6, <1>7, Zenon
<1> HIDE DEF f
<1>9. \A n \in 0 .. N : f[n] = IF n = 0 THEN <<>> ELSE Directive(f[n - 1], lines[n])
  BY <1>8, Zenon
<1> HIDE DEF IsRun
<1>10. f[0] = <<>> /\ \A n \in 1 .. N : f[n] = Directive(f[n - 1], lines[n])
  BY <1>9
<1> DEFINE Good == {n \in 0 .. N : f[n] \in A}
<1>11. 0 \in Good
  BY <1>1, <1>10
<1>12. ASSUME NEW n \in 1 .. N, n - 1 \in Good PROVE n \in Good
  <2>1. Directive(f[n - 1], lines[n]) \in A
    BY <1>12, DirectiveType DEF A
  <2> QED
    BY <1>10, <2>1
<1> HIDE DEF Good
<1>13. \A n \in 0 .. N : n \in Good
  BY <1>11, <1>12, StepByStep
<1> QED
  BY <1>10, <1>13 DEF Good, f, A

LEMMA FirstBranchesValue ==
  ASSUME NEW lines \in Files
  PROVE  /\ FirstBranches(lines)[0] = <<>>
         /\ \A n \in 1 .. Len(lines) :
              FirstBranches(lines)[n] =
                 IF InFirstBranches(Conditionals(lines)[n])
                 THEN ApplyLine(FirstBranches(lines)[n - 1], lines[n], n)
                 ELSE FirstBranches(lines)[n - 1]
<1> DEFINE N == Len(lines)
           First(n) == InFirstBranches(Conditionals(lines)[n])
           Next1(b, n) == IF First(n) THEN ApplyLine(b, lines[n], n) ELSE b
           step == [x \in Blocks \X (1 .. N) |-> Next1(x[1], x[2])]
           f == FirstBranches(lines)
           IsRun(g) == g = [n \in 0 .. N |-> CASE n = 0 -> <<>>
                              [] n > 0 /\ First(n) -> ApplyLine(g[n - 1], lines[n], n)
                              [] OTHER -> g[n - 1]]
<1>0. N \in Nat /\ \A n \in 1 .. N : lines[n] \in Line
  BY FileType, Zenon
<1>1. step \in [Blocks \X (1 .. N) -> Blocks] /\ <<>> \in Blocks
  <2>1. ASSUME NEW b \in Blocks, NEW n \in 1 .. N PROVE Next1(b, n) \in Blocks
    <3>1. ApplyLine(b, lines[n], n) \in Blocks
      <4>1. n \in Nat
        BY <1>0
      <4> QED
        BY <1>0, <4>1, ApplyType, Zenon
    <3> QED
      BY <3>1, Zenon
  <2> HIDE DEF Next1
  <2>2. <<>> \in Blocks
    BY DEF Blocks
  <2> QED
    BY <2>1, <2>2
<1>2. PICK g \in [0 .. N -> Blocks] : Computes(g, <<>>, step, N)
  <2> HIDE DEF step, N
  <2> QED
    BY <1>0, <1>1, ComputationExists
<1> HIDE DEF First
<1>3. \A n \in 1 .. N : <<g[n - 1], n>> \in Blocks \X (1 .. N)
  BY <1>0, <1>2, SMTT(30)
<1>4. \A n \in 1 .. N : step[<<g[n - 1], n>>] = Next1(g[n - 1], n)
  <2> HIDE DEF Next1
  <2> QED
    BY <1>3
<1> HIDE DEF step
<1>5. \A n \in 0 .. N : g[n] = CASE n = 0 -> <<>>
                                 [] n > 0 /\ First(n) -> ApplyLine(g[n - 1], lines[n], n)
                                 [] OTHER -> g[n - 1]
  <2>1. \A n \in 1 .. N : g[n] = Next1(g[n - 1], n)
    BY <1>2, <1>4, Zenon DEF Computes
  <2>2. g[0] = <<>>
    BY <1>2, Zenon DEF Computes
  <2>3. ASSUME NEW n \in 0 .. N PROVE n = 0 \/ (n \in 1 .. N /\ n > 0 /\ n # 0)
    BY <1>0
  <2> QED
    BY <2>1, <2>2, <2>3
<1>6. IsRun(g)
  <2>1. g = [n \in 0 .. N |-> g[n]]
    BY <1>2
  <2> QED
    BY <1>5, <2>1
<1>7. f = CHOOSE h : IsRun(h)
  BY DEF FirstBranches, First
<1>8. IsRun(f)
  <2> HIDE DEF f, IsRun
  <2> QED
    BY <1>6, <1>7, Zenon
<1> HIDE DEF f
<1>9. \A n \in 0 .. N : f[n] = CASE n = 0 -> <<>>
                                 [] n > 0 /\ First(n) -> ApplyLine(f[n - 1], lines[n], n)
                                 [] OTHER -> f[n - 1]
  BY <1>8, Zenon
<1> HIDE DEF IsRun
<1>10. f[0] = <<>>
  BY <1>0, <1>9
<1>11. ASSUME NEW n \in 1 .. N PROVE f[n] = Next1(f[n - 1], n)
  <2>1. n \in 0 .. N /\ n > 0 /\ n # 0
    BY <1>0
  <2> QED
    BY <1>9, <2>1
<1> QED
  BY <1>10, <1>11, Zenon DEF f, First

-----------------------------------------------------------------------------
(* The checkpoints know the conditionals; outside other branches the blocks  *)
(* are those of the first ones, and inside, the checkpoint of the outermost  *)
(* conditional that went on to another branch has kept them.                 *)
Aligned(pp, open) ==
    Len(pp) = Len(open) /\ \A i \in 1 .. Len(open) : pp[i].seen_else = open[i]

FirstKept(pp, blocks, open, first) ==
    /\ InFirstBranches(open) => blocks = first
    /\ \A i \in 1 .. Len(open) :
         open[i] /\ (\A j \in 1 .. i - 1 : ~open[j]) => pp[i].stack_before_else = first

LEMMA BranchStep ==
  ASSUME NEW pp \in Seq(Checkpoint), NEW blocks \in Blocks, NEW line,
         NEW open \in Seq(BOOLEAN), NEW first,
         Aligned(pp, open), FirstKept(pp, blocks, open, first)
  PROVE  LET r == UpdatePreprocessor(pp, blocks, line)
             o == Directive(open, line)
         IN  Aligned(r.pps, o) /\ FirstKept(r.pps, r.stack, o, first)
<1> DEFINE r == UpdatePreprocessor(pp, blocks, line)
           o == Directive(open, line)
<1>0. /\ Len(pp) = Len(open) /\ Len(open) \in Nat
      /\ \A i \in 1 .. Len(open) : open[i] \in BOOLEAN /\ pp[i].seen_else = open[i]
      /\ pp = <<>> <=> open = <<>>
  BY DEF Aligned
<1>1. CASE line.pp = "if"
  <2>1. r = [pps |-> Append(pp, Conditional(blocks)), stack |-> blocks]
    BY <1>1 DEF UpdatePreprocessor
  <2>2. o = Append(open, FALSE)
    BY <1>1 DEF Directive
  <2>3. Conditional(blocks).seen_else = FALSE /\ Conditional(blocks) \in Checkpoint
    BY DEF Conditional, Checkpoint, Blocks
  <2> DEFINE c == Conditional(blocks)
             pps == Append(pp, c)
  <2>4. /\ Len(pps) = Len(pp) + 1 /\ pps[Len(pp) + 1] = c
        /\ \A i \in 1 .. Len(pp) : pps[i] = pp[i]
    BY <2>3, AppendType
  <2>5. /\ Len(o) = Len(open) + 1 /\ o[Len(open) + 1] = FALSE
        /\ \A i \in 1 .. Len(open) : o[i] = open[i]
    BY <2>2, AppendType
  <2> HIDE DEF c, pps, o
  <2>6. \A i \in 1 .. Len(o) : i = Len(open) + 1 \/ i \in 1 .. Len(open)
    BY <1>0, <2>5
  <2>7. Aligned(pps, o)
    BY <1>0, <2>3, <2>4, <2>5, <2>6 DEF Aligned, c
  <2>8. InFirstBranches(o) => InFirstBranches(open)
    BY <1>0, <2>5 DEF InFirstBranches
  <2>9. ASSUME NEW i \in 1 .. Len(o), o[i], \A j \in 1 .. i - 1 : ~o[j]
        PROVE  pps[i].stack_before_else = first
    <3>1. i \in 1 .. Len(open) /\ open[i]
      BY <2>5, <2>6, <2>9
    <3>2. \A j \in 1 .. i - 1 : ~open[j]
      BY <1>0, <2>5, <2>9, <3>1
    <3> QED
      BY <1>0, <2>4, <3>1, <3>2 DEF FirstKept
  <2>10. r.pps = pps /\ r.stack = blocks
    BY <2>1 DEF pps, c
  <2> QED
    BY <2>7, <2>8, <2>9, <2>10, Zenon DEF FirstKept, o
<1>2. CASE line.pp = "else" /\ pp # <<>>
  <2> DEFINE N == Len(open)
             c == SeeElse(Last(pp), blocks)
             pps == ReplaceTop(pp, c)
  <2>1. r = [pps |-> pps, stack |-> Last(pp).stack_before_if]
    BY <1>2 DEF UpdatePreprocessor
  <2>2. o = ReplaceTop(open, TRUE)
    BY <1>0, <1>2 DEF Directive
  <2>3. Last(pp) \in Checkpoint /\ Last(pp) = pp[N]
    BY <1>0, <1>2, FrontType DEF Last
  <2>4. /\ c \in Checkpoint /\ c.seen_else = TRUE
        /\ c.stack_before_else = IF pp[N].seen_else THEN pp[N].stack_before_else ELSE blocks
    BY <2>3 DEF SeeElse, Checkpoint
  <2>5. /\ Len(pps) = N /\ pps[N] = c
        /\ \A i \in 1 .. N - 1 : pps[i] = pp[i]
    <3>1. N = Len(pp) /\ pp # <<>>
      BY <1>0, <1>2
    <3> HIDE DEF c, N
    <3> QED
      BY <2>4, <3>1, ReplaceTopType
  <2>6. /\ Len(o) = N /\ o[N] = TRUE
        /\ \A i \in 1 .. N - 1 : o[i] = open[i]
    <3>1. open # <<>> /\ TRUE \in BOOLEAN
      BY <1>0, <1>2
    <3> DEFINE q == ReplaceTop(open, TRUE)
    <3>2. /\ Len(q) = Len(open) /\ q[Len(open)] = TRUE
          /\ \A i \in 1 .. Len(open) - 1 : q[i] = open[i]
      BY <3>1, ReplaceTopType, ZenonT(40)
    <3> QED
      BY <2>2, <3>2, Zenon
  <2>7. N \in Nat /\ N >= 1
    BY <1>0, <1>2
  <2> HIDE DEF c, pps, o, N
  <2>8. \A i \in 1 .. N : i = N \/ i \in 1 .. N - 1
    BY <2>7
  <2>9. Aligned(pps, o)
    BY <1>0, <2>4, <2>5, <2>6, <2>7, <2>8 DEF Aligned, N
  <2>10. ~InFirstBranches(o)
    BY <2>6, <2>7 DEF InFirstBranches
  <2>11. ASSUME NEW i \in 1 .. Len(o), o[i], \A j \in 1 .. i - 1 : ~o[j]
         PROVE  pps[i].stack_before_else = first
    <3>1. \A j \in 1 .. i - 1 : ~open[j]
      BY <2>6, <2>7, <2>11
    <3>2. CASE i = N
      <4>1. CASE open[N]
        BY <1>0, <2>4, <2>5, <2>7, <3>1, <3>2, <4>1 DEF FirstKept, N
      <4>2. CASE ~open[N]
        <5>1. InFirstBranches(open)
          BY <1>0, <2>7, <2>8, <3>1, <3>2, <4>2 DEF InFirstBranches, N
        <5>2. c.stack_before_else = blocks
          BY <1>0, <2>4, <2>7, <4>2 DEF N
        <5> QED
          BY <2>5, <3>2, <5>1, <5>2 DEF FirstKept
      <4> QED
        BY <4>1, <4>2
    <3>3. CASE i # N
      <4>1. i \in 1 .. N - 1 /\ open[i]
        BY <2>6, <2>7, <2>8, <2>11, <3>3
      <4> QED
        BY <2>5, <2>7, <3>1, <4>1 DEF FirstKept, N
    <3> QED
      BY <3>2, <3>3
  <2> QED
    BY <2>1, <2>9, <2>10, <2>11 DEF FirstKept, o
<1>3. CASE line.pp = "endif" /\ pp # <<>>
  <2> DEFINE N == Len(open)
             pps == Front(pp)
  <2>1. r = [pps |-> pps, stack |-> IF Last(pp).seen_else THEN Last(pp).stack_before_else
                                    ELSE blocks]
    BY <1>3 DEF UpdatePreprocessor
  <2>2. o = Front(open)
    BY <1>0, <1>3 DEF Directive
  <2>3. Last(pp) = pp[N]
    BY <1>0 DEF Last
  <2>5. Len(pps) = N - 1 /\ \A i \in 1 .. N - 1 : pps[i] = pp[i]
    BY <1>0, <1>3, FrontType
  <2>6. Len(o) = N - 1 /\ o \in Seq(BOOLEAN) /\ \A i \in 1 .. N - 1 : o[i] = open[i]
    BY <1>0, <1>3, <2>2, FrontType
  <2>7. N \in Nat /\ N >= 1
    BY <1>0, <1>3
  <2> HIDE DEF pps, o, N
  <2>8. \A i \in 1 .. N : i = N \/ i \in 1 .. N - 1
    BY <2>7
  <2>9. Aligned(pps, o)
    BY <1>0, <2>5, <2>6, <2>7, SMTT(30) DEF Aligned, N
  <2>10. ASSUME InFirstBranches(o) PROVE r.stack = first
    <3>1. \A j \in 1 .. N - 1 : ~open[j]
      BY <2>6, <2>7, <2>10 DEF InFirstBranches
    <3>2. CASE open[N]
      <4>1. pp[N].stack_before_else = first
        BY <2>7, <3>1, <3>2 DEF FirstKept, N
      <4>2. pp[N].seen_else
        BY <1>0, <2>7, <3>2 DEF N
      <4> QED
        BY <2>1, <2>3, <4>1, <4>2
    <3>3. CASE ~open[N]
      <4>1. InFirstBranches(open)
        BY <1>0, <2>7, <2>8, <3>1, <3>3 DEF InFirstBranches, N
      <4>2. ~pp[N].seen_else
        BY <1>0, <2>7, <3>3 DEF N
      <4> QED
        BY <2>1, <2>3, <4>1, <4>2 DEF FirstKept
    <3> QED
      BY <3>2, <3>3
  <2>11. ASSUME NEW i \in 1 .. Len(o), o[i], \A j \in 1 .. i - 1 : ~o[j]
         PROVE  pps[i].stack_before_else = first
    <3>1. i \in 1 .. N - 1 /\ open[i] /\ \A j \in 1 .. i - 1 : ~open[j]
      BY <2>6, <2>7, <2>11, SMTT(30)
    <3> QED
      BY <2>5, <2>7, <3>1 DEF FirstKept, N
  <2>12. r.pps = pps
    BY <2>1
  <2> QED
    BY <2>9, <2>10, <2>11, <2>12, Zenon DEF FirstKept, o
<1>4. CASE ~(line.pp = "if") /\ ~(line.pp = "else" /\ pp # <<>>)
           /\ ~(line.pp = "endif" /\ pp # <<>>)
  <2>1. r = [pps |-> pp, stack |-> blocks]
    BY <1>4 DEF UpdatePreprocessor
  <2>2. o = open
    BY <1>0, <1>4 DEF Directive
  <2> QED
    BY <2>1, <2>2
<1> QED
  BY <1>1, <1>2, <1>3, <1>4

OpenNow == Conditionals(file)[linenum - 1]
FirstNow == FirstBranches(file)[linenum - 1]

Branches ==
    linenum <= Len(file) + 1 =>
        Aligned(pp_stack, OpenNow) /\ FirstKept(pp_stack, stack, OpenNow, FirstNow)

LEMMA InitBranches == Init => Branches
<1> SUFFICES ASSUME Init PROVE Branches
  OBVIOUS
<1>1. Conditionals(file)[0] = <<>>
  BY ConditionalsValue, FileType, Zenon DEF Init
<1>2. FirstBranches(file)[0] = <<>>
  BY FirstBranchesValue, Zenon DEF Init
<1>3. linenum - 1 = 0 /\ stack = <<>> /\ pp_stack = <<>>
  BY DEF Init
<1>4. OpenNow = <<>> /\ FirstNow = <<>>
  BY <1>1, <1>2, <1>3, Zenon DEF OpenNow, FirstNow
<1> QED
  BY <1>3, <1>4 DEF Branches, Aligned, FirstKept

LEMMA StepBranches == Types /\ Branches /\ [Next]_vars => Branches'
<1> SUFFICES ASSUME Types, Branches, [Next]_vars PROVE Branches'
  OBVIOUS
<1>0. Len(file) \in Nat /\ linenum \in Nat /\ linenum >= 1 /\ file \in Files
  BY FileFacts, Zenon
<1>1. CASE LineStep
  <2> DEFINE n == linenum
             line == file[n]
             r == UpdatePreprocessor(pp_stack, stack, line)
             o == Directive(OpenNow, line)
  <2>1. /\ n \in 1 .. Len(file) /\ linenum' = n + 1 /\ file' = file
        /\ pp_stack' = r.pps /\ stack' = ApplyLine(r.stack, line, n)
    BY <1>1, Zenon DEF LineStep, Nest
  <2>2. n <= Len(file) + 1 /\ n - 1 \in 0 .. Len(file)
    BY <1>0, <2>1
  <2>3. Aligned(pp_stack, OpenNow) /\ FirstKept(pp_stack, stack, OpenNow, FirstNow)
    BY <2>2, Zenon DEF Branches
  <2>4. OpenNow \in Seq(BOOLEAN)
    BY <1>0, <2>2, ConditionalsValue, Zenon DEF OpenNow
  <2>5. Aligned(r.pps, o) /\ FirstKept(r.pps, r.stack, o, FirstNow)
    BY <2>3, <2>4, BranchStep, Zenon DEF Types
  <2>6. (n + 1) - 1 = n
    BY <1>0
  <2>7. Conditionals(file)[n] = o
    BY <1>0, <2>1, ConditionalsValue, Zenon DEF OpenNow
  <2>8. OpenNow' = o
    BY <2>1, <2>6, <2>7, Zenon DEF OpenNow
  <2> DEFINE first == FirstBranches(file)[n]
  <2>9. FirstNow' = first
    BY <2>1, <2>6, Zenon DEF FirstNow
  <2>10. first = IF InFirstBranches(Conditionals(file)[n])
                 THEN ApplyLine(FirstBranches(file)[n - 1], line, n)
                 ELSE FirstBranches(file)[n - 1]
    BY <1>0, <2>1, FirstBranchesValue, Zenon
  <2>11. first = IF InFirstBranches(o) THEN ApplyLine(FirstNow, line, n) ELSE FirstNow
    BY <2>7, <2>10, Zenon DEF FirstNow
  <2>12. o \in Seq(BOOLEAN)
    BY <2>4, DirectiveType
  <2> HIDE DEF n, line, r, o, first
  <2>13. FirstKept(r.pps, ApplyLine(r.stack, line, n), o, first)
    <3>1. CASE InFirstBranches(o)
      <4>1. first = ApplyLine(r.stack, line, n)
        BY <2>5, <2>11, <3>1, Zenon DEF FirstKept
      <4>2. \A i \in 1 .. Len(o) : ~o[i]
        BY <2>12, <3>1 DEF InFirstBranches
      <4> QED
        BY <4>1, <4>2, Zenon DEF FirstKept
    <3>2. CASE ~InFirstBranches(o)
      <4>1. first = FirstNow
        BY <2>11, <3>2, Zenon
      <4> QED
        BY <2>5, <3>2, <4>1, Zenon DEF FirstKept
    <3> QED
      BY <3>1, <3>2, Zenon
  <2> QED
    BY <2>1, <2>5, <2>8, <2>9, <2>13, Zenon DEF Branches
<1>2. CASE EndStep
  <2>1. linenum = Len(file) + 1 /\ linenum' = linenum + 1 /\ file' = file
    BY <1>2, Zenon DEF EndStep
  <2>2. ~(linenum' <= Len(file') + 1)
    BY <1>0, <2>1
  <2> QED
    BY <2>2, Zenon DEF Branches
<1>3. CASE UNCHANGED vars
  <2>1. /\ linenum' = linenum /\ file' = file /\ stack' = stack /\ pp_stack' = pp_stack
    BY <1>3, Zenon DEF vars, nestVars
  <2>2. OpenNow' = OpenNow /\ FirstNow' = FirstNow
    BY <2>1, Zenon DEF OpenNow, FirstNow
  <2> QED
    BY <2>1, <2>2, Zenon DEF Branches
<1> QED
  BY <1>1, <1>2, <1>3, Steps, Zenon

(* For any file: outside other branches of its conditionals, however they    *)
(* nest and scopes start and end in them, the open blocks are those of the   *)
(* first branches (FirstBranchesCount).                                      *)
THEOREM FirstBranchesKept == Spec => []FirstBranchesCount
<1>1. Branches => FirstBranchesCount
  BY Zenon DEF Branches, FirstBranchesCount, FirstKept, OpenNow, FirstNow
<1> QED
  BY <1>1, InitTypes, StepTypes, InitBranches, StepBranches, PTL DEF Spec

-----------------------------------------------------------------------------
(* The function that is open before a line, and its lines of code.           *)
Stops(k) == file[k].text = "end" \/ (file[k].text = "start" /\ StartsBody(k))

CodeLines(m, n) == {k \in (m + 1) .. (n - 1) : file[k].text = "code" /\ k \notin skipped}

Measured ==
    linenum <= Len(file) + 1 =>
        /\ function.in_a_function <=> \E m \in 1 .. linenum - 1 : BodyStart(m, linenum)
        /\ \A m \in 1 .. linenum - 1 :
             BodyStart(m, linenum) => function.lines = Cardinality(CodeLines(m, linenum))

(* Only the scopes left open are reported about lines long past.             *)
Behind ==
    \A e \in errors :
        e.category \in {"build/class", "build/namespaces"} \/ e.line < linenum

LEMMA SameStarts == ASSUME file' = file PROVE \A m : StartsBody(m)' <=> StartsBody(m)
BY ZenonT(40) DEF StartsBody, Decides, Ends, Opens

LEMMA BodyNext ==
  ASSUME file' = file
  PROVE  \A m, n : BodyStart(m, n)' <=>
            /\ m < n
            /\ file[m].text = "start" /\ m \notin skipped' /\ StartsBody(m)
            /\ \A k \in (m + 1) .. (n - 1) : k \in skipped' \/ ~Stops(k)
BY SameStarts, Zenon DEF BodyStart, Stops

LEMMA BodyNow ==
  \A m, n : BodyStart(m, n) <=>
            /\ m < n
            /\ file[m].text = "start" /\ m \notin skipped /\ StartsBody(m)
            /\ \A k \in (m + 1) .. (n - 1) : k \in skipped \/ ~Stops(k)
BY Zenon DEF BodyStart, Stops

LEMMA SkippedStep ==
  ASSUME Types, LineStep
  PROVE  \A k \in Int : k < linenum => (k \in skipped' <=> k \in skipped)
<1>0. linenum \in Nat /\ file' = file
  BY FileFacts, NestType, Zenon
<1>1. skipped' = skipped \/ skipped' = skipped \cup {linenum}
  BY Zenon DEF LineStep, AsmLine, IncludeLine, CodeLine
<1> QED
  BY <1>0, <1>1

LEMMA BodyStep ==
  ASSUME Types, LineStep, NEW m \in 1 .. linenum
  PROVE  BodyStart(m, linenum)' <=>
           \/ m < linenum /\ BodyStart(m, linenum) /\ (linenum \in skipped' \/ ~Stops(linenum))
           \/ /\ m = linenum /\ linenum \notin skipped'
              /\ file[m].text = "start" /\ StartsBody(m)
<1> DEFINE n == linenum
<1>0. n \in Nat /\ m \in Nat /\ file' = file /\ m \in 1 .. n /\ linenum' = n + 1
  BY FileFacts, NestType
<1>1. \A k \in Int : k < n => (k \in skipped' <=> k \in skipped)
  BY SkippedStep
<1>2. BodyStart(m, linenum)' <=>
            /\ m < n + 1
            /\ file[m].text = "start" /\ m \notin skipped' /\ StartsBody(m)
            /\ \A k \in (m + 1) .. n : k \in skipped' \/ ~Stops(k)
  <2>1. (n + 1) - 1 = n /\ linenum' - 1 = n
    BY <1>0
  <2> QED
    BY <1>0, <2>1, BodyNext, Zenon
<1>3. BodyStart(m, n) <=>
            /\ m < n
            /\ file[m].text = "start" /\ m \notin skipped /\ StartsBody(m)
            /\ \A k \in (m + 1) .. (n - 1) : k \in skipped \/ ~Stops(k)
  BY BodyNow
<1> HIDE DEF n
<1>4. CASE m = n
  <2>1. (m + 1) .. n = {}
    BY <1>0, <1>4
  <2>2. m < n + 1 /\ ~(m < n)
    BY <1>0, <1>4
  <2> QED
    BY <1>2, <1>4, <2>1, <2>2, Zenon DEF n
<1>5. CASE m < n
  <2>1. m < n + 1 /\ m # n
    BY <1>0, <1>5
  <2>2. m \in skipped' <=> m \in skipped
    BY <1>0, <1>1, <1>5
  <2>3. (\A k \in (m + 1) .. n : k \in skipped' \/ ~Stops(k))
        <=> /\ n \in skipped' \/ ~Stops(n)
            /\ \A k \in (m + 1) .. (n - 1) : k \in skipped \/ ~Stops(k)
    <3>1. \A k \in (m + 1) .. (n - 1) :
            k \in (m + 1) .. n /\ (k \in skipped' <=> k \in skipped)
      BY <1>0, <1>1
    <3>2. n \in (m + 1) .. n
      BY <1>0, <1>5
    <3>3. \A k \in (m + 1) .. n : k = n \/ k \in (m + 1) .. (n - 1)
      BY <1>0
    <3> QED
      BY <3>1, <3>2, <3>3, Zenon
  <2> QED
    BY <1>2, <1>3, <1>5, <2>1, <2>2, <2>3, Zenon DEF n
<1>6. m = n \/ m < n
  BY <1>0
<1> QED
  BY <1>4, <1>5, <1>6

LEMMA CodeStep ==
  ASSUME Types, LineStep, NEW m \in 1 .. linenum
  PROVE  /\ CodeLines(m, linenum)' =
              IF m < linenum /\ file[linenum].text = "code" /\ linenum \notin skipped'
              THEN CodeLines(m, linenum) \cup {linenum} ELSE CodeLines(m, linenum)
         /\ linenum \notin CodeLines(m, linenum)
         /\ IsFiniteSet(CodeLines(m, linenum))
<1> DEFINE n == linenum
<1>0. n \in Nat /\ m \in Nat /\ file' = file /\ m \in 1 .. n
  BY FileFacts, NestType
<1>1. \A k \in Int : k < n => (k \in skipped' <=> k \in skipped)
  BY SkippedStep
<1>2. CodeLines(m, linenum)' = {k \in (m + 1) .. n : file[k].text = "code" /\ k \notin skipped'}
  <2>1. linenum' - 1 = n
    BY <1>0, NestType
  <2> QED
    BY <1>0, <2>1 DEF CodeLines
<1>3. CodeLines(m, n) = {k \in (m + 1) .. (n - 1) : file[k].text = "code" /\ k \notin skipped}
  BY DEF CodeLines
<1>4. CodeLines(m, n) \subseteq 1 .. n /\ n \notin CodeLines(m, n)
  BY <1>0, <1>3
<1>5. IsFiniteSet(CodeLines(m, n))
  <2>1. IsFiniteSet(1 .. n)
    BY <1>0, FS_Interval
  <2> QED
    BY <1>4, <2>1, FS_Subset, Zenon
<1>6. \A k : k \in CodeLines(m, linenum)' <=>
              \/ k \in CodeLines(m, n)
              \/ k = n /\ m < n /\ file[n].text = "code" /\ n \notin skipped'
  <2> SUFFICES ASSUME NEW k
               PROVE  k \in CodeLines(m, linenum)' <=>
                        \/ k \in CodeLines(m, n)
                        \/ k = n /\ m < n /\ file[n].text = "code" /\ n \notin skipped'
    OBVIOUS
  <2>1. k \in CodeLines(m, linenum)' <=> k \in (m + 1) .. n /\ file[k].text = "code" /\ k \notin skipped'
    BY <1>2, Zenon
  <2>2. k \in CodeLines(m, n) <=> k \in (m + 1) .. (n - 1) /\ file[k].text = "code" /\ k \notin skipped
    BY <1>3, Zenon
  <2>3. k \in (m + 1) .. n <=> k \in (m + 1) .. (n - 1) \/ (k = n /\ m < n)
    BY <1>0
  <2>4. k \in (m + 1) .. (n - 1) => k # n /\ (k \in skipped' <=> k \in skipped)
    BY <1>0, <1>1
  <2> QED
    BY <2>1, <2>2, <2>3, <2>4, Zenon
<1> QED
  BY <1>4, <1>5, <1>6, Zenon

LEMMA InitMeasured == Init => Measured
<1> SUFFICES ASSUME Init PROVE Measured
  OBVIOUS
<1>1. linenum = 1 /\ function.in_a_function = FALSE
  BY DEF Init
<1> QED
  BY <1>1 DEF Measured

(* A line that neither starts nor ends a function goes to the open one.      *)
LEMMA MeasuredStays ==
  ASSUME Types, Measured, LineStep, linenum \in skipped' \/ ~Stops(linenum),
         function' = IF function.in_a_function /\ file[linenum].text = "code"
                        /\ linenum \notin skipped'
                     THEN [function EXCEPT !.lines = @ + 1] ELSE function
  PROVE  Measured'
<1> DEFINE n == linenum
<1>0. n \in Nat /\ n >= 1 /\ linenum' = n + 1 /\ n <= Len(file) + 1
      /\ function \in [in_a_function : BOOLEAN, lines : Nat]
  <2>1. n \in Nat /\ n >= 1 /\ Len(file) \in Nat /\ linenum' = n + 1
    BY FileFacts, NestType, Zenon
  <2>2. n \in 1 .. Len(file)
    BY Zenon DEF LineStep
  <2> QED
    BY <2>1, <2>2 DEF Types
<1>1. linenum \notin skipped' => ~(file[linenum].text = "start" /\ StartsBody(linenum))
  BY DEF Stops
<1>2. \A m \in 1 .. n : BodyStart(m, linenum)' <=> m < n /\ BodyStart(m, n)
  BY <1>1, BodyStep, Zenon
<1>3. \A m \in 1 .. n : m < n <=> m \in 1 .. n - 1
  BY <1>0
<1>4. linenum' - 1 = n
  BY <1>0
<1>5. function.in_a_function <=> \E m \in 1 .. n - 1 : BodyStart(m, n)
  BY <1>0, Zenon DEF Measured
<1>6. \A m \in 1 .. n - 1 : m \in 1 .. n
  BY <1>0
<1>7. function'.in_a_function <=> function.in_a_function
  BY <1>0
<1>8. function'.in_a_function <=> \E m \in 1 .. n : BodyStart(m, linenum)'
  BY <1>2, <1>3, <1>5, <1>6, <1>7, Zenon
<1>9. ASSUME NEW m \in 1 .. n, BodyStart(m, linenum)'
      PROVE  function'.lines = Cardinality(CodeLines(m, linenum)')
  <2>1. m \in 1 .. n - 1 /\ m < n /\ BodyStart(m, n)
    BY <1>2, <1>3, <1>9, Zenon
  <2>2. function.lines = Cardinality(CodeLines(m, n)) /\ function.in_a_function
    BY <1>0, <1>5, <2>1, Zenon DEF Measured
  <2>3. CASE file[linenum].text = "code" /\ linenum \notin skipped'
    <3>1. CodeLines(m, linenum)' = CodeLines(m, n) \cup {n}
      BY <2>1, <2>3, CodeStep, Zenon
    <3>2. n \notin CodeLines(m, n) /\ IsFiniteSet(CodeLines(m, n))
      BY CodeStep, Zenon
    <3>3. Cardinality(CodeLines(m, n) \cup {n}) = Cardinality(CodeLines(m, n)) + 1
      BY <3>2, FS_AddElement, Zenon
    <3>4. function'.lines = function.lines + 1
      BY <1>0, <2>2, <2>3
    <3> QED
      BY <2>2, <3>1, <3>3, <3>4, Zenon
  <2>4. CASE ~(file[linenum].text = "code" /\ linenum \notin skipped')
    <3>1. CodeLines(m, linenum)' = CodeLines(m, n)
      BY <2>4, CodeStep, Zenon
    <3>2. function' = function
      BY <2>4, Zenon
    <3> QED
      BY <2>2, <3>1, <3>2, Zenon
  <2> QED
    BY <2>3, <2>4, Zenon
<1> QED
  BY <1>4, <1>8, <1>9, Zenon DEF Measured

LEMMA StepMeasured == Types /\ Measured /\ [Next]_vars => Measured'
<1> SUFFICES ASSUME Types, Measured, [Next]_vars PROVE Measured'
  OBVIOUS
<1>0. Len(file) \in Nat /\ linenum \in Nat /\ linenum >= 1
  BY FileFacts, Zenon
<1>1. CASE LineStep
  <2> DEFINE n == linenum
             line == file[n]
  <2>1. CASE AsmLine
    <3>1. linenum \in skipped' /\ function' = function
      BY <2>1, Zenon DEF AsmLine
    <3> QED
      BY <1>1, <3>1, MeasuredStays, Zenon
  <2>2. CASE IncludeLine \/ CodeLine
    <3>1. linenum \notin skipped'
      <4>1. skipped' = skipped
        BY <2>2, Zenon DEF IncludeLine, CodeLine
      <4> QED
        BY <1>0, <4>1 DEF Types
    <3>2. function' = NextFunction(function, line, n)
      BY <2>2, Zenon DEF IncludeLine, CodeLine
    <3>3. linenum' = n + 1 /\ linenum' - 1 = n
      BY <1>0, <1>1, NestType
    <3>4. \A m \in 1 .. n : m < n \/ m = n
      BY <1>0
    <3>5. CASE line.text = "start" /\ StartsBody(n)
      <4>1. function' = Begin(function)
        BY <3>2, <3>5, Zenon DEF NextFunction
      <4>2. function'.in_a_function = TRUE /\ function'.lines = 0
        BY <4>1 DEF Begin
      <4>3. n \in 1 .. n
        BY <1>0
      <4>4. \E m \in 1 .. n : BodyStart(m, linenum)'
        BY <1>1, <3>1, <3>5, <4>3, BodyStep, Zenon
      <4>5. ASSUME NEW m \in 1 .. n, BodyStart(m, linenum)' PROVE m = n
        <5>1. Stops(n)
          BY <3>5, Zenon DEF Stops
        <5> QED
          BY <1>1, <3>1, <4>5, <5>1, BodyStep, Zenon
      <4>6. ASSUME NEW m \in 1 .. n, BodyStart(m, linenum)'
            PROVE  function'.lines = Cardinality(CodeLines(m, linenum)')
        <5>1. m = n
          BY <4>5, <4>6
        <5>2. CodeLines(m, linenum)' = CodeLines(m, n)
          <6>1. ~(m < n)
            BY <1>0, <5>1
          <6> QED
            BY <1>1, <6>1, CodeStep, Zenon
        <5>3. CodeLines(m, n) = {}
          BY <1>0, <5>1 DEF CodeLines
        <5> QED
          BY <4>2, <5>2, <5>3, FS_EmptySet, Zenon
      <4> QED
        BY <3>3, <4>2, <4>3, <4>4, <4>6, Zenon DEF Measured
    <3>6. CASE line.text = "end"
      <4>1. function' = [function EXCEPT !.in_a_function = FALSE]
        BY <3>2, <3>6 DEF NextFunction
      <4>2. ~function'.in_a_function
        <5>1. function \in [in_a_function : BOOLEAN, lines : Nat]
          BY Zenon DEF Types
        <5> QED
          BY <4>1, <5>1
      <4>3. ASSUME NEW m \in 1 .. n PROVE ~BodyStart(m, linenum)'
        <5>1. Stops(n) /\ ~(line.text = "start")
          BY <3>6 DEF Stops
        <5> QED
          BY <1>1, <3>1, <5>1, BodyStep, Zenon
      <4> QED
        BY <3>3, <4>2, <4>3, Zenon DEF Measured
    <3>7. CASE ~Stops(n)
      <4>1. ~(line.text = "start" /\ StartsBody(n)) /\ line.text # "end"
        BY <3>7 DEF Stops
      <4>2. function' = IF function.in_a_function /\ line.text = "code"
                        THEN [function EXCEPT !.lines = @ + 1] ELSE function
        BY <3>2, <4>1 DEF NextFunction, Count
      <4> QED
        BY <1>1, <3>1, <3>7, <4>2, MeasuredStays, Zenon
    <3> QED
      BY <3>5, <3>6, <3>7, Zenon DEF Stops
  <2> QED
    BY <1>1, <2>1, <2>2, Zenon DEF LineStep
<1>2. CASE EndStep
  <2>1. linenum = Len(file) + 1 /\ linenum' = linenum + 1 /\ file' = file
    BY <1>2, Zenon DEF EndStep
  <2>2. ~(linenum' <= Len(file') + 1)
    BY <1>0, <2>1
  <2> QED
    BY <2>2, Zenon DEF Measured
<1>3. CASE UNCHANGED vars
  <2>1. /\ linenum' = linenum /\ file' = file /\ function' = function
        /\ skipped' = skipped
    BY <1>3, Zenon DEF vars
  <2>2. \A m : BodyStart(m, linenum)' <=> BodyStart(m, linenum)
    BY <2>1, BodyNext, BodyNow, Zenon
  <2>3. \A m : CodeLines(m, linenum)' = CodeLines(m, linenum)
    BY <2>1, Zenon DEF CodeLines
  <2> QED
    BY <2>1, <2>2, <2>3, Zenon DEF Measured
<1> QED
  BY <1>1, <1>2, <1>3, Steps, Zenon

LEMMA StepBehind == Types /\ Behind /\ [Next]_vars => Behind'
<1> SUFFICES ASSUME Types, Behind, [Next]_vars, NEW e \in errors'
             PROVE  e.category \in {"build/class", "build/namespaces"} \/ e.line < linenum'
  BY Zenon DEF Behind
<1>0. linenum \in Nat /\ \A d \in errors : d.line \in Nat
  BY FileFacts, Zenon DEF Types
<1>1. CASE LineStep
  <2>1. linenum' = linenum + 1
    BY <1>1, NestType, Zenon
  <2>2. CASE e \in errors
    BY <1>0, <2>1, <2>2 DEF Behind
  <2>3. CASE e \notin errors
    <3>1. PICK c \in Categories : e = Reported(suppressions', c, linenum)
      BY <1>1, <2>3, Zenon DEF LineStep
    <3>2. e.line = linenum
      BY <3>1, ReportedParts
    <3> QED
      BY <1>0, <2>1, <3>2
  <2> QED
    BY <2>2, <2>3
<1>2. CASE EndStep
  <2>1. linenum' = linenum + 1
    BY <1>2, Zenon DEF EndStep
  <2>2. CASE e \in errors
    BY <1>0, <2>1, <2>2 DEF Behind
  <2>3. CASE e \notin errors
    <3>1. PICK c \in {"build/class", "build/namespaces"}, i \in DOMAIN stack :
             e = Reported(suppressions, c, stack[i].starting_linenum)
      BY <1>2, <2>3, Zenon DEF EndStep
    <3>2. e.category = c
      BY <3>1, ReportedParts
    <3> QED
      BY <3>1, <3>2, Zenon
  <2> QED
    BY <2>2, <2>3
<1>3. CASE UNCHANGED vars
  BY <1>3, Zenon DEF vars, Behind
<1> QED
  BY <1>1, <1>2, <1>3, Steps, Zenon

(* What is reported about the lines read so far stays as it is.              *)
Said(c, n) == \E e \in errors : e.category = c /\ e.line = n

LEMMA SaidStays ==
  ASSUME Types, [Next]_vars, NEW n \in Nat, n < linenum,
         NEW c, c \notin {"build/class", "build/namespaces"}
  PROVE  /\ Said(c, n)' <=> Said(c, n)
         /\ n \in skipped' <=> n \in skipped
<1>0. linenum \in Nat
  BY FileFacts, Zenon
<1>1. CASE LineStep
  <2>1. \A e \in errors' \ errors : e.line # n
    <3> SUFFICES ASSUME NEW e \in errors' \ errors PROVE e.line # n
      OBVIOUS
    <3>1. PICK d \in Categories : e = Reported(suppressions', d, linenum)
      BY <1>1, Zenon DEF LineStep
    <3>2. e.line = linenum
      BY <3>1, ReportedParts
    <3> QED
      BY <1>0, <3>2
  <2>2. errors \subseteq errors'
    BY <1>1, Zenon DEF LineStep
  <2> QED
    BY <1>1, <2>1, <2>2, SkippedStep DEF Said
<1>2. CASE EndStep
  <2>1. \A e \in errors' \ errors : e.category # c
    <3> SUFFICES ASSUME NEW e \in errors' \ errors PROVE e.category # c
      OBVIOUS
    <3>1. PICK d \in {"build/class", "build/namespaces"}, i \in DOMAIN stack :
             e = Reported(suppressions, d, stack[i].starting_linenum)
      BY <1>2, Zenon DEF EndStep
    <3>2. e.category = d
      BY <3>1, ReportedParts
    <3> QED
      BY <3>1, <3>2, Zenon
  <2>2. errors \subseteq errors' /\ skipped' = skipped
    BY <1>2, Zenon DEF EndStep
  <2> QED
    BY <2>1, <2>2, Zenon DEF Said
<1>3. CASE UNCHANGED vars
  BY <1>3, Zenon DEF vars, Said
<1> QED
  BY <1>1, <1>2, <1>3, Steps, Zenon

LEMMA NothingSaidYet ==
  ASSUME Types, Behind, NEW c, c \notin {"build/class", "build/namespaces"}
  PROVE  ~Said(c, linenum)
<1>0. linenum \in Nat
  BY FileFacts, Zenon
<1> QED
  BY <1>0 DEF Behind, Said

LEMMA FunctionSaid ==
  ASSUME Types, Behind, LineStep, file[linenum].text = "end", linenum \notin skipped'
  PROVE  \A n : n = linenum => (Said("readability/fn_size", n)' <=> TooLong(function))
<1> DEFINE line == file[linenum]
           c == "readability/fn_size"
<1>1. CodeLine
  <2>1. ~AsmLine
    BY Zenon DEF AsmLine
  <2>2. ~IncludeLine
    <3>1. line.include # NoHeader => line.text = "code"
      BY FileFacts, FileType, Zenon DEF LineStep
    <3>2. line.include = NoHeader
      BY <3>1
    <3> QED
      BY <3>2, Zenon DEF IncludeLine
  <2> QED
    BY <2>1, <2>2, Zenon DEF LineStep
<1>2. errors' = errors \cup EarlyErrors(line, suppressions') \cup FunctionErrors(line, suppressions')
  BY <1>1, Zenon DEF CodeLine
<1>3. ASSUME NEW e \in EarlyErrors(line, suppressions') PROVE e.category # c
  <2>1. PICK d \in {"readability/nolint", "runtime/indentation_namespace"} :
            e = Reported(suppressions', d, linenum)
    BY <1>3, EarlyCategory
  <2>2. e.category = d
    BY <2>1, ReportedParts
  <2> QED
    BY <2>1, <2>2
<1>4. \A e \in errors : ~(e.category = c /\ e.line = linenum)
  BY NothingSaidYet DEF Said
<1>5. FunctionErrors(line, suppressions') =
        IF TooLong(function) THEN {Reported(suppressions', c, linenum)} ELSE {}
  BY DEF FunctionErrors
<1>6. Reported(suppressions', c, linenum).category = c
      /\ Reported(suppressions', c, linenum).line = linenum
  BY ReportedParts
<1> SUFFICES ASSUME NEW n, n = linenum
             PROVE  (\E e \in errors' : e.category = c /\ e.line = n) <=> TooLong(function)
  BY Zenon DEF Said
<1> QED
  BY <1>2, <1>3, <1>4, <1>5, <1>6, Zenon

LEMMA StepFunctions ==
  Types /\ Measured /\ Behind /\ FunctionsMeasured /\ [Next]_vars => FunctionsMeasured'
<1> SUFFICES ASSUME Types, Measured, Behind, FunctionsMeasured, [Next]_vars,
                    NEW n \in Seen', file'[n].text = "end", n \notin skipped'
             PROVE  Said("readability/fn_size", n)' <=>
                      \E m \in 1 .. n :
                         BodyStart(m, n)' /\ Cardinality(CodeLines(m, n)') > Trigger
  BY Zenon DEF FunctionsMeasured, Said, CodeLines
<1>0. Len(file) \in Nat /\ linenum \in Nat /\ linenum >= 1 /\ DOMAIN file = 1 .. Len(file)
      /\ file' = file
  <2>1. file' = file
    BY Steps, NestType, Zenon DEF EndStep, vars
  <2> QED
    BY <2>1, FileFacts, Zenon
<1>1. n \in 1 .. Len(file) /\ n \in Nat /\ n < linenum'
  BY <1>0 DEF Seen
<1>2. CASE n < linenum
  <2>1. n \notin skipped /\ (Said("readability/fn_size", n)' <=> Said("readability/fn_size", n))
    BY <1>1, <1>2, SaidStays
  <2>2. \A k \in Nat : k < linenum => (k \in skipped' <=> k \in skipped)
    <3>1. "readability/fn_size" \notin {"build/class", "build/namespaces"}
      OBVIOUS
    <3> QED
      BY <3>1, SaidStays, Zenon
  <2>3. Said("readability/fn_size", n) <=>
          \E m \in 1 .. n : BodyStart(m, n) /\ Cardinality(CodeLines(m, n)) > Trigger
    <3>1. n \in Seen
      BY <1>0, <1>1, <1>2 DEF Seen
    <3> QED
      BY <1>0, <2>1, <3>1, Zenon DEF FunctionsMeasured, Said, CodeLines
  <2>4. ASSUME NEW m \in 1 .. n
        PROVE  (BodyStart(m, n)' <=> BodyStart(m, n)) /\ CodeLines(m, n)' = CodeLines(m, n)
    <3>1. \A k \in (m + 1) .. (n - 1) : k \in skipped' <=> k \in skipped
      BY <1>0, <1>1, <1>2, <2>2
    <3>2. m \in skipped' <=> m \in skipped
      BY <1>0, <1>1, <1>2, <2>2
    <3>3. BodyStart(m, n)' <=> BodyStart(m, n)
      BY <1>0, <3>1, <3>2, BodyNext, BodyNow, Zenon
    <3>4. CodeLines(m, n)' = {k \in (m + 1) .. (n - 1) : file[k].text = "code" /\ k \notin skipped'}
      BY <1>0, Zenon DEF CodeLines
    <3>5. CodeLines(m, n)' = CodeLines(m, n)
      BY <3>1, <3>4, Zenon DEF CodeLines
    <3> QED
      BY <3>3, <3>5
  <2> QED
    BY <2>1, <2>3, <2>4, Zenon
<1>3. CASE ~(n < linenum)
  <2>1. CASE LineStep
    <3>1. linenum' = linenum + 1
      BY <2>1, NestType, Zenon
    <3>2. n = linenum
      BY <1>0, <1>1, <1>3, <3>1
    <3>3. Said("readability/fn_size", n)' <=> TooLong(function)
      BY <1>0, <2>1, <3>2, FunctionSaid, Zenon
    <3>4. n \notin skipped
      BY <1>0, <3>2 DEF Types
    <3>5. \A k \in Int : k < n => (k \in skipped' <=> k \in skipped)
      BY <2>1, <3>2, SkippedStep
    <3>6. ASSUME NEW m \in 1 .. n
          PROVE  (BodyStart(m, n)' <=> BodyStart(m, n)) /\ CodeLines(m, n)' = CodeLines(m, n)
      <4>1. \A k \in (m + 1) .. (n - 1) : k \in skipped' <=> k \in skipped
        BY <1>1, <3>5
      <4>2. m < n => (m \in skipped' <=> m \in skipped)
        BY <3>5
      <4>3. BodyStart(m, n)' <=> BodyStart(m, n)
        BY <1>0, <4>1, <4>2, BodyNext, BodyNow, Zenon
      <4>4. CodeLines(m, n)' = {k \in (m + 1) .. (n - 1) : file[k].text = "code" /\ k \notin skipped'}
        BY <1>0, Zenon DEF CodeLines
      <4>5. CodeLines(m, n)' = CodeLines(m, n)
        BY <4>1, <4>4, Zenon DEF CodeLines
      <4> QED
        BY <4>3, <4>5
    <3>7. n <= Len(file) + 1 /\ \A m \in 1 .. n : BodyStart(m, n) => m \in 1 .. n - 1
      BY <1>0, <1>1, BodyNow
    <3>8. \A m \in 1 .. n - 1 : m \in 1 .. n
      BY <1>1
    <3>9. /\ function.in_a_function <=> \E m \in 1 .. n - 1 : BodyStart(m, n)
          /\ \A m \in 1 .. n - 1 :
               BodyStart(m, n) => function.lines = Cardinality(CodeLines(m, n))
      BY <3>2, <3>7, Zenon DEF Measured
    <3>10. TooLong(function) <=>
             \E m \in 1 .. n : BodyStart(m, n) /\ Cardinality(CodeLines(m, n)) > Trigger
      BY <3>7, <3>8, <3>9, Zenon DEF TooLong
    <3> QED
      BY <3>3, <3>6, <3>10, Zenon
  <2>2. CASE EndStep
    <3>1. linenum = Len(file) + 1
      BY <2>2, Zenon DEF EndStep
    <3> QED
      BY <1>0, <1>1, <1>3, <3>1
  <2>3. CASE UNCHANGED vars
    <3>1. linenum' = linenum
      BY <2>3, Zenon DEF vars
    <3> QED
      BY <1>1, <1>3, <3>1
  <2> QED
    BY <2>1, <2>2, <2>3, Steps, Zenon
<1> QED
  BY <1>2, <1>3

LEMMA InitBehind == Init => Behind /\ FunctionsMeasured
<1> SUFFICES ASSUME Init PROVE Behind /\ FunctionsMeasured
  OBVIOUS
<1>1. linenum = 1 /\ errors = {} /\ file \in Files
  BY Zenon DEF Init
<1>2. Seen = {}
  <2>1. Len(file) \in Nat /\ DOMAIN file = 1 .. Len(file)
    BY <1>1, FileType, Zenon
  <2> QED
    BY <1>1, <2>1 DEF Seen
<1> QED
  BY <1>1, <1>2, Zenon DEF Behind, FunctionsMeasured

(* A function is reported as too long exactly when the lines of code between *)
(* its start and its end are more than the limit, whatever declarations,     *)
(* other functions and inline assembly lie between (FunctionsMeasured).      *)
THEOREM FunctionsWellMeasured == Spec => []FunctionsMeasured
BY InitTypes, StepTypes, InitMeasured, StepMeasured, InitBehind, StepBehind, StepFunctions,
   PTL DEF Spec

-----------------------------------------------------------------------------
(* The section that the headers since the last directive have reached.       *)
Counted(m) == Kept(m) /\ m \notin skipped /\ ~Said("build/include", m)
Plain(k) == file[k].pp = ""
Calm(k) == Plain(k) \/ k \in skipped
Recent(n) == {m \in 1 .. (n - 1) : Counted(m) /\ \A k \in m .. (n - 1) : Calm(k)}

Section(n) == SectionOf(file[n].include.type)

Reached ==
    linenum <= Len(file) + 1 =>
        /\ \A m \in Recent(linenum) : Rank(m) <= section
        /\ section # 0 => \E m \in Recent(linenum) : Rank(m) = section

LEMMA SameSectionIs ==
  \A n : SameSection(n) = {m \in 1 .. (n - 1) : Counted(m) /\ \A k \in m .. n : Calm(k)}
BY Zenon DEF SameSection, Counted, Calm, Plain, Said

LEMMA SameSectionNext ==
  ASSUME file' = file
  PROVE  \A n : SameSection(n)' =
            {m \in 1 .. (n - 1) : Counted(m)' /\ \A k \in m .. n : Calm(k)'}
BY Zenon DEF SameSection, Counted, Kept, Calm, Plain, Said

LEMMA CountedStays ==
  ASSUME Types, [Next]_vars, NEW m \in Nat, m < linenum
  PROVE  (Counted(m)' <=> Counted(m)) /\ (Calm(m)' <=> Calm(m))
<1>1. file' = file
  BY Steps, NestType, Zenon DEF EndStep, vars
<1>2. "build/include" \notin {"build/class", "build/namespaces"}
  OBVIOUS
<1>3. (Said("build/include", m)' <=> Said("build/include", m)) /\ (m \in skipped' <=> m \in skipped)
  BY <1>2, SaidStays, Zenon
<1> QED
  BY <1>1, <1>3, Zenon DEF Counted, Kept, Calm, Plain

LEMMA RankStays ==
  ASSUME Types, [Next]_vars, NEW n \in Nat, n < linenum
  PROVE  SameSection(n)' = SameSection(n) /\ Rank(n)' = Rank(n)
<1>0. linenum \in Nat /\ file' = file
  <2>1. file' = file
    BY Steps, NestType, Zenon DEF EndStep, vars
  <2> QED
    BY <2>1, FileFacts, Zenon
<1>1. \A m \in 1 .. (n - 1) :
        (Counted(m)' <=> Counted(m)) /\ \A k \in m .. n : Calm(k)' <=> Calm(k)
  <2>1. \A m \in 1 .. (n - 1) :
          m \in Nat /\ m < linenum /\ \A k \in m .. n : k \in Nat /\ k < linenum
    BY <1>0
  <2> QED
    BY <2>1, CountedStays, Zenon
<1>2. SameSection(n)' = SameSection(n)
  BY <1>0, <1>1, SameSectionIs, SameSectionNext, Zenon
<1> QED
  BY <1>0, <1>2, Zenon DEF Rank

LEMMA SectionRange == \A type : SectionOf(type) \in 1 .. 5
BY DEF SectionOf

LEMMA RankFacts ==
  ASSUME NEW n
  PROVE  /\ Rank(n) \in 1 .. 5 /\ Section(n) \in 1 .. 5
         /\ Rank(n) >= Section(n)
         /\ Rank(n) > Section(n) => \E m \in SameSection(n) : Section(m) > Section(n)
<1>1. Section(n) \in 1 .. 5
  BY SectionRange, Zenon DEF Section
<1>2. \/ Rank(n) = Section(n)
      \/ Rank(n) = 5 /\ \E m \in SameSection(n) : Section(m) > Section(n)
  BY Zenon DEF Rank, Section
<1> QED
  BY <1>1, <1>2

LEMMA LinesBetween ==
  ASSUME NEW n \in Nat, NEW m \in 1 .. (n - 1)
  PROVE  /\ m \in Nat /\ m < n
         /\ \A k \in m .. (n - 1) : k \in Nat /\ k < n
         /\ \A k : k \in m .. n <=> k \in m .. (n - 1) \/ k = n
OBVIOUS

LEMMA RecentStep ==
  ASSUME Types, LineStep, NEW n, n = linenum
  PROVE  \A m : m \in Recent(linenum)' <=>
            /\ Calm(n)'
            /\ \/ m \in Recent(n)
               \/ m = n /\ Counted(n)'
<1>0. n \in Nat /\ n >= 1 /\ file' = file /\ linenum' - 1 = n
  BY FileFacts, NestType
<1>9. [Next]_vars
  BY Zenon DEF LineStep, Next
<1>1. \A m \in 1 .. (n - 1) :
        (Counted(m)' <=> Counted(m)) /\ \A k \in m .. (n - 1) : Calm(k)' <=> Calm(k)
  <2>1. \A m \in 1 .. (n - 1) :
          m \in Nat /\ m < linenum /\ \A k \in m .. (n - 1) : k \in Nat /\ k < linenum
    BY <1>0
  <2> QED
    BY <1>9, <2>1, CountedStays, Zenon
<1> SUFFICES ASSUME NEW m
             PROVE  m \in Recent(linenum)' <=>
                      Calm(n)' /\ (m \in Recent(n) \/ (m = n /\ Counted(n)'))
  OBVIOUS
<1>2. m \in Recent(linenum)' <=> m \in 1 .. n /\ Counted(m)' /\ \A k \in m .. n : Calm(k)'
  BY <1>0, Zenon DEF Recent
<1>3. m \in Recent(n) <=> m \in 1 .. (n - 1) /\ Counted(m) /\ \A k \in m .. (n - 1) : Calm(k)
  BY Zenon DEF Recent
<1>4. m \in 1 .. n <=> m \in 1 .. (n - 1) \/ m = n
  BY <1>0
<1>5. m \in 1 .. (n - 1) =>
        n \in m .. n /\ \A k : k \in m .. n <=> k \in m .. (n - 1) \/ k = n
  BY <1>0
<1>6. m = n => m \notin 1 .. (n - 1) /\ \A k : k \in m .. n <=> k = n
  BY <1>0
<1> QED
  BY <1>1, <1>2, <1>3, <1>4, <1>5, <1>6, Zenon

(* Before the line that is read, the headers of its section are the recent   *)
(* ones.                                                                     *)
LEMMA SectionOfLine ==
  ASSUME Types, LineStep, NEW n, n = linenum, Plain(n)
  PROVE  SameSection(n)' = Recent(n)
<1>0. n \in Nat /\ n >= 1 /\ file' = file
  BY FileFacts, NestType
<1>9. [Next]_vars
  BY Zenon DEF LineStep, Next
<1>1. \A m \in 1 .. (n - 1) :
        (Counted(m)' <=> Counted(m)) /\ \A k \in m .. (n - 1) : Calm(k)' <=> Calm(k)
  <2>1. \A m \in 1 .. (n - 1) :
          m \in Nat /\ m < linenum /\ \A k \in m .. (n - 1) : k \in Nat /\ k < linenum
    BY <1>0, LinesBetween, Zenon
  <2> QED
    BY <1>9, <2>1, CountedStays, Zenon
<1>2. Calm(n)'
  BY <1>0, Zenon DEF Calm, Plain
<1>3. \A m \in 1 .. (n - 1) : \A k : k \in m .. n <=> k \in m .. (n - 1) \/ k = n
  BY <1>0, LinesBetween, Zenon
<1>4. \A m \in 1 .. (n - 1) :
        (Counted(m)' /\ \A k \in m .. n : Calm(k)') <=>
        (Counted(m) /\ \A k \in m .. (n - 1) : Calm(k))
  BY <1>1, <1>2, <1>3, Zenon
<1> QED
  BY <1>0, <1>4, SameSectionNext, Zenon DEF Recent

LEMMA InitReached == Init => Reached /\ OrderJustified
<1> SUFFICES ASSUME Init PROVE Reached /\ OrderJustified
  OBVIOUS
<1>1. linenum = 1 /\ section = 0 /\ file \in Files
  BY Zenon DEF Init
<1>2. Recent(linenum) = {}
  BY <1>1 DEF Recent
<1>3. Seen = {}
  <2>1. Len(file) \in Nat /\ DOMAIN file = 1 .. Len(file)
    BY <1>1, FileType, Zenon
  <2> QED
    BY <1>1, <2>1 DEF Seen
<1> QED
  BY <1>1, <1>2, <1>3, Zenon DEF Reached, OrderJustified

(* A header that is put on the list.                                         *)
Taken(h) == ~FindHeader(include_list, h) /\ h.kind = "checked"

(* What a line that includes a header says about it.                         *)
LEMMA IncludeSaid ==
  ASSUME Types, Behind, LineStep, NEW n, n = linenum, file[n].include # NoHeader,
         n \notin skipped'
  PROVE  LET h == file[n].include IN
         /\ h \in Header /\ Plain(n)
         /\ Said("build/include", n)' <=>
              FindHeader(include_list, h) \/ h.kind = "foreign"
         /\ Said("build/include_order", n)' <=>
              Taken(h) /\ OutOfOrder(section, h.type)
         /\ section' = IF Taken(h) THEN NextSection(section, h.type) ELSE section
<1> DEFINE line == file[n]
           h == line.include
           supp == suppressions'
           before == errors \cup EarlyErrors(line, supp)
           R(c) == Reported(supp, c, linenum)
<1>0. n \in 1 .. Len(file) /\ file \in Files
  BY FileFacts, Zenon DEF LineStep
<1>1. line \in Line /\ Plain(n)
  BY <1>0, FileType, Zenon DEF Plain
<1>2. h \in Header
  BY <1>1, LineParts, Zenon
<1>3. IncludeLine
  <2>1. ~AsmLine
    BY Zenon DEF AsmLine
  <2>2. ~CodeLine
    BY Zenon DEF CodeLine
  <2> QED
    BY <2>1, <2>2, Zenon DEF LineStep
<1>4. CheckIncludeLine(line, supp, before)
  BY <1>3, Zenon DEF IncludeLine
<1>5. ASSUME NEW c, c \notin {"readability/nolint", "runtime/indentation_namespace"},
             c \notin {"build/class", "build/namespaces"}
      PROVE  \A e \in before : ~(e.category = c /\ e.line = n)
  <2> SUFFICES ASSUME NEW e \in before, e.category = c, e.line = n PROVE FALSE
    BY Zenon
  <2>1. e \notin errors
    BY <1>5, NothingSaidYet, Zenon DEF Said
  <2>2. PICK d \in {"readability/nolint", "runtime/indentation_namespace"} : e = R(d)
    BY <2>1, EarlyCategory, Zenon
  <2>3. e.category = d
    BY <2>2, ReportedParts
  <2> QED
    BY <1>5, <2>2, <2>3, Zenon
<1> HIDE DEF before
<1>6. \A c : R(c).category = c /\ R(c).line = n
  BY ReportedParts
<1> HIDE DEF R
<1>7. /\ \A e \in before : ~(e.category = "build/include" /\ e.line = n)
      /\ \A e \in before : ~(e.category = "build/include_order" /\ e.line = n)
  <2>1. /\ "build/include" \notin {"readability/nolint", "runtime/indentation_namespace"}
        /\ "build/include" \notin {"build/class", "build/namespaces"}
        /\ "build/include_order" \notin {"readability/nolint", "runtime/indentation_namespace"}
        /\ "build/include_order" \notin {"build/class", "build/namespaces"}
    OBVIOUS
  <2> QED
    BY <1>5, <2>1, Zenon
<1>10. h.kind \in {"checked", "thirdParty", "foreign"}
  BY <1>2 DEF Header
<1> HIDE DEF h
<1>8. CASE FindHeader(include_list, h) \/ h.kind = "foreign"
  <2>0. ~Taken(h)
    BY <1>8 DEF Taken
  <2>1. errors' = before \cup {R("build/include")} /\ section' = section
    BY <1>4, <1>8, Zenon DEF CheckIncludeLine, includeVars, R, h
  <2>2. Said("build/include", n)'
    BY <1>6, <2>1, Zenon DEF Said
  <2>3. ~Said("build/include_order", n)'
    <3>1. "build/include" # "build/include_order"
      OBVIOUS
    <3> QED
      BY <1>6, <1>7, <2>1, <3>1, Zenon DEF Said
  <2> QED
    BY <1>1, <1>2, <1>8, <2>0, <2>1, <2>2, <2>3, Zenon DEF h
<1>11. CASE ~FindHeader(include_list, h) /\ h.kind = "thirdParty"
  <2>0. ~Taken(h) /\ h.kind # "foreign"
    BY <1>11 DEF Taken
  <2>1. errors' = before /\ section' = section
    <3>1. h.kind # "foreign" /\ h.kind # "checked"
      BY <1>11
    <3> QED
      BY <1>4, <1>11, <3>1, Zenon DEF CheckIncludeLine, includeVars, h
  <2>2. ~Said("build/include", n)' /\ ~Said("build/include_order", n)'
    BY <1>7, <2>1, Zenon DEF Said
  <2> QED
    BY <1>1, <1>2, <1>11, <2>0, <2>1, <2>2, Zenon DEF h
<1>9. CASE Taken(h)
  <2>0. h.kind # "foreign" /\ h.kind # "thirdParty" /\ ~FindHeader(include_list, h)
    BY <1>9 DEF Taken
  <2>1. /\ section' = NextSection(section, h.type)
        /\ before \subseteq errors'
        /\ OutOfOrder(section, h.type) => R("build/include_order") \in errors'
        /\ \A e \in errors' : \/ e \in before
                              \/ e = R("build/include_order") /\ OutOfOrder(section, h.type)
                              \/ e = R("build/include_alpha")
    <3> DEFINE late == OutOfOrder(section, h.type)
               next == NextSection(section, h.type)
               last == IF late \/ next # section THEN 0 ELSE last_header
               alpha == last > h.name /\ linenum > 1 /\ file[linenum - 1].include # NoHeader
               A == IF late THEN {R("build/include_order")} ELSE {}
               B == IF alpha THEN {R("build/include_alpha")} ELSE {}
    <3>1. section' = next /\ errors' = before \cup A \cup B
      BY <1>4, <2>0, Zenon DEF CheckIncludeLine, R, h
    <3>2. A = IF late THEN {R("build/include_order")} ELSE {}
      BY Zenon
    <3>3. \A e \in B : e = R("build/include_alpha")
      <4> HIDE DEF alpha
      <4> QED
        BY Zenon
    <3>4. /\ late => R("build/include_order") \in A
          /\ \A e \in A : e = R("build/include_order") /\ late
      <4> HIDE DEF late
      <4> QED
        BY <3>2, Zenon
    <3> HIDE DEF A, B
    <3>5. before \subseteq errors' /\ A \subseteq errors'
      BY <3>1, Zenon
    <3>6. late => R("build/include_order") \in errors'
      BY <3>4, <3>5, Zenon
    <3>7. \A e \in errors' : e \in before \/ e \in A \/ e \in B
      BY <3>1, Zenon
    <3>8. \A e \in errors' : \/ e \in before
                             \/ e = R("build/include_order") /\ late
                             \/ e = R("build/include_alpha")
      BY <3>3, <3>4, <3>7, Zenon
    <3> QED
      BY <3>1, <3>5, <3>6, <3>8, Zenon
  <2>2. "build/include" # "build/include_order" /\ "build/include" # "build/include_alpha"
        /\ "build/include_alpha" # "build/include_order"
    OBVIOUS
  <2>3. ~Said("build/include", n)'
    BY <1>6, <1>7, <2>1, <2>2, Zenon DEF Said
  <2>4. Said("build/include_order", n)' <=> OutOfOrder(section, h.type)
    BY <1>6, <1>7, <2>1, <2>2, Zenon DEF Said
  <2> QED
    BY <1>1, <1>2, <1>9, <2>0, <2>1, <2>3, <2>4, Zenon DEF h
<1> QED
  BY <1>8, <1>9, <1>10, <1>11 DEF Taken

(* The headers put on the list are those that count for the order.           *)
LEMMA CountedIs ==
  ASSUME NEW n, file' = file, file[n].include # NoHeader, n \notin skipped',
         Said("build/include", n)' <=>
            FindHeader(include_list, file[n].include) \/ file[n].include.kind = "foreign"
  PROVE  Counted(n)' <=> Taken(file[n].include)
<1>1. "checked" # "foreign"
  OBVIOUS
<1>2. Counted(n)' <=> file[n].include.kind = "checked" /\ ~Said("build/include", n)'
  BY Zenon DEF Counted, Kept
<1> QED
  BY <1>1, <1>2, Zenon DEF Taken

(* The section before a line against that of the header it includes.         *)
LEMMA RankOfLine ==
  ASSUME Types, Reached, LineStep, NEW n, n = linenum, file[n].include \in Header,
         Plain(n)
  PROVE  LET s == Section(n)
             system == file[n].include.type \in System
         IN  /\ section > s => \E m \in Recent(n) : Rank(m) > s
             /\ \A m \in Recent(n) : Rank(m) > s => section > s
             /\ Rank(n)' = IF section > s /\ ~system THEN 5 ELSE s
<1> DEFINE s == Section(n)
           type == file[n].include.type
           system == type \in System
<1>0. /\ n \in Nat /\ n >= 1 /\ n <= Len(file) + 1 /\ file' = file
      /\ section \in 0 .. 5 /\ s \in 1 .. 5
  <2>1. n \in Nat /\ Len(file) \in Nat /\ n \in 1 .. Len(file) /\ file' = file
    BY FileFacts, NestType, Zenon DEF LineStep
  <2>2. section \in 0 .. 5 /\ s \in 1 .. 5
    BY SectionRange, Zenon DEF Types, Section
  <2> QED
    BY <2>1, <2>2
<1>1. /\ \A m \in Recent(n) : Rank(m) <= section
      /\ section # 0 => \E m \in Recent(n) : Rank(m) = section
  BY <1>0, Zenon DEF Reached
<1>2. /\ \A m \in Recent(n) : Rank(m) \in 1 .. 5 /\ Section(m) \in 1 .. 5
      /\ \A m \in Recent(n) : Rank(m) >= Section(m)
  BY RankFacts, Zenon
<1>3. section > s => \E m \in Recent(n) : Rank(m) > s
  <2>1. section > s => section # 0
    BY <1>0
  <2> QED
    BY <1>1, <2>1
<1>4. \A m \in Recent(n) : Rank(m) > s => section > s
  BY <1>0, <1>1, <1>2
<1>5. Rank(n)' = IF \E m \in Recent(n) : Section(m) > s
                 THEN (IF system THEN s ELSE 5) ELSE s
  <2>1. SameSection(n)' = Recent(n)
    BY SectionOfLine, Zenon
  <2> QED
    BY <1>0, <2>1, Zenon DEF Rank, Section
<1>6. CASE ~(section > s)
  <2>1. ~\E m \in Recent(n) : Section(m) > s
    BY <1>0, <1>1, <1>2, <1>6
  <2> QED
    BY <1>3, <1>4, <1>5, <1>6, <2>1, Zenon
<1>7. CASE section > s /\ system
  BY <1>3, <1>4, <1>5, <1>7, Zenon
<1>8. CASE section > s /\ ~system
  <2>1. s = 1
    <3>1. s \in {1, 5}
      BY <1>2, <1>8 DEF Section, SectionOf, System, Header
    <3> QED
      BY <1>0, <1>8, <3>1
  <2>2. PICK m \in Recent(n) : Rank(m) > s
    BY <1>3, <1>8
  <2>3. \E m2 \in Recent(n) : Section(m2) > s
    <3>1. CASE Section(m) > s
      BY <3>1
    <3>2. CASE ~(Section(m) > s)
      <4>1. Rank(m) > Section(m)
        BY <1>2, <2>1, <2>2, <3>2
      <4>2. PICK m2 \in SameSection(m) : Section(m2) > Section(m)
        BY <4>1, RankFacts, Zenon
      <4>3. Section(m2) > s
        BY <1>2, <2>1, <4>2, RankFacts
      <4>4. m2 \in Recent(n)
        <5>1. m \in 1 .. (n - 1) /\ \A k \in m .. (n - 1) : Calm(k)
          BY Zenon DEF Recent
        <5>2. m2 \in 1 .. (m - 1) /\ Counted(m2) /\ \A k \in m2 .. m : Calm(k)
          BY SameSectionIs, Zenon
        <5>3. m2 \in 1 .. (n - 1) /\ \A k \in m2 .. (n - 1) : k \in m2 .. m \/ k \in m .. (n - 1)
          BY <1>0, <5>1, <5>2
        <5> QED
          BY <5>1, <5>2, <5>3, Zenon DEF Recent
      <4> QED
        BY <4>3, <4>4
    <3> QED
      BY <3>1, <3>2
  <2> QED
    BY <1>3, <1>4, <1>5, <1>8, <2>3, Zenon
<1> QED
  BY <1>6, <1>7, <1>8

LEMMA StepReached == Types /\ Behind /\ Reached /\ [Next]_vars => Reached'
<1> SUFFICES ASSUME Types, Behind, Reached, [Next]_vars PROVE Reached'
  OBVIOUS
<1>0. Len(file) \in Nat /\ linenum \in Nat /\ linenum >= 1
  BY FileFacts, Zenon
<1>1. CASE LineStep
  <2> SUFFICES ASSUME NEW n, n = linenum PROVE Reached'
    OBVIOUS
  <2>0. n \in Nat /\ file' = file /\ n <= Len(file) + 1
    <3>1. n \in 1 .. Len(file)
      BY <1>1, Zenon DEF LineStep
    <3> QED
      BY <1>0, <1>1, <3>1, NestType
  <2>1. /\ \A m \in Recent(n) : Rank(m) <= section
        /\ section # 0 => \E m \in Recent(n) : Rank(m) = section
    BY <2>0, Zenon DEF Reached
  <2>2. \A m \in Recent(n) : Rank(m)' = Rank(m)
    <3>1. \A m \in Recent(n) : m \in Nat /\ m < linenum
      BY <2>0, LinesBetween, Zenon DEF Recent
    <3> QED
      BY <3>1, RankStays, Zenon
  <2>3. \A m : m \in Recent(linenum)' <=>
            Calm(n)' /\ (m \in Recent(n) \/ (m = n /\ Counted(n)'))
    BY <1>1, RecentStep, Zenon
  <2>4. n \in skipped' <=> AsmLine
    <3>1. n \notin skipped
      BY <1>0 DEF Types
    <3> QED
      BY <1>1, <3>1, Zenon DEF LineStep, AsmLine, IncludeLine, CodeLine
  <2>5. CASE section' = section /\ Calm(n)' /\ ~Counted(n)'
    BY <2>1, <2>2, <2>3, <2>5, Zenon DEF Reached
  <2>6. CASE section' = 0 /\ ~Calm(n)'
    BY <2>3, <2>6, Zenon DEF Reached
  <2>7. CASE n \in skipped'
    <3>1. section' = section
      BY <2>4, <2>7, Zenon DEF AsmLine, includeVars
    <3> QED
      BY <2>5, <2>7, <3>1, Zenon DEF Calm, Counted
  <2>8. CASE n \notin skipped' /\ file[n].include = NoHeader
    <3>1. CodeLine
      BY <1>1, <2>4, <2>8, Zenon DEF LineStep, IncludeLine
    <3>2. ~Counted(n)'
      BY <2>0, <2>8, Zenon DEF Counted, Kept
    <3>3. CASE Plain(n)
      <4>1. section' = section
        BY <3>1, <3>3, Zenon DEF CodeLine, Plain, includeVars
      <4> QED
        BY <2>0, <2>5, <3>2, <3>3, <4>1, Zenon DEF Calm, Plain
    <3>4. CASE ~Plain(n)
      <4>1. section' = 0
        BY <3>1, <3>4, Zenon DEF CodeLine, Plain
      <4> QED
        BY <2>0, <2>6, <2>8, <3>4, <4>1, Zenon DEF Calm, Plain
    <3> QED
      BY <3>3, <3>4
  <2>9. CASE n \notin skipped' /\ file[n].include # NoHeader
    <3> DEFINE h == file[n].include
               s == Section(n)
    <3>1. /\ h \in Header /\ Plain(n)
          /\ Said("build/include", n)' <=>
                FindHeader(include_list, h) \/ h.kind = "foreign"
          /\ section' = IF Taken(h) THEN NextSection(section, h.type) ELSE section
      BY <1>1, <2>9, IncludeSaid, Zenon
    <3>2. Calm(n)'
      BY <2>0, <3>1, Zenon DEF Calm, Plain
    <3>3. Counted(n)' <=> Taken(h)
      BY <1>1, <2>0, <2>9, <3>1, CountedIs, Zenon
    <3>4. CASE ~Taken(h)
      BY <2>5, <3>1, <3>2, <3>3, <3>4, Zenon
    <3>5. CASE Taken(h)
      <4>1. /\ section > s => \E m \in Recent(n) : Rank(m) > s
            /\ Rank(n)' = IF section > s /\ h.type \notin System THEN 5 ELSE s
        BY <1>1, <3>1, RankOfLine, Zenon
      <4>2. section \in 0 .. 5 /\ s \in 1 .. 5
        BY SectionRange, Zenon DEF Types, Section
      <4>3. section' = IF section <= s THEN s
                       ELSE IF h.type \in System THEN section ELSE 5
        BY <3>1, <3>5, Zenon DEF NextSection, Section
      <4> HIDE DEF s, h
      <4>4. section <= section' /\ Rank(n)' <= section'
        BY <4>1, <4>2, <4>3
      <4>5. section' = Rank(n)' \/ (section' = section /\ section # 0)
        BY <4>1, <4>2, <4>3
      <4>6. \A m : m \in Recent(linenum)' <=> m \in Recent(n) \/ m = n
        BY <2>3, <3>2, <3>3, <3>5, Zenon
      <4>7. \A m \in Recent(linenum)' : Rank(m)' <= section'
        <5> SUFFICES ASSUME NEW m \in Recent(linenum)' PROVE Rank(m)' <= section'
          OBVIOUS
        <5>1. CASE m = n
          BY <4>4, <5>1
        <5>2. CASE m \in Recent(n)
          <6>1. Rank(m)' = Rank(m) /\ Rank(m) <= section /\ Rank(m) \in 1 .. 5
            BY <2>1, <2>2, <5>2, RankFacts, Zenon
          <6>2. section' \in 0 .. 5
            BY <4>2, <4>3
          <6> QED
            BY <4>2, <4>4, <6>1, <6>2
        <5> QED
          BY <4>6, <5>1, <5>2, Zenon
      <4>8. \E m \in Recent(linenum)' : Rank(m)' = section'
        BY <2>1, <2>2, <4>5, <4>6, Zenon
      <4> QED
        BY <4>7, <4>8, Zenon DEF Reached
    <3> QED
      BY <3>4, <3>5
  <2> QED
    BY <2>7, <2>8, <2>9
<1>2. CASE EndStep
  <2>1. linenum = Len(file) + 1 /\ linenum' = linenum + 1 /\ file' = file
    BY <1>2, Zenon DEF EndStep
  <2>2. ~(linenum' <= Len(file') + 1)
    BY <1>0, <2>1
  <2> QED
    BY <2>2, Zenon DEF Reached
<1>3. CASE UNCHANGED vars
  <2>1. /\ linenum' = linenum /\ file' = file /\ section' = section
        /\ skipped' = skipped /\ errors' = errors
    BY <1>3, Zenon DEF vars, includeVars
  <2>2. Recent(linenum)' = Recent(linenum)
    BY <2>1, Zenon DEF Recent, Counted, Kept, Calm, Plain, Said
  <2>3. \A m : Rank(m)' = Rank(m)
    BY <2>1, Zenon DEF Rank, SameSection, Kept
  <2> QED
    BY <2>1, <2>2, <2>3, Zenon DEF Reached
<1> QED
  BY <1>1, <1>2, <1>3, Steps, Zenon

(* The verdict on a line, in the terms of OrderJustified.                    *)
Judged(n) ==
    Said("build/include_order", n) <=>
        /\ Counted(n)
        /\ file[n].include.type \in System
        /\ \E m \in SameSection(n) : Rank(m) > Section(n)

LEMMA JudgedIs == OrderJustified <=> \A n \in Seen : Judged(n)
BY Zenon DEF OrderJustified, Judged, Said, Counted, Section

LEMMA StepJudged ==
  Types /\ Behind /\ Reached /\ (\A n \in Seen : Judged(n)) /\ [Next]_vars
    => (\A n \in Seen : Judged(n))'
<1> SUFFICES ASSUME Types, Behind, Reached, \A n \in Seen : Judged(n), [Next]_vars,
                    NEW n \in Seen'
             PROVE  Judged(n)'
  OBVIOUS
<1>0. /\ Len(file) \in Nat /\ linenum \in Nat /\ linenum >= 1 /\ DOMAIN file = 1 .. Len(file)
      /\ file' = file
  <2>1. file' = file
    BY Steps, NestType, Zenon DEF EndStep, vars
  <2> QED
    BY <2>1, FileFacts, Zenon
<1>1. n \in 1 .. Len(file) /\ n \in Nat /\ n < linenum'
  BY <1>0 DEF Seen
<1>2. CASE n < linenum
  <2>1. n \in Seen
    BY <1>0, <1>1, <1>2 DEF Seen
  <2>2. SameSection(n)' = SameSection(n)
    BY <1>1, <1>2, RankStays, Zenon
  <2>3. \A m \in SameSection(n) : Rank(m)' = Rank(m)
    <3>1. \A m \in 1 .. (n - 1) : m \in Nat /\ m < linenum
      BY <1>0, <1>1, <1>2
    <3> QED
      BY <3>1, RankStays, SameSectionIs, Zenon
  <2>4. Counted(n)' <=> Counted(n)
    BY <1>1, <1>2, CountedStays, Zenon
  <2>5. Said("build/include_order", n)' <=> Said("build/include_order", n)
    <3>1. "build/include_order" \notin {"build/class", "build/namespaces"}
      OBVIOUS
    <3> QED
      BY <1>1, <1>2, <3>1, SaidStays, Zenon
  <2>6. Judged(n)
    BY <2>1
  <2> QED
    BY <1>0, <2>2, <2>3, <2>4, <2>5, <2>6, Zenon DEF Judged, Section
<1>3. CASE ~(n < linenum)
  <2>1. CASE LineStep
    <3>1. linenum' = linenum + 1
      BY <2>1, NestType, Zenon
    <3>2. n = linenum
      BY <1>0, <1>1, <1>3, <3>1
    <3>3. CASE file[n].include # NoHeader /\ n \notin skipped'
      <4> DEFINE h == file[n].include
                 s == Section(n)
      <4>1. /\ h \in Header /\ Plain(n)
            /\ Said("build/include", n)' <=>
                  FindHeader(include_list, h) \/ h.kind = "foreign"
            /\ Said("build/include_order", n)' <=>
                  Taken(h) /\ OutOfOrder(section, h.type)
        BY <2>1, <3>2, <3>3, IncludeSaid, Zenon
      <4>2. /\ section > s => \E m \in Recent(n) : Rank(m) > s
            /\ \A m \in Recent(n) : Rank(m) > s => section > s
        BY <2>1, <3>2, <4>1, RankOfLine, Zenon
      <4>3. SameSection(n)' = Recent(n)
        BY <2>1, <3>2, <4>1, SectionOfLine, Zenon
      <4>4. \A m \in Recent(n) : Rank(m)' = Rank(m)
        <5>1. \A m \in Recent(n) : m \in Nat /\ m < linenum
          BY <1>1, <3>2, LinesBetween, Zenon DEF Recent
        <5> QED
          BY <5>1, RankStays, Zenon
      <4>5. Counted(n)' <=> Taken(h)
        BY <1>0, <3>3, <4>1, CountedIs, Zenon
      <4>6. OutOfOrder(section, h.type) <=> h.type \in System /\ section > s
        BY Zenon DEF OutOfOrder, Section
      <4>7. (\E m \in SameSection(n)' : Rank(m)' > s) <=> section > s
        BY <4>2, <4>3, <4>4, Zenon
      <4>8. file'[n].include.type = h.type /\ Section(n)' = s
        BY <1>0, Zenon DEF Section
      <4> HIDE DEF h, s
      <4> QED
        BY <1>0, <4>1, <4>5, <4>6, <4>7, <4>8, Zenon DEF Judged, h
    <3>4. CASE ~(file[n].include # NoHeader /\ n \notin skipped')
      <4>1. ~Counted(n)'
        BY <1>0, <3>4, Zenon DEF Counted, Kept
      <4>2. ~IncludeLine
        <5>1. IncludeLine => file[n].include # NoHeader /\ skipped' = skipped
          BY <3>2, Zenon DEF IncludeLine
        <5>2. n \notin skipped
          BY <1>0, <3>2 DEF Types
        <5> QED
          BY <3>4, <5>1, <5>2, Zenon
      <4>3. \A e \in errors' \ errors : e.category # "build/include_order"
        <5> SUFFICES ASSUME NEW e \in errors' \ errors PROVE e.category # "build/include_order"
          OBVIOUS
        <5>1. errors' = errors \cup EarlyErrors(file[linenum], suppressions')
              \/ errors' = errors \cup EarlyErrors(file[linenum], suppressions')
                                  \cup FunctionErrors(file[linenum], suppressions')
          BY <2>1, <4>2, Zenon DEF LineStep, AsmLine, CodeLine
        <5>2. \/ e \in EarlyErrors(file[linenum], suppressions')
              \/ e \in FunctionErrors(file[linenum], suppressions')
          BY <5>1, Zenon
        <5>3. \E c \in {"readability/nolint", "runtime/indentation_namespace",
                        "readability/fn_size"} : e = Reported(suppressions', c, linenum)
          BY <5>2, EarlyCategory, FunctionCategory, Zenon
        <5>4. \E c \in {"readability/nolint", "runtime/indentation_namespace",
                        "readability/fn_size"} : e.category = c
          BY <5>3, ReportedParts
        <5> QED
          BY <5>4
      <4>4. ~Said("build/include_order", n)
        <5>1. "build/include_order" \notin {"build/class", "build/namespaces"}
          OBVIOUS
        <5> QED
          BY <3>2, <5>1, NothingSaidYet, Zenon
      <4>5. ~Said("build/include_order", n)'
        BY <4>3, <4>4, Zenon DEF Said
      <4> QED
        BY <4>1, <4>5, Zenon DEF Judged
    <3> QED
      BY <3>3, <3>4
  <2>2. CASE EndStep
    <3>1. linenum = Len(file) + 1
      BY <2>2, Zenon DEF EndStep
    <3> QED
      BY <1>0, <1>1, <1>3, <3>1
  <2>3. CASE UNCHANGED vars
    <3>1. linenum' = linenum
      BY <2>3, Zenon DEF vars
    <3> QED
      BY <1>1, <1>3, <3>1
  <2> QED
    BY <2>1, <2>2, <2>3, Steps, Zenon
<1> QED
  BY <1>2, <1>3

(* An include is reported as out of order exactly when it is a system header *)
(* and one of a later kind came before it since the last directive, whatever *)
(* was reported about the headers in between (OrderJustified).               *)
THEOREM OrderWellJustified == Spec => []OrderJustified
<1>1. Init => Types /\ Behind /\ Reached /\ \A n \in Seen : Judged(n)
  BY InitTypes, InitBehind, InitReached, JudgedIs, Zenon
<1>2. Types /\ Behind /\ Reached /\ (\A n \in Seen : Judged(n)) /\ [Next]_vars
        => (Types /\ Behind /\ Reached /\ \A n \in Seen : Judged(n))'
  BY StepTypes, StepBehind, StepReached, StepJudged, Zenon
<1> QED
  BY <1>1, <1>2, JudgedIs, PTL DEF Spec

-----------------------------------------------------------------------------
(* The headers that are remembered.                                          *)
Depth(k) == Len(Conditionals(file)[k])

(* Conditional directive i opened the conditional that line m goes on with.  *)
OwnIf(i, m) ==
    /\ file[i].pp = "if" /\ Depth(i) = Depth(m)
    /\ \A k \in i .. m : Depth(k) >= Depth(m)

(* What the proof asks of a file: the assembler does not take the #if of a   *)
(* conditional and leave its #else.                                          *)
AssemblyWhole ==
    \A m \in Seen \ skipped : file[m].pp = "else" =>
        \A i \in 1 .. (m - 1) : OwnIf(i, m) => i \notin skipped

(* The conditional opened at line i is still open.                           *)
Open(i) == file[i].pp = "if" /\ \A k \in Seen : k >= i => Depth(k) >= Depth(i)

(* The header of line n is found; if a conditional was opened after it, the  *)
(* header is not among those that an #else of it forgets.                    *)
Remembered(n) ==
    /\ FindHeader(include_list, file[n].include)
    /\ (\E i \in Seen : n < i /\ i \notin skipped /\ Open(i)) =>
          FindHeader(Front(include_list), file[n].include)

Headers ==
    /\ include_list \in Seq(Seq(Nat)) /\ include_list # <<>>
    /\ AssemblyWhole => \A n \in Seen : StillIncluded(n) => Remembered(n)

LEMMA DepthFacts ==
  ASSUME file \in Files
  PROVE  /\ Depth(0) = 0
         /\ \A n \in 0 .. Len(file) : Depth(n) \in Nat
         /\ \A n \in 1 .. Len(file) :
              /\ Depth(n) <= Depth(n - 1) + 1
              /\ Depth(n) > Depth(n - 1) <=> file[n].pp = "if"
              /\ file[n].pp = "else" => Depth(n) = Depth(n - 1)
<1>1. Len(file) \in Nat
  BY FileType, Zenon
<1> DEFINE C == Conditionals(file)
<1>2. /\ C[0] = <<>>
      /\ \A n \in 1 .. Len(file) : C[n] = Directive(C[n - 1], file[n])
      /\ \A n \in 0 .. Len(file) : C[n] \in Seq(BOOLEAN)
  BY <1>1, ConditionalsValue
<1> HIDE DEF C
<1>3. \A n \in 0 .. Len(file) : Len(C[n]) \in Nat
  BY <1>2, LenType
<1>4. ASSUME NEW n \in 1 .. Len(file)
      PROVE  /\ Len(C[n]) <= Len(C[n - 1]) + 1
             /\ Len(C[n]) > Len(C[n - 1]) <=> file[n].pp = "if"
             /\ file[n].pp = "else" => Len(C[n]) = Len(C[n - 1])
  <2> DEFINE s == C[n - 1]
  <2>1. n - 1 \in 0 .. Len(file)
    BY <1>1
  <2>2. s \in Seq(BOOLEAN) /\ C[n] = Directive(s, file[n])
    BY <1>2, <2>1
  <2> HIDE DEF s
  <2>3. /\ Len(s) \in Nat /\ Len(Append(s, FALSE)) = Len(s) + 1
        /\ s # <<>> => Len(Front(s)) = Len(s) - 1 /\ Len(ReplaceTop(s, TRUE)) = Len(s)
    <3>1. FALSE \in BOOLEAN /\ TRUE \in BOOLEAN
      OBVIOUS
    <3>2. Len(s) \in Nat
      BY <2>2, LenType, Zenon
    <3>3. Len(Append(s, FALSE)) = Len(s) + 1
      BY <2>2, <3>1, AppendType, Zenon
    <3>4. s # <<>> => Len(Front(s)) = Len(s) - 1
      BY <2>2, FrontType, Zenon
    <3>5. s # <<>> => Len(ReplaceTop(s, TRUE)) = Len(s)
      BY <2>2, <3>1, ReplaceTopType, Zenon
    <3> QED
      BY <3>2, <3>3, <3>4, <3>5, Zenon
  <2>4. \/ C[n] = Append(s, FALSE) /\ file[n].pp = "if"
        \/ C[n] = ReplaceTop(s, TRUE) /\ s # <<>> /\ file[n].pp # "if"
        \/ C[n] = Front(s) /\ s # <<>> /\ file[n].pp # "if" /\ file[n].pp # "else"
        \/ C[n] = s /\ file[n].pp # "if"
    <3>0. /\ file[n].pp = "endif" => file[n].pp # "else" /\ file[n].pp # "if"
          /\ file[n].pp = "else" => file[n].pp # "if"
      OBVIOUS
    <3>1. file[n].pp = "if" => C[n] = Append(s, FALSE)
      BY <2>2 DEF Directive
    <3>2. file[n].pp # "if" =>
            \/ C[n] = ReplaceTop(s, TRUE) /\ s # <<>>
            \/ C[n] = Front(s) /\ s # <<>> /\ file[n].pp # "else"
            \/ C[n] = s
      BY <2>2, <3>0, Zenon DEF Directive
    <3> QED
      BY <3>1, <3>2, Zenon
  <2>5. /\ Len(C[n]) <= Len(s) + 1 /\ (Len(C[n]) > Len(s) <=> file[n].pp = "if")
        /\ file[n].pp = "else" => Len(C[n]) = Len(s)
    <3> DEFINE a == Append(s, FALSE)
               r == ReplaceTop(s, TRUE)
               f == Front(s)
               c == C[n]
    <3>1. /\ Len(s) \in Nat /\ Len(a) = Len(s) + 1
          /\ s # <<>> => Len(f) = Len(s) - 1 /\ Len(r) = Len(s)
          /\ \/ c = a /\ file[n].pp = "if"
             \/ c = r /\ s # <<>> /\ file[n].pp # "if"
             \/ c = f /\ s # <<>> /\ file[n].pp # "if" /\ file[n].pp # "else"
             \/ c = s /\ file[n].pp # "if"
      BY <2>3, <2>4
    <3> HIDE DEF a, r, f, c
    <3>2. /\ Len(c) <= Len(s) + 1 /\ (Len(c) > Len(s) <=> file[n].pp = "if")
          /\ file[n].pp = "else" => Len(c) = Len(s)
      BY <3>1
    <3> QED
      BY <3>2 DEF c
  <2> QED
    BY <2>5 DEF s
<1>5. Len(C[0]) = 0
  BY <1>2
<1> QED
  BY <1>3, <1>4, <1>5 DEF Depth, C

(* An #else is in a conditional, or it ends nothing and covers all lines.    *)
LEMMA OwnIfExists ==
  ASSUME file \in Files, NEW m \in 1 .. Len(file), file[m].pp = "else"
  PROVE  \/ \A k \in 1 .. m : Depth(k) >= Depth(m)
         \/ \E i \in 1 .. (m - 1) : OwnIf(i, m)
<1>1. Len(file) \in Nat
  BY FileType, Zenon
<1>2. /\ Depth(0) = 0
      /\ \A n \in 0 .. Len(file) : Depth(n) \in Nat
      /\ \A n \in 1 .. Len(file) :
              /\ Depth(n) <= Depth(n - 1) + 1
              /\ Depth(n) > Depth(n - 1) => file[n].pp = "if"
  BY DepthFacts
<1> HIDE DEF Depth
<1>3. CASE Depth(m) = 0
  <2>1. \A k \in 1 .. m : Depth(k) \in Nat
    BY <1>1, <1>2
  <2> QED
    BY <1>3, <2>1
<1>4. CASE Depth(m) # 0
  <2> DEFINE T == {t \in 0 .. m : Depth(m - t) < Depth(m)}
  <2>1. Depth(m) \in Nat /\ Depth(m) > 0
    BY <1>1, <1>2, <1>4
  <2>2. m - m = 0
    OBVIOUS
  <2>3. m \in T
    <3>1. m \in 0 .. m /\ Depth(m - m) < Depth(m)
      BY <1>2, <2>1, <2>2
    <3> QED
      BY <3>1
  <2>0. m \in Nat
    BY <1>1
  <2>4. T \in SUBSET Nat /\ T # {}
    <3>1. T \subseteq 0 .. m
      OBVIOUS
    <3> HIDE DEF T
    <3>2. 0 .. m \subseteq Nat
      BY <2>0
    <3> QED
      BY <2>3, <3>1, <3>2, Zenon
  <2>5. PICK t \in T : \A u \in T : t <= u
    BY <2>4, Least
  <2>6. t \in 0 .. m /\ Depth(m - t) < Depth(m)
    BY <2>5
  <2>7. t # 0
    BY <2>1, <2>6
  <2> DEFINE i == m - t + 1
  <2>8. i \in 1 .. m /\ i - 1 = m - t
    BY <2>0, <2>6, <2>7
  <2>9. ASSUME NEW k \in i .. m PROVE Depth(k) >= Depth(m)
    <3>1. m - k \in 0 .. m /\ m - k < t /\ m - (m - k) = k /\ k \in 0 .. Len(file)
      BY <1>1, <2>0, <2>8, <2>6
    <3>2. m - k \notin T
      <4> HIDE DEF T
      <4>1. m - k \in T => t <= m - k
        BY <2>5, Zenon
      <4>2. t \in 0 .. m
        BY <2>6
      <4> QED
        BY <2>0, <3>1, <4>1, <4>2
    <3>3. ~(Depth(k) < Depth(m))
      <4> DEFINE u == m - k
      <4>1. u \in 0 .. m /\ m - u = k /\ u \notin T
        BY <3>1, <3>2
      <4> HIDE DEF u
      <4> QED
        BY <4>1
    <3> QED
      BY <1>2, <2>1, <3>1, <3>3
  <2>10. i \in 1 .. Len(file) /\ i \in i .. m /\ i - 1 \in 0 .. Len(file) /\ i \in 0 .. Len(file)
    BY <1>1, <2>8
  <2>11. Depth(i - 1) < Depth(m)
    BY <2>6, <2>8
  <2> HIDE DEF i
  <2>12. /\ Depth(i) >= Depth(m) /\ Depth(i) <= Depth(i - 1) + 1
         /\ Depth(i) \in Nat /\ Depth(i - 1) \in Nat
         /\ Depth(i) > Depth(i - 1) => file[i].pp = "if"
    BY <1>2, <2>9, <2>10
  <2>13. Depth(i) = Depth(m) /\ file[i].pp = "if"
    BY <2>1, <2>11, <2>12
  <2>14. i # m
    BY <2>13
  <2>15. i \in 1 .. (m - 1)
    BY <2>8, <2>14
  <2>16. OwnIf(i, m)
    BY <2>9, <2>13, Zenon DEF OwnIf
  <2> QED
    BY <2>15, <2>16
<1> QED
  BY <1>3, <1>4

(* Looking for a header in the lists.                                        *)
LEMMA FindInFront ==
  ASSUME NEW L \in Seq(Seq(Nat)), L # <<>>, NEW b \in Seq(Nat), NEW h,
         FindHeader(Front(L), h)
  PROVE  /\ FindHeader(L, h)
         /\ FindHeader(ReplaceTop(L, b), h)
<1>1. /\ Front(L) \in Seq(Seq(Nat)) /\ Len(Front(L)) = Len(L) - 1
      /\ \A i \in 1 .. Len(L) - 1 : Front(L)[i] = L[i]
  BY FrontType
<1>2. /\ ReplaceTop(L, b) \in Seq(Seq(Nat)) /\ Len(ReplaceTop(L, b)) = Len(L)
      /\ \A i \in 1 .. Len(L) - 1 : ReplaceTop(L, b)[i] = L[i]
  BY ReplaceTopType
<1>3. Len(L) \in Nat /\ DOMAIN L = 1 .. Len(L)
  OBVIOUS
<1> DEFINE F == Front(L)
           R == ReplaceTop(L, b)
<1>4. DOMAIN F = 1 .. Len(L) - 1 /\ DOMAIN R = 1 .. Len(L)
  BY <1>1, <1>2
<1> HIDE DEF F, R
<1>5. PICK i \in DOMAIN F : \E j \in DOMAIN F[i] : F[i][j] = h.name
  BY DEF FindHeader, F
<1>6. i \in DOMAIN L /\ i \in DOMAIN R /\ F[i] = L[i] /\ R[i] = L[i]
  <2>1. i \in 1 .. Len(L) - 1
    BY <1>4, <1>5, Zenon
  <2>2. F[i] = L[i] /\ R[i] = L[i]
    BY <1>1, <1>2, <2>1, Zenon DEF F, R
  <2>3. i \in 1 .. Len(L)
    BY <1>3, <2>1
  <2> QED
    BY <1>3, <1>4, <2>2, <2>3, Zenon
<1> QED
  BY <1>5, <1>6, Zenon DEF FindHeader, F, R

LEMMA FrontOfReplaced ==
  ASSUME NEW L \in Seq(Seq(Nat)), L # <<>>, NEW b \in Seq(Nat)
  PROVE  Front(ReplaceTop(L, b)) = Front(L) /\ ReplaceTop(L, b) # <<>>
<1>1. Front(L) \in Seq(Seq(Nat)) /\ Len(Front(L)) \in Nat
  BY FrontType, LenType
<1> DEFINE F == Front(L)
<1> HIDE DEF F
<1>2. F \in Seq(Seq(Nat))
  BY <1>1 DEF F
<1>3. Front(Append(F, b)) = F
  <2>1. Front(Append(F, b)) = [i \in 1 .. Len(F) |-> Append(F, b)[i]]
    BY <1>2 DEF Front
  <2>2. F = [i \in 1 .. Len(F) |-> F[i]]
    BY <1>2
  <2>3. \A i \in 1 .. Len(F) : Append(F, b)[i] = F[i]
    BY <1>2
  <2> QED
    BY <2>1, <2>2, <2>3
<1>4. Append(F, b) # <<>>
  <2>1. Len(F) \in Nat /\ Len(Append(F, b)) = Len(F) + 1
    BY <1>2, LenType, AppendType
  <2>2. Len(<<>>) = 0
    OBVIOUS
  <2>3. Len(Append(F, b)) # 0
    BY <2>1
  <2> QED
    BY <2>2, <2>3, Zenon
<1> QED
  BY <1>3, <1>4, Zenon DEF ReplaceTop, F

LEMMA FindAfterAppend ==
  ASSUME NEW L \in Seq(Seq(Nat)), L # <<>>, NEW h
  PROVE  /\ Append(L, <<>>) \in Seq(Seq(Nat)) /\ Append(L, <<>>) # <<>>
         /\ Front(Append(L, <<>>)) = L
         /\ FindHeader(L, h) => FindHeader(Append(L, <<>>), h)
<1> DEFINE A == Append(L, <<>>)
<1>1. A \in Seq(Seq(Nat)) /\ A # <<>> /\ DOMAIN A = 1 .. Len(L) + 1 /\ Len(L) \in Nat
  <2>1. <<>> \in Seq(Nat)
    OBVIOUS
  <2>2. A \in Seq(Seq(Nat)) /\ Len(A) = Len(L) + 1 /\ Len(L) \in Nat
    BY <2>1, AppendType, LenType
  <2> HIDE DEF A
  <2>3. DOMAIN A = 1 .. Len(L) + 1
    BY <2>2
  <2>4. Len(A) # 0 /\ Len(<<>>) = 0
    BY <2>2
  <2> QED
    BY <2>2, <2>3, <2>4, Zenon
<1>2. \A i \in 1 .. Len(L) : A[i] = L[i]
  OBVIOUS
<1>3. Front(A) = L
  <2>1. Front(A) = [i \in 1 .. Len(L) |-> A[i]]
    BY DEF Front
  <2>2. L = [i \in 1 .. Len(L) |-> L[i]]
    OBVIOUS
  <2> HIDE DEF A
  <2> QED
    BY <1>2, <2>1, <2>2
<1> HIDE DEF A
<1>4. \A i \in DOMAIN L : i \in DOMAIN A /\ A[i] = L[i]
  <2>1. DOMAIN L = 1 .. Len(L)
    OBVIOUS
  <2>2. \A i \in 1 .. Len(L) : i \in 1 .. Len(L) + 1
    BY <1>1
  <2> QED
    BY <1>1, <1>2, <2>1, <2>2, Zenon
<1>5. FindHeader(L, h) => FindHeader(A, h)
  BY <1>4, Zenon DEF FindHeader
<1> QED
  BY <1>1, <1>3, <1>5 DEF A

LEMMA FindAfterInclude ==
  ASSUME NEW L \in Seq(Seq(Nat)), L # <<>>, NEW x \in Nat, NEW h
  PROVE  /\ Append(Last(L), x) \in Seq(Nat)
         /\ FindHeader(L, h) => FindHeader(ReplaceTop(L, Append(Last(L), x)), h)
         /\ h.name = x => FindHeader(ReplaceTop(L, Append(Last(L), x)), h)
<1> DEFINE l == Last(L)
           b == Append(l, x)
           R == ReplaceTop(L, b)
<1>1. l \in Seq(Nat) /\ l = L[Len(L)] /\ Len(L) \in Nat /\ Len(L) >= 1
  BY FrontType DEF Last
<1> HIDE DEF l
<1>2. b \in Seq(Nat) /\ DOMAIN b = 1 .. Len(l) + 1 /\ b[Len(l) + 1] = x
      /\ Len(l) + 1 \in 1 .. Len(l) + 1
      /\ \A j \in DOMAIN l : j \in DOMAIN b /\ b[j] = l[j]
  BY <1>1
<1> HIDE DEF b
<1>3. /\ R \in Seq(Seq(Nat)) /\ Len(R) = Len(L) /\ R[Len(L)] = b
      /\ \A i \in 1 .. Len(L) - 1 : R[i] = L[i]
  BY <1>2, ReplaceTopType
<1> HIDE DEF R
<1>4. DOMAIN R = 1 .. Len(L) /\ DOMAIN L = 1 .. Len(L) /\ Len(L) \in DOMAIN R
  BY <1>1, <1>3
<1>5. \A i \in DOMAIN L : R[i] = L[i] \/ (R[i] = b /\ L[i] = l)
  <2>1. \A i \in 1 .. Len(L) : i \in 1 .. Len(L) - 1 \/ i = Len(L)
    BY <1>1
  <2> QED
    BY <1>1, <1>3, <1>4, <2>1, Zenon
<1>6. FindHeader(L, h) => FindHeader(R, h)
  <2> SUFFICES ASSUME FindHeader(L, h) PROVE FindHeader(R, h)
    OBVIOUS
  <2>1. PICK i \in DOMAIN L : \E j \in DOMAIN L[i] : L[i][j] = h.name
    BY DEF FindHeader
  <2>2. PICK j \in DOMAIN L[i] : L[i][j] = h.name
    BY <2>1
  <2>3. j \in DOMAIN R[i] /\ R[i][j] = h.name
    BY <1>2, <1>5, <2>2, Zenon
  <2> QED
    BY <1>4, <2>3, Zenon DEF FindHeader
<1>7. h.name = x => FindHeader(R, h)
  BY <1>2, <1>3, <1>4, Zenon DEF FindHeader
<1> QED
  BY <1>2, <1>6, <1>7 DEF R, b, l

(* What a line leaves as it was: who is included, and which directives count *)
LEMMA HeadersStay ==
  ASSUME Types, LineStep
  PROVE  /\ \A k : k \in Seen' <=> k \in Seen \/ k = linenum
         /\ linenum \notin Seen /\ linenum \in 1 .. Len(file)
         /\ \A k \in Seen : k \in Nat /\ k < linenum
         /\ AssemblyWhole' => AssemblyWhole
         /\ \A k \in Seen : /\ k \in skipped' <=> k \in skipped
                            /\ StillIncluded(k)' => StillIncluded(k)
                            /\ Open(k)' => Open(k)
<1>1. linenum \in 1 .. Len(file) /\ file' = file /\ linenum' = linenum + 1
  BY NestType, Zenon DEF LineStep
<1>2. Len(file) \in Nat /\ DOMAIN file = 1 .. Len(file) /\ linenum \in Nat
  BY FileFacts, Zenon
<1>3. /\ \A k : k \in Seen' <=> k \in Seen \/ k = linenum
      /\ linenum \notin Seen
      /\ \A k \in Seen : k \in Nat /\ k < linenum /\ k \in Int
  <2>1. Seen' = {k \in DOMAIN file : k < linenum + 1}
    BY <1>1, Zenon DEF Seen
  <2> QED
    BY <1>1, <1>2, <2>1 DEF Seen
<1>4. \A k \in Seen : k \in skipped' <=> k \in skipped
  BY <1>3, SkippedStep, Zenon
<1>5. \A k : Depth(k)' = Depth(k)
  BY <1>1, Zenon DEF Depth
<1>6. \A i, m : OwnIf(i, m)' <=> OwnIf(i, m)
  BY <1>1, <1>5, Zenon DEF OwnIf
<1>7. \A m \in Seen : \A i \in 1 .. (m - 1) : i \in Seen
  BY <1>2 DEF Seen
<1>8. AssemblyWhole' => AssemblyWhole
  <2> SUFFICES ASSUME AssemblyWhole', NEW m \in Seen, m \notin skipped, file[m].pp = "else",
                      NEW i \in 1 .. (m - 1), OwnIf(i, m)
               PROVE  i \notin skipped
    BY Zenon DEF AssemblyWhole
  <2>1. i \in Seen /\ m \in Seen' /\ m \notin skipped'
    BY <1>3, <1>4, <1>7, Zenon
  <2>2. i \notin skipped'
    BY <1>1, <1>6, <2>1, Zenon DEF AssemblyWhole
  <2> QED
    BY <1>4, <2>1, <2>2, Zenon
<1>9. ASSUME NEW k \in Seen, StillIncluded(k)' PROVE StillIncluded(k)
  <2>1. Kept(k) /\ k \notin skipped
    BY <1>1, <1>4, <1>9, Zenon DEF StillIncluded, Kept
  <2>2. ASSUME NEW m \in Seen, m > k, file[m].pp = "else",
               \A j \in k .. m : Len(Conditionals(file)[j]) >= Len(Conditionals(file)[m])
        PROVE  FALSE
    <3>1. m \in Seen'
      BY <1>3, Zenon
    <3> QED
      BY <1>1, <1>9, <2>2, <3>1, Zenon DEF StillIncluded
  <2> QED
    BY <2>1, <2>2, Zenon DEF StillIncluded
<1>10. \A k \in Seen : Open(k)' => Open(k)
  BY <1>1, <1>3, <1>5, Zenon DEF Open
<1> QED
  BY <1>1, <1>3, <1>4, <1>8, <1>9, <1>10, Zenon

(* What a line does to the lists of headers.                                 *)
Same(n) ==
    /\ include_list' = include_list
    /\ \/ n \in skipped'
       \/ /\ file[n].pp \notin {"if", "else"}
          /\ Kept(n) => FindHeader(include_list, file[n].include)
Opened(n) ==
    n \notin skipped' /\ file[n].pp = "if" /\ include_list' = Append(include_list, <<>>)
Forgot(n) ==
    n \notin skipped' /\ file[n].pp = "else" /\ include_list' = ReplaceTop(include_list, <<>>)
Added(n) ==
    /\ n \notin skipped' /\ file[n].include \in Header /\ file[n].pp = ""
    /\ include_list' = ReplaceTop(include_list, Append(Last(include_list), file[n].include.name))

LEMMA ListSteps ==
  ASSUME Types, LineStep, NEW n, n = linenum
  PROVE  (Same(n) \/ Opened(n) \/ Forgot(n) \/ Added(n)) /\ (file[n].include # NoHeader => file[n].pp = "")
<1>1. n \in 1 .. Len(file) /\ file \in Files
  BY FileFacts, Zenon DEF LineStep
<1>2. /\ file[n] \in Line
      /\ file[n].include # NoHeader => file[n].pp = ""
  BY <1>1, FileType, Zenon
<1>3. file[n].include \in {NoHeader} \cup Header /\ file[n].pp \in {"", "if", "else", "endif"}
  BY <1>2, LineParts, Zenon
<1>4. n \notin skipped
  <2>1. linenum \in Nat
    BY FileFacts, Zenon
  <2>2. ~(linenum < linenum)
    BY <2>1
  <2> QED
    BY <2>2, Zenon DEF Types
<1>5. CASE AsmLine
  <2>1. include_list' = include_list /\ n \in skipped'
    BY <1>5, Zenon DEF AsmLine, includeVars
  <2> QED
    BY <1>2, <2>1, Zenon DEF Same
<1>6. CASE IncludeLine
  <2>1. /\ file[n].include # NoHeader /\ skipped' = skipped
        /\ CheckIncludeLine(file[n], suppressions', errors \cup EarlyErrors(file[n], suppressions'))
    BY <1>6, Zenon DEF IncludeLine
  <2>2. file[n].pp \notin {"if", "else"}
    BY <1>2, <2>1
  <2>3. CASE ~Taken(file[n].include)
    <3>1. include_list' = include_list
      BY <2>1, <2>3, Zenon DEF CheckIncludeLine, includeVars, Taken
    <3>2. Kept(n) => FindHeader(include_list, file[n].include)
      BY <2>3, Zenon DEF Kept, Taken
    <3> QED
      BY <1>2, <2>2, <3>1, <3>2, Zenon DEF Same
  <2>4. CASE Taken(file[n].include)
    <3>0. file[n].include.kind # "foreign" /\ file[n].include.kind # "thirdParty"
      BY <2>4 DEF Taken
    <3>1. include_list' = ReplaceTop(include_list, Append(Last(include_list), file[n].include.name))
      BY <2>1, <2>4, <3>0, Zenon DEF CheckIncludeLine, Taken
    <3> QED
      BY <1>2, <1>3, <1>4, <2>1, <3>1, Zenon DEF Added
  <2> QED
    BY <2>3, <2>4
<1>7. CASE CodeLine
  <2>1. file[n].include = NoHeader /\ skipped' = skipped
    BY <1>7, Zenon DEF CodeLine
  <2>2. CASE file[n].pp = ""
    <3>1. include_list' = include_list
      BY <1>7, <2>2, Zenon DEF CodeLine, includeVars
    <3>2. file[n].pp \notin {"if", "else"}
      BY <2>2
    <3> QED
      BY <2>1, <3>1, <3>2, Zenon DEF Same, Kept
  <2>3. CASE file[n].pp # ""
    <3>1. include_list' = ResetList(include_list, file[n].pp)
      BY <1>7, <2>3, Zenon DEF CodeLine
    <3>2. CASE file[n].pp = "if"
      <4>1. include_list' = Append(include_list, <<>>)
        BY <3>1, <3>2 DEF ResetList
      <4> QED
        BY <1>4, <2>1, <3>2, <4>1, Zenon DEF Opened
    <3>3. CASE file[n].pp = "else"
      <4>1. include_list' = ReplaceTop(include_list, <<>>)
        BY <3>1, <3>3 DEF ResetList
      <4> QED
        BY <1>4, <2>1, <3>3, <4>1, Zenon DEF Forgot
    <3>4. CASE file[n].pp = "endif"
      <4>1. include_list' = include_list /\ file[n].pp \notin {"if", "else"}
        BY <3>1, <3>4 DEF ResetList
      <4> QED
        BY <2>1, <4>1, Zenon DEF Same, Kept
    <3> QED
      BY <1>3, <2>1, <2>3, <3>2, <3>3, <3>4, Zenon
  <2> QED
    BY <2>2, <2>3
<1> QED
  BY <1>5, <1>6, <1>7, Zenon DEF LineStep

LEMMA InitHeaders == Init => Headers
<1> SUFFICES ASSUME Init PROVE Headers
  OBVIOUS
<1>1. include_list = << <<>> >> /\ linenum = 1 /\ file \in Files
  BY Zenon DEF Init
<1>2. include_list \in Seq(Seq(Nat)) /\ include_list # <<>>
  BY <1>1
<1>3. Seen = {}
  <2>1. Len(file) \in Nat /\ DOMAIN file = 1 .. Len(file)
    BY <1>1, FileType, Zenon
  <2> QED
    BY <1>1, <2>1 DEF Seen
<1> QED
  BY <1>2, <1>3, Zenon DEF Headers

(* An #else covers what was included in its conditional, so what is still    *)
(* included came before its #if, and survives in the lists below the last.   *)
LEMMA ElseForgets ==
  ASSUME Types, LineStep, NEW n, n = linenum, file[n].pp = "else", n \notin skipped',
         AssemblyWhole', NEW k \in Seen, StillIncluded(k)', Remembered(k)
  PROVE  FindHeader(Front(include_list), file[k].include)
<1>1. /\ n \in 1 .. Len(file) /\ k \in Nat /\ k < n
      /\ \A j \in Seen : j \in skipped' <=> j \in skipped
      /\ n \in Seen'
  BY HeadersStay, Zenon
<1>2. file' = file /\ file \in Files /\ Len(file) \in Nat /\ DOMAIN file = 1 .. Len(file)
  BY FileFacts, NestType, Zenon
<1>3. k \in 1 .. Len(file) /\ n \in Nat /\ n > k
  BY <1>1, <1>2 DEF Seen
<1>4. ~(\A j \in k .. n : Depth(j) >= Depth(n))
  BY <1>1, <1>2, <1>3, Zenon DEF StillIncluded, Depth
<1>5. ~(\A j \in 1 .. n : Depth(j) >= Depth(n))
  <2>1. \A j \in k .. n : j \in 1 .. n
    BY <1>3
  <2> QED
    BY <1>4, <2>1, Zenon
<1>6. PICK i \in 1 .. (n - 1) : OwnIf(i, n)
  BY <1>1, <1>2, <1>5, OwnIfExists, Zenon
<1>7. k < i
  <2>1. ~(i <= k)
    <3> SUFFICES ASSUME i <= k PROVE FALSE
      OBVIOUS
    <3>1. \A j \in k .. n : j \in i .. n
      BY <1>3
    <3> QED
      BY <1>4, <1>6, <3>1, Zenon DEF OwnIf
  <2> QED
    BY <1>3, <2>1
<1>8. i \in Seen
  BY <1>2, <1>3, <1>1 DEF Seen
<1>9. i \notin skipped
  <2>1. OwnIf(i, n)'
    BY <1>2, <1>6, Zenon DEF OwnIf, Depth
  <2>2. i \notin skipped'
    BY <1>1, <1>2, <1>6, <2>1, Zenon DEF AssemblyWhole
  <2> QED
    BY <1>1, <1>8, <2>2, Zenon
<1>10. Open(i)
  <2>1. \A j \in Seen : j >= i => j \in i .. n
    BY <1>2, <1>3 DEF Seen
  <2> QED
    BY <1>6, <2>1, Zenon DEF Open, OwnIf
<1> QED
  BY <1>7, <1>8, <1>9, <1>10, Zenon DEF Remembered

LEMMA StepHeaders == Types /\ Headers /\ [Next]_vars => Headers'
<1> SUFFICES ASSUME Types, Headers, [Next]_vars PROVE Headers'
  OBVIOUS
<1>1. CASE LineStep
  <2> SUFFICES ASSUME NEW n, n = linenum PROVE Headers'
    OBVIOUS
  <2> DEFINE L == include_list
  <2>0. L \in Seq(Seq(Nat)) /\ L # <<>>
    BY Zenon DEF Headers
  <2>1. /\ \A k : k \in Seen' <=> k \in Seen \/ k = n
        /\ n \notin Seen
        /\ \A k \in Seen : k \in Nat /\ k < n
        /\ AssemblyWhole' => AssemblyWhole
        /\ \A k \in Seen : /\ k \in skipped' <=> k \in skipped
                           /\ StillIncluded(k)' => StillIncluded(k)
                           /\ Open(k)' => Open(k)
    BY <1>1, HeadersStay, Zenon
  <2>2. file' = file
    BY <1>1, NestType, Zenon
  <2>3. AssemblyWhole' => \A k \in Seen : StillIncluded(k)' => Remembered(k)
    BY <2>1, Zenon DEF Headers
  <2>4. Same(n) \/ Opened(n) \/ Forgot(n) \/ Added(n)
    BY <1>1, ListSteps, Zenon
  <2>5. file[n].include # NoHeader => file[n].pp = ""
    BY <1>1, ListSteps, Zenon
  <2>6. \A k \in Seen \cup {n} : ~(n < k)
    <3>1. n \in Nat
      BY FileFacts, Zenon
    <3> QED
      BY <2>1, <3>1
  \* what is shown of each kind of line
  <2> DEFINE Found(k) == FindHeader(include_list', file[k].include)
             FoundBelow(k) == FindHeader(Front(include_list'), file[k].include)
             OpenAfter(k) == \E i \in Seen : k < i /\ i \notin skipped /\ Open(i)
  <2>7. ASSUME include_list' \in Seq(Seq(Nat)), include_list' # <<>>,
               AssemblyWhole' =>
                 /\ \A k \in Seen : StillIncluded(k)' =>
                       /\ Found(k)
                       /\ OpenAfter(k) => FoundBelow(k)
                       /\ n \notin skipped' /\ file[n].pp = "if" => FoundBelow(k)
                 /\ Kept(n) /\ n \notin skipped' => Found(n)
        PROVE  Headers'
    <3> SUFFICES ASSUME AssemblyWhole', NEW k \in Seen', StillIncluded(k)' PROVE Remembered(k)'
      BY <2>7, Zenon DEF Headers
    <3>1. CASE k \in Seen
      <4>1. Found(k)
        BY <2>7, <3>1, Zenon
      <4>2. ASSUME NEW i \in Seen', k < i, i \notin skipped', Open(i)' PROVE FoundBelow(k)
        <5>1. CASE i \in Seen
          BY <2>1, <2>7, <3>1, <4>2, <5>1, Zenon
        <5>2. CASE i = n
          <6>1. file[n].pp = "if"
            BY <2>2, <4>2, <5>2, Zenon DEF Open
          <6> QED
            BY <2>7, <3>1, <4>2, <5>2, <6>1, Zenon
        <5> QED
          BY <2>1, <4>2, <5>1, <5>2, Zenon
      <4> QED
        BY <2>2, <4>1, <4>2, Zenon DEF Remembered
    <3>2. CASE k = n
      <4>1. Found(n)
        BY <2>2, <2>7, <3>2, Zenon DEF StillIncluded, Kept
      <4>2. ~\E i \in Seen' : k < i
        BY <2>1, <2>6, <3>2, Zenon
      <4> QED
        BY <2>2, <3>2, <4>1, <4>2, Zenon DEF Remembered
    <3> QED
      BY <2>1, <3>1, <3>2, Zenon
  <2> HIDE DEF L
  <2>8. CASE Same(n)
    <3>1. include_list' = include_list /\ (n \in skipped' \/ file[n].pp # "if")
          /\ (Kept(n) /\ n \notin skipped' => Found(n))
      BY <2>8, Zenon DEF Same
    <3> QED
      BY <2>0, <2>3, <2>7, <3>1, Zenon DEF Remembered, L
  <2>9. CASE Opened(n)
    <3>1. include_list' = Append(L, <<>>) /\ file[n].include = NoHeader
      <4>1. "if" # ""
        OBVIOUS
      <4> QED
        BY <2>5, <2>9, <4>1, Zenon DEF Opened, L
    <3>2. include_list' \in Seq(Seq(Nat)) /\ include_list' # <<>> /\ Front(include_list') = L
      BY <2>0, <3>1, FindAfterAppend
    <3>3. \A h : FindHeader(L, h) => FindHeader(include_list', h)
      BY <2>0, <3>1, FindAfterAppend
    <3> QED
      BY <2>3, <2>7, <3>1, <3>2, <3>3, Zenon DEF Remembered, L, Kept
  <2>10. CASE Forgot(n)
    <3>1. /\ include_list' = ReplaceTop(L, <<>>) /\ file[n].pp = "else" /\ n \notin skipped'
          /\ file[n].include = NoHeader /\ file[n].pp # "if"
      <4>1. "else" # "" /\ "else" # "if"
        OBVIOUS
      <4> QED
        BY <2>5, <2>10, <4>1, Zenon DEF Forgot, L
    <3>2. <<>> \in Seq(Nat)
      OBVIOUS
    <3>3. Front(include_list') = Front(L) /\ include_list' # <<>>
      BY <2>0, <3>1, <3>2, FrontOfReplaced
    <3>4. include_list' \in Seq(Seq(Nat))
      BY <2>0, <3>1, <3>2, ReplaceTopType
    <3>5. \A h : FindHeader(Front(L), h) => FindHeader(include_list', h)
      BY <2>0, <3>1, <3>2, FindInFront
    <3>6. ASSUME AssemblyWhole', NEW k \in Seen, StillIncluded(k)'
          PROVE  FindHeader(Front(L), file[k].include)
      BY <1>1, <2>3, <3>1, <3>6, ElseForgets, Zenon DEF L
    <3> QED
      BY <2>7, <3>1, <3>3, <3>4, <3>5, <3>6, Zenon DEF Kept
  <2>11. CASE Added(n)
    <3> DEFINE x == file[n].include.name
               b == Append(Last(L), x)
    <3>1. /\ include_list' = ReplaceTop(L, b) /\ x \in Nat
          /\ file[n].pp # "if"
      <4>1. file[n].include \in Header /\ file[n].pp = ""
        BY <2>11, Zenon DEF Added
      <4>2. x \in Nat
        BY <4>1 DEF Header
      <4>3. file[n].pp # "if"
        BY <4>1
      <4> QED
        BY <2>11, <4>2, <4>3, Zenon DEF Added, L
    <3>2. b \in Seq(Nat)
      BY <2>0, <3>1, FindAfterInclude, Zenon
    <3>3. \A h : FindHeader(L, h) => FindHeader(include_list', h)
      BY <2>0, <3>1, FindAfterInclude, Zenon
    <3>4. Found(n)
      BY <2>0, <3>1, FindAfterInclude, Zenon
    <3> HIDE DEF b, x
    <3>5. Front(include_list') = Front(L) /\ include_list' # <<>>
      BY <2>0, <3>1, <3>2, FrontOfReplaced, Zenon
    <3>6. include_list' \in Seq(Seq(Nat))
      BY <2>0, <3>1, <3>2, ReplaceTopType, Zenon
    <3> QED
      BY <2>3, <2>7, <3>1, <3>3, <3>4, <3>5, <3>6, Zenon DEF Remembered, L
  <2> QED
    BY <2>4, <2>8, <2>9, <2>10, <2>11, Zenon
<1>2. CASE EndStep
  <2>1. /\ linenum = Len(file) + 1 /\ linenum' = linenum + 1 /\ file' = file
        /\ skipped' = skipped /\ include_list' = include_list
    BY <1>2, Zenon DEF EndStep, includeVars
  <2>2. Seen' = Seen
    <3>1. Len(file) \in Nat /\ DOMAIN file = 1 .. Len(file)
      BY FileFacts, Zenon
    <3>2. \A k \in DOMAIN file : k < Len(file) + 1 /\ k < Len(file) + 1 + 1
      BY <3>1
    <3>3. Seen' = {k \in DOMAIN file : k < Len(file) + 1 + 1}
      BY <2>1, Zenon DEF Seen
    <3>4. Seen = {k \in DOMAIN file : k < Len(file) + 1}
      BY <2>1, Zenon DEF Seen
    <3> QED
      BY <3>2, <3>3, <3>4
  <2> QED
    BY <2>1, <2>2, Zenon DEF Headers, AssemblyWhole, StillIncluded, Kept,
         Remembered, Open, OwnIf, Depth
<1>3. CASE UNCHANGED vars
  <2>1. /\ linenum' = linenum /\ file' = file /\ skipped' = skipped /\ include_list' = include_list
    BY <1>3, Zenon DEF vars, includeVars
  <2>2. Seen' = Seen
    BY <2>1, Zenon DEF Seen
  <2> QED
    BY <2>1, <2>2, Zenon DEF Headers, AssemblyWhole, StillIncluded, Kept,
         Remembered, Open, OwnIf, Depth
<1> QED
  BY <1>1, <1>2, <1>3, Steps, Zenon

(* IncludesRemembered: an #else forgets the headers of its own conditional   *)
(* at most, in every file of which the assembler takes no #if without its    *)
(* #else.                                                                    *)
THEOREM HeadersRemembered == Spec => [](AssemblyWhole => IncludesRemembered)
<1>1. Headers => (AssemblyWhole => IncludesRemembered)
  BY Zenon DEF Headers, IncludesRemembered, Remembered
<1> QED
  BY <1>1, InitTypes, StepTypes, InitHeaders, StepHeaders, PTL DEF Spec


(* A conditional directive is what it is in most files: it declares no scope *)
(* and closes the brackets it opens, as in #if defined(X) || defined(Y).     *)
(* One with brackets does not stand between the head of a class or namespace *)
(* and its brace, where a closing bracket would end the head.                *)
AllClosing(tokens) == \A i \in 1 .. Len(tokens) : tokens[i] = ")"

PlainDirective ==
    LET line == file[linenum]
        blocks == UpdatePreprocessor(pp_stack, stack, line).stack
    IN  linenum <= Len(file) /\ line.pp \in {"if", "else"} =>
            /\ line.parens = 0 /\ line.spaces = <<>> /\ ~line.class
            /\ AllClosing(line.tokens)
            /\ line.tokens = <<>> \/ SeenOpenBrace(blocks)

(* Whether the assembler takes such a line on these blocks.                  *)
Skips(blocks) == blocks # <<>> /\ Last(blocks).asm \notin {"no", "end"}

(* The open conditional at depth d starts at line i.                         *)
OpenAt(i, d) ==
    /\ file[i].pp = "if" /\ Depth(i) = d
    /\ \A k \in i .. (linenum - 1) : Depth(k) >= d

(* The checkpoint of an open conditional tells whether its #if was skipped.  *)
Marked ==
    linenum <= Len(file) + 1 =>
        \A d \in 1 .. Len(pp_stack), i \in 1 .. (linenum - 1) :
            OpenAt(i, d) => (i \in skipped <=> Skips(pp_stack[d].stack_before_if))

(* Closing brackets do nothing to blocks with their braces.                  *)
LEMMA BracketsIgnored ==
  ASSUME NEW start, NEW tokens, NEW n, Len(tokens) \in Nat, AllClosing(tokens),
         Len(tokens) = 0 \/ SeenOpenBrace(start)
  PROVE  AfterTokens(start, tokens, n)[Len(tokens)] = start
<1> DEFINE N == Len(tokens)
<1> DEFINE f == AfterTokens(start, tokens, n)
           g == [i \in 0 .. N |-> start]
           IsRun(h) == h = [i \in 0 .. N |-> IF i = 0 THEN start
                                             ELSE Consume(h[i - 1], tokens[i], n)]
<1>1. ASSUME NEW i \in 1 .. N PROVE Consume(start, tokens[i], n) = start
  <2>1. SeenOpenBrace(start) /\ tokens[i] = ")"
    BY <1>1 DEF AllClosing
  <2> QED
    BY <2>1 DEF Consume
<1>2. IsRun(g)
  <2>1. \A i \in 0 .. N : i = 0 \/ (i \in 1 .. N /\ g[i - 1] = start)
    OBVIOUS
  <2>2. \A i \in 0 .. N : (IF i = 0 THEN start ELSE Consume(g[i - 1], tokens[i], n)) = start
    BY <1>1, <2>1, Zenon
  <2> QED
    BY <2>2
<1>3. f = CHOOSE h : IsRun(h)
  BY DEF AfterTokens
<1>4. IsRun(f)
  <2> HIDE DEF f, g, IsRun
  <2> QED
    BY <1>2, <1>3, Zenon
<1> HIDE DEF f
<1>5. \A i \in 0 .. N : f[i] = IF i = 0 THEN start ELSE Consume(f[i - 1], tokens[i], n)
  BY <1>4, Zenon
<1> HIDE DEF IsRun
<1> DEFINE Good == {i \in 0 .. N : f[i] = start}
<1>6. 0 \in Good
  BY <1>5
<1>7. ASSUME NEW i \in 1 .. N, i - 1 \in Good PROVE i \in Good
  <2>1. f[i] = Consume(f[i - 1], tokens[i], n) /\ f[i - 1] = start /\ i \in 0 .. N
    BY <1>5, <1>7
  <2> QED
    BY <1>1, <2>1
<1>8. N \in Nat
  OBVIOUS
<1> HIDE DEF Good, N
<1>9. N \in Good
  <2>1. \A n2 \in 0 .. N : n2 \in Good
    BY <1>6, <1>7, <1>8, StepByStep
  <2> QED
    BY <1>8, <2>1
<1> QED
  BY <1>9 DEF Good, f, N

(* Counting brackets leaves the braces alone.                                *)
LEMMA BracesStay ==
  ASSUME NEW line \in Line, NEW blocks \in Blocks, SeenOpenBrace(blocks)
  PROVE  SeenOpenBrace(CountParentheses(blocks, line))
<1>1. CASE blocks = <<>>
  BY <1>1, Zenon DEF CountParentheses
<1>2. CASE blocks # <<>>
  <2> DEFINE old == Last(blocks)
             b == [old EXCEPT !.parens = @ + line.parens]
             enters == line.parens # 0 /\ b.parens = 1 /\ line.asm
             asm == CASE b.asm \in {"no", "end"} -> IF enters THEN "inside" ELSE "no"
                      [] b.asm = "inside" /\ b.parens = 0 -> "end"
                      [] OTHER -> b.asm
             c == [b EXCEPT !.asm = asm]
  <2>1. old \in BlockRecord /\ old.open
    BY <1>2, FrontType DEF Blocks, SeenOpenBrace, Last
  <2>2. CountParentheses(blocks, line) = ReplaceTop(blocks, c)
    BY <1>2 DEF CountParentheses
  <2>3. c.open = old.open
    BY <2>1 DEF BlockRecord
  <2> HIDE DEF c, old
  <2>4. Last(ReplaceTop(blocks, c)) = c
    <3>1. Front(blocks) \in Seq(BlockRecord)
      BY <1>2, FrontType DEF Blocks
    <3>2. \A q \in Seq(BlockRecord) : Append(q, c)[Len(Append(q, c))] = c
      OBVIOUS
    <3> QED
      BY <3>1, <3>2, Zenon DEF ReplaceTop, Last
  <2> QED
    BY <2>1, <2>2, <2>3, <2>4, Zenon DEF SeenOpenBrace
<1> QED
  BY <1>1, <1>2

LEMMA PlainLine ==
  ASSUME NEW line \in Line, NEW blocks \in Blocks, NEW n,
         line.parens = 0, line.spaces = <<>>, ~line.class,
         AllClosing(line.tokens),
         line.tokens = <<>> \/ SeenOpenBrace(blocks)
  PROVE  InAsmBlock(ApplyLine(blocks, line, n)) <=> Skips(blocks)
<1> DEFINE counted == CountParentheses(blocks, line)
<1>1. counted \in Blocks
  BY ParenthesesType
<1>2. ApplyLine(blocks, line, n) = counted
  <2> HIDE DEF counted
  <2>1. DeclareScopes(counted, line, n) = counted
    <3>1. [i \in DOMAIN line.spaces |-> Block("namespace", line.spaces[i], "no", n)] = <<>>
      OBVIOUS
    <3>2. counted \o <<>> = counted
      BY <1>1 DEF Blocks
    <3> QED
      BY <3>1, <3>2, Zenon DEF DeclareScopes
  <2>2. line.tokens = <<>> \/ SeenOpenBrace(counted)
    BY BracesStay, Zenon DEF counted
  <2>3. Len(line.tokens) \in Nat /\ (line.tokens = <<>> => Len(line.tokens) = 0)
    <3>1. line.tokens \in Seq({"{", "}", ";", ")", "extern {", "asm {"})
      BY LineParts, Zenon
    <3>2. Len(line.tokens) \in Nat
      BY <3>1, LenType, Zenon
    <3>3. line.tokens = <<>> => Len(line.tokens) = 0
      <4>1. Len(<<>>) = 0
        OBVIOUS
      <4> QED
        BY <4>1, Zenon
    <3> QED
      BY <3>2, <3>3, Zenon
  <2>4. AfterTokens(counted, line.tokens, n)[Len(line.tokens)] = counted
    <3>1. Len(line.tokens) \in Nat /\ (Len(line.tokens) = 0 \/ SeenOpenBrace(counted))
      BY <2>2, <2>3, Zenon
    <3> HIDE DEF counted
    <3> QED
      BY <3>1, BracketsIgnored
  <2> QED
    BY <2>1, <2>4, Zenon DEF ApplyLine, counted
<1>3. CASE blocks = <<>>
  BY <1>2, <1>3, Zenon DEF CountParentheses, InAsmBlock, Skips
<1>4. CASE blocks # <<>>
  <2> DEFINE old == Last(blocks)
             b == [old EXCEPT !.parens = @ + line.parens]
             enters == line.parens # 0 /\ b.parens = 1 /\ line.asm
             asm == CASE b.asm \in {"no", "end"} -> IF enters THEN "inside" ELSE "no"
                      [] b.asm = "inside" /\ b.parens = 0 -> "end"
                      [] OTHER -> b.asm
  <2>1. old \in BlockRecord
    BY <1>4, FrontType DEF Blocks
  <2>2. counted = ReplaceTop(blocks, [b EXCEPT !.asm = asm])
    BY <1>4 DEF CountParentheses
  <2>3. [b EXCEPT !.asm = asm].asm = asm
    BY <2>1 DEF BlockRecord
  <2>4. b.asm = old.asm /\ old.asm \in {"no", "inside", "end", "block"}
    BY <2>1 DEF BlockRecord
  <2>5. asm # "no" <=> old.asm \notin {"no", "end"}
    BY <2>4
  <2> HIDE DEF asm
  <2>6. [b EXCEPT !.asm = asm] \in BlockRecord
    <3>1. asm \in {"no", "inside", "end", "block"}
      BY <2>4 DEF asm
    <3>2. line.parens \in Int
      BY LineParts, Zenon
    <3>3. b \in BlockRecord
      BY <2>1, <3>2 DEF BlockRecord
    <3> HIDE DEF b
    <3> QED
      BY <3>1, <3>3 DEF BlockRecord
  <2> DEFINE c == [b EXCEPT !.asm = asm]
  <2> HIDE DEF b, old, c
  <2>7. c \in BlockRecord /\ c.asm = asm /\ counted = ReplaceTop(blocks, c)
    BY <2>2, <2>3, <2>6 DEF c
  <2> HIDE DEF counted
  <2>8. ReplaceTop(blocks, c) # <<>> /\ Last(ReplaceTop(blocks, c)) = c
    <3>1. /\ Len(ReplaceTop(blocks, c)) = Len(blocks)
          /\ ReplaceTop(blocks, c)[Len(blocks)] = c
      <4>1. blocks \in Seq(BlockRecord)
        BY DEF Blocks
      <4>2. c \in BlockRecord
        BY <2>7
      <4>3. /\ ReplaceTop(blocks, c) \in Seq(BlockRecord)
            /\ Len(ReplaceTop(blocks, c)) = Len(blocks)
            /\ ReplaceTop(blocks, c)[Len(blocks)] = c
            /\ \A i \in 1 .. Len(blocks) - 1 : ReplaceTop(blocks, c)[i] = blocks[i]
        BY <1>4, <4>1, <4>2, ReplaceTopType
      <4> QED
        BY <4>3, Zenon
    <3>2. Len(blocks) # 0 /\ Len(<<>>) = 0
      BY <1>4 DEF Blocks
    <3> QED
      BY <3>1, <3>2, Zenon DEF Last
  <2>9. InAsmBlock(counted) <=> asm # "no"
    BY <2>7, <2>8, Zenon DEF InAsmBlock
  <2> QED
    BY <1>2, <1>4, <2>5, <2>9, Zenon DEF Skips, old
<1> QED
  BY <1>3, <1>4

(* A checkpoint keeps the blocks from before its #if as long as it is there. *)
LEMMA CheckpointsKept ==
  ASSUME NEW pp \in Seq(Checkpoint), NEW blocks \in Blocks, NEW line,
         NEW pps, pps = UpdatePreprocessor(pp, blocks, line).pps
  PROVE  /\ \A d \in 1 .. Len(pp) : d \in 1 .. Len(pps) =>
              pps[d].stack_before_if = pp[d].stack_before_if
         /\ line.pp = "if" => /\ pps[Len(pps)].stack_before_if = blocks
                              /\ UpdatePreprocessor(pp, blocks, line).stack = blocks
         /\ line.pp = "else" /\ pp # <<>> =>
              UpdatePreprocessor(pp, blocks, line).stack = pp[Len(pp)].stack_before_if
<1> DEFINE r == UpdatePreprocessor(pp, blocks, line)
<1>0. Len(pp) \in Nat /\ (pp # <<>> => Len(pp) >= 1)
  OBVIOUS
<1>1. CASE line.pp = "if"
  <2> DEFINE c == Conditional(blocks)
  <2>1. r = [pps |-> Append(pp, c), stack |-> blocks]
    BY <1>1 DEF UpdatePreprocessor
  <2>2. c \in Checkpoint /\ c.stack_before_if = blocks
    BY DEF Conditional, Checkpoint, Blocks
  <2> HIDE DEF c
  <2>3. pps = Append(pp, c) /\ r.stack = blocks
    BY <2>1
  <2>4. /\ Len(pps) = Len(pp) + 1 /\ pps[Len(pp) + 1] = c
        /\ \A d \in 1 .. Len(pp) : pps[d] = pp[d]
    BY <2>2, <2>3, AppendType
  <2>5. line.pp # "else"
    BY <1>1
  <2> QED
    BY <2>2, <2>3, <2>4, <2>5, Zenon DEF r
<1>2. CASE line.pp = "else" /\ pp # <<>>
  <2> DEFINE top == Last(pp)
             c == SeeElse(top, blocks)
  <2>1. r = [pps |-> ReplaceTop(pp, c), stack |-> top.stack_before_if]
    BY <1>2 DEF UpdatePreprocessor
  <2>2. top \in Checkpoint /\ top = pp[Len(pp)]
    BY <1>2, FrontType DEF Last
  <2> HIDE DEF top
  <2>3. c \in Checkpoint /\ c.stack_before_if = top.stack_before_if
    BY <2>2 DEF SeeElse, Checkpoint
  <2> HIDE DEF c
  <2>4. pps = ReplaceTop(pp, c) /\ r.stack = top.stack_before_if
    BY <2>1
  <2>5. /\ Len(pps) = Len(pp) /\ pps[Len(pp)] = c
        /\ \A d \in 1 .. Len(pp) - 1 : pps[d] = pp[d]
    <3>1. c \in Checkpoint /\ pp # <<>>
      BY <1>2, <2>3, Zenon
    <3>2. /\ ReplaceTop(pp, c) \in Seq(Checkpoint)
          /\ Len(ReplaceTop(pp, c)) = Len(pp)
          /\ ReplaceTop(pp, c)[Len(pp)] = c
          /\ \A d \in 1 .. Len(pp) - 1 : ReplaceTop(pp, c)[d] = pp[d]
      BY <3>1, ReplaceTopType
    <3> QED
      BY <2>4, <3>2, Zenon
  <2>6. \A d \in 1 .. Len(pp) : d \in 1 .. Len(pp) - 1 \/ d = Len(pp)
    BY <1>0
  <2>7. line.pp # "if"
    BY <1>2
  <2> QED
    BY <2>2, <2>3, <2>4, <2>5, <2>6, <2>7, Zenon DEF r
<1>3. CASE line.pp = "endif" /\ pp # <<>>
  <2>1. pps = Front(pp)
    BY <1>3 DEF UpdatePreprocessor
  <2>2. Len(pps) = Len(pp) - 1 /\ \A d \in 1 .. Len(pp) - 1 : pps[d] = pp[d]
    BY <1>3, <2>1, FrontType
  <2>3. \A d \in 1 .. Len(pp) : d \in 1 .. Len(pps) => d \in 1 .. Len(pp) - 1
    BY <2>2
  <2>4. line.pp # "if" /\ line.pp # "else"
    BY <1>3
  <2> QED
    BY <2>2, <2>3, <2>4, Zenon
<1>4. CASE ~(line.pp = "if") /\ ~(line.pp = "else" /\ pp # <<>>)
           /\ ~(line.pp = "endif" /\ pp # <<>>)
  <2>1. pps = pp
    BY <1>4 DEF UpdatePreprocessor
  <2> QED
    BY <1>4, <2>1, Zenon
<1> QED
  BY <1>1, <1>2, <1>3, <1>4, Zenon

LEMMA InitMarked == Init => Marked /\ AssemblyWhole
<1> SUFFICES ASSUME Init PROVE Marked /\ AssemblyWhole
  OBVIOUS
<1>1. pp_stack = <<>> /\ linenum = 1 /\ file \in Files
  BY Zenon DEF Init
<1>2. Seen = {}
  <2>1. Len(file) \in Nat /\ DOMAIN file = 1 .. Len(file)
    BY <1>1, FileType, Zenon
  <2> QED
    BY <1>1, <2>1 DEF Seen
<1>3. 1 .. Len(pp_stack) = {}
  BY <1>1
<1> QED
  BY <1>2, <1>3, Zenon DEF Marked, AssemblyWhole

(* A directive without anything else on it is skipped when the blocks it     *)
(* goes on with are the assembler's.                                         *)
LEMMA DirectiveSkipped ==
  ASSUME PlainDirective, Types, LineStep, NEW n, n = linenum,
         file[n].pp \in {"if", "else"}
  PROVE  n \in skipped' <=> Skips(UpdatePreprocessor(pp_stack, stack, file[n]).stack)
<1> DEFINE line == file[n]
           blocks == UpdatePreprocessor(pp_stack, stack, line).stack
<1>1. n \in 1 .. Len(file) /\ file \in Files /\ DOMAIN file = 1 .. Len(file)
  BY FileFacts, Zenon DEF LineStep
<1>2. line \in Line
  BY <1>1, FileType, Zenon
<1>3. /\ line.parens = 0 /\ line.spaces = <<>> /\ ~line.class
      /\ AllClosing(line.tokens)
      /\ line.tokens = <<>> \/ SeenOpenBrace(blocks)
  <2>1. linenum <= Len(file)
    <3>1. Len(file) \in Nat
      BY FileFacts, Zenon
    <3> QED
      BY <1>1, <3>1
  <2> QED
    BY <2>1, Zenon DEF PlainDirective
<1>4. blocks \in Blocks
  BY PreprocessorType, Zenon DEF Types
<1>5. stack' = ApplyLine(blocks, line, n)
  BY Zenon DEF LineStep, Nest
<1>6. n \notin skipped
  <2>1. linenum \in Nat
    BY FileFacts, Zenon
  <2>2. ~(linenum < linenum)
    BY <2>1
  <2> QED
    BY <2>2, Zenon DEF Types
<1>7. n \in skipped' <=> InAsmBlock(stack')
  BY <1>6, Zenon DEF LineStep, AsmLine, IncludeLine, CodeLine
<1> HIDE DEF line, blocks
<1>8. InAsmBlock(ApplyLine(blocks, line, n)) <=> Skips(blocks)
  BY <1>2, <1>3, <1>4, PlainLine, Zenon
<1> QED
  BY <1>5, <1>7, <1>8, Zenon DEF line, blocks

(* The checkpoints are as many as the open conditionals.                     *)
LEMMA DepthIsLen ==
  ASSUME Types, Branches, linenum <= Len(file) + 1
  PROVE  Len(pp_stack) = Depth(linenum - 1)
BY Zenon DEF Branches, Aligned, OpenNow, Depth

LEMMA StepMarked ==
  PlainDirective /\ Types /\ Branches /\ Marked /\ AssemblyWhole /\ [Next]_vars
    => Marked' /\ AssemblyWhole'
<1> SUFFICES ASSUME PlainDirective, Types, Branches, Marked, AssemblyWhole, [Next]_vars
             PROVE  Marked' /\ AssemblyWhole'
  OBVIOUS
<1>1. CASE LineStep
  <2> SUFFICES ASSUME NEW n, n = linenum PROVE Marked' /\ AssemblyWhole'
    OBVIOUS
  <2> DEFINE line == file[n]
             r == UpdatePreprocessor(pp_stack, stack, line)
  <2>1. /\ n \in 1 .. Len(file) /\ linenum' = n + 1 /\ file' = file /\ pp_stack' = r.pps
    BY <1>1, NestType, Zenon DEF LineStep, Nest
  <2>2. Len(file) \in Nat /\ file \in Files /\ DOMAIN file = 1 .. Len(file)
    BY FileFacts, Zenon
  <2>3. n <= Len(file) + 1 /\ n + 1 <= Len(file) + 1 /\ (n + 1) - 1 = n
    BY <2>1, <2>2
  <2>4. \A k : Depth(k)' = Depth(k)
    BY <2>1, Zenon DEF Depth
  <2>5. Len(pp_stack) = Depth(n - 1)
    BY <2>3, DepthIsLen, Zenon
  <2>6. Len(pp_stack') = Depth(n)
    <3>1. Types' /\ Branches'
      BY StepTypes, StepBranches, Zenon
    <3>2. Len(pp_stack') = Len(Conditionals(file')[linenum' - 1])
      BY <2>1, <2>3, <3>1, Zenon DEF Branches, Aligned, OpenNow
    <3> QED
      BY <2>1, <2>3, <3>2, Zenon DEF Depth
  <2>7. /\ \A d \in 1 .. Len(pp_stack) : d \in 1 .. Len(pp_stack') =>
              pp_stack'[d].stack_before_if = pp_stack[d].stack_before_if
        /\ line.pp = "if" => /\ pp_stack'[Len(pp_stack')].stack_before_if = stack
                             /\ r.stack = stack
        /\ line.pp = "else" /\ pp_stack # <<>> =>
              r.stack = pp_stack[Len(pp_stack)].stack_before_if
    <3> DEFINE pps == pp_stack'
    <3>1. pp_stack \in Seq(Checkpoint) /\ stack \in Blocks
      BY Zenon DEF Types
    <3> HIDE DEF r, line
    <3>2. pps = UpdatePreprocessor(pp_stack, stack, line).pps
      BY <2>1, Zenon DEF r
    <3> HIDE DEF pps
    <3>3. /\ \A d \in 1 .. Len(pp_stack) : d \in 1 .. Len(pps) =>
              pps[d].stack_before_if = pp_stack[d].stack_before_if
          /\ line.pp = "if" => /\ pps[Len(pps)].stack_before_if = stack
                               /\ UpdatePreprocessor(pp_stack, stack, line).stack = stack
          /\ line.pp = "else" /\ pp_stack # <<>> =>
              UpdatePreprocessor(pp_stack, stack, line).stack
                = pp_stack[Len(pp_stack)].stack_before_if
      BY <3>1, <3>2, CheckpointsKept
    <3> QED
      BY <3>3, Zenon DEF r, pps
  <2>8. line.pp \in {"if", "else"} => (n \in skipped' <=> Skips(r.stack))
    BY <1>1, DirectiveSkipped, Zenon
  <2>9. \A k \in 1 .. (n - 1) : k \in skipped' <=> k \in skipped
    <3>1. \A k \in 1 .. (n - 1) : k \in Int /\ k < linenum
      BY <2>1
    <3> QED
      BY <1>1, <3>1, SkippedStep, Zenon
  <2>10. /\ \A k \in 0 .. Len(file) : Depth(k) \in Nat
         /\ \A k \in 1 .. Len(file) :
              /\ Depth(k) > Depth(k - 1) <=> file[k].pp = "if"
              /\ file[k].pp = "else" => Depth(k) = Depth(k - 1)
    BY <2>2, DepthFacts, Zenon
  <2> HIDE DEF line, r
  <2>11. n - 1 \in 0 .. Len(file) /\ n \in 0 .. Len(file)
    BY <2>1, <2>2
  \* an open conditional that started above is found at its checkpoint
  <2>12. ASSUME NEW i \in 1 .. (n - 1), NEW d \in Nat, file[i].pp = "if", Depth(i) = d,
                \A k \in i .. (n - 1) : Depth(k) >= d
         PROVE  /\ d \in 1 .. Len(pp_stack)
                /\ i \in skipped <=> Skips(pp_stack[d].stack_before_if)
    <3>1. i \in 1 .. Len(file) /\ i - 1 \in 0 .. Len(file) /\ n - 1 \in i .. (n - 1)
      BY <2>1, <2>2
    <3>2. Depth(i) > Depth(i - 1) /\ Depth(i - 1) \in Nat /\ Depth(n - 1) \in Nat
      BY <2>10, <2>11, <2>12, <3>1, Zenon
    <3>3. Depth(n - 1) >= d
      BY <2>12, <3>1, Zenon
    <3>4. d \in 1 .. Len(pp_stack)
      BY <2>5, <2>12, <3>2, <3>3
    <3>5. OpenAt(i, d)
      BY <2>12, Zenon DEF OpenAt
    <3> QED
      BY <2>3, <3>4, <3>5, Zenon DEF Marked
  <2>13. Marked'
    <3> SUFFICES ASSUME NEW d \in 1 .. Len(pp_stack'), NEW i \in 1 .. n, OpenAt(i, d)'
                 PROVE  i \in skipped' <=> Skips(pp_stack'[d].stack_before_if)
      BY <2>1, <2>3, Zenon DEF Marked
    <3>1. /\ file[i].pp = "if" /\ Depth(i) = d
          /\ \A k \in i .. n : Depth(k) >= d
      BY <2>1, <2>3, <2>4, Zenon DEF OpenAt
    <3>2. CASE i = n
      BY <2>6, <2>7, <2>8, <3>1, <3>2 DEF line
    <3>3. CASE i # n
      <4>1. i \in 1 .. (n - 1) /\ d \in Nat
        BY <2>1, <2>2, <3>3
      <4>2. \A k \in i .. (n - 1) : k \in i .. n
        BY <2>1, <2>2
      <4>3. d \in 1 .. Len(pp_stack) /\ (i \in skipped <=> Skips(pp_stack[d].stack_before_if))
        BY <2>12, <3>1, <4>1, <4>2, Zenon
      <4> QED
        BY <2>7, <2>9, <4>1, <4>3, Zenon
    <3> QED
      BY <3>2, <3>3
  <2>14. AssemblyWhole'
    <3> SUFFICES ASSUME NEW m \in Seen', m \notin skipped', file[m].pp = "else",
                        NEW i \in 1 .. (m - 1), OwnIf(i, m)'
                 PROVE  i \notin skipped'
      BY <2>1, Zenon DEF AssemblyWhole
    <3>1. OwnIf(i, m)
      BY <2>1, <2>4, Zenon DEF OwnIf
    <3>2. m \in 1 .. n
      BY <2>1, <2>2 DEF Seen
    <3>3. i \in 1 .. (n - 1)
      BY <2>1, <2>2, <3>2
    <3>4. CASE m = n
      <4>1. /\ file[i].pp = "if" /\ Depth(i) = Depth(n)
            /\ \A k \in i .. n : Depth(k) >= Depth(n)
        BY <3>1, <3>4, Zenon DEF OwnIf
      <4>2. \A k \in i .. (n - 1) : k \in i .. n
        BY <2>1, <2>2
      <4>3. Depth(n) \in Nat
        BY <2>10, <2>11, Zenon
      <4>4. /\ Depth(n) \in 1 .. Len(pp_stack)
            /\ i \in skipped <=> Skips(pp_stack[Depth(n)].stack_before_if)
        BY <2>12, <3>3, <4>1, <4>2, <4>3, Zenon
      <4>6. pp_stack # <<>>
        BY <4>4
      <4>9. Len(pp_stack) = Depth(n)
        BY <2>1, <2>5, <2>10, <3>4, Zenon
      <4>10. ~Skips(r.stack)
        BY <2>8, <3>4, Zenon DEF line
      <4> QED
        BY <2>7, <2>9, <3>3, <3>4, <4>4, <4>6, <4>9, <4>10, Zenon DEF line
    <3>5. CASE m # n
      <4>1. m \in Seen /\ m \in 1 .. (n - 1)
        BY <2>1, <2>2, <3>2, <3>5 DEF Seen
      <4>2. m \notin skipped
        BY <2>9, <4>1, Zenon
      <4>3. i \notin skipped
        BY <3>1, <4>1, <4>2, Zenon DEF AssemblyWhole
      <4> QED
        BY <2>9, <3>3, <4>3, Zenon
    <3> QED
      BY <3>4, <3>5
  <2> QED
    BY <2>13, <2>14
<1>2. CASE EndStep
  <2>1. /\ linenum = Len(file) + 1 /\ linenum' = linenum + 1 /\ file' = file /\ skipped' = skipped
    BY <1>2, Zenon DEF EndStep
  <2>2. Len(file) \in Nat /\ DOMAIN file = 1 .. Len(file)
    BY FileFacts, Zenon
  <2>3. ~(linenum' <= Len(file') + 1)
    BY <2>1, <2>2
  <2>4. Seen' = Seen
    <3>1. \A k \in DOMAIN file : k < Len(file) + 1 /\ k < Len(file) + 1 + 1
      BY <2>2
    <3>2. Seen' = {k \in DOMAIN file : k < Len(file) + 1 + 1}
      BY <2>1, Zenon DEF Seen
    <3>3. Seen = {k \in DOMAIN file : k < Len(file) + 1}
      BY <2>1, Zenon DEF Seen
    <3> QED
      BY <3>1, <3>2, <3>3
  <2> QED
    BY <2>1, <2>3, <2>4, Zenon DEF Marked, AssemblyWhole, OwnIf, Depth
<1>3. CASE UNCHANGED vars
  <2>1. /\ linenum' = linenum /\ file' = file /\ skipped' = skipped /\ pp_stack' = pp_stack
    BY <1>3, Zenon DEF vars, nestVars
  <2>2. Seen' = Seen
    BY <2>1, Zenon DEF Seen
  <2> QED
    BY <2>1, <2>2, Zenon DEF Marked, OpenAt, AssemblyWhole, OwnIf, Depth
<1> QED
  BY <1>1, <1>2, <1>3, Steps, Zenon

(* IncludesRemembered, inline assembly or not, for a file in which each      *)
(* #if, #else and #elif that is read declares no scope, closes its brackets, *)
(* and has none between the head of a class or namespace and its brace.      *)
THEOREM PlainHeadersRemembered == Spec /\ []PlainDirective => []IncludesRemembered
<1>1. Headers /\ AssemblyWhole => IncludesRemembered
  BY Zenon DEF Headers, IncludesRemembered, Remembered
<1>2. PlainDirective /\ Types /\ Branches /\ Marked /\ AssemblyWhole /\ [Next]_vars
        => Marked' /\ AssemblyWhole'
  BY StepMarked
<1> QED
  BY <1>1, <1>2, InitTypes, StepTypes, InitBranches, StepBranches, InitMarked,
     InitHeaders, StepHeaders, PTL DEF Spec
=============================================================================
