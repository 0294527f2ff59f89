--------------------------- MODULE MCLintLines ---------------------------
(* Files over eight small alphabets, one for each thing that is tracked    *)
(* from line to line, with the directives in those they interact with.     *)
EXTENDS LintLines

Blank == [pp |-> "", include |-> NoHeader, parens |-> 0, asm |-> FALSE,
         spaces |-> <<>>, class |-> FALSE, tokens |-> <<>>, forward |-> FALSE,
         indented |-> FALSE,
         text |-> "code", nolint |-> "none", nextLine |-> FALSE]

Directives == {[Blank EXCEPT !.pp = d, !.text = "code"] : d \in {"if", "else", "endif"}}
WithTokens(t) == [Blank EXCEPT !.tokens = t]
IncludeOf(name, type, kind) ==
    [Blank EXCEPT !.include = [name |-> name, type |-> type, kind |-> kind]]
Include(name, type) == IncludeOf(name, type, "checked")
Nolint(line, category, next) == [line EXCEPT !.nolint = category, !.nextLine = next]

FilesOver(lines, n) == [1..n -> lines]

Class == [Blank EXCEPT !.class = TRUE]
Namespace == [Blank EXCEPT !.spaces = <<TRUE>>]

Braces == Directives \cup {Class, WithTokens(<<"{">>), WithTokens(<<"}">>)}
Scopes ==
    {Class, [Class EXCEPT !.tokens = <<";">>, !.forward = TRUE, !.indented = TRUE],
     [Blank EXCEPT !.spaces = <<TRUE, FALSE>>, !.indented = TRUE],
     [Namespace EXCEPT !.class = TRUE, !.tokens = <<"{">>],
     [Blank EXCEPT !.parens = -1, !.tokens = <<")">>],
     WithTokens(<<"extern {">>), WithTokens(<<"}">>)}
Assembly ==
    {WithTokens(<<"{">>), WithTokens(<<"}">>), WithTokens(<<"asm {">>),
     [Blank EXCEPT !.parens = 1, !.asm = TRUE],
     [Blank EXCEPT !.parens = -1, !.tokens = <<")">>],
     Include(1, "c"), [Blank EXCEPT !.pp = "if"], [Blank EXCEPT !.pp = "else"]}
Includes == Directives \cup {Include(1, "c"), Include(2, "othersys")}
Unkept ==
    {Include(1, "c"), IncludeOf(2, "othersys", "thirdParty"), IncludeOf(3, "other", "foreign"),
     Include(4, "cpp"), [Blank EXCEPT !.pp = "if"], [Blank EXCEPT !.pp = "else"]}
Orders ==
    {Include(1, "c"), Include(2, "cpp"), Include(3, "othersys"),
     Include(4, "likely"), Include(5, "possible"), Include(6, "other"),
     [Blank EXCEPT !.pp = "endif"]}
Functions ==
    {Blank, [Blank EXCEPT !.text = "start", !.tokens = <<"{">>],
     [Blank EXCEPT !.text = "start"], [Blank EXCEPT !.text = "start", !.tokens = <<";">>],
     [Blank EXCEPT !.text = "end", !.tokens = <<"}">>],
     [Blank EXCEPT !.text = "blank"]}
Comments ==
    {Class, Include(1, "c"), Nolint(Class, "build/class", FALSE),
     Nolint(Blank, "*", TRUE), Nolint(Include(1, "c"), "build/include", FALSE),
     Nolint(Blank, "unknown", FALSE), Nolint(Include(2, "c"), "unknown", FALSE), Nolint(Blank, "build/include", TRUE)}

MCFiles ==
    FilesOver(Braces, 6) \cup FilesOver(Scopes, 4) \cup FilesOver(Assembly, 4)
      \cup FilesOver(Includes, 6) \cup FilesOver(Unkept, 4) \cup FilesOver(Orders, 4) \cup FilesOver(Functions, 5)
      \cup FilesOver(Comments, 4)
=============================================================================
