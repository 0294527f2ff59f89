--------------------------- MODULE MCLintText ---------------------------
(* Files of a few lines over small alphabets: raw strings, quotes,         *)
(* comments over several lines, and brackets.                              *)
EXTENDS LintText

LinesOver(tokens, n) == UNION {[1 .. k -> tokens] : k \in 0 .. n}
FilesOver(ls, n) == [1 .. n -> ls]

Raw == LinesOver({"x", "R(", "Rd(", ")R", ")Rd", "//"}, 3)
Quoted == LinesOver({"x", "\"", "'", "//", "esc"}, 6)
Commented == {<<"/*">>, <<"/*", "x">>, <<"*/">>, <<"x", "*/">>, <<"/*", "x", "*/">>,
              <<"x">>, <<>>, <<"x", ")R">>, <<"R(", "x">>}
Bracketed == LinesOver({"(", ")", "[", "]", "<", ">", ";", "-"}, 3)

MCTexts ==
    FilesOver(Raw, 2) \cup FilesOver(Quoted, 1) \cup FilesOver(Commented, 4)
      \cup FilesOver({b \in Bracketed : Len(b) > 0 => b[1] \notin {")", "]"}}, 2)
=============================================================================
