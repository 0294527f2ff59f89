--------------------------- MODULE MCLintFiles ---------------------------
(* Four files in nested directories, one of which may be named twice, every *)
(* combination of a few CPPLINT.cfg files, and a few command lines.         *)
EXTENDS LintFiles, TLC

Finding(category, confidence, width, nolint) ==
    [category |-> category, confidence |-> confidence, width |-> width, nolint |-> nolint]
Alpha == Finding(<<"build", "include_alpha">>, 4, 0, FALSE)
Include == Finding(<<"build", "include">>, 4, 0, FALSE)
Quiet == Finding(<<"build", "include">>, 4, 0, TRUE)
Weak == Finding(<<"whitespace", "newline">>, 1, 0, FALSE)
Long == Finding(<<"whitespace", "line_length">>, 2, 100, FALSE)

File(path, time, ext, readable, items) ==
    [path |-> path, time |-> time, ext |-> ext, readable |-> readable, items |-> items]

MCWord == STRING

WItems == <<Weak, Quiet, Include, Alpha, Long>>
MCTree ==
    <<File(<<"a", "b", "x">>, 1, "cc", TRUE, <<Include, Alpha, Long>>),
      File(<<"a", "b", "y">>, 1, "cc", FALSE, <<Include>>),
      File(<<"a", "z">>, 1, "inc", TRUE, <<Include>>),
      File(<<"w">>, 1, "cc", TRUE, WItems),
      File(<<"w">>, 2, "cc", TRUE, WItems)>>

Set(name, val) == [f \in {"name", name} |-> IF f = "name" THEN name ELSE val]
F(sign, pattern) == [sign |-> sign, pattern |-> pattern]
FilterLine(val) == Set("filter", val)
NoParent == [name |-> "set noparent"]
Invalid == [name |-> "invalid"]

Outer == {<<>>, <<FilterLine(<<F("-", <<"build">>)>>)>>,
          <<Set("linelength", 120), Set("filematch", "x")>>,
          <<Set("exclude_files", {"a"})>>,
          <<Set("root", <<"a">>), Set("includeorder", "standardcfirst")>>,
          <<Invalid>>}
Middle == {<<>>, <<NoParent, FilterLine(<<F("+", <<"build", "include_alpha">>)>>)>>,
           <<FilterLine(<<F("+", <<"build", "include">>)>>), FilterLine(<<F("-", <<>>)>>)>>,
           <<Set("exclude_files", {"b", "q"}), Set("linelength", 110)>>,
           <<Set("extensions", {"inc"})>>}
Inner == {<<>>, <<FilterLine(<<F("+", <<"build">>), F("-", <<"build", "include">>)>>)>>,
          <<Set("linelength", 90)>>, <<[name |-> "unreadable"]>>,
          <<FilterLine(<<F("", <<"build">>)>>)>>,
          <<Set("headers", {"cc"}), Set("exclude_files", {"x"})>>}

MCConfigs ==
    {(<<>> :> o) @@ (<<"a">> :> m) @@ (<<"a", "b">> :> i) :
        o \in Outer, m \in Middle, i \in Inner}

Args(names, excludes, recursive, fs, st, counting, quiet) ==
    [names |-> names, excludes |-> excludes, recursive |-> recursive, filters |-> fs,
     settings |-> st, verbose |-> IF quiet THEN 1 ELSE 2, counting |-> counting,
     quiet |-> quiet]

Once(names) == SetToBag(names)
All == Once({MCTree[i].path : i \in DOMAIN MCTree})
Inc == [DefaultSettings EXCEPT !.linelength = 100, !.extensions = {"inc", "cc"}]
MCArguments ==
    {Args(Once({<<"a">>, <<"w">>}) (+) Once({<<"w">>}), {}, TRUE, <<>>, DefaultSettings,
          "toplevel", FALSE),
     Args(All, {<<"a", "z">>}, FALSE, <<F("-", <<>>), F("+", <<"build">>)>>, DefaultSettings,
          "detailed", TRUE),
     Args(Once({<<"a", "b", "x">>, <<"w">>}), {<<"a", "b">>}, FALSE, <<>>, DefaultSettings,
          "total", TRUE),
     Args(All (+) Once({<<"w">>}), {}, FALSE, <<F("+", <<"build", "include_alpha">>)>>, Inc,
          "detailed", FALSE),
     Args(All, {}, FALSE, <<F("", <<"build">>)>>, DefaultSettings, "total", FALSE)}
=============================================================================
