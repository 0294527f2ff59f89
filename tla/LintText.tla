--------------------------- MODULE LintText ---------------------------
(***************************************************************************)
(* How cpplint.py gets from the lines of a file to the "elided" lines its  *)
(* checks look at: comments over several lines are cleared, then raw       *)
(* strings, then on each line the other strings and the comments; and how  *)
(* it finds the bracket that closes or opens an expression in them.        *)
(*                                                                         *)
(* A line is a sequence of tokens: "/*", "*/", "//", the two quotes, "esc" *)
(* for an escape sequence, "R(" and "Rd(" for the start of a raw string    *)
(* without and with a delimiter, ")R" and ")Rd" for its end, "str" for an  *)
(* empty string, brackets, ";", "-", and other text.  White space,         *)
(* include lines, digit separators and operator functions are left out.    *)
(***************************************************************************)
EXTENDS Integers, Sequences, FiniteSets, SequencesExt

CONSTANT Texts      \* the files: sequences of lines

VARIABLES
    text,           \* the file, as it is read
    lines,          \* raw_lines: comments over several lines get cleared
    phase, lineix,
    delimiter,      \* the end of the raw string that is open, or NoDelimiter
    kept, rest,     \* of the current line: what is done, what is still to scan
    clean,          \* lines_without_raw_strings, as far as it is computed
    unclosed        \* the line of a comment that has no end, 0 if none

vars == <<text, lines, phase, lineix, delimiter, kept, rest, clean, unclosed>>

NoDelimiter == ""
Cleared == <<"/*", "*/">>

Init ==
    /\ text \in Texts
    /\ lines = text
    /\ phase = "comments" /\ lineix = 1
    /\ delimiter = NoDelimiter
    /\ kept = <<>> /\ rest = <<>> /\ clean = <<>>
    /\ unclosed = 0

-----------------------------------------------------------------------------
(* RemoveMultiLineComments                                                 *)

First(S) == CHOOSE i \in S : \A j \in S : i <= j
Find(line, token) == {i \in DOMAIN line : line[i] = token}

Starts(line) == line # <<>> /\ line[1] = "/*" /\ Find(line, "*/") = {}
Ends(line) == line # <<>> /\ Last(line) = "*/"

StartsFrom(n) == {i \in n .. Len(lines) : Starts(lines[i])}
EndsFrom(n) == {i \in n .. Len(lines) : Ends(lines[i])}

ClearedFrom(begin, end) ==
    [i \in DOMAIN lines |-> IF i \in begin .. end THEN Cleared ELSE lines[i]]

StartRawStrings ==
    /\ phase' = "raw"
    /\ lineix' = 1
    /\ rest' = IF lines' = <<>> THEN <<>> ELSE lines'[1]

RemoveComment ==
    /\ phase = "comments"
    /\ StartsFrom(lineix) # {}
    /\ LET begin == First(StartsFrom(lineix)) IN
       /\ EndsFrom(begin) # {}
       /\ lines' = ClearedFrom(begin, First(EndsFrom(begin)))
       /\ lineix' = First(EndsFrom(begin)) + 1
    /\ UNCHANGED <<text, phase, delimiter, kept, rest, clean, unclosed>>

(* The file is taken as it is when a comment has no end.                   *)
CommentUnclosed ==
    /\ phase = "comments"
    /\ StartsFrom(lineix) # {}
    /\ EndsFrom(First(StartsFrom(lineix))) = {}
    /\ unclosed' = First(StartsFrom(lineix))
    /\ UNCHANGED lines
    /\ StartRawStrings
    /\ UNCHANGED <<text, delimiter, kept, clean>>

CommentsDone ==
    /\ phase = "comments"
    /\ StartsFrom(lineix) = {}
    /\ UNCHANGED lines
    /\ StartRawStrings
    /\ UNCHANGED <<text, delimiter, kept, clean, unclosed>>

-----------------------------------------------------------------------------
(* CleanseRawStrings                                                       *)

EndOf(start) == IF start = "R(" THEN ")R" ELSE ")Rd"

NextLine(line) ==
    /\ clean' = Append(clean, line)
    /\ lineix' = lineix + 1
    /\ kept' = <<>>
    /\ rest' = IF lineix < Len(lines) THEN lines[lineix + 1] ELSE <<>>

(* Inside a raw string: the line up to its end becomes an empty string.    *)
InsideRawString ==
    /\ phase = "raw" /\ lineix <= Len(lines)
    /\ delimiter # NoDelimiter
    /\ IF Find(rest, delimiter) = {}
       THEN NextLine(<<"str">>) /\ UNCHANGED delimiter
       ELSE /\ kept' = <<"str">>
            /\ rest' = SubSeq(rest, First(Find(rest, delimiter)) + 1, Len(rest))
            /\ delimiter' = NoDelimiter
            /\ UNCHANGED <<clean, lineix>>
    /\ UNCHANGED <<text, lines, phase, unclosed>>

(* The start of a raw string counts, unless a comment is before it that is *)
(* not itself in a string.                                                 *)
RawStarts(line) == Find(line, "R(") \cup Find(line, "Rd(")
InComment(prefix) ==
    LET quote(open, t) == IF open = "" /\ t \in {"\"", "'"} THEN t
                          ELSE IF open = t THEN "" ELSE open
    IN  \E i \in Find(prefix, "//") :
            FoldLeft(quote, "", SubSeq(prefix, 1, i - 1)) = ""

Opens(line) ==
    RawStarts(line) # {} /\ ~InComment(kept \o SubSeq(line, 1, First(RawStarts(line)) - 1))

RawString ==
    /\ phase = "raw" /\ lineix <= Len(lines)
    /\ delimiter = NoDelimiter
    /\ Opens(rest)
    /\ LET start == First(RawStarts(rest))
           end == {i \in Find(rest, EndOf(rest[start])) : i > start}
           before == Append(kept \o SubSeq(rest, 1, start - 1), "str")
       IN  IF end # {}
           THEN /\ kept' = before
                /\ rest' = SubSeq(rest, First(end) + 1, Len(rest))
                /\ UNCHANGED <<clean, lineix, delimiter>>
           ELSE NextLine(before) /\ delimiter' = EndOf(rest[start])
    /\ UNCHANGED <<text, lines, phase, unclosed>>

PlainRest ==
    /\ phase = "raw" /\ lineix <= Len(lines)
    /\ delimiter = NoDelimiter
    /\ ~Opens(rest)
    /\ NextLine(kept \o rest)
    /\ UNCHANGED <<text, lines, phase, delimiter, unclosed>>

Done ==
    /\ phase = "raw" /\ lineix > Len(lines)
    /\ phase' = "done"
    /\ UNCHANGED <<text, lines, lineix, delimiter, kept, rest, clean, unclosed>>

Next ==
    \/ RemoveComment \/ CommentUnclosed \/ CommentsDone
    \/ InsideRawString \/ RawString \/ PlainRest
    \/ Done
Spec == Init /\ [][Next]_vars

-----------------------------------------------------------------------------
(* CleansedLines: the elided lines.                                        *)

(* Each quote goes with the next one of its kind; when there is none, the  *)
(* rest of the line stays as it is.                                        *)
RECURSIVE Collapse(_)
Collapse(line) ==
    LET quotes == Find(line, "\"") \cup Find(line, "'") IN
    IF quotes = {} THEN line
    ELSE LET q == First(quotes)
             closing == {i \in Find(line, line[q]) : i > q}
         IN  IF closing = {} THEN line
             ELSE SubSeq(line, 1, q - 1) \o <<"str">>
                    \o Collapse(SubSeq(line, First(closing) + 1, Len(line)))

_CollapseStrings(line) == Collapse(SelectSeq(line, LAMBDA t : t # "esc"))

IsCppString(line) ==
    LET character == {i \in DOMAIN line :
                        i + 2 <= Len(line) /\ SubSeq(line, i, i + 2) = <<"'", "\"", "'">>}
    IN  (Cardinality(Find(line, "\"")) - Cardinality(character)) % 2 = 1

(* A comment within one line is removed from its start to its first end.   *)
RECURSIVE WithoutComments(_)
WithoutComments(line) ==
    LET complete == {i \in Find(line, "/*") : \E j \in Find(line, "*/") : j > i} IN
    IF complete = {} THEN line
    ELSE LET i == First(complete)
             j == First({k \in Find(line, "*/") : k > i})
         IN  SubSeq(line, 1, i - 1) \o WithoutComments(SubSeq(line, j + 1, Len(line)))

CleanseComments(line) ==
    LET comment == Find(line, "//") IN
    WithoutComments(
        IF comment # {} /\ ~IsCppString(SubSeq(line, 1, First(comment) - 1))
        THEN SubSeq(line, 1, First(comment) - 1)
        ELSE line)

\* Mutant of Elided: comments go first, those inside a string too.
CommentsFirst == [i \in DOMAIN clean |-> _CollapseStrings(CleanseComments(clean[i]))]

Elided == [i \in DOMAIN clean |-> CleanseComments(_CollapseStrings(clean[i]))]

-----------------------------------------------------------------------------
(* CloseExpression and ReverseCloseExpression.  A position is a line and   *)
(* an index; the scans go from position to position.                       *)

None == <<0, 0>>
Positions(file) ==
    FlattenSeq([n \in DOMAIN file |-> [i \in DOMAIN file[n] |-> <<n, i>>]])
At(file, p) == file[p[1]][p[2]]
Before(file, p) == IF p[2] > 1 THEN file[p[1]][p[2] - 1] ELSE ""

Closing == [x \in {"(", "[", "{"} |-> CASE x = "(" -> ")" [] x = "[" -> "]" [] OTHER -> "}"]

\* Mutant of Unless: only one pending angle bracket is dropped.
UnlessOnce(stack, angle) ==
    IF stack # <<>> /\ Last(stack) = angle THEN Front(stack) ELSE stack

(* Pending angle brackets were operators after all.                        *)
Unless(stack, angle) ==
    SubSeq(stack, 1, Max({0} \cup {i \in DOMAIN stack : stack[i] # angle}))

(* How a scan goes on: with a stack, or with its result.                   *)
Scanning(stack) == [stack |-> stack, done |-> FALSE, at |-> None, skip |-> FALSE]
Found(p) == [stack |-> <<>>, done |-> TRUE, at |-> p, skip |-> FALSE]
Lost == Found(None)
Pop(stack, p) == IF Len(stack) = 1 THEN Found(p) ELSE Scanning(Front(stack))

FindEndOfExpression(file, stack, p) ==
    LET t == At(file, p)
        strict == Unless(stack, "<")
    IN  CASE t \in DOMAIN Closing -> Scanning(Append(stack, t))
          [] t = "<" /\ Before(file, p) # "<" -> Scanning(Append(stack, "<"))
          [] t = "<" /\ Before(file, p) = "<" ->
                IF stack # <<>> /\ Last(stack) = "<" THEN Pop(stack, None)
                ELSE Scanning(stack)
          [] t \in Range(Closing) ->
                IF strict # <<>> /\ Closing[Last(strict)] = t THEN Pop(strict, p) ELSE Lost
          [] t = ">" ->
                IF Before(file, p) # "-" /\ stack # <<>> /\ Last(stack) = "<"
                THEN Pop(stack, p) ELSE Scanning(stack)
          [] t = ";" -> IF strict = <<>> THEN Lost ELSE Scanning(strict)
          [] OTHER -> Scanning(stack)

(* A line other than the first is only looked at with something open.      *)
Continues(acc, p, start) == ~acc.done /\ (p[1] = start[1] \/ acc.stack # <<>>)

CloseExpression(file, start) ==
    LET step(acc, p) ==
          IF Continues(acc, p, start) THEN FindEndOfExpression(file, acc.stack, p)
          ELSE IF acc.done THEN acc ELSE Lost
        after(p) == p[1] > start[1] \/ (p[1] = start[1] /\ p[2] >= start[2])
        shift == /\ At(file, start) = "<" /\ start[2] < Len(file[start[1]])
                 /\ file[start[1]][start[2] + 1] = "<"
    IN  IF At(file, start) \notin DOMAIN Closing \cup {"<"} \/ shift THEN None
        ELSE FoldLeft(step, Scanning(<<>>), SelectSeq(Positions(file), after)).at

(* A "->" or a "<<" is stepped over as a whole.                            *)
FindStartOfExpression(file, stack, p) ==
    LET t == At(file, p)
        strict == Unless(stack, ">")
        over == [Scanning(stack) EXCEPT !.skip = TRUE]
    IN  CASE t \in Range(Closing) -> Scanning(Append(stack, t))
          [] t = ">" -> IF Before(file, p) = "-" THEN over ELSE Scanning(Append(stack, ">"))
          [] t = "<" ->
                CASE Before(file, p) = "<" -> over
                  [] Before(file, p) # "<" /\ stack # <<>> /\ Last(stack) = ">" -> Pop(stack, p)
                  [] OTHER -> Scanning(stack)
          [] t \in DOMAIN Closing ->
                IF strict # <<>> /\ Closing[t] = Last(strict) THEN Pop(strict, p) ELSE Lost
          [] t = ";" -> IF strict = <<>> THEN Lost ELSE Scanning(strict)
          [] OTHER -> Scanning(stack)

ReverseCloseExpression(file, start) ==
    LET step(acc, p) ==
          IF acc.skip THEN [acc EXCEPT !.skip = FALSE]
          ELSE IF Continues(acc, p, start) THEN FindStartOfExpression(file, acc.stack, p)
          ELSE IF acc.done THEN acc ELSE Lost
        upTo(p) == p[1] < start[1] \/ (p[1] = start[1] /\ p[2] <= start[2])
    IN  IF At(file, start) \notin Range(Closing) \cup {">"} THEN None
        ELSE FoldLeft(step, Scanning(<<>>), Reverse(SelectSeq(Positions(file), upTo))).at

-----------------------------------------------------------------------------
(* A reader's automaton: where it is after a token, in code, in a string   *)
(* of some kind, in a comment to the end of the line, or between the marks *)
(* of a comment.                                                           *)
Reads(state, t) ==
    CASE state = "code" /\ t \in {"\"", "'", "//", "/*"} -> t
      [] state = "code" /\ t \in {"R(", "Rd("} -> EndOf(t)
      [] state \in {"\"", "'", ")R", ")Rd"} /\ t = state -> "code"
      [] state = "/*" /\ t = "*/" -> "code"
      [] OTHER -> state
Kept(state, t) ==
    CASE state = "code" /\ t \notin {"\"", "'", "//", "/*", "R(", "Rd(", "esc"} -> <<t>>
      [] state \in {"\"", "'", ")R", ")Rd"} /\ t = state -> <<"str">>
      [] OTHER -> <<>>

(* What a reader keeps of the file; a raw string leaves "str" on each line *)
(* that it ends or goes on in.                                             *)
Reading ==
    LET read(acc, t) == [state |-> Reads(acc.state, t), out |-> acc.out \o Kept(acc.state, t)]
        line(acc, l) ==
          LET from == IF acc.state \in {"\"", "'", "//"} THEN "code" ELSE acc.state
              end == FoldLeft(read, [state |-> from, out |-> <<>>], l)
          IN  [state |-> end.state,
               ok |-> acc.ok /\ end.state \notin {"\"", "'"},
               file |-> Append(acc.file, IF end.state \in {")R", ")Rd"}
                                         THEN Append(end.out, "str") ELSE end.out)]
    IN  FoldLeft(line, [state |-> "code", ok |-> TRUE, file |-> <<>>], text)

(* The files cpplint can read: comments over several lines are alone on    *)
(* them, there is no raw string in a file with such a comment (they are    *)
(* cleared first, even inside a raw string), no quote on a line with a raw *)
(* string or a mark of a comment, none of those is left open.               *)
Tame ==
    LET marks(l) == {l[i] : i \in DOMAIN l}
        block == \E n \in DOMAIN text : Starts(text[n])
    IN  /\ Reading.ok
        /\ \A n \in DOMAIN text :
             /\ marks(text[n]) \cap {"/*", "*/"} # {} =>
                  /\ marks(text[n]) \cap {"\"", "'", "//", "esc"} = {}
                  /\ Cardinality(Find(text[n], "/*")) <= 1
                  /\ Find(text[n], "/*") \subseteq {1}
                  /\ Find(text[n], "*/") \subseteq {Len(text[n])}
             /\ RawStarts(text[n]) # {} => Find(text[n], "\"") \cup Find(text[n], "'") = {}
             /\ block => marks(text[n]) \cap {"R(", "Rd("} = {}
        /\ unclosed = 0

(* The checks see exactly the code of the file: no token of a comment, a   *)
(* string or a raw string is left, whichever lines they start and end on,  *)
(* no token outside them is lost, and every line keeps its number.         *)
CodeRemains == phase = "done" /\ Tame => Elided = Reading.file

(* The two scans are each other's inverse on parentheses, brackets and     *)
(* braces, whatever angle brackets, arrows, shifts and semicolons are in   *)
(* between and however the expression is broken into lines.                *)
BracketsMatch ==
    phase = "done" =>
        \A p \in Range(Positions(Elided)) : At(Elided, p) \in DOMAIN Closing =>
            LET q == CloseExpression(Elided, p) IN
            q # None => ReverseCloseExpression(Elided, q) = p
=============================================================================
