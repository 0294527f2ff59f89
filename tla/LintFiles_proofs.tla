--------------------------- MODULE LintFiles_proofs ---------------------------
(* Proofs of the safety properties of LintFiles, for all files, directories, *)
(* configuration files and command lines.                                    *)
EXTENDS LintFiles, FiniteSetTheorems, WellFoundedInduction, TLAPS

-----------------------------------------------------------------------------
(* Induction over the steps of a computation, from the least number that is  *)
(* not as claimed.                                                           *)
LEMMA Least ==
  ASSUME NEW T \in SUBSET Nat, T # {}
  PROVE  \E n \in T : \A m \in T : n <= m
<1>1. PICK n \in T : \A m \in T : <<m, n>> \notin OpToRel(<, Nat)
  BY WFMin, NatLessThanWellFounded, Zenon
<1>2. \A m \in T : ~(m < n)
  BY <1>1, Zenon DEF OpToRel
<1> QED
  BY <1>2

LEMMA StepByStep ==
  ASSUME NEW N \in Nat, NEW Good, 0 \in Good,
         \A n \in 1 .. N : n - 1 \in Good => n \in Good
  PROVE  \A n \in 0 .. N : n \in Good
<1> SUFFICES ASSUME NEW k \in 0 .. N, k \notin Good PROVE FALSE
  OBVIOUS
<1> DEFINE T == {n \in 0 .. N : n \notin Good}
<1>1. T \in SUBSET Nat /\ T # {}
  OBVIOUS
<1>2. PICK n \in T : \A m \in T : n <= m
  BY <1>1, Least
<1>3. n # 0
  BY <1>2
<1>4. n - 1 \notin T /\ n - 1 \in 0 .. N
  BY <1>2, <1>3
<1> QED
  BY <1>2, <1>3, <1>4

(* A computation of N steps on the set A is a function on 0 .. N.            *)
Computes(f, a, step, N) == f[0] = a /\ \A n \in 1 .. N : f[n] = step[<<f[n - 1], n>>]

LEMMA ComputationExists ==
  ASSUME NEW A, NEW N \in Nat, NEW a \in A, NEW step \in [A \X (1 .. N) -> A]
  PROVE  \E f \in [0 .. N -> A] : Computes(f, a, step, N)
<1> DEFINE Good == {n \in 0 .. N : \E f \in [0 .. n -> A] : Computes(f, a, step, n)}
<1>1. 0 \in Good
  <2>1. [n \in 0 .. 0 |-> a] \in [0 .. 0 -> A] /\ Computes([n \in 0 .. 0 |-> a], a, step, 0)
    BY DEF Computes
  <2> QED
    BY <2>1
<1>2. ASSUME NEW n \in 1 .. N, n - 1 \in Good PROVE n \in Good
  <2>1. PICK f \in [0 .. n - 1 -> A] : Computes(f, a, step, n - 1)
    BY <1>2
  <2> DEFINE g == [m \in 0 .. n |-> IF m = n THEN step[<<f[n - 1], n>>] ELSE f[m]]
  <2>2. f[n - 1] \in A /\ step[<<f[n - 1], n>>] \in A
    BY <2>1
  <2>3. g \in [0 .. n -> A]
    BY <2>1, <2>2
  <2>4. g[0] = a
    BY <2>1 DEF Computes
  <2>5. ASSUME NEW m \in 1 .. n PROVE g[m] = step[<<g[m - 1], m>>]
    <3>1. CASE m = n
      BY <3>1, SMTT(30)
    <3>2. CASE m # n
      <4>1. m \in 1 .. n - 1
        BY <3>2
      <4>2. g[m] = f[m] /\ g[m - 1] = f[m - 1]
        BY <4>1
      <4> QED
        BY <2>1, <4>1, <4>2 DEF Computes
    <3> QED
      BY <3>1, <3>2
  <2> HIDE DEF g
  <2>6. Computes(g, a, step, n)
    BY <2>4, <2>5 DEF Computes
  <2> QED
    BY <2>3, <2>6
<1> HIDE DEF Good
<1>3. N \in Good
  BY <1>1, <1>2, StepByStep
<1> QED
  BY <1>3 DEF Good

-----------------------------------------------------------------------------
(* The state that ProcessConfigOverrides carries from line to line.          *)
Acc == [keep_looking : BOOLEAN, excluded : BOOLEAN, fails : BOOLEAN,
        cfg_filters : Seq(Filter), settings : Settings]

Excludes(o, base) == o.name = "exclude_files" /\ base \in o.exclude_files
Stopping(o) == o.name \in {"set noparent", "unreadable"}
Extends(o) == o.name \in {"extensions", "headers"}

LEMMA OptionApplied ==
  ASSUME NEW acc \in Acc, NEW o, IsOption(o), NEW base
  PROVE  LET r == ApplyOption(acc, o, base) IN
         /\ r \in Acc
         /\ Over(acc) => r = acc
         /\ ~Over(acc) =>
              /\ r.excluded <=> Excludes(o, base)
              /\ r.fails <=> o.name = "invalid"
              /\ r.keep_looking <=> acc.keep_looking /\ ~Stopping(o)
              /\ r.cfg_filters = IF o.name = "filter" THEN o.filter \o acc.cfg_filters
                                 ELSE acc.cfg_filters
              /\ ~Extends(o) => /\ r.settings.extensions = acc.settings.extensions
                                /\ r.settings.headers = acc.settings.headers
<1> DEFINE r == ApplyOption(acc, o, base)
<1>1. CASE Over(acc)
  BY <1>1 DEF ApplyOption
<1>2. CASE ~Over(acc) /\ Stopping(o)
  <2>1. r = [acc EXCEPT !.keep_looking = FALSE]
    BY <1>2 DEF ApplyOption, Stopping
  <2> QED
    BY <1>2, <2>1 DEF Acc, Over, Stopping, Excludes, Extends
<1>3. CASE ~Over(acc) /\ o.name = "filter"
  <2>1. r = [acc EXCEPT !.cfg_filters = o.filter \o @]
    BY <1>3 DEF ApplyOption, InPriority
  <2>2. o.filter \o acc.cfg_filters \in Seq(Filter)
    BY <1>3 DEF IsOption, Acc
  <2> QED
    BY <1>3, <2>1, <2>2 DEF Acc, Over, Stopping, Excludes, Extends
<1>4. CASE ~Over(acc) /\ o.name = "exclude_files"
  <2>1. CASE base \in o.exclude_files
    <3>1. r = [acc EXCEPT !.excluded = TRUE]
      BY <1>4, <2>1 DEF ApplyOption
    <3> QED
      BY <1>4, <2>1, <3>1 DEF Acc, Over, Stopping, Excludes, Extends
  <2>2. CASE base \notin o.exclude_files
    <3>0. (base \in o.exclude_files) = FALSE
      BY <2>2
    <3>1. r = [acc EXCEPT !.excluded = FALSE]
      BY <1>4, <3>0, Zenon DEF ApplyOption
    <3> QED
      BY <1>4, <2>2, <3>1 DEF Acc, Over, Stopping, Excludes, Extends
  <2> QED
    BY <2>1, <2>2
<1>0. ASSUME NEW st \in Settings
      PROVE  LET u == [acc EXCEPT !.settings = st] IN
             /\ u \in Acc /\ u.settings = st
             /\ u.excluded = acc.excluded /\ u.fails = acc.fails /\ u.keep_looking = acc.keep_looking
             /\ u.cfg_filters = acc.cfg_filters
  BY DEF Acc
<1>11. acc.settings \in Settings
  BY DEF Acc
<1>5. CASE ~Over(acc) /\ o.name = "linelength"
  <2> DEFINE st == [acc.settings EXCEPT !["linelength"] = o.linelength]
  <2>1. r = [acc EXCEPT !.settings = st]
    BY <1>5 DEF ApplyOption, Acc
  <2>2. st \in Settings
    BY <1>5, <1>11 DEF Settings, IsOption
  <2>3. st.extensions = acc.settings.extensions /\ st.headers = acc.settings.headers
    BY <1>11 DEF Settings
  <2> HIDE DEF st
  <2> QED
    BY <1>5, <1>0, <2>1, <2>2, <2>3 DEF Over, Stopping, Excludes, Extends
<1>6. CASE ~Over(acc) /\ o.name = "extensions"
  <2> DEFINE st == [acc.settings EXCEPT !["extensions"] = o.extensions]
  <2>1. r = [acc EXCEPT !.settings = st]
    BY <1>6 DEF ApplyOption, Acc
  <2>2. st \in Settings
    BY <1>6, <1>11 DEF Settings, IsOption
  <2> HIDE DEF st
  <2> QED
    BY <1>6, <1>0, <2>1, <2>2 DEF Over, Stopping, Excludes, Extends
<1>7. CASE ~Over(acc) /\ o.name = "headers"
  <2> DEFINE st == [acc.settings EXCEPT !["headers"] = o.headers]
  <2>1. r = [acc EXCEPT !.settings = st]
    BY <1>7 DEF ApplyOption, Acc
  <2>2. st \in Settings
    BY <1>7, <1>11 DEF Settings, IsOption
  <2> HIDE DEF st
  <2> QED
    BY <1>7, <1>0, <2>1, <2>2 DEF Over, Stopping, Excludes, Extends
<1>8. CASE ~Over(acc) /\ o.name = "root"
  <2> DEFINE st == [acc.settings EXCEPT !["root"] = o.root]
  <2>1. r = [acc EXCEPT !.settings = st]
    BY <1>8 DEF ApplyOption, Acc
  <2>2. st \in Settings
    BY <1>8, <1>11 DEF Settings, IsOption
  <2>3. st.extensions = acc.settings.extensions /\ st.headers = acc.settings.headers
    BY <1>11 DEF Settings
  <2> HIDE DEF st
  <2> QED
    BY <1>8, <1>0, <2>1, <2>2, <2>3 DEF Over, Stopping, Excludes, Extends
<1>9. CASE ~Over(acc) /\ o.name = "includeorder"
  <2> DEFINE st == [acc.settings EXCEPT !["includeorder"] = o.includeorder]
  <2>1. r = [acc EXCEPT !.settings = st]
    BY <1>9 DEF ApplyOption, Acc
  <2>2. st \in Settings
    BY <1>9, <1>11 DEF Settings, IsOption
  <2>3. st.extensions = acc.settings.extensions /\ st.headers = acc.settings.headers
    BY <1>11 DEF Settings
  <2> HIDE DEF st
  <2> QED
    BY <1>9, <1>0, <2>1, <2>2, <2>3 DEF Over, Stopping, Excludes, Extends
<1>12. CASE ~Over(acc) /\ o.name = "invalid"
  <2>1. r = [acc EXCEPT !.fails = TRUE]
    BY <1>12 DEF ApplyOption
  <2> QED
    BY <1>12, <2>1 DEF Acc, Over, Stopping, Excludes, Extends
<1>10. CASE /\ ~Over(acc) /\ ~Stopping(o)
            /\ o.name \notin {"filter", "exclude_files", "invalid", "linelength", "extensions", "headers",
                               "root", "includeorder"}
  <2>1. r = acc
    BY <1>10 DEF ApplyOption, Stopping
  <2> QED
    BY <1>10, <2>1 DEF Acc, Over, Stopping, Excludes, Extends
<1> QED
  BY <1>1, <1>2, <1>3, <1>4, <1>5, <1>6, <1>7, <1>8, <1>9, <1>10, <1>12

Options(opts) ==
  Len(opts) \in Nat /\ DOMAIN opts = 1 .. Len(opts) /\ \A i \in DOMAIN opts : IsOption(opts[i])

(* The lines of one CPPLINT.cfg are applied one after the other.             *)
LEMMA OptionsApplied ==
  ASSUME NEW acc \in Acc, NEW opts, Options(opts), NEW base
  PROVE  LET f == AfterOptions(acc, opts, base) IN
         /\ f \in [0 .. Len(opts) -> Acc]
         /\ f[0] = acc
         /\ \A n \in 1 .. Len(opts) : f[n] = ApplyOption(f[n - 1], opts[n], base)
<1> DEFINE N == Len(opts)
           step == [x \in Acc \X (1 .. N) |-> ApplyOption(x[1], opts[x[2]], base)]
           IsRun(f) == f = [n \in 0 .. N |-> IF n = 0 THEN acc
                                             ELSE ApplyOption(f[n - 1], opts[n], base)]
<1>1. N \in Nat
  BY DEF Options
<1>2. step \in [Acc \X (1 .. N) -> Acc]
  BY OptionApplied DEF Options
<1>3. PICK g \in [0 .. N -> Acc] : Computes(g, acc, step, N)
  <2> HIDE DEF step, N
  <2> QED
    BY <1>1, <1>2, ComputationExists
<1>4. \A n \in 1 .. N : g[n] = ApplyOption(g[n - 1], opts[n], base)
  BY <1>1, <1>3 DEF Computes
<1>5. IsRun(g)
  BY <1>1, <1>3, <1>4 DEF Computes
<1> DEFINE f == AfterOptions(acc, opts, base)
<1>6. f = CHOOSE h : IsRun(h)
  BY DEF AfterOptions
<1>7. IsRun(f)
  <2> HIDE DEF f, IsRun
  <2> QED
    BY <1>5, <1>6
<1> HIDE DEF f
<1>8. DOMAIN f = 0 .. N /\ f[0] = acc /\ \A n \in 1 .. N : f[n] = ApplyOption(f[n - 1], opts[n], base)
  BY <1>1, <1>7
<1>9. \A n \in 0 .. N : f[n] \in Acc
  <2> DEFINE Good == {n \in 0 .. N : f[n] \in Acc}
  <2>1. 0 \in Good
    BY <1>1, <1>8
  <2>2. ASSUME NEW n \in 1 .. N, n - 1 \in Good PROVE n \in Good
    BY <1>1, <1>8, <2>2, OptionApplied DEF Options
  <2> HIDE DEF Good
  <2>3. \A n \in 0 .. N : n \in Good
    BY <1>1, <2>1, <2>2, StepByStep
  <2> QED
    BY <2>3 DEF Good
<1>10. f \in [0 .. N -> Acc]
  BY <1>7, <1>8, <1>9
<1> QED
  BY <1>8, <1>10 DEF f

-----------------------------------------------------------------------------
(* A filter that matches overrules those before it.                          *)
LEMMA VerdictEmpty == ASSUME NEW c PROVE Verdict(<<>>, c) = "none"
BY DEF Verdict

LEMMA VerdictConcat ==
  ASSUME NEW a \in Seq(Filter), NEW b \in Seq(Filter), NEW c
  PROVE  Verdict(a \o b, c) = IF Verdict(b, c) # "none" THEN Verdict(b, c) ELSE Verdict(a, c)
<1> DEFINE ab == a \o b
           M(fs) == {i \in DOMAIN fs : IsPrefix(fs[i].pattern, c)}
<1>1. /\ Len(a) \in Nat /\ Len(b) \in Nat
      /\ DOMAIN a = 1 .. Len(a) /\ DOMAIN b = 1 .. Len(b) /\ DOMAIN ab = 1 .. Len(a) + Len(b)
      /\ \A i \in 1 .. Len(a) : ab[i] = a[i]
      /\ \A i \in 1 .. Len(b) : ab[Len(a) + i] = b[i]
  OBVIOUS
<1> HIDE DEF ab
<1>2. \A fs : Filtered(fs, c) <=> \E i \in M(fs) : (\A j \in M(fs) : j <= i) /\ fs[i].sign = "-"
  BY DEF Filtered
<1>3. \A fs : Verdict(fs, c) = IF M(fs) # {} THEN (IF Filtered(fs, c) THEN "-" ELSE "+") ELSE "none"
  BY DEF Verdict
<1>4. \A i : i \in M(b) => Len(a) + i \in M(ab)
  BY <1>1
<1>5. \A i \in M(ab) : i \in M(a) \/ i - Len(a) \in M(b)
  <2> TAKE i \in M(ab)
  <2>1. CASE i <= Len(a)
    BY <1>1, <2>1
  <2>2. CASE i > Len(a)
    <3>1. i - Len(a) \in 1 .. Len(b) /\ ab[i] = b[i - Len(a)]
      <4>1. i - Len(a) \in 1 .. Len(b) /\ Len(a) + (i - Len(a)) = i
        BY <1>1, <2>2
      <4> QED
        BY <1>1, <4>1
    <3> QED
      BY <1>1, <3>1
  <2> QED
    BY <1>1, <2>1, <2>2
<1>6. \A i : i \in M(a) => i \in M(ab) /\ ab[i] = a[i]
  BY <1>1
<1>7. M(a) \subseteq 1 .. Len(a) /\ M(b) \subseteq 1 .. Len(b) /\ M(ab) \subseteq 1 .. Len(a) + Len(b)
  BY <1>1
<1>8. CASE M(b) = {}
  <2>1. M(ab) = M(a) /\ \A i \in M(ab) : ab[i] = a[i]
    BY <1>5, <1>6, <1>8
  <2> HIDE DEF M
  <2>2. Filtered(ab, c) <=> Filtered(a, c)
    BY <1>2, <2>1
  <2> QED
    BY <1>3, <1>8, <2>1, <2>2 DEF ab
<1>9. CASE M(b) # {}
  <2>1. M(ab) # {}
    BY <1>4, <1>9
  <2>2. ASSUME Filtered(b, c) PROVE Filtered(ab, c)
    <3>1. PICK i \in M(b) : (\A j \in M(b) : j <= i) /\ b[i].sign = "-"
      BY <1>2, <2>2
    <3>2. Len(a) + i \in M(ab) /\ ab[Len(a) + i] = b[i]
      BY <1>1, <1>4, <1>7, <3>1
    <3>3. \A j \in M(ab) : j <= Len(a) + i
      <4> TAKE j \in M(ab)
      <4> HIDE DEF M
      <4>1. CASE j \in M(a)
        BY <1>1, <1>7, <3>1, <4>1
      <4>2. CASE j - Len(a) \in M(b)
        BY <1>1, <1>7, <3>1, <4>2
      <4> QED
        BY <1>5, <4>1, <4>2
    <3> QED
      BY <1>2, <3>1, <3>2, <3>3
  <2>3. ASSUME Filtered(ab, c) PROVE Filtered(b, c)
    <3> HIDE DEF M
    <3>1. PICK i \in M(ab) : (\A j \in M(ab) : j <= i) /\ ab[i].sign = "-"
      BY <1>2, <2>3
    <3>2. PICK k \in M(b) : TRUE
      BY <1>9
    <3>3. Len(a) + k <= i /\ Len(a) + k > Len(a)
      BY <1>1, <1>4, <1>7, <3>1, <3>2
    <3>4. i - Len(a) \in M(b)
      BY <1>1, <1>5, <1>7, <3>3
    <3>5. \A j \in M(b) : j <= i - Len(a)
      BY <1>1, <1>4, <1>7, <3>1
    <3>6. ab[i] = b[i - Len(a)]
      <4>1. Len(a) + (i - Len(a)) = i /\ i - Len(a) \in 1 .. Len(b)
        BY <1>1, <1>7, <3>4
      <4> QED
        BY <1>1, <4>1
    <3> QED
      BY <1>2, <3>1, <3>4, <3>5, <3>6
  <2> HIDE DEF M
  <2> QED
    BY <1>3, <1>9, <2>1, <2>2, <2>3 DEF ab
<1> QED
  BY <1>8, <1>9

-----------------------------------------------------------------------------
(* What the first n lines of a CPPLINT.cfg have made of acc: for every       *)
(* category the first of them that says something about it decides, unless a *)
(* file read before did.                                                     *)
Speaks(o, c) == o.name = "filter" /\ Verdict(o.filter, c) # "none"

ReadLines(acc, opts, base, n, r, c) ==
  /\ ~r.fails => (r.excluded <=> \E i \in 1 .. n : Excludes(opts[i], base))
  /\ (\A i \in 1 .. n : ~Extends(opts[i])) =>
       /\ r.settings.extensions = acc.settings.extensions
       /\ r.settings.headers = acc.settings.headers
  /\ ~Over(r) =>
       /\ r.keep_looking <=> acc.keep_looking /\ \A i \in 1 .. n : ~Stopping(opts[i])
       /\ Verdict(acc.cfg_filters, c) # "none" =>
            Verdict(r.cfg_filters, c) = Verdict(acc.cfg_filters, c)
       /\ Verdict(acc.cfg_filters, c) = "none" =>
            IF Verdict(r.cfg_filters, c) = "none" THEN \A i \in 1 .. n : ~Speaks(opts[i], c)
            ELSE \E i \in 1 .. n :
                   /\ Speaks(opts[i], c)
                   /\ Verdict(opts[i].filter, c) = Verdict(r.cfg_filters, c)
                   /\ \A j \in 1 .. i - 1 : ~Speaks(opts[j], c)

LEMMA FileRead ==
  ASSUME NEW acc \in Acc, ~Over(acc), NEW opts, Options(opts), NEW base, NEW c
  PROVE  LET r == AfterOptions(acc, opts, base)[Len(opts)] IN
         r \in Acc /\ ReadLines(acc, opts, base, Len(opts), r, c)
<1> DEFINE f == AfterOptions(acc, opts, base)
           N == Len(opts)
           Good == {n \in 0 .. N : ReadLines(acc, opts, base, n, f[n], c)}
<1>1. /\ N \in Nat /\ DOMAIN opts = 1 .. N
      /\ \A i \in 1 .. N : IsOption(opts[i])
  BY DEF Options
<1>2. f \in [0 .. N -> Acc] /\ f[0] = acc /\ \A n \in 1 .. N : f[n] = ApplyOption(f[n - 1], opts[n], base)
  BY OptionsApplied
<1> HIDE DEF f, N
<1>3. 0 \in Good
  BY <1>1, <1>2 DEF ReadLines, Over
<1>4. ASSUME NEW n \in 1 .. N, n - 1 \in Good PROVE n \in Good
  <2> DEFINE p == f[n - 1]
             q == f[n]
             o == opts[n]
  <2>1. p \in Acc /\ IsOption(o) /\ q = ApplyOption(p, o, base)
    BY <1>1, <1>2
  <2>2. /\ q \in Acc
        /\ Over(p) => q = p
        /\ ~Over(p) =>
             /\ q.excluded <=> Excludes(o, base)
             /\ q.keep_looking <=> p.keep_looking /\ ~Stopping(o)
             /\ q.cfg_filters = IF o.name = "filter" THEN o.filter \o p.cfg_filters ELSE p.cfg_filters
             /\ ~Extends(o) => /\ q.settings.extensions = p.settings.extensions
                               /\ q.settings.headers = p.settings.headers
    <3> HIDE DEF p, q, o
    <3> QED
      BY <2>1, OptionApplied
  <2>3. ReadLines(acc, opts, base, n - 1, p, c)
    BY <1>4
  <2>4. \A i : i \in 1 .. n <=> i \in 1 .. n - 1 \/ i = n
    OBVIOUS
  <2>5. ASSUME ~q.fails
        PROVE  q.excluded <=> \E i \in 1 .. n : Excludes(opts[i], base)
    <3>0. ~p.fails
      BY <2>2, <2>5 DEF Over
    <3>1. p.excluded <=> \E i \in 1 .. n - 1 : Excludes(opts[i], base)
      BY <2>3, <3>0 DEF ReadLines
    <3>2. IF p.excluded THEN q.excluded ELSE q.excluded <=> Excludes(o, base)
      BY <2>2, <3>0 DEF Over
    <3> QED
      BY <2>4, <3>1, <3>2
  <2>6. (\A i \in 1 .. n : ~Extends(opts[i])) =>
           /\ q.settings.extensions = acc.settings.extensions
           /\ q.settings.headers = acc.settings.headers
    BY <2>2, <2>3, <2>4 DEF ReadLines
  <2>7. ASSUME ~Over(q)
        PROVE  q.keep_looking <=> acc.keep_looking /\ \A i \in 1 .. n : ~Stopping(opts[i])
    BY <2>2, <2>3, <2>4, <2>7 DEF ReadLines
  <2>8. ASSUME ~Over(q)
        PROVE  /\ ~Over(p)
               /\ Verdict(q.cfg_filters, c) = IF Verdict(p.cfg_filters, c) = "none" /\ o.name = "filter"
                                              THEN Verdict(o.filter, c) ELSE Verdict(p.cfg_filters, c)
    <3>1. ~Over(p)
      BY <2>2, <2>8
    <3>2. CASE o.name = "filter"
      <4>1. o.filter \in Seq(Filter) /\ p.cfg_filters \in Seq(Filter)
        BY <2>1, <3>2 DEF IsOption, Acc
      <4>2. Verdict(o.filter \o p.cfg_filters, c) =
              IF Verdict(p.cfg_filters, c) # "none" THEN Verdict(p.cfg_filters, c) ELSE Verdict(o.filter, c)
        BY <4>1, VerdictConcat
      <4> QED
        BY <2>2, <3>1, <3>2, <4>2
    <3>3. CASE o.name # "filter"
      BY <2>2, <3>1, <3>3
    <3> QED
      BY <3>1, <3>2, <3>3
  <2> HIDE DEF p, q
  <2>9. ASSUME ~Over(q), Verdict(acc.cfg_filters, c) # "none"
        PROVE  Verdict(q.cfg_filters, c) = Verdict(acc.cfg_filters, c)
    BY <2>3, <2>8, <2>9 DEF ReadLines
  <2>10. ASSUME ~Over(q), Verdict(acc.cfg_filters, c) = "none"
         PROVE  IF Verdict(q.cfg_filters, c) = "none" THEN \A i \in 1 .. n : ~Speaks(opts[i], c)
                ELSE \E i \in 1 .. n :
                       /\ Speaks(opts[i], c)
                       /\ Verdict(opts[i].filter, c) = Verdict(q.cfg_filters, c)
                       /\ \A j \in 1 .. i - 1 : ~Speaks(opts[j], c)
    <3>1. CASE Verdict(p.cfg_filters, c) = "none"
      <4>1. \A i \in 1 .. n - 1 : ~Speaks(opts[i], c)
        BY <2>3, <2>8, <2>10, <3>1 DEF ReadLines
      <4>2. CASE Speaks(o, c)
        <5>1. Verdict(q.cfg_filters, c) = Verdict(o.filter, c) /\ Verdict(o.filter, c) # "none"
          BY <2>8, <2>10, <3>1, <4>2 DEF Speaks
        <5> QED
          BY <4>1, <4>2, <5>1
      <4>3. CASE ~Speaks(o, c)
        <5>1. Verdict(q.cfg_filters, c) = "none"
          BY <2>8, <2>10, <3>1, <4>3 DEF Speaks
        <5> QED
          BY <2>4, <4>1, <4>3, <5>1
      <4> QED
        BY <4>2, <4>3
    <3>2. CASE Verdict(p.cfg_filters, c) # "none"
      <4>1. Verdict(q.cfg_filters, c) = Verdict(p.cfg_filters, c)
        BY <2>8, <2>10, <3>2
      <4>2. PICK i \in 1 .. n - 1 :
              /\ Speaks(opts[i], c)
              /\ Verdict(opts[i].filter, c) = Verdict(p.cfg_filters, c)
              /\ \A j \in 1 .. i - 1 : ~Speaks(opts[j], c)
        BY <2>3, <2>8, <2>10, <3>2 DEF ReadLines
      <4> QED
        BY <2>4, <3>2, <4>1, <4>2
    <3> QED
      BY <3>1, <3>2
  <2> HIDE DEF o
  <2>11. ReadLines(acc, opts, base, n, q, c)
    BY <2>5, <2>6, <2>7, <2>9, <2>10 DEF ReadLines
  <2> QED
    BY <2>11 DEF q
<1>5. N \in Good
  <2> HIDE DEF Good
  <2> QED
    BY <1>1, <1>3, <1>4, StepByStep
<1> QED
  BY <1>1, <1>2, <1>5 DEF f, N

-----------------------------------------------------------------------------
(* The line length that the first n lines of a CPPLINT.cfg have left: of the *)
(* last linelength= line before the one that excludes the file.              *)
GivesLength(opts, base, i) ==
  opts[i].name = "linelength" /\ \A j \in 1 .. i - 1 : ~Excludes(opts[j], base)

ReadLength(acc, opts, base, n, r) ==
  ~r.fails =>
    /\ r.excluded <=> \E i \in 1 .. n : Excludes(opts[i], base)
    /\ IF \A i \in 1 .. n : ~GivesLength(opts, base, i)
       THEN r.settings.linelength = acc.settings.linelength
       ELSE \E i \in 1 .. n :
              /\ GivesLength(opts, base, i)
              /\ r.settings.linelength = opts[i].linelength
              /\ \A j \in 1 .. n : GivesLength(opts, base, j) => j <= i

LEMMA OptionLength ==
  ASSUME NEW acc \in Acc, NEW o, IsOption(o), NEW base, ~Over(acc)
  PROVE  ApplyOption(acc, o, base).settings.linelength =
           IF o.name = "linelength" THEN o.linelength ELSE acc.settings.linelength
<1> DEFINE r == ApplyOption(acc, o, base)
<1>1. /\ acc.settings \in Settings
      /\ \A v : [acc EXCEPT !.settings = v].settings = v
  BY DEF Acc
<1>2. CASE o.name = "linelength"
  <2> DEFINE st == [acc.settings EXCEPT !["linelength"] = o.linelength]
  <2>1. r = [acc EXCEPT !.settings = st]
    BY <1>2 DEF ApplyOption, Acc
  <2>2. st.linelength = o.linelength
    BY <1>1 DEF Settings
  <2> HIDE DEF st
  <2> QED
    BY <1>1, <1>2, <2>1, <2>2
<1>3. ASSUME NEW n \in {"extensions", "headers", "root", "includeorder"}, o.name = n
      PROVE  r.settings.linelength = acc.settings.linelength
  <2> DEFINE st == [acc.settings EXCEPT ![n] = o[n]]
  <2>1. r = [acc EXCEPT !.settings = st]
    BY <1>3 DEF ApplyOption, Acc
  <2>2. st.linelength = acc.settings.linelength
    BY <1>1 DEF Settings
  <2> HIDE DEF st
  <2> QED
    BY <1>1, <2>1, <2>2
<1>4. CASE o.name \notin {"linelength", "extensions", "headers", "root", "includeorder"}
  <2>1. \/ r = acc
        \/ r = [acc EXCEPT !.keep_looking = FALSE]
        \/ \E fs : r = [acc EXCEPT !.cfg_filters = fs]
        \/ \E b : r = [acc EXCEPT !.excluded = b]
        \/ r = [acc EXCEPT !.fails = TRUE]
    BY <1>4, Zenon DEF ApplyOption
  <2>2. r.settings = acc.settings
    BY <2>1 DEF Acc
  <2> QED
    BY <1>4, <2>2
<1> QED
  BY <1>2, <1>3, <1>4

LEMMA FileLength ==
  ASSUME NEW acc \in Acc, ~Over(acc), NEW opts, Options(opts), NEW base
  PROVE  ReadLength(acc, opts, base, Len(opts), AfterOptions(acc, opts, base)[Len(opts)])
<1> DEFINE f == AfterOptions(acc, opts, base)
           N == Len(opts)
           Good == {n \in 0 .. N : ReadLength(acc, opts, base, n, f[n])}
<1>1. N \in Nat /\ \A i \in 1 .. N : IsOption(opts[i])
  BY DEF Options
<1>2. f \in [0 .. N -> Acc] /\ f[0] = acc /\ \A n \in 1 .. N : f[n] = ApplyOption(f[n - 1], opts[n], base)
  BY OptionsApplied
<1> HIDE DEF f, N
<1>3. 0 \in Good
  BY <1>1, <1>2 DEF ReadLength, Over
<1>4. ASSUME NEW n \in 1 .. N, n - 1 \in Good PROVE n \in Good
  <2> DEFINE p == f[n - 1]
             q == f[n]
             o == opts[n]
  <2>1. p \in Acc /\ IsOption(o) /\ q = ApplyOption(p, o, base) /\ ReadLength(acc, opts, base, n - 1, p)
    BY <1>1, <1>2, <1>4
  <2>2. /\ Over(p) => q = p
        /\ ~Over(p) => /\ q.excluded <=> Excludes(o, base)
                       /\ q.settings.linelength =
                            IF o.name = "linelength" THEN o.linelength ELSE p.settings.linelength
    <3> HIDE DEF p, q, o
    <3> QED
      BY <2>1, OptionApplied, OptionLength
  <2>3. \A i : i \in 1 .. n <=> i \in 1 .. n - 1 \/ i = n
    OBVIOUS
  <2> HIDE DEF p, q
  <2> SUFFICES ASSUME ~q.fails
               PROVE  /\ q.excluded <=> \E i \in 1 .. n : Excludes(opts[i], base)
                      /\ IF \A i \in 1 .. n : ~GivesLength(opts, base, i)
                         THEN q.settings.linelength = acc.settings.linelength
                         ELSE \E i \in 1 .. n :
                                /\ GivesLength(opts, base, i)
                                /\ q.settings.linelength = opts[i].linelength
                                /\ \A j \in 1 .. n : GivesLength(opts, base, j) => j <= i
    BY DEF ReadLength, q
  <2>4. ~p.fails
    BY <2>2 DEF Over
  <2>5. /\ p.excluded <=> \E i \in 1 .. n - 1 : Excludes(opts[i], base)
        /\ IF \A i \in 1 .. n - 1 : ~GivesLength(opts, base, i)
           THEN p.settings.linelength = acc.settings.linelength
           ELSE \E i \in 1 .. n - 1 :
                  /\ GivesLength(opts, base, i)
                  /\ p.settings.linelength = opts[i].linelength
                  /\ \A j \in 1 .. n - 1 : GivesLength(opts, base, j) => j <= i
    BY <2>1, <2>4 DEF ReadLength
  <2>6. GivesLength(opts, base, n) <=> o.name = "linelength" /\ ~p.excluded
    BY <2>5 DEF GivesLength
  <2>7. CASE GivesLength(opts, base, n)
    <3>1. q.settings.linelength = o.linelength /\ (q.excluded <=> Excludes(o, base))
      BY <2>2, <2>4, <2>6, <2>7 DEF Over
    <3>2. n \in 1 .. n /\ \A j \in 1 .. n : GivesLength(opts, base, j) => j <= n
      OBVIOUS
    <3> QED
      BY <2>3, <2>5, <2>6, <2>7, <3>1, <3>2
  <2>8. CASE ~GivesLength(opts, base, n)
    <3>1. q.settings.linelength = p.settings.linelength
      BY <2>2, <2>4, <2>6, <2>8 DEF Over
    <3>2. q.excluded <=> p.excluded \/ Excludes(o, base)
      BY <2>2, <2>4 DEF Over
    <3>3. q.excluded <=> \E i \in 1 .. n : Excludes(opts[i], base)
      BY <2>3, <2>5, <3>2
    <3> HIDE DEF o
    <3>4. CASE \A i \in 1 .. n - 1 : ~GivesLength(opts, base, i)
      BY <2>3, <2>5, <2>8, <3>1, <3>3, <3>4
    <3>5. CASE ~\A i \in 1 .. n - 1 : ~GivesLength(opts, base, i)
      <4>1. PICK i \in 1 .. n - 1 :
               /\ GivesLength(opts, base, i)
               /\ p.settings.linelength = opts[i].linelength
               /\ \A j \in 1 .. n - 1 : GivesLength(opts, base, j) => j <= i
        BY <2>5, <3>5
      <4>2. i \in 1 .. n /\ \A j \in 1 .. n : GivesLength(opts, base, j) => j <= i
        BY <2>3, <2>8, <4>1
      <4> QED
        BY <3>1, <3>3, <4>1, <4>2
    <3> QED
      BY <3>4, <3>5
  <2> QED
    BY <2>7, <2>8
<1>5. N \in Good
  <2> HIDE DEF Good
  <2> QED
    BY <1>1, <1>3, <1>4, StepByStep
<1> QED
  BY <1>5 DEF f, N

-----------------------------------------------------------------------------
(* The configuration files of one file, from its directory upwards.          *)
OptionsAt(path, l) == config[DirOf(path, l)]
SaysAt(path, x, c) == Verdict(OptionsAt(path, x[1])[x[2]].filter, c)
ExcludedAt(path, l) == \E i \in DOMAIN OptionsAt(path, l) : Excludes(OptionsAt(path, l)[i], path[l])
KeepsExtensions(path) ==
  \A l \in DOMAIN path : \A i \in DOMAIN OptionsAt(path, l) : ~Extends(OptionsAt(path, l)[i])

LEMMA FilterLinesAre ==
  ASSUME NEW path
  PROVE  /\ \A x \in FilterLines(path) :
              /\ x = <<x[1], x[2]>>
              /\ x[1] \in Levels(path) /\ x[2] \in DOMAIN OptionsAt(path, x[1])
              /\ OptionsAt(path, x[1])[x[2]].name = "filter"
         /\ \A l \in Levels(path) : \A i \in DOMAIN OptionsAt(path, l) :
              OptionsAt(path, l)[i].name = "filter" => <<l, i>> \in FilterLines(path)
BY DEF FilterLines, LinesOf, OptionsAt

LEMMA LengthLinesAre ==
  ASSUME NEW path
  PROVE  /\ \A x \in LengthLines(path) :
              /\ x = <<x[1], x[2]>>
              /\ x[1] \in Levels(path) /\ x[2] \in DOMAIN OptionsAt(path, x[1])
              /\ OptionsAt(path, x[1])[x[2]].name = "linelength"
              /\ LengthOf(path, x) = OptionsAt(path, x[1])[x[2]].linelength
              /\ \A m \in Levels(path) : \A j \in DOMAIN OptionsAt(path, m) :
                   Excludes(OptionsAt(path, m)[j], path[m]) => ~Outranks(<<m, j>>, x)
         /\ \A l \in Levels(path) : \A i \in DOMAIN OptionsAt(path, l) :
              /\ OptionsAt(path, l)[i].name = "linelength"
              /\ \A m \in Levels(path) : \A j \in DOMAIN OptionsAt(path, m) :
                   Excludes(OptionsAt(path, m)[j], path[m]) => ~Outranks(<<m, j>>, <<l, i>>)
              => <<l, i>> \in LengthLines(path)
<1>1. \A name : \A x \in LinesOf(path, name) :
         /\ x = <<x[1], x[2]>>
         /\ x[1] \in Levels(path) /\ x[2] \in DOMAIN OptionsAt(path, x[1])
         /\ OptionsAt(path, x[1])[x[2]].name = name
  BY DEF LinesOf, OptionsAt
<1>2. \A name : \A l \in Levels(path) : \A i \in DOMAIN OptionsAt(path, l) :
         OptionsAt(path, l)[i].name = name => <<l, i>> \in LinesOf(path, name)
  BY DEF LinesOf, OptionsAt
<1>3. \A x : (\E y \in LinesOf(path, "exclude_files") :
                 Outranks(y, x) /\ path[y[1]] \in config[DirOf(path, y[1])][y[2]].exclude_files)
              <=> \E m \in Levels(path) : \E j \in DOMAIN OptionsAt(path, m) :
                    Excludes(OptionsAt(path, m)[j], path[m]) /\ Outranks(<<m, j>>, x)
  <2> TAKE x
  <2>1. ASSUME NEW y \in LinesOf(path, "exclude_files"), Outranks(y, x),
               path[y[1]] \in config[DirOf(path, y[1])][y[2]].exclude_files
        PROVE  \E m \in Levels(path) : \E j \in DOMAIN OptionsAt(path, m) :
                 Excludes(OptionsAt(path, m)[j], path[m]) /\ Outranks(<<m, j>>, x)
    <3>1. y[1] \in Levels(path) /\ y[2] \in DOMAIN OptionsAt(path, y[1])
          /\ Excludes(OptionsAt(path, y[1])[y[2]], path[y[1]])
      BY <1>1, <2>1 DEF Excludes, OptionsAt
    <3>2. Outranks(<<y[1], y[2]>>, x)
      BY <2>1 DEF Outranks
    <3> QED
      BY <3>1, <3>2
  <2>2. ASSUME NEW m \in Levels(path), NEW j \in DOMAIN OptionsAt(path, m),
               Excludes(OptionsAt(path, m)[j], path[m]), Outranks(<<m, j>>, x)
        PROVE  \E y \in LinesOf(path, "exclude_files") :
                 Outranks(y, x) /\ path[y[1]] \in config[DirOf(path, y[1])][y[2]].exclude_files
    <3> DEFINE y == <<m, j>>
    <3>1. y \in LinesOf(path, "exclude_files") /\ y[1] = m /\ y[2] = j
      BY <1>2, <2>2 DEF Excludes
    <3>2. path[m] \in config[DirOf(path, m)][j].exclude_files
      BY <2>2 DEF Excludes, OptionsAt
    <3> QED
      BY <2>2, <3>1, <3>2
  <2> QED
    BY <2>1, <2>2
<1>4. \A x : x \in LengthLines(path) <=>
         /\ x \in LinesOf(path, "linelength")
         /\ \A m \in Levels(path) : \A j \in DOMAIN OptionsAt(path, m) :
              Excludes(OptionsAt(path, m)[j], path[m]) => ~Outranks(<<m, j>>, x)
  BY <1>3, Zenon DEF LengthLines
<1>5. \A x : LengthOf(path, x) = OptionsAt(path, x[1])[x[2]].linelength
  BY DEF LengthOf, OptionsAt
<1> QED
  BY <1>1, <1>2, <1>4, <1>5, Zenon

LEMMA TreeType ==
  ASSUME NEW f \in DOMAIN Tree
  PROVE  Tree[f].path \in Path /\ Tree[f].items \in Seq(Item) /\ f \in Nat
<1> DEFINE S == [path : Path, time : Nat \ {0}, ext : Word, readable : BOOLEAN, items : Seq(Item)]
<1>1. Tree[f] \in S /\ f \in Nat
  <2>1. Tree \in Seq(S)
    BY TreeAssumption
  <2> HIDE DEF S
  <2>2. Tree[f] \in S /\ f \in Nat
    BY <2>1
  <2> QED
    BY <2>2
<1> QED
  BY <1>1 DEF S

LEMMA PathOptions ==
  ASSUME config \in Configs, NEW f \in DOMAIN Tree
  PROVE  LET path == Tree[f].path IN
         /\ Len(path) \in Nat /\ DOMAIN path = 1 .. Len(path)
         /\ \A l \in DOMAIN path : /\ Options(OptionsAt(path, l))
                                   /\ DirOf(path, l) \in DOMAIN config
<1>1. Tree[f].path \in Path
  BY TreeType
<1>2. Len(Tree[f].path) \in Nat /\ DOMAIN Tree[f].path = 1 .. Len(Tree[f].path)
  BY <1>1 DEF Path
<1>3. \A l \in DOMAIN Tree[f].path : Options(OptionsAt(Tree[f].path, l)) /\ DirOf(Tree[f].path, l) \in DOMAIN config
  BY ConfigAssumption DEF Options, OptionsAt
<1> QED
  BY <1>2, <1>3

\* what the innermost n levels have made of the settings
ReadLevels(path, n, r, c) ==
  LET Near(l) == l > Len(path) - n IN
  /\ ~r.fails => (r.excluded <=> \E l \in Levels(path) : Near(l) /\ ExcludedAt(path, l))
  /\ KeepsExtensions(path) => /\ r.settings.extensions = settings.extensions
                              /\ r.settings.headers = settings.headers
  /\ ~Over(r) =>
       /\ r.keep_looking <=> \A l \in DOMAIN path : Near(l) => ~Stops(DirOf(path, l))
       /\ IF Verdict(r.cfg_filters, c) = "none"
          THEN \A x \in FilterLines(path) : Near(x[1]) => SaysAt(path, x, c) = "none"
          ELSE \E x \in FilterLines(path) :
                 /\ Near(x[1])
                 /\ SaysAt(path, x, c) = Verdict(r.cfg_filters, c)
                 /\ \A y \in FilterLines(path) :
                      Near(y[1]) /\ SaysAt(path, y, c) # "none" => y = x \/ Outranks(x, y)

\* one CPPLINT.cfg more, one level further up
LEMMA LevelRead ==
  ASSUME NEW path, Len(path) \in Nat, DOMAIN path = 1 .. Len(path),
         \A l \in DOMAIN path : Options(OptionsAt(path, l)),
         NEW n \in 1 .. Len(path), NEW p \in Acc, NEW c,
         ReadLevels(path, n - 1, p, c)
  PROVE  LET q == ApplyConfig(p, path, Len(path) + 1 - n) IN
         q \in Acc /\ ReadLevels(path, n, q, c)
<1> DEFINE lev == Len(path) + 1 - n
           opts == OptionsAt(path, lev)
           q == ApplyConfig(p, path, lev)
           Near(l) == l > Len(path) - n
           Nearer(l) == l > Len(path) - (n - 1)
<1>1. /\ lev \in DOMAIN path /\ Near(lev) /\ ~Nearer(lev)
      /\ \A l \in DOMAIN path : Near(l) <=> Nearer(l) \/ l = lev
      /\ \A l \in DOMAIN path : Nearer(l) <=> l > lev
  OBVIOUS
<1>2. Options(opts)
  BY <1>1
<1>3. Levels(path) \subseteq DOMAIN path
  BY DEF Levels
<1>4. \A x \in FilterLines(path) : x[1] \in DOMAIN path
  BY <1>3, FilterLinesAre
<1>5. /\ ~p.fails => (p.excluded <=> \E l \in Levels(path) : Nearer(l) /\ ExcludedAt(path, l))
      /\ KeepsExtensions(path) => /\ p.settings.extensions = settings.extensions
                                  /\ p.settings.headers = settings.headers
      /\ ~Over(p) =>
           /\ p.keep_looking <=> \A l \in DOMAIN path : Nearer(l) => ~Stops(DirOf(path, l))
           /\ IF Verdict(p.cfg_filters, c) = "none"
              THEN \A x \in FilterLines(path) : Nearer(x[1]) => SaysAt(path, x, c) = "none"
              ELSE \E x \in FilterLines(path) :
                     /\ Nearer(x[1])
                     /\ SaysAt(path, x, c) = Verdict(p.cfg_filters, c)
                     /\ \A y \in FilterLines(path) :
                          Nearer(y[1]) /\ SaysAt(path, y, c) # "none" => y = x \/ Outranks(x, y)
  BY DEF ReadLevels
<1>6. lev \in Levels(path) <=> \A l \in DOMAIN path : Nearer(l) => ~Stops(DirOf(path, l))
  BY <1>1 DEF Levels
<1> HIDE DEF lev, opts, q, Near, Nearer
<1> SUFFICES q \in Acc /\ ReadLevels(path, n, q, c)
  BY DEF q, lev
<1>7. CASE Over(p)
  <2>1. q = p
    BY <1>7 DEF q, ApplyConfig
  <2>2. ~p.fails => p.excluded /\ \E l \in Levels(path) : Near(l) /\ ExcludedAt(path, l)
    BY <1>1, <1>3, <1>5, <1>7 DEF Over
  <2> QED
    BY <1>5, <1>7, <2>1, <2>2 DEF ReadLevels, Near
<1>8. CASE ~Over(p) /\ ~p.keep_looking
  <2>1. q = p
    BY <1>8 DEF q, ApplyConfig
  <2>2. lev \notin Levels(path)
    BY <1>5, <1>6, <1>8
  <2>3. \A l \in Levels(path) : Near(l) <=> Nearer(l)
    BY <1>1, <1>3, <2>2
  <2>4. \A x \in FilterLines(path) : Near(x[1]) <=> Nearer(x[1])
    BY <2>3, FilterLinesAre
  <2>5. ~ \A l \in DOMAIN path : Near(l) => ~Stops(DirOf(path, l))
    BY <1>1, <1>5, <1>8
  <2>6. IF Verdict(p.cfg_filters, c) = "none"
        THEN \A x \in FilterLines(path) : Near(x[1]) => SaysAt(path, x, c) = "none"
        ELSE \E x \in FilterLines(path) :
               /\ Near(x[1])
               /\ SaysAt(path, x, c) = Verdict(p.cfg_filters, c)
               /\ \A y \in FilterLines(path) :
                    Near(y[1]) /\ SaysAt(path, y, c) # "none" => y = x \/ Outranks(x, y)
    BY <1>5, <1>8, <2>4
  <2> QED
    BY <1>5, <1>8, <2>1, <2>3, <2>5, <2>6 DEF ReadLevels, Near, Over
<1>9. CASE ~Over(p) /\ p.keep_looking
  <2>1. q = AfterOptions(p, opts, path[lev])[Len(opts)]
    BY <1>9 DEF q, ApplyConfig, opts, OptionsAt
  <2>2. q \in Acc /\ ReadLines(p, opts, path[lev], Len(opts), q, c)
    BY <1>2, <1>9, <2>1, FileRead
  <2>3. lev \in Levels(path) /\ DOMAIN opts = 1 .. Len(opts)
    BY <1>2, <1>5, <1>6, <1>9 DEF Options
  <2>4. ASSUME ~q.fails
        PROVE  q.excluded <=> \E l \in Levels(path) : Near(l) /\ ExcludedAt(path, l)
    <3>1. q.excluded <=> ExcludedAt(path, lev)
      BY <2>2, <2>3, <2>4 DEF ReadLines, ExcludedAt, opts
    <3>2. ~ \E l \in Levels(path) : Nearer(l) /\ ExcludedAt(path, l)
      BY <1>5, <1>9 DEF Over
    <3> QED
      BY <1>1, <1>3, <2>3, <3>1, <3>2
  <2>5. KeepsExtensions(path) => /\ q.settings.extensions = settings.extensions
                                /\ q.settings.headers = settings.headers
    <3>1. KeepsExtensions(path) => \A i \in 1 .. Len(opts) : ~Extends(opts[i])
      BY <1>1, <2>3 DEF KeepsExtensions, opts
    <3> QED
      BY <1>5, <2>2, <3>1 DEF ReadLines
  <2>6. ASSUME ~Over(q)
        PROVE  q.keep_looking <=> \A l \in DOMAIN path : Near(l) => ~Stops(DirOf(path, l))
    <3>1. (\A i \in 1 .. Len(opts) : ~Stopping(opts[i])) <=> ~Stops(DirOf(path, lev))
      BY <2>3 DEF Stops, Stopping, opts, OptionsAt
    <3>2. q.keep_looking <=> ~Stops(DirOf(path, lev))
      BY <1>9, <2>2, <2>6, <3>1 DEF ReadLines
    <3> QED
      BY <1>1, <1>5, <1>9, <3>2
  <2>7. ASSUME ~Over(q)
        PROVE  IF Verdict(q.cfg_filters, c) = "none"
               THEN \A x \in FilterLines(path) : Near(x[1]) => SaysAt(path, x, c) = "none"
               ELSE \E x \in FilterLines(path) :
                      /\ Near(x[1])
                      /\ SaysAt(path, x, c) = Verdict(q.cfg_filters, c)
                      /\ \A y \in FilterLines(path) :
                           Near(y[1]) /\ SaysAt(path, y, c) # "none" => y = x \/ Outranks(x, y)
    <3>1. \A y \in FilterLines(path) : Near(y[1]) =>
             \/ Nearer(y[1]) /\ y[1] > lev
             \/ /\ y = <<lev, y[2]>> /\ y[1] = lev /\ y[2] \in 1 .. Len(opts)
                /\ opts[y[2]].name = "filter"
                /\ SaysAt(path, y, c) = Verdict(opts[y[2]].filter, c)
      <4> TAKE y \in FilterLines(path)
      <4> HAVE Near(y[1])
      <4>1. y = <<y[1], y[2]>> /\ y[1] \in DOMAIN path /\ y[2] \in DOMAIN OptionsAt(path, y[1])
            /\ OptionsAt(path, y[1])[y[2]].name = "filter"
        BY <1>3, FilterLinesAre
      <4>2. CASE Nearer(y[1])
        BY <1>1, <4>1, <4>2
      <4>3. CASE y[1] = lev
        BY <2>3, <4>1, <4>3 DEF opts, SaysAt
      <4> QED
        BY <1>1, <4>1, <4>2, <4>3
    <3>2. CASE Verdict(p.cfg_filters, c) = "none"
      <4>1. \A x \in FilterLines(path) : Nearer(x[1]) => SaysAt(path, x, c) = "none"
        BY <1>5, <1>9, <3>2
      <4>2. CASE Verdict(q.cfg_filters, c) = "none"
        <5>1. \A i \in 1 .. Len(opts) : ~Speaks(opts[i], c)
          BY <2>2, <2>7, <3>2, <4>2 DEF ReadLines
        <5> QED
          BY <3>1, <4>1, <4>2, <5>1 DEF Speaks
      <4>3. CASE Verdict(q.cfg_filters, c) # "none"
        <5>1. PICK i \in 1 .. Len(opts) :
                 /\ Speaks(opts[i], c)
                 /\ Verdict(opts[i].filter, c) = Verdict(q.cfg_filters, c)
                 /\ \A j \in 1 .. i - 1 : ~Speaks(opts[j], c)
          BY <2>2, <2>7, <3>2, <4>3 DEF ReadLines
        <5> DEFINE x == <<lev, i>>
        <5>2. x \in FilterLines(path) /\ x[1] = lev /\ x[2] = i
          BY <2>3, <5>1, FilterLinesAre DEF Speaks, opts
        <5>3. SaysAt(path, x, c) = Verdict(q.cfg_filters, c)
          BY <5>1, <5>2 DEF SaysAt, opts
        <5>4. ASSUME NEW y \in FilterLines(path), Near(y[1]), SaysAt(path, y, c) # "none"
              PROVE  y = x \/ Outranks(x, y)
          <6>1. /\ y = <<lev, y[2]>> /\ y[1] = lev /\ y[2] \in 1 .. Len(opts)
                /\ Speaks(opts[y[2]], c)
            BY <3>1, <4>1, <5>4 DEF Speaks
          <6>2. y[2] >= i
            BY <1>2, <5>1, <6>1 DEF Options
          <6>3. CASE y[2] = i
            BY <6>1, <6>3
          <6>4. CASE y[2] > i
            BY <5>2, <6>1, <6>4 DEF Outranks
          <6> QED
            BY <1>2, <5>1, <6>1, <6>2, <6>3, <6>4 DEF Options
        <5> HIDE DEF x
        <5> QED
          BY <1>1, <4>3, <5>2, <5>3, <5>4
      <4> QED
        BY <4>2, <4>3
    <3>3. CASE Verdict(p.cfg_filters, c) # "none"
      <4>1. Verdict(q.cfg_filters, c) = Verdict(p.cfg_filters, c)
        BY <2>2, <2>7, <3>3 DEF ReadLines
      <4>2. PICK x \in FilterLines(path) :
               /\ Nearer(x[1])
               /\ SaysAt(path, x, c) = Verdict(p.cfg_filters, c)
               /\ \A y \in FilterLines(path) :
                    Nearer(y[1]) /\ SaysAt(path, y, c) # "none" => y = x \/ Outranks(x, y)
        BY <1>5, <1>9, <3>3
      <4>3. Near(x[1]) /\ x[1] > lev
        BY <1>1, <1>4, <4>2
      <4>4. ASSUME NEW y \in FilterLines(path), Near(y[1]), SaysAt(path, y, c) # "none"
            PROVE  y = x \/ Outranks(x, y)
        BY <3>1, <4>2, <4>3, <4>4 DEF Outranks
      <4> QED
        BY <3>3, <4>1, <4>2, <4>3, <4>4
    <3> QED
      BY <3>2, <3>3
  <2> QED
    BY <2>2, <2>4, <2>5, <2>6, <2>7 DEF ReadLevels, Near
<1> QED
  BY <1>7, <1>8, <1>9 DEF Acc

(* The line length that the innermost n levels have left.                    *)
LengthLevels(path, n, r) ==
  LET Near(l) == l > Len(path) - n IN
  ~r.fails =>
    IF \A x \in LengthLines(path) : ~Near(x[1])
    THEN r.settings.linelength = settings.linelength
    ELSE \E x \in LengthLines(path) :
           /\ Near(x[1]) /\ r.settings.linelength = LengthOf(path, x)
           /\ \A y \in LengthLines(path) : Near(y[1]) => y = x \/ Outranks(y, x)

LEMMA LevelLength ==
  ASSUME NEW path, Len(path) \in Nat, DOMAIN path = 1 .. Len(path),
         \A l \in DOMAIN path : Options(OptionsAt(path, l)),
         NEW n \in 1 .. Len(path), NEW p \in Acc, NEW c,
         ReadLevels(path, n - 1, p, c), LengthLevels(path, n - 1, p)
  PROVE  LengthLevels(path, n, ApplyConfig(p, path, Len(path) + 1 - n))
<1> DEFINE lev == Len(path) + 1 - n
           opts == OptionsAt(path, lev)
           q == ApplyConfig(p, path, lev)
           Near(l) == l > Len(path) - n
           Nearer(l) == l > Len(path) - (n - 1)
<1>1. /\ lev \in DOMAIN path /\ Near(lev) /\ ~Nearer(lev)
      /\ \A l \in DOMAIN path : Near(l) <=> Nearer(l) \/ l = lev
      /\ \A l \in DOMAIN path : Nearer(l) <=> l > lev
  OBVIOUS
<1>2. Options(opts)
  BY <1>1
<1>3. Levels(path) \subseteq DOMAIN path
  BY DEF Levels
<1>4. \A x \in LengthLines(path) : x[1] \in DOMAIN path
  BY <1>3, LengthLinesAre
<1>5. /\ ~p.fails => (p.excluded <=> \E l \in Levels(path) : Nearer(l) /\ ExcludedAt(path, l))
      /\ ~Over(p) => (p.keep_looking <=> \A l \in DOMAIN path : Nearer(l) => ~Stops(DirOf(path, l)))
  BY DEF ReadLevels
<1>6. lev \in Levels(path) <=> \A l \in DOMAIN path : Nearer(l) => ~Stops(DirOf(path, l))
  BY <1>1 DEF Levels
<1>7. ~p.fails =>
        IF \A x \in LengthLines(path) : ~Nearer(x[1])
        THEN p.settings.linelength = settings.linelength
        ELSE \E x \in LengthLines(path) :
               /\ Nearer(x[1]) /\ p.settings.linelength = LengthOf(path, x)
               /\ \A y \in LengthLines(path) : Nearer(y[1]) => y = x \/ Outranks(y, x)
  BY DEF LengthLevels
<1> HIDE DEF lev, opts, q, Near, Nearer
<1> SUFFICES ASSUME ~q.fails
             PROVE  IF \A x \in LengthLines(path) : ~Near(x[1])
                    THEN q.settings.linelength = settings.linelength
                    ELSE \E x \in LengthLines(path) :
                           /\ Near(x[1]) /\ q.settings.linelength = LengthOf(path, x)
                           /\ \A y \in LengthLines(path) : Near(y[1]) => y = x \/ Outranks(y, x)
  BY DEF q, lev, Near, LengthLevels
<1>8. ASSUME q = p, \A x \in LengthLines(path) : x[1] # lev
      PROVE  IF \A x \in LengthLines(path) : ~Near(x[1])
             THEN q.settings.linelength = settings.linelength
             ELSE \E x \in LengthLines(path) :
                    /\ Near(x[1]) /\ q.settings.linelength = LengthOf(path, x)
                    /\ \A y \in LengthLines(path) : Near(y[1]) => y = x \/ Outranks(y, x)
  <2>1. \A x \in LengthLines(path) : Near(x[1]) <=> Nearer(x[1])
    BY <1>1, <1>4, <1>8
  <2> QED
    BY <1>7, <1>8, <2>1
<1>9. CASE Over(p)
  <2>1. q = p
    BY <1>9 DEF q, ApplyConfig
  <2>2. PICK m \in Levels(path) : Nearer(m) /\ ExcludedAt(path, m)
    BY <1>5, <1>9, <2>1 DEF Over
  <2>3. PICK j \in DOMAIN OptionsAt(path, m) : Excludes(OptionsAt(path, m)[j], path[m])
    BY <2>2 DEF ExcludedAt
  <2>4. ASSUME NEW x \in LengthLines(path), x[1] = lev PROVE FALSE
    <3>1. Outranks(<<m, j>>, x)
      BY <1>1, <1>3, <2>2, <2>4 DEF Outranks
    <3> QED
      BY <2>2, <2>3, <3>1, LengthLinesAre
  <2> QED
    BY <1>8, <2>1, <2>4
<1>10. CASE ~Over(p) /\ ~p.keep_looking
  <2>1. q = p
    BY <1>10 DEF q, ApplyConfig
  <2>2. lev \notin Levels(path)
    BY <1>5, <1>6, <1>10
  <2> QED
    BY <1>8, <2>1, <2>2, LengthLinesAre
<1>11. CASE ~Over(p) /\ p.keep_looking
  <2>1. q = AfterOptions(p, opts, path[lev])[Len(opts)]
    BY <1>11 DEF q, ApplyConfig, opts, OptionsAt
  <2>2. IF \A i \in 1 .. Len(opts) : ~GivesLength(opts, path[lev], i)
        THEN q.settings.linelength = p.settings.linelength
        ELSE \E i \in 1 .. Len(opts) :
               /\ GivesLength(opts, path[lev], i)
               /\ q.settings.linelength = opts[i].linelength
               /\ \A j \in 1 .. Len(opts) : GivesLength(opts, path[lev], j) => j <= i
    BY <1>2, <1>11, <2>1, FileLength DEF ReadLength
  <2>3. lev \in Levels(path) /\ DOMAIN opts = 1 .. Len(opts) /\ Len(opts) \in Nat
    BY <1>2, <1>5, <1>6, <1>11 DEF Options
  <2>4. \A m \in Levels(path) : Nearer(m) => ~ExcludedAt(path, m)
    BY <1>5, <1>11 DEF Over
  <2>5. ASSUME NEW i \in 1 .. Len(opts)
        PROVE  <<lev, i>> \in LengthLines(path) <=> GivesLength(opts, path[lev], i)
    <3>1. ASSUME <<lev, i>> \in LengthLines(path) PROVE GivesLength(opts, path[lev], i)
      <4>1. opts[i].name = "linelength"
        BY <3>1, LengthLinesAre DEF opts
      <4>2. ASSUME NEW j \in 1 .. i - 1, Excludes(opts[j], path[lev]) PROVE FALSE
        <5>1. j \in DOMAIN OptionsAt(path, lev) /\ Excludes(OptionsAt(path, lev)[j], path[lev])
          BY <2>3, <4>2 DEF opts
        <5>2. Outranks(<<lev, j>>, <<lev, i>>)
          BY <4>2 DEF Outranks
        <5> QED
          BY <2>3, <3>1, <5>1, <5>2, LengthLinesAre
      <4> QED
        BY <4>1, <4>2 DEF GivesLength
    <3>2. ASSUME GivesLength(opts, path[lev], i) PROVE <<lev, i>> \in LengthLines(path)
      <4>1. i \in DOMAIN OptionsAt(path, lev) /\ OptionsAt(path, lev)[i].name = "linelength"
        BY <2>3, <3>2 DEF GivesLength, opts
      <4>2. ASSUME NEW m \in Levels(path), NEW j \in DOMAIN OptionsAt(path, m),
                   Excludes(OptionsAt(path, m)[j], path[m]), Outranks(<<m, j>>, <<lev, i>>)
            PROVE  FALSE
        <5>1. m > lev \/ (m = lev /\ j < i)
          BY <4>2 DEF Outranks
        <5>2. CASE m > lev
          BY <1>1, <1>3, <2>4, <4>2, <5>2 DEF ExcludedAt
        <5>3. CASE m = lev /\ j < i
          <6>1. j \in 1 .. i - 1 /\ Excludes(opts[j], path[lev])
            BY <2>3, <4>2, <5>3 DEF opts
          <6> QED
            BY <3>2, <6>1 DEF GivesLength
        <5> QED
          BY <5>1, <5>2, <5>3
      <4> QED
        BY <2>3, <4>1, <4>2, LengthLinesAre
    <3> QED
      BY <3>1, <3>2
  <2>6. \A y \in LengthLines(path) : Near(y[1]) =>
           \/ Nearer(y[1]) /\ y[1] > lev
           \/ /\ y = <<lev, y[2]>> /\ y[1] = lev /\ y[2] \in 1 .. Len(opts)
              /\ GivesLength(opts, path[lev], y[2])
    <3> TAKE y \in LengthLines(path)
    <3> HAVE Near(y[1])
    <3>1. y = <<y[1], y[2]>> /\ y[1] \in DOMAIN path /\ y[2] \in DOMAIN OptionsAt(path, y[1])
      BY <1>4, LengthLinesAre
    <3>2. CASE Nearer(y[1])
      BY <1>1, <3>1, <3>2
    <3>3. CASE y[1] = lev
      <4>1. y[2] \in 1 .. Len(opts) /\ y = <<lev, y[2]>>
        BY <2>3, <3>1, <3>3 DEF opts
      <4> QED
        BY <2>5, <3>3, <4>1
    <3> QED
      BY <1>1, <3>1, <3>2, <3>3
  <2>7. CASE \A i \in 1 .. Len(opts) : ~GivesLength(opts, path[lev], i)
    <3>1. q.settings.linelength = p.settings.linelength
      BY <2>2, <2>7
    <3>2. \A x \in LengthLines(path) : Near(x[1]) <=> Nearer(x[1])
      BY <1>1, <1>4, <2>6, <2>7
    <3>3. ~p.fails
      BY <1>11 DEF Over
    <3> QED
      BY <1>7, <3>1, <3>2, <3>3
  <2>8. CASE ~\A i \in 1 .. Len(opts) : ~GivesLength(opts, path[lev], i)
    <3>1. PICK i \in 1 .. Len(opts) :
             /\ GivesLength(opts, path[lev], i)
             /\ q.settings.linelength = opts[i].linelength
             /\ \A j \in 1 .. Len(opts) : GivesLength(opts, path[lev], j) => j <= i
      BY <2>2, <2>8
    <3> DEFINE x == <<lev, i>>
    <3>2. x \in LengthLines(path) /\ x[1] = lev /\ x[2] = i
      BY <2>5, <3>1
    <3>3. q.settings.linelength = LengthOf(path, x)
      BY <3>1, <3>2, LengthLinesAre DEF opts
    <3>4. ASSUME NEW y \in LengthLines(path), Near(y[1]) PROVE y = x \/ Outranks(y, x)
      <4>1. CASE y[1] > lev
        BY <3>2, <4>1 DEF Outranks
      <4>2. CASE y = <<lev, y[2]>> /\ y[1] = lev /\ y[2] \in 1 .. Len(opts) /\ GivesLength(opts, path[lev], y[2])
        <5>1. y[2] = i \/ y[2] < i
          BY <2>3, <3>1, <4>2
        <5>2. CASE y[2] = i
          BY <4>2, <5>2
        <5>3. CASE y[2] < i
          BY <3>2, <4>2, <5>3 DEF Outranks
        <5> QED
          BY <5>1, <5>2, <5>3
      <4> QED
        BY <2>6, <3>4, <4>1, <4>2
    <3> HIDE DEF x
    <3> QED
      BY <1>1, <3>2, <3>3, <3>4
  <2> QED
    BY <2>7, <2>8
<1> QED
  BY <1>9, <1>10, <1>11 DEF Acc

LEMMA LevelsRead ==
  ASSUME config \in Configs, settings \in Settings, NEW f \in DOMAIN Tree, NEW c
  PROVE  LET path == Tree[f].path
             cfg == ProcessConfigOverrides(path)
         IN  cfg \in Acc /\ ReadLevels(path, Len(path), cfg, c) /\ LengthLevels(path, Len(path), cfg)
<1> DEFINE path == Tree[f].path
           N == Len(path)
           start == [keep_looking |-> TRUE, excluded |-> FALSE, fails |-> FALSE,
                     cfg_filters |-> <<>>, settings |-> settings]
           step == [x \in Acc \X (1 .. N) |->
                      LET q == ApplyConfig(x[1], path, N + 1 - x[2]) IN
                      IF q \in Acc THEN q ELSE start]
           IsRun(g) == g = [n \in 0 .. N |-> IF n = 0 THEN start
                                             ELSE ApplyConfig(g[n - 1], path, N + 1 - n)]
<1>1. N \in Nat /\ DOMAIN path = 1 .. N /\ \A l \in DOMAIN path : Options(OptionsAt(path, l))
  BY PathOptions
<1>2. start \in Acc
  BY DEF Acc
<1>3. \A a \in Acc, n \in 1 .. N : ApplyConfig(a, path, N + 1 - n) \in Acc
  <2> TAKE a \in Acc, n \in 1 .. N
  <2>1. Options(OptionsAt(path, N + 1 - n))
    BY <1>1
  <2> HIDE DEF path, N
  <2>2. CASE a.keep_looking /\ ~Over(a)
    <3>1. ApplyConfig(a, path, N + 1 - n) =
            AfterOptions(a, OptionsAt(path, N + 1 - n), path[N + 1 - n])[Len(OptionsAt(path, N + 1 - n))]
      BY <2>2 DEF ApplyConfig, OptionsAt
    <3> QED
      BY <2>1, <2>2, <3>1, FileRead
  <2>3. CASE ~(a.keep_looking /\ ~Over(a))
    BY <2>3 DEF ApplyConfig
  <2> QED
    BY <2>2, <2>3
<1>4. step \in [Acc \X (1 .. N) -> Acc] /\ \A a \in Acc, n \in 1 .. N :
        step[<<a, n>>] = ApplyConfig(a, path, N + 1 - n)
  <2> HIDE DEF start, path, N
  <2> QED
    BY <1>2, <1>3
<1>5. PICK g \in [0 .. N -> Acc] : Computes(g, start, step, N)
  <2> HIDE DEF step, N, start
  <2> QED
    BY <1>1, <1>2, <1>4, ComputationExists
<1>6. /\ g[0] = start
      /\ \A n \in 1 .. N : g[n] = ApplyConfig(g[n - 1], path, N + 1 - n)
  <2> HIDE DEF step, N, start, path
  <2>1. g[0] = start /\ \A n \in 1 .. N : g[n] = step[<<g[n - 1], n>>]
    BY <1>5 DEF Computes
  <2>2. \A n \in 1 .. N : g[n - 1] \in Acc
    BY <1>1, <1>5
  <2> QED
    BY <1>4, <2>1, <2>2, Zenon
<1>7. IsRun(g)
  <2> HIDE DEF step, N, start, path
  <2> QED
    BY <1>1, <1>5, <1>6
<1> DEFINE h == AfterLevels(path)
<1>8. h = CHOOSE g2 : IsRun(g2)
  BY DEF AfterLevels
<1>9. IsRun(h)
  <2> HIDE DEF h, IsRun
  <2> QED
    BY <1>7, <1>8
<1> HIDE DEF h, step, start
<1>10. h[0] = start /\ \A n \in 1 .. N : h[n] = ApplyConfig(h[n - 1], path, N + 1 - n)
  <2> HIDE DEF path, N
  <2> QED
    BY <1>1, <1>9
<1> DEFINE Good == {n \in 0 .. N : /\ h[n] \in Acc /\ ReadLevels(path, n, h[n], c)
                                   /\ LengthLevels(path, n, h[n])}
<1>11. 0 \in Good
  <2>1. \A x \in FilterLines(path) : ~(x[1] > N)
    BY <1>1, FilterLinesAre DEF Levels
  <2>2. \A l \in Levels(path) : ~(l > N)
    BY <1>1 DEF Levels
  <2>3. /\ start.keep_looking = TRUE /\ start.excluded = FALSE /\ start.fails = FALSE /\ start.cfg_filters = <<>>
        /\ start.settings = settings
    BY DEF start
  <2>4. N - 0 = N /\ \A l \in DOMAIN path : ~(l > N)
    BY <1>1
  <2> HIDE DEF path
  <2>5. ReadLevels(path, 0, start, c)
    BY <2>1, <2>2, <2>3, <2>4, VerdictEmpty DEF ReadLevels
  <2>6. \A x \in LengthLines(path) : ~(x[1] > N)
    BY <2>2, LengthLinesAre
  <2>7. LengthLevels(path, 0, start)
    BY <2>3, <2>4, <2>6 DEF LengthLevels
  <2> QED
    BY <1>1, <1>2, <1>10, <2>5, <2>7
<1>12. ASSUME NEW n \in 1 .. N, n - 1 \in Good PROVE n \in Good
  <2>1. h[n - 1] \in Acc /\ ReadLevels(path, n - 1, h[n - 1], c) /\ LengthLevels(path, n - 1, h[n - 1])
    BY <1>12
  <2>2. h[n] = ApplyConfig(h[n - 1], path, N + 1 - n)
    BY <1>10
  <2> HIDE DEF path
  <2>3. h[n] \in Acc /\ ReadLevels(path, n, h[n], c)
    BY <1>1, <2>1, <2>2, LevelRead
  <2>4. LengthLevels(path, n, h[n])
    BY <1>1, <2>1, <2>2, LevelLength
  <2> QED
    BY <2>3, <2>4
<1>13. N \in Good
  <2>1. N \in Nat /\ N \in 0 .. N
    BY <1>1
  <2>2. \A n \in 1 .. N : n - 1 \in Good => n \in Good
    BY <1>12
  <2> HIDE DEF Good, N, path, IsRun
  <2>3. \A n \in 0 .. N : n \in Good
    BY <1>11, <2>1, <2>2, StepByStep
  <2> QED
    BY <2>1, <2>3
<1> QED
  BY <1>13 DEF ProcessConfigOverrides, h

-----------------------------------------------------------------------------
Base == DefaultFilters \o args.filters

LEMMA BaseType ==
  ASSUME args \in Arguments
  PROVE  Base \in Seq(Filter) /\ args.settings \in Settings
<1>1. args.filters \in Seq(Filter) /\ args.settings \in Settings
  BY ArgumentsAssumption
<1>2. <<"build", "include_alpha">> \in Category
  BY WordAssumption DEF Category
<1>3. [sign |-> "-", pattern |-> <<"build", "include_alpha">>] \in Filter
  BY <1>2, WordAssumption DEF Filter
<1>4. DefaultFilters \in Seq(Filter)
  BY <1>3 DEF DefaultFilters
<1> QED
  BY <1>1, <1>4 DEF Base

LEMMA ConfigDecides ==
  ASSUME config \in Configs, settings \in Settings, args \in Arguments, NEW f \in DOMAIN Tree
  PROVE  LET path == Tree[f].path
             cfg == ProcessConfigOverrides(path)
         IN  /\ cfg \in Acc
             /\ ~cfg.fails => (cfg.excluded <=> Excluded(path))
             /\ KeepsExtensions(path) => /\ cfg.settings.extensions = settings.extensions
                                         /\ cfg.settings.headers = settings.headers
             /\ ~Over(cfg) => \A c : ~Filtered(Base \o cfg.cfg_filters, c) <=> Shows(path, c)
             /\ ~cfg.fails =>
                  IF LengthLines(path) = {} THEN cfg.settings.linelength = settings.linelength
                  ELSE \E x \in LengthLines(path) :
                         /\ cfg.settings.linelength = LengthOf(path, x)
                         /\ \A y \in LengthLines(path) : y = x \/ Outranks(y, x)
<1> DEFINE path == Tree[f].path
           cfg == ProcessConfigOverrides(path)
<1>1. cfg \in Acc /\ LengthLevels(path, Len(path), cfg) /\ \A c : ReadLevels(path, Len(path), cfg, c)
  BY LevelsRead
<1>2. /\ Len(path) \in Nat /\ DOMAIN path = 1 .. Len(path)
      /\ \A l \in DOMAIN path : Options(OptionsAt(path, l))
  BY PathOptions
<1> HIDE DEF path, cfg
<1>3. \A l \in Levels(path) : l \in DOMAIN path /\ l > Len(path) - Len(path)
  BY <1>2 DEF Levels
<1>4. \A x \in FilterLines(path) :
         /\ x[1] > Len(path) - Len(path) /\ x = <<x[1], x[2]>>
         /\ x[1] \in Nat /\ x[2] \in Nat
  <2> TAKE x \in FilterLines(path)
  <2>1. x = <<x[1], x[2]>> /\ x[1] \in Levels(path) /\ x[2] \in DOMAIN OptionsAt(path, x[1])
    BY FilterLinesAre
  <2> QED
    BY <1>2, <1>3, <2>1 DEF Options
<1>5. ~cfg.fails => (cfg.excluded <=> Excluded(path))
  BY <1>1, <1>3 DEF ReadLevels, Excluded, ExcludedAt, Excludes, OptionsAt
<1>6. KeepsExtensions(path) => /\ cfg.settings.extensions = settings.extensions
                              /\ cfg.settings.headers = settings.headers
  BY <1>1 DEF ReadLevels
<1>7. ASSUME ~Over(cfg), NEW c
      PROVE  ~Filtered(Base \o cfg.cfg_filters, c) <=> Shows(path, c)
  <2> DEFINE V == Verdict(cfg.cfg_filters, c)
             all == Base \o cfg.cfg_filters
  <2>1. Verdict(all, c) = IF V # "none" THEN V ELSE Verdict(Base, c)
    <3>1. cfg.cfg_filters \in Seq(Filter)
      BY <1>1 DEF Acc
    <3> QED
      BY <3>1, BaseType, VerdictConcat
  <2>2. IF V = "none"
        THEN \A x \in FilterLines(path) : SaysAt(path, x, c) = "none"
        ELSE \E x \in FilterLines(path) :
               /\ SaysAt(path, x, c) = V
               /\ \A y \in FilterLines(path) :
                    SaysAt(path, y, c) # "none" => y = x \/ Outranks(x, y)
    BY <1>1, <1>4, <1>7 DEF ReadLevels
  <2>3. \A fs : /\ Verdict(fs, c) \in {"+", "-", "none"}
                /\ Verdict(fs, c) = "-" <=> Filtered(fs, c)
    BY DEF Verdict, Filtered
  <2> HIDE DEF V, all
  <2>4. Shows(path, c) <=>
          LET speaking == {x \in FilterLines(path) : SaysAt(path, x, c) # "none"} IN
          IF speaking = {} THEN Verdict(Base, c) # "-"
          ELSE \E x \in speaking :
                  SaysAt(path, x, c) = "+" /\ \A y \in speaking : y = x \/ Outranks(x, y)
    BY DEF Shows, SaysAt, OptionsAt, Base
  <2>5. CASE V = "none"
    <3>1. {x \in FilterLines(path) : SaysAt(path, x, c) # "none"} = {}
      BY <2>2, <2>5
    <3> QED
      BY <2>1, <2>3, <2>4, <2>5, <3>1 DEF all
  <2>6. CASE V # "none"
    <3>1. PICK x \in FilterLines(path) :
             /\ SaysAt(path, x, c) = V
             /\ \A y \in FilterLines(path) : SaysAt(path, y, c) # "none" => y = x \/ Outranks(x, y)
      BY <2>2, <2>6
    <3>2. \A y \in FilterLines(path) : ~(Outranks(x, y) /\ Outranks(y, x))
      BY <1>4 DEF Outranks
    <3>3. Shows(path, c) <=> V = "+"
      BY <2>4, <2>6, <3>1, <3>2
    <3>4. Filtered(all, c) <=> V = "-"
      BY <2>1, <2>3, <2>6
    <3>5. V \in {"+", "-"}
      BY <2>3, <2>6 DEF V
    <3> QED
      BY <3>3, <3>4, <3>5 DEF all
  <2> QED
    BY <2>5, <2>6
<1>8. ASSUME ~cfg.fails
      PROVE  IF LengthLines(path) = {} THEN cfg.settings.linelength = settings.linelength
             ELSE \E x \in LengthLines(path) :
                    /\ cfg.settings.linelength = LengthOf(path, x)
                    /\ \A y \in LengthLines(path) : y = x \/ Outranks(y, x)
  <2>1. \A x \in LengthLines(path) : x[1] > Len(path) - Len(path)
    BY <1>3, LengthLinesAre
  <2> QED
    BY <1>1, <1>8, <2>1 DEF LengthLevels
<1> QED
  BY <1>1, <1>5, <1>6, <1>7, <1>8 DEF path, cfg

-----------------------------------------------------------------------------
(* The inductive invariant: types and what is still to be processed, ...     *)
Busy == pc \in {"lint", "finish"}

\* the files that are asked for
Wanted == Filenames(args)

Types ==
  /\ args \in Arguments /\ config \in Configs
  /\ pc \in {"arguments", "next", "lint", "finish", "crashed", "failure", "success"}
  /\ settings \in Settings /\ queue \subseteq DOMAIN Tree /\ item \in Nat \ {0}
  /\ linted \subseteq DOMAIN Tree
  /\ Busy => queue # {}
  /\ pc \in {"failure", "success"} => queue = {}
  /\ pc = "arguments" => queue = {} /\ linted = {} /\ printed = {} /\ done = {} /\ error_count = 0
                         /\ errors_by_category = <<>> /\ settings = DefaultSettings

(* ... which files are linted, and the errors that are printed of them, ...  *)
LintedSoFar ==
  /\ \A f \in linted : f \in queue => pc = "lint" /\ f = First(queue)
  /\ pc = "lint" => First(queue) \in linted
  /\ \A p \in printed :
       /\ p = <<p[1], p[2]>> /\ p[1] \in linted /\ p[2] \in DOMAIN Tree[p[1]].items
       /\ p[1] \in queue => p[2] < item

(* ... the filters in force, ...                                             *)
FiltersInForce ==
  /\ pc = "next" => filters = Base
  /\ Busy => _filters_backup = Base
  /\ pc = "lint" => \A i \in DOMAIN Tree[First(queue)].items :
       LET e == Tree[First(queue)].items[i] IN
       ~Filtered(filters, e.category) <=> Shows(Tree[First(queue)].path, e.category)

(* ... the line length in force, which is what the files up to the one in     *)
(* hand have left, ...                                                       *)
Passed == (Wanted \ queue) \cup (IF Busy THEN {First(queue)} ELSE {})

LengthInForce ==
  /\ pc # "arguments" => queue \subseteq Wanted
  /\ pc = "next" \/ Busy =>
       /\ \A g \in Wanted \ queue : \A h \in queue : g < h
       /\ \A w \in Nat : w > settings.linelength <=> TooLongAfter(Passed, w)

Justified ==
  \A f \in linted : \A i \in DOMAIN Tree[f].items :
    LET e == Tree[f].items[i] IN
    (f \in queue => i < item) =>
      (<<f, i>> \in printed
         <=> /\ Found(f, e)
             /\ ~e.nolint /\ e.confidence >= args.verbose /\ Shows(Tree[f].path, e.category))

JustifiedInv == Types /\ LintedSoFar /\ FiltersInForce /\ LengthInForce /\ Justified

(* ... the counts, ...                                                       *)
Of(P, c) == {p \in P : Counted(p) = c}

Counts ==
  /\ IsFiniteSet(printed) /\ error_count = Cardinality(printed)
  /\ args.counting \in {"toplevel", "detailed"} =>
       /\ DOMAIN errors_by_category = {Counted(p) : p \in printed}
       /\ \A c \in DOMAIN errors_by_category : errors_by_category[c] = Cardinality(Of(printed, c))
  /\ pc \in {"failure", "success"} => (pc = "failure" <=> printed # {})
  /\ Busy => /\ old_errors \in Nat /\ old_errors <= error_count
             /\ old_errors = error_count <=> \A p \in printed : p[1] # First(queue)
  /\ args.quiet => done = {p[1] : p \in printed} \ (IF Busy THEN {First(queue)} ELSE {})

(* ... and, without a configuration file that changes the extensions, which  *)
(* files will have been linted in the end.                                   *)
NoExtensions ==
  \A d \in DOMAIN config : \A i \in DOMAIN config[d] : config[d][i].name \notin {"extensions", "headers"}

Lints(f) == /\ Tree[f].readable
            /\ Tree[f].ext \in GetAllExtensions(args.settings)
            /\ ~Excluded(Tree[f].path)

AsAskedFor(st) ==
  st.extensions = args.settings.extensions /\ st.headers = args.settings.headers

Selected ==
  /\ \A f \in linted : ~Excluded(Tree[f].path)
  /\ \A f \in linted \cup queue : ~\E e \in args.excludes : IsPrefix(e, Tree[f].path)
  /\ NoExtensions =>
       /\ pc # "arguments" => AsAskedFor(settings)
       /\ queue \subseteq Wanted
       /\ Busy => (Lints(First(queue)) <=> pc = "lint")
       /\ pc # "arguments" =>
            linted = {f \in Wanted : Lints(f) /\ (f \in queue => pc = "lint" /\ f = First(queue))}

-----------------------------------------------------------------------------
LEMMA FirstIsOne ==
  ASSUME NEW files \in SUBSET DOMAIN Tree, files # {}
  PROVE  First(files) \in files /\ \A g \in files : First(files) <= g
<1>1. files \in SUBSET Nat
  BY TreeType
<1>2. \E f \in files : \A g \in files : f <= g
  BY <1>1, Least
<1> QED
  BY <1>2 DEF First

(* What the command line and the configuration files say does not change.    *)
LEMMA SaidForAll ==
  ASSUME UNCHANGED <<args, config>>
  PROVE  /\ \A path, c : Shows(path, c)' <=> Shows(path, c)
         /\ \A path : Excluded(path)' <=> Excluded(path)
         /\ \A f : Lints(f)' <=> Lints(f)
         /\ Base' = Base /\ (NoExtensions' <=> NoExtensions)
         /\ Wanted' = Wanted
         /\ \A S, w : TooLongAfter(S, w)' <=> TooLongAfter(S, w)
         /\ \A f, e : Found(f, e)' <=> Found(f, e)
<1>1. args' = args /\ config' = config
  OBVIOUS
<1>2. \A path : Excluded(path)' <=> Excluded(path)
  BY <1>1 DEF Excluded, Levels, Stops
<1>3. \A path, c : Shows(path, c)' <=> Shows(path, c)
  BY <1>1 DEF Shows, FilterLines, LinesOf, Levels, Stops
<1>4. \A f : Lints(f)' <=> Lints(f)
  BY <1>2 DEF Lints
<1>5. \A S, w : TooLongAfter(S, w)' <=> TooLongAfter(S, w)
  BY <1>1 DEF TooLongAfter, LengthLines, LengthOf, LinesOf, Levels, Stops
<1>6. Wanted' = Wanted
  BY <1>1 DEF Wanted
<1>7. \A f, e : Found(f, e)' <=> Found(f, e)
  BY <1>1, <1>5 DEF Found
<1> QED
  BY <1>1, <1>2, <1>3, <1>4, <1>5, <1>6, <1>7 DEF Base, NoExtensions

LEMMA ConfigType ==
  ASSUME Types, NEW f \in queue
  PROVE  /\ ProcessConfigOverrides(Tree[f].path) \in Acc
         /\ ProcessConfigOverrides(Tree[f].path).settings \in Settings
<1>1. ProcessConfigOverrides(Tree[f].path) \in Acc
  BY ConfigDecides DEF Types
<1> QED
  BY <1>1 DEF Acc

\* what StartFile does with the file, whatever the configuration says
LEMMA FileStarts ==
  ASSUME Types, StartFile
  PROVE  LET f == First(queue)
             cfg == ProcessConfigOverrides(Tree[f].path)
         IN  /\ f \in queue /\ cfg \in Acc /\ settings' = cfg.settings
             /\ UNCHANGED <<args, config, printed, done, error_count, errors_by_category>> /\ pc = "next" /\ item' = 1
             /\ _filters_backup' = filters /\ old_errors' = error_count
             /\ \/ /\ ~cfg.fails /\ (cfg.excluded \/ ~Tree[f].readable)
                   /\ queue' = queue \ {f} /\ pc' = "next" /\ filters' = filters /\ linted' = linted
                \/ /\ pc' = "crashed" /\ queue' = queue /\ linted' = linted
                \/ /\ ~Over(cfg) /\ Tree[f].readable /\ queue' = queue
                   /\ filters' = filters \o cfg.cfg_filters
                   /\ IF Tree[f].ext \in GetAllExtensions(cfg.settings)
                      THEN pc' = "lint" /\ linted' = linted \cup {f}
                      ELSE pc' = "finish" /\ linted' = linted
<1> DEFINE f == First(queue)
           cfg == ProcessConfigOverrides(Tree[f].path)
           added == filters \o cfg.cfg_filters
<1>1. f \in queue /\ cfg \in Acc
  BY FirstIsOne, ConfigType DEF Types, StartFile
<1>2. /\ settings' = cfg.settings /\ UNCHANGED <<args, config, printed, done, error_count, errors_by_category>>
      /\ pc = "next" /\ item' = 1 /\ _filters_backup' = filters /\ old_errors' = error_count
  BY DEF StartFile, countVars
<1>3. CASE ~cfg.fails /\ cfg.excluded
  BY <1>1, <1>2, <1>3 DEF StartFile
<1>4. CASE cfg.fails \/ (~cfg.excluded /\ Malformed(added))
  <2>1. pc' = "crashed" /\ UNCHANGED <<queue, filters, linted>>
    <3>1. CASE cfg.fails
      BY <3>1 DEF StartFile, Over
    <3>2. CASE ~cfg.fails /\ ~cfg.excluded /\ Malformed(added)
      BY <3>2 DEF StartFile
    <3> QED
      BY <1>4, <3>1, <3>2
  <2> QED
    BY <1>1, <1>2, <2>1
<1>5. CASE ~Over(cfg) /\ ~Malformed(added) /\ ~Tree[f].readable
  BY <1>1, <1>2, <1>5 DEF StartFile, Over
<1>6. CASE ~Over(cfg) /\ ~Malformed(added) /\ Tree[f].readable
  BY <1>1, <1>2, <1>6 DEF StartFile, Over
<1> QED
  BY <1>3, <1>4, <1>5, <1>6 DEF Over

LEMMA InitTypes == Init => Types
<1>1. DefaultSettings \in Settings
  <2>1. <<>> \in Path /\ "default" \in Word
    BY WordAssumption DEF Path
  <2> QED
    BY <2>1 DEF DefaultSettings, Settings
<1> QED
  BY <1>1 DEF Init, Types, Busy

LEMMA StepTypes == Types /\ [Next]_vars => Types'
<1> SUFFICES ASSUME Types, [Next]_vars PROVE Types'
  OBVIOUS
<1>1. CASE ParseArguments
  <2>1. settings' \in Settings
    <3>1. args.settings \in Settings
      BY BaseType DEF Types
    <3> QED
      BY <1>1, <3>1 DEF ParseArguments
  <2>2. queue' \subseteq DOMAIN Tree
    BY <1>1 DEF ParseArguments, Filenames, _FilterExcludedFiles, _ExpandDirectories
  <2> QED
    BY <1>1, <2>1, <2>2 DEF ParseArguments, Types, Busy
<1>2. CASE StartFile
  <2>1. ProcessConfigOverrides(Tree[First(queue)].path).settings \in Settings
    BY <1>2, FileStarts DEF Acc
  <2>2. First(queue) \in queue
    BY <1>2, FileStarts
  <2> QED
    BY <1>2, <2>1, <2>2, FileStarts DEF Types, Busy
<1>3. CASE Error
  BY <1>3 DEF Error, Types, Busy
<1>4. CASE FinishFile
  BY <1>4 DEF FinishFile, Types, Busy
<1>5. CASE Exit
  BY <1>5 DEF Exit, Types, Busy
<1>6. CASE UNCHANGED vars
  BY <1>6 DEF vars, countVars, Types, Busy
<1> QED
  BY <1>1, <1>2, <1>3, <1>4, <1>5, <1>6 DEF Next

LEMMA StepLinted == Types /\ LintedSoFar /\ [Next]_vars => LintedSoFar'
<1> SUFFICES ASSUME Types, LintedSoFar, [Next]_vars PROVE LintedSoFar'
  OBVIOUS
<1>1. CASE ParseArguments
  BY <1>1 DEF ParseArguments, LintedSoFar, Types
<1>2. CASE StartFile
  BY <1>2, FileStarts DEF LintedSoFar
<1>3. CASE Error
  <2>1. item \in DOMAIN Tree[First(queue)].items /\ item' = item + 1 /\ item \in Nat
    <3>1. First(queue) \in DOMAIN Tree
      BY <1>3, FirstIsOne DEF Types, Busy, Error
    <3>2. Tree[First(queue)].items \in Seq(Item)
      BY <3>1, TreeType
    <3> QED
      BY <1>3, <3>2 DEF Error, Types
  <2>2. /\ UNCHANGED <<pc, queue, linted>> /\ pc = "lint"
        /\ printed' = printed \/ printed' = printed \cup {<<First(queue), item>>}
    BY <1>3 DEF Error
  <2>3. \A p \in printed' :
          /\ p = <<p[1], p[2]>> /\ p[1] \in linted' /\ p[2] \in DOMAIN Tree[p[1]].items
          /\ p[1] \in queue' => p[2] < item'
    <3> TAKE p \in printed'
    <3>1. CASE p \in printed
      <4>1. p[2] \in Nat
        <5>1. p[1] \in DOMAIN Tree /\ p[2] \in DOMAIN Tree[p[1]].items
          BY <3>1 DEF LintedSoFar, Types
        <5>2. Tree[p[1]].items \in Seq(Item)
          BY <5>1, TreeType
        <5> QED
          BY <5>1, <5>2
      <4> QED
        BY <2>1, <2>2, <3>1, <4>1 DEF LintedSoFar
    <3>2. CASE p = <<First(queue), item>>
      BY <2>1, <2>2, <3>2 DEF LintedSoFar
    <3> QED
      BY <2>2, <3>1, <3>2
  <2> QED
    BY <2>2, <2>3 DEF LintedSoFar
<1>4. CASE FinishFile
  BY <1>4 DEF FinishFile, LintedSoFar
<1>5. CASE Exit
  BY <1>5 DEF Exit, LintedSoFar
<1>6. CASE UNCHANGED vars
  BY <1>6 DEF vars, countVars, LintedSoFar
<1> QED
  BY <1>1, <1>2, <1>3, <1>4, <1>5, <1>6 DEF Next

LEMMA StepFilters == Types /\ FiltersInForce /\ [Next]_vars => FiltersInForce'
<1> SUFFICES ASSUME Types, FiltersInForce, [Next]_vars PROVE FiltersInForce'
  OBVIOUS
<1>0. UNCHANGED <<args, config>>
  BY DEF Next, ParseArguments, StartFile, Error, FinishFile, Exit, vars
<1>1. CASE ParseArguments
  BY <1>1 DEF ParseArguments, FiltersInForce, Base, Busy
<1>2. CASE StartFile
  <2> DEFINE f == First(queue)
             cfg == ProcessConfigOverrides(Tree[f].path)
  <2>1. filters = Base /\ f \in DOMAIN Tree
    BY <1>2, FileStarts DEF FiltersInForce, Types
  <2>2. Base' = Base
    BY <1>0, SaidForAll
  <2>3. CASE ~Over(cfg) /\ queue' = queue /\ pc' \in {"lint", "finish"} /\ filters' = filters \o cfg.cfg_filters
    <3>1. \A c : ~Filtered(filters', c) <=> Shows(Tree[f].path, c)
      BY <2>1, <2>3, ConfigDecides DEF Types
    <3>2. \A c : Shows(Tree[First(queue)].path, c)' <=> Shows(Tree[f].path, c)
      BY <1>0, <2>3, SaidForAll
    <3>3. _filters_backup' = Base'
      BY <1>2, <2>1, <2>2 DEF StartFile
    <3> QED
      BY <2>3, <3>1, <3>2, <3>3 DEF FiltersInForce, Busy
  <2>4. CASE pc' \in {"next", "crashed"} /\ (pc' = "next" => filters' = filters)
    BY <2>1, <2>2, <2>4 DEF FiltersInForce, Busy
  <2> QED
    BY <1>2, <2>3, <2>4, FileStarts
<1>3. CASE Error
  BY <1>0, <1>3, SaidForAll DEF Error, FiltersInForce, Busy
<1>4. CASE FinishFile
  BY <1>0, <1>4, SaidForAll DEF FinishFile, Restored, FiltersInForce, Busy
<1>5. CASE Exit
  BY <1>5 DEF Exit, FiltersInForce, Busy
<1>6. CASE UNCHANGED vars
  BY <1>0, <1>6, SaidForAll DEF vars, countVars, FiltersInForce, Busy
<1> QED
  BY <1>1, <1>2, <1>3, <1>4, <1>5, <1>6 DEF Next

-----------------------------------------------------------------------------
(* One file more has been read: the outermost of its directories that gives  *)
(* a length decides, and when none does, the length stays.                   *)
LEMMA OneFileMore ==
  ASSUME Types, NEW S \in SUBSET DOMAIN Tree, NEW f \in DOMAIN Tree, \A g \in S : g < f,
         NEW w \in Nat, w > settings.linelength <=> TooLongAfter(S, w),
         ~ProcessConfigOverrides(Tree[f].path).fails
  PROVE  w > ProcessConfigOverrides(Tree[f].path).settings.linelength
           <=> TooLongAfter(S \cup {f}, w)
<1> DEFINE path == Tree[f].path
           cfg == ProcessConfigOverrides(path)
           G(T) == {g \in T : LengthLines(Tree[g].path) # {}}
           Latest(x) == \A y \in LengthLines(path) : y = x \/ Outranks(y, x)
<1>1. IF LengthLines(path) = {} THEN cfg.settings.linelength = settings.linelength
      ELSE \E x \in LengthLines(path) : cfg.settings.linelength = LengthOf(path, x) /\ Latest(x)
  BY ConfigDecides DEF Types
<1>2. CASE LengthLines(path) = {}
  <2>1. G(S \cup {f}) = G(S)
    BY <1>2
  <2>2. TooLongAfter(S \cup {f}, w) <=> TooLongAfter(S, w)
    BY <2>1 DEF TooLongAfter
  <2> QED
    BY <1>1, <1>2, <2>2
<1>3. CASE LengthLines(path) # {}
  <2>1. PICK x \in LengthLines(path) : cfg.settings.linelength = LengthOf(path, x) /\ Latest(x)
    BY <1>1, <1>3
  <2>2. \A y \in LengthLines(path) : y = <<y[1], y[2]>> /\ y[1] \in Nat /\ y[2] \in Nat
    <3> TAKE y \in LengthLines(path)
    <3>1. y = <<y[1], y[2]>> /\ y[1] \in DOMAIN path /\ y[2] \in DOMAIN OptionsAt(path, y[1])
      BY LengthLinesAre DEF Levels
    <3>2. /\ Len(path) \in Nat /\ DOMAIN path = 1 .. Len(path)
          /\ Options(OptionsAt(path, y[1]))
      BY <3>1, PathOptions DEF Types
    <3> QED
      BY <3>1, <3>2 DEF Options
  <2>3. \A y \in LengthLines(path) : Latest(y) => y = x
    <3> SUFFICES ASSUME NEW y \in LengthLines(path), Latest(y), y # x PROVE FALSE
      OBVIOUS
    <3>1. Outranks(x, y) /\ Outranks(y, x)
      BY <2>1
    <3> QED
      BY <2>2, <3>1 DEF Outranks
  <2>4. f \in G(S \cup {f}) /\ G(S \cup {f}) # {}
    BY <1>3
  <2>5. f \in Nat /\ \A g \in S : g \in Nat
    BY TreeType
  <2>6. \A g \in G(S \cup {f}) : g <= f /\ (f <= g => g = f)
    BY <2>5
  <2> DEFINE Ends(g, y) ==
        /\ \A h \in G(S \cup {f}) : h <= g
        /\ \A z \in LengthLines(Tree[g].path) : z = y \/ Outranks(z, y)
        /\ w > LengthOf(Tree[g].path, y)
  <2>7. TooLongAfter(S \cup {f}, w)
          <=> \E g \in G(S \cup {f}) : \E y \in LengthLines(Tree[g].path) : Ends(g, y)
    BY <2>4, Zenon DEF TooLongAfter
  <2>8. ASSUME w > LengthOf(path, x)
        PROVE  Ends(f, x)
    BY <2>1, <2>6, <2>8
  <2>9. ASSUME NEW g \in G(S \cup {f}), NEW y \in LengthLines(Tree[g].path), Ends(g, y)
        PROVE  w > LengthOf(path, x)
    <3>1. g = f
      BY <2>4, <2>6, <2>9
    <3>2. y = x
      BY <2>3, <2>9, <3>1
    <3> QED
      BY <2>9, <3>1, <3>2
  <2> HIDE DEF G, Ends, Latest, path, cfg
  <2>10. TooLongAfter(S \cup {f}, w) <=> w > LengthOf(path, x)
    BY <2>4, <2>7, <2>8, <2>9 DEF path
  <2> QED
    BY <2>1, <2>10 DEF cfg, path
<1> QED
  BY <1>2, <1>3

LEMMA StepLength == Types /\ LengthInForce /\ [Next]_vars => LengthInForce'
<1> SUFFICES ASSUME Types, LengthInForce, [Next]_vars PROVE LengthInForce'
  OBVIOUS
<1>0. UNCHANGED <<args, config>>
  BY DEF Next, ParseArguments, StartFile, Error, FinishFile, Exit, vars
<1>1. Wanted' = Wanted /\ \A S, w : TooLongAfter(S, w)' <=> TooLongAfter(S, w)
  BY <1>0, SaidForAll
<1>2. Wanted \subseteq DOMAIN Tree /\ \A g \in DOMAIN Tree : g \in Nat
  BY TreeType DEF Wanted, Filenames, _FilterExcludedFiles, _ExpandDirectories
<1>3. CASE ParseArguments
  <2>1. queue' = Wanted /\ settings' = args.settings /\ pc' \in {"next", "crashed"}
    BY <1>3 DEF ParseArguments, Wanted
  <2>2. Passed' = {}
    BY <1>1, <2>1 DEF Passed, Busy
  <2>3. \A w : TooLongAfter({}, w) <=> w > args.settings.linelength
    BY DEF TooLongAfter
  <2> QED
    BY <1>1, <2>1, <2>2, <2>3 DEF LengthInForce
<1>4. CASE StartFile
  <2> DEFINE f == First(queue)
             cfg == ProcessConfigOverrides(Tree[f].path)
             S == Wanted \ queue
  <2>1. f \in queue /\ f \in DOMAIN Tree /\ settings' = cfg.settings /\ pc = "next"
    BY <1>4, FileStarts DEF Types
  <2>2. \A h \in queue : f <= h
    BY <2>1, FirstIsOne DEF Types
  <2>3. /\ queue \subseteq Wanted /\ Passed = S
        /\ \A g \in S : \A h \in queue : g < h
        /\ \A w \in Nat : w > settings.linelength <=> TooLongAfter(S, w)
    BY <2>1 DEF LengthInForce, Passed, Busy
  <2>4. ASSUME ~cfg.fails
        PROVE  \A w \in Nat : w > settings'.linelength <=> TooLongAfter(S \cup {f}, w)
    <3> TAKE w \in Nat
    <3>1. S \in SUBSET DOMAIN Tree /\ \A g \in S : g < f
      BY <1>2, <2>1, <2>3
    <3>2. w > settings.linelength <=> TooLongAfter(S, w)
      BY <2>3
    <3> HIDE DEF S
    <3> QED
      BY <2>1, <2>4, <3>1, <3>2, OneFileMore
  <2> HIDE DEF f, cfg
  <2>5. CASE ~cfg.fails /\ queue' = queue \ {f} /\ pc' = "next"
    <3>1. Wanted' \ queue' = S \cup {f} /\ Passed' = S \cup {f}
      BY <1>1, <2>1, <2>3, <2>5 DEF Passed, Busy
    <3>2. \A g \in S \cup {f} : \A h \in queue' : g < h
      BY <1>2, <2>1, <2>2, <2>3, <2>5 DEF Types
    <3> HIDE DEF S
    <3> QED
      BY <1>1, <2>3, <2>4, <2>5, <3>1, <3>2 DEF LengthInForce
  <2>6. CASE ~cfg.fails /\ queue' = queue /\ pc' \in {"lint", "finish"}
    <3>1. Wanted' \ queue' = S /\ Passed' = S \cup {f}
      BY <1>1, <2>6 DEF Passed, Busy, f
    <3> HIDE DEF S
    <3> QED
      BY <1>1, <2>3, <2>4, <2>6, <3>1 DEF LengthInForce
  <2>7. CASE pc' = "crashed" /\ queue' = queue
    BY <1>1, <2>3, <2>7 DEF LengthInForce, Busy
  <2> QED
    BY <1>4, <2>5, <2>6, <2>7, FileStarts DEF f, cfg, Over
<1>5. CASE Error \/ UNCHANGED vars
  <2>1. UNCHANGED <<pc, queue, settings>>
    BY <1>5 DEF Error, vars
  <2> QED
    BY <1>1, <2>1 DEF LengthInForce, Passed, Busy
<1>6. CASE FinishFile
  <2> DEFINE f == First(queue)
  <2>1. Busy /\ queue' = queue \ {f} /\ pc' = "next" /\ settings' = settings
    BY <1>6 DEF FinishFile, Busy
  <2>2. f \in queue /\ \A h \in queue : f <= h
    BY <2>1, FirstIsOne DEF Types
  <2>3. queue \subseteq Wanted
    BY <2>1 DEF LengthInForce, Busy
  <2>4. Passed = (Wanted \ queue) \cup {f}
    BY <2>1 DEF Passed
  <2> HIDE DEF f
  <2>5. Wanted' \ queue' = Passed /\ Passed' = Passed
    BY <1>1, <2>1, <2>2, <2>3, <2>4 DEF Passed, Busy
  <2>6. \A g \in Passed : \A h \in queue' : g < h
    BY <1>2, <2>1, <2>2, <2>4 DEF LengthInForce, Types
  <2> QED
    BY <1>1, <2>1, <2>3, <2>5, <2>6 DEF LengthInForce
<1>7. CASE Exit
  <2>1. queue' = queue /\ pc = "next" /\ pc' \in {"failure", "success"}
    BY <1>7 DEF Exit
  <2> QED
    BY <1>1, <2>1 DEF LengthInForce, Busy
<1> QED
  BY <1>3, <1>4, <1>5, <1>6, <1>7 DEF Next

(* A line of the file in hand is too long by what the files up to it have    *)
(* left.                                                                     *)
LEMMA RaisedIsFound ==
  ASSUME Types, LengthInForce, pc = "lint", NEW e, e.width \in Nat
  PROVE  Raised(e) <=> Found(First(queue), e)
<1> DEFINE f == First(queue)
           S == {g \in Wanted : g <= f}
<1>1. f \in queue /\ \A h \in queue : f <= h
  BY FirstIsOne DEF Types, Busy
<1>2. /\ queue \subseteq Wanted /\ \A g \in Wanted \ queue : \A h \in queue : g < h
      /\ e.width > settings.linelength <=> TooLongAfter(Passed, e.width)
      /\ Passed = (Wanted \ queue) \cup {f}
  BY DEF LengthInForce, Busy, Passed
<1>3. \A g \in Wanted : g \in Nat
  BY TreeType DEF Wanted, Filenames, _FilterExcludedFiles, _ExpandDirectories
<1> HIDE DEF f
<1>4. Passed = S
  BY <1>1, <1>2, <1>3
<1> QED
  BY <1>2, <1>4 DEF Raised, Found, Wanted, f

-----------------------------------------------------------------------------
LEMMA StepJustified ==
  Types /\ LintedSoFar /\ FiltersInForce /\ LengthInForce /\ Justified /\ [Next]_vars => Justified'
<1> SUFFICES ASSUME Types, LintedSoFar, FiltersInForce, LengthInForce, Justified, [Next]_vars
             PROVE  Justified'
  OBVIOUS
<1>0. UNCHANGED <<args, config>>
  BY DEF Next, ParseArguments, StartFile, Error, FinishFile, Exit, vars
<1>1. /\ \A path, c : Shows(path, c)' <=> Shows(path, c)
      /\ \A f, e : Found(f, e)' <=> Found(f, e)
  BY <1>0, SaidForAll
<1> DEFINE Right(f, i) ==
      LET e == Tree[f].items[i] IN
      <<f, i>> \in printed
        <=> /\ Found(f, e)
            /\ ~e.nolint /\ e.confidence >= args.verbose /\ Shows(Tree[f].path, e.category)
<1> SUFFICES ASSUME NEW f \in linted', NEW i \in DOMAIN Tree[f].items,
                    f \in queue' => i < item'
             PROVE  Right(f, i)'
  BY DEF Justified
<1>2. i \in Nat \ {0}
  <2>1. f \in DOMAIN Tree
    BY StepTypes DEF Types
  <2> QED
    BY <2>1, TreeType
<1>3. ASSUME printed' = printed, Right(f, i) PROVE Right(f, i)'
  BY <1>0, <1>1, <1>3
<1>4. CASE ParseArguments
  BY <1>4 DEF ParseArguments, Types
<1>5. CASE StartFile
  <2>1. f \in linted /\ f \notin queue
    BY <1>2, <1>5, FileStarts DEF LintedSoFar
  <2>2. Right(f, i)
    BY <2>1 DEF Justified
  <2> QED
    BY <1>3, <1>5, <2>2, FileStarts
<1>6. CASE Error
  <2> DEFINE e == Tree[f].items[i]
  <2>1. /\ pc = "lint" /\ UNCHANGED <<linted, queue>> /\ item' = item + 1 /\ item \in Nat
    BY <1>6 DEF Error, Types
  <2>2. CASE f \notin queue \/ i < item
    <3>1. Right(f, i)
      BY <2>1, <2>2 DEF Justified
    <3>2. <<f, i>> # <<First(queue), item>>
      <4>1. First(queue) \in queue
        BY <2>1, FirstIsOne DEF Types, Busy
      <4> QED
        BY <1>2, <2>1, <2>2, <4>1
    <3>3. <<f, i>> \in printed' <=> <<f, i>> \in printed
      BY <1>6, <3>2 DEF Error
    <3> QED
      BY <1>0, <1>1, <3>1, <3>3
  <2>3. CASE f \in queue /\ i = item
    <3>1. f = First(queue)
      BY <2>1, <2>3 DEF LintedSoFar
    <3>2. <<f, i>> \notin printed
      BY <1>2, <2>3 DEF LintedSoFar
    <3>3. Raised(e) <=> Found(f, e)
      <4>1. f \in DOMAIN Tree
        BY <2>1 DEF Types
      <4>2. Tree[f].items \in Seq(Item)
        BY <4>1, TreeType
      <4>3. e \in Item
        BY <4>2
      <4>4. e.width \in Nat
        BY <4>3 DEF Item
      <4> QED
        BY <2>1, <3>1, <4>4, RaisedIsFound
    <3>4. _ShouldPrintError(e) <=>
            ~e.nolint /\ e.confidence >= args.verbose /\ Shows(Tree[f].path, e.category)
      BY <2>1, <3>1 DEF _ShouldPrintError, FiltersInForce
    <3>5. <<f, i>> \in printed' <=> Raised(e) /\ _ShouldPrintError(e)
      BY <1>6, <2>3, <3>1, <3>2 DEF Error
    <3> QED
      BY <1>0, <1>1, <3>3, <3>4, <3>5
  <2> QED
    BY <1>2, <2>1, <2>2, <2>3
<1>7. CASE FinishFile
  <2>1. CASE f \in queue
    <3>1. f = First(queue) /\ pc = "lint"
      BY <1>7, <2>1 DEF FinishFile, LintedSoFar
    <3>2. item > Len(Tree[f].items) /\ item \in Nat /\ f \in DOMAIN Tree
      BY <1>7, <3>1 DEF FinishFile, Types
    <3>3. i <= Len(Tree[f].items) /\ Len(Tree[f].items) \in Nat
      BY <3>2, TreeType
    <3>4. Right(f, i)
      BY <1>2, <1>7, <2>1, <3>2, <3>3 DEF FinishFile, Justified
    <3> QED
      BY <1>3, <1>7, <3>4 DEF FinishFile
  <2>2. CASE f \notin queue
    <3>1. Right(f, i)
      BY <1>7, <2>2 DEF FinishFile, Justified
    <3> QED
      BY <1>3, <1>7, <3>1 DEF FinishFile
  <2> QED
    BY <2>1, <2>2
<1>8. CASE Exit
  <2>1. Right(f, i)
    BY <1>8 DEF Exit, Justified
  <2> QED
    BY <1>3, <1>8, <2>1 DEF Exit
<1>9. CASE UNCHANGED vars
  <2>1. Right(f, i)
    BY <1>9 DEF vars, countVars, Justified
  <2> QED
    BY <1>3, <1>9, <2>1 DEF vars, countVars
<1> QED
  BY <1>4, <1>5, <1>6, <1>7, <1>8, <1>9 DEF Next

LEMMA InitJustified == Init => JustifiedInv
<1> SUFFICES ASSUME Init PROVE JustifiedInv
  OBVIOUS
<1>1. Types
  BY InitTypes
<1>2. LintedSoFar /\ FiltersInForce /\ LengthInForce /\ Justified
  BY DEF Init, LintedSoFar, FiltersInForce, LengthInForce, Justified, Busy
<1> QED
  BY <1>1, <1>2 DEF JustifiedInv

LEMMA InvariantJustified == Spec => []JustifiedInv
<1>1. JustifiedInv /\ [Next]_vars => JustifiedInv'
  BY StepTypes, StepLinted, StepFilters, StepLength, StepJustified DEF JustifiedInv
<1> QED
  BY <1>1, InitJustified, PTL DEF Spec

(* Which errors of a file are printed is decided, as far as the filters go,  *)
(* by the command line and the CPPLINT.cfg files of its own directories,     *)
(* innermost first: nothing that an earlier file or its directories said     *)
(* stays in the filters.  Which of its lines are too long is decided by the  *)
(* outermost of its directories that gives a length or, when none does, by   *)
(* the last file before it whose directories did.  This holds for any tree,  *)
(* configuration and command line (ProcessConfigOverrides, _BackupFilters,   *)
(* _RestoreFilters, _ShouldPrintError).                                      *)
THEOREM PrintedAsConfigured == Spec => []PrintedJustified
<1>1. JustifiedInv => PrintedJustified
  <2> SUFFICES ASSUME JustifiedInv, NEW f \in linted, NEW i \in DOMAIN Tree[f].items,
                      queue = {} \/ pc = "next" \/ f # First(queue) \/ i < item
               PROVE  <<f, i>> \in printed
                        <=> /\ Found(f, Tree[f].items[i])
                            /\ ~Tree[f].items[i].nolint
                            /\ Tree[f].items[i].confidence >= args.verbose
                            /\ Shows(Tree[f].path, Tree[f].items[i].category)
    BY DEF PrintedJustified
  <2>1. f \in queue => i < item
    BY DEF JustifiedInv, LintedSoFar
  <2> QED
    BY <2>1 DEF JustifiedInv, Justified
<1> QED
  BY <1>1, InvariantJustified, PTL

-----------------------------------------------------------------------------
(* Counting one error more.                                                  *)
LEMMA CountOne ==
  ASSUME IsFiniteSet(printed), NEW q, q \notin printed, NEW c
  PROVE  /\ IsFiniteSet(printed \cup {q}) /\ Cardinality(printed) \in Nat
         /\ Cardinality(printed \cup {q}) = Cardinality(printed) + 1
         /\ Cardinality(Of(printed, c)) \in Nat
         /\ Cardinality(Of(printed \cup {q}, c)) =
              IF Counted(q) = c THEN Cardinality(Of(printed, c)) + 1 ELSE Cardinality(Of(printed, c))
<1> DEFINE A == Of(printed, c)
           B == Of(printed \cup {q}, c)
<1>1. IsFiniteSet(A) /\ q \notin A
  BY FS_Subset DEF Of
<1>2. B = IF Counted(q) = c THEN A \cup {q} ELSE A
  BY DEF Of
<1> HIDE DEF A, B
<1>3. Cardinality(A \cup {q}) = Cardinality(A) + 1 /\ Cardinality(A) \in Nat
  BY <1>1, FS_AddElement, FS_CardinalityType
<1>4. /\ IsFiniteSet(printed \cup {q}) /\ Cardinality(printed) \in Nat
      /\ Cardinality(printed \cup {q}) = Cardinality(printed) + 1
  BY FS_AddElement, FS_CardinalityType
<1>5. Cardinality(B) = IF Counted(q) = c THEN Cardinality(A) + 1 ELSE Cardinality(A)
  BY <1>2, <1>3
<1> QED
  BY <1>3, <1>4, <1>5 DEF A, B

LEMMA StepCounts == Types /\ LintedSoFar /\ Counts /\ [Next]_vars => Counts'
<1> SUFFICES ASSUME Types, LintedSoFar, Counts, [Next]_vars PROVE Counts'
  OBVIOUS
<1>0. args' = args
  BY DEF Next, ParseArguments, StartFile, Error, FinishFile, Exit, vars
<1>1. \A p : Counted(p)' = Counted(p)
  BY <1>0 DEF Counted, CategoryCounted
<1>2. IsFiniteSet(printed) /\ error_count = Cardinality(printed) /\ error_count \in Nat
  BY FS_CardinalityType DEF Counts
<1>3. ASSUME UNCHANGED <<printed, error_count, errors_by_category>>
      PROVE  /\ IsFiniteSet(printed') /\ error_count' = Cardinality(printed')
             /\ args'.counting \in {"toplevel", "detailed"} =>
                  /\ DOMAIN errors_by_category' = {Counted(p)' : p \in printed'}
                  /\ \A c \in DOMAIN errors_by_category' : errors_by_category'[c] = Cardinality(Of(printed, c)')
  <2>1. \A c : Of(printed, c)' = Of(printed, c)
    BY <1>1, <1>3 DEF Of
  <2>2. {Counted(p)' : p \in printed'} = {Counted(p) : p \in printed}
    BY <1>1, <1>3
  <2> QED
    BY <1>0, <1>2, <1>3, <2>1, <2>2 DEF Counts
<1>4. CASE ParseArguments
  <2>1. UNCHANGED <<printed, error_count, errors_by_category, done>> /\ pc' \in {"next", "crashed"} /\ printed = {} /\ done = {}
    BY <1>4 DEF ParseArguments, Types
  <2> QED
    BY <1>3, <2>1 DEF Counts, Busy
<1>5. CASE StartFile
  <2>1. UNCHANGED <<printed, error_count, errors_by_category, done>> /\ pc = "next" /\ old_errors' = error_count
        /\ pc' \in {"next", "crashed", "lint", "finish"} /\ First(queue) \in queue
        /\ (pc' \in {"lint", "finish"} => queue' = queue)
    BY <1>5, FileStarts
  <2>2. \A p \in printed : p[1] # First(queue)
    BY <2>1 DEF LintedSoFar
  <2>3. args.quiet => done = {p[1] : p \in printed}
    BY <2>1 DEF Counts, Busy
  <2>4. CASE pc' \in {"lint", "finish"}
    BY <1>0, <1>2, <1>3, <2>1, <2>2, <2>3, <2>4 DEF Counts, Busy
  <2>5. CASE pc' \notin {"lint", "finish"}
    BY <1>0, <1>3, <2>1, <2>3, <2>5 DEF Counts, Busy
  <2> QED
    BY <2>4, <2>5
<1>6. CASE Error
  <2> DEFINE e == Tree[First(queue)].items[item]
             new == <<First(queue), item>>
  <2>1. pc = "lint" /\ UNCHANGED <<pc, queue, old_errors, done>> /\ Busy /\ Busy'
    BY <1>6 DEF Error, Busy
  <2>2. CASE UNCHANGED <<countVars, printed>>
    BY <1>0, <1>3, <2>1, <2>2 DEF Counts, countVars
  <2>3. CASE IncrementErrorCount(e.category) /\ printed' = printed \cup {new}
    <3>1. new \notin printed
      <4>1. First(queue) \in queue
        BY <2>1, FirstIsOne DEF Types
      <4> QED
        BY <4>1 DEF LintedSoFar, Types
    <3>2. Counted(new) = CategoryCounted(e.category)
      BY DEF Counted
    <3> HIDE DEF new, e
    <3>3. IsFiniteSet(printed') /\ error_count' = Cardinality(printed')
      BY <1>2, <2>3, <3>1, CountOne DEF IncrementErrorCount
    <3>4. ASSUME args.counting \in {"toplevel", "detailed"}
          PROVE  /\ DOMAIN errors_by_category' = {Counted(p)' : p \in printed'}
                 /\ \A c \in DOMAIN errors_by_category' : errors_by_category'[c] = Cardinality(Of(printed, c)')
      <4>1. errors_by_category' = Increment(errors_by_category, Counted(new))
        BY <2>3, <3>2, <3>4 DEF IncrementErrorCount
      <4>2. /\ DOMAIN errors_by_category = {Counted(p) : p \in printed}
            /\ \A c \in DOMAIN errors_by_category : errors_by_category[c] = Cardinality(Of(printed, c))
        BY <3>4 DEF Counts
      <4>3. {Counted(p)' : p \in printed'} = {Counted(p) : p \in printed} \cup {Counted(new)}
        BY <1>1, <2>3
      <4>4. DOMAIN errors_by_category' = DOMAIN errors_by_category \cup {Counted(new)}
        BY <4>1 DEF Increment
      <4>5. \A c : Of(printed, c)' = Of(printed \cup {new}, c)
        BY <1>1, <2>3 DEF Of
      <4>6. ASSUME NEW c
            PROVE  /\ Cardinality(Of(printed, c)) \in Nat
                   /\ Cardinality(Of(printed, c)') =
                        IF Counted(new) = c THEN Cardinality(Of(printed, c)) + 1
                        ELSE Cardinality(Of(printed, c))
        <5>1. /\ Cardinality(Of(printed, c)) \in Nat
              /\ Cardinality(Of(printed \cup {new}, c)) =
                   IF Counted(new) = c THEN Cardinality(Of(printed, c)) + 1
                   ELSE Cardinality(Of(printed, c))
          BY <1>2, <3>1, CountOne
        <5> QED
          BY <4>5, <5>1
      <4>7. ASSUME NEW c \in DOMAIN errors_by_category'
            PROVE  errors_by_category'[c] = Cardinality(Of(printed, c)')
        <5>1. CASE c # Counted(new)
          BY <4>1, <4>2, <4>4, <4>6, <5>1 DEF Increment
        <5>2. CASE c = Counted(new) /\ c \in DOMAIN errors_by_category
          BY <4>1, <4>2, <4>6, <5>2 DEF Increment
        <5>3. CASE c = Counted(new) /\ c \notin DOMAIN errors_by_category
          <6>1. Of(printed, c) = {}
            BY <4>2, <5>3 DEF Of
          <6>2. Cardinality(Of(printed, c)) = 0
            BY <6>1, FS_EmptySet
          <6> QED
            BY <4>1, <4>6, <5>3, <6>2 DEF Increment
        <5> QED
          BY <5>1, <5>2, <5>3
      <4> QED
        BY <4>2, <4>3, <4>4, <4>7
    <3>5. {p[1] : p \in printed'} \ {First(queue)} = {p[1] : p \in printed} \ {First(queue)}
      BY <2>3 DEF new
    <3>6. error_count' = error_count + 1 /\ \E p \in printed' : p[1] = First(queue)
      <4>1. new \in printed' /\ new[1] = First(queue)
        BY <2>3 DEF new
      <4> QED
        BY <2>3, <4>1 DEF IncrementErrorCount
    <3>7. old_errors \in Nat /\ old_errors <= error_count
      BY <2>1 DEF Counts
    <3>8. args.quiet => done = {p[1] : p \in printed} \ {First(queue)}
      BY <2>1 DEF Counts
    <3>9. Busy' => /\ old_errors' \in Nat /\ old_errors' <= error_count'
                   /\ old_errors' = error_count' <=> \A p \in printed' : p[1] # First(queue')
      BY <1>2, <2>1, <3>6, <3>7
    <3>10. args'.quiet => done' = {p[1] : p \in printed'} \ (IF Busy' THEN {First(queue')} ELSE {})
      BY <1>0, <2>1, <3>5, <3>8
    <3> QED
      <4>1. pc' \in {"failure", "success"} => (pc' = "failure" <=> printed' # {})
        BY <2>1
      <4>2. args'.counting \in {"toplevel", "detailed"} =>
              /\ DOMAIN errors_by_category' = {Counted(p)' : p \in printed'}
              /\ \A c \in DOMAIN errors_by_category' : errors_by_category'[c] = Cardinality(Of(printed, c)')
        BY <1>0, <3>4
      <4> QED
        BY <3>3, <3>9, <3>10, <4>1, <4>2 DEF Counts
  <2> QED
    BY <1>6, <2>2, <2>3 DEF Error
<1>7. CASE FinishFile
  <2>1. UNCHANGED <<printed, error_count, errors_by_category, old_errors>> /\ Busy /\ pc' = "next"
    BY <1>7 DEF FinishFile, countVars, Busy
  <2>2. args.quiet => done' = {p[1] : p \in printed}
    <3>1. args.quiet => done' = IF old_errors # error_count THEN done \cup {First(queue)} ELSE done
      BY <1>7 DEF FinishFile
    <3>2. /\ args.quiet => done = {p[1] : p \in printed} \ {First(queue)}
          /\ old_errors = error_count <=> \A p \in printed : p[1] # First(queue)
      BY <2>1 DEF Counts
    <3> QED
      BY <3>1, <3>2
  <2> QED
    BY <1>0, <1>3, <2>1, <2>2 DEF Counts, Busy
<1>8. CASE Exit
  <2>1. UNCHANGED <<printed, error_count, errors_by_category, done>> /\ pc = "next"
        /\ pc' = IF error_count > 0 THEN "failure" ELSE "success"
    BY <1>8 DEF Exit, countVars
  <2>2. error_count > 0 <=> printed # {}
    BY <1>2, FS_EmptySet
  <2> QED
    BY <1>0, <1>3, <2>1, <2>2 DEF Counts, Busy
<1>9. CASE UNCHANGED vars
  BY <1>0, <1>3, <1>9 DEF vars, countVars, Counts, Busy
<1> QED
  BY <1>4, <1>5, <1>6, <1>7, <1>8, <1>9 DEF Next

LEMMA InitCounts == Init => Counts
<1> SUFFICES ASSUME Init PROVE Counts
  OBVIOUS
<1>1. printed = {} /\ error_count = 0 /\ errors_by_category = <<>> /\ done = {} /\ pc = "arguments"
  BY DEF Init
<1> QED
  BY <1>1, FS_EmptySet DEF Counts, Busy

(* The counts are those of the errors that were printed, in total and of     *)
(* every category, the exit status follows from them, and with --quiet       *)
(* exactly the files with errors are announced, for any files and any order  *)
(* of errors (IncrementErrorCount, ProcessFile, main).                       *)
THEOREM CountsAreThose == Spec => []CountsAgree
<1>1. Counts => CountsAgree
  BY DEF Counts, CountsAgree, Of, Busy
<1>2. Types /\ LintedSoFar /\ Counts /\ [Next]_vars => Counts'
  BY StepCounts
<1>3. JustifiedInv => Types /\ LintedSoFar
  BY DEF JustifiedInv
<1> QED
  BY <1>1, <1>2, <1>3, InitCounts, InvariantJustified, PTL DEF Spec

-----------------------------------------------------------------------------
LEMMA SameExtensions ==
  ASSUME NEW st, AsAskedFor(st)
  PROVE  GetAllExtensions(st) = GetAllExtensions(args.settings)
<1>1. st.extensions = args.settings.extensions /\ st.headers = args.settings.headers
  BY DEF AsAskedFor
<1>2. GetHeaderExtensions(st) = GetHeaderExtensions(args.settings)
  BY <1>1 DEF GetHeaderExtensions
<1> QED
  BY <1>1, <1>2 DEF GetAllExtensions

LEMMA AskedFor ==
  Wanted \subseteq {f \in DOMAIN Tree : ~\E e \in args.excludes : IsPrefix(e, Tree[f].path)}
BY DEF Wanted, Filenames, _FilterExcludedFiles, _ExpandDirectories, _IsParentOrSame

LEMMA StepSelected == Types /\ LintedSoFar /\ Selected /\ [Next]_vars => Selected'
<1> SUFFICES ASSUME Types, LintedSoFar, Selected, [Next]_vars PROVE Selected'
  OBVIOUS
<1>0. args' = args /\ config' = config
  BY DEF Next, ParseArguments, StartFile, Error, FinishFile, Exit, vars
<1>1. /\ \A path : Excluded(path)' <=> Excluded(path)
      /\ \A f : Lints(f)' <=> Lints(f)
      /\ NoExtensions' <=> NoExtensions
  BY <1>0, SaidForAll
<1>2. Wanted' = Wanted
  BY <1>0, SaidForAll
<1>3. CASE ParseArguments
  <2>1. /\ queue' = Wanted /\ linted' = {} /\ pc' \in {"next", "crashed"}
        /\ settings' = args.settings
    BY <1>3 DEF ParseArguments, Types, Wanted
  <2>2. AsAskedFor(settings)'
    BY <1>0, <2>1 DEF AsAskedFor
  <2>4. {f \in Wanted : Lints(f) /\ (f \in queue' => FALSE)} = {}
    BY <2>1
  <2>5. \A f \in queue' : ~\E e \in args.excludes : IsPrefix(e, Tree[f].path)
    BY <2>1, AskedFor
  <2>6. NoExtensions' =>
          linted' = {f \in Wanted' : Lints(f)' /\ (f \in queue' => pc' = "lint" /\ f = First(queue'))}
    BY <1>1, <1>2, <2>1, <2>4
  <2> QED
    BY <1>0, <1>1, <1>2, <2>1, <2>2, <2>5, <2>6 DEF Selected, Busy
<1>4. CASE StartFile
  <2> DEFINE f == First(queue)
             cfg == ProcessConfigOverrides(Tree[f].path)
  <2>1. f \in queue /\ f \in DOMAIN Tree /\ settings' = cfg.settings /\ pc = "next"
    BY <1>4, FileStarts DEF Types
  <2>2. ~cfg.fails => (cfg.excluded <=> Excluded(Tree[f].path))
    BY <2>1, ConfigDecides DEF Types
  <2>3. ASSUME NoExtensions PROVE AsAskedFor(settings)'
    <3>1. KeepsExtensions(Tree[f].path)
      BY <2>1, <2>3, PathOptions DEF NoExtensions, KeepsExtensions, OptionsAt, Extends, Types
    <3>2. cfg.settings.extensions = settings.extensions /\ cfg.settings.headers = settings.headers
      BY <2>1, <3>1, ConfigDecides DEF Types
    <3>3. AsAskedFor(settings)
      BY <2>1, <2>3 DEF Selected
    <3> QED
      BY <1>0, <2>1, <3>2, <3>3 DEF AsAskedFor
  <2>4. NoExtensions /\ ~cfg.fails =>
                            (Lints(f) <=> /\ ~cfg.excluded /\ Tree[f].readable
                                      /\ Tree[f].ext \in GetAllExtensions(cfg.settings))
    <3>1. NoExtensions => GetAllExtensions(cfg.settings) = GetAllExtensions(args.settings)
      <4>1. NoExtensions => AsAskedFor(cfg.settings)
        BY <1>0, <2>1, <2>3 DEF AsAskedFor
      <4> QED
        BY <4>1, SameExtensions
    <3> QED
      BY <2>1, <2>2, <3>1 DEF Lints
  <2>5. NoExtensions => /\ linted = {g \in Wanted : Lints(g) /\ g \notin queue} /\ queue \subseteq Wanted
    BY <2>1 DEF Selected
  <2> HIDE DEF f, cfg
  <2>6. \A g \in linted : ~Excluded(Tree[g].path)
    BY DEF Selected
  <2>7. \A g \in linted \cup queue : ~\E e \in args.excludes : IsPrefix(e, Tree[g].path)
    BY DEF Selected
  <2>8. CASE /\ ~cfg.fails
             /\ cfg.excluded \/ ~Tree[f].readable
             /\ queue' = queue \ {f} /\ pc' = "next" /\ linted' = linted
    <3>1. NoExtensions => linted = {g \in Wanted : Lints(g) /\ g \notin queue'}
      BY <2>4, <2>5, <2>8
    <3>2. NoExtensions' =>
            linted' = {g \in Wanted' : Lints(g)' /\ (g \in queue' => pc' = "lint" /\ g = First(queue'))}
      BY <1>1, <1>2, <2>8, <3>1
    <3> QED
      BY <1>0, <1>1, <1>2, <2>3, <2>5, <2>6, <2>7, <2>8, <3>2 DEF Selected, Busy
  <2>9. CASE pc' = "crashed" /\ queue' = queue /\ linted' = linted
    <3>1. NoExtensions' =>
            linted' = {g \in Wanted' : Lints(g)' /\ (g \in queue' => pc' = "lint" /\ g = First(queue'))}
      BY <1>1, <1>2, <2>5, <2>9
    <3> QED
      BY <1>0, <1>1, <1>2, <2>3, <2>5, <2>6, <2>7, <2>9, <3>1 DEF Selected, Busy
  <2>10. CASE /\ ~cfg.fails /\ ~cfg.excluded /\ Tree[f].readable /\ queue' = queue
              /\ Tree[f].ext \in GetAllExtensions(cfg.settings)
              /\ pc' = "lint" /\ linted' = linted \cup {f}
    <3>0. First(queue') = f
      BY <2>10 DEF f
    <3>1. NoExtensions => Lints(f) /\ linted \cup {f} = {g \in Wanted : Lints(g) /\ (g \in queue => g = f)}
      BY <2>1, <2>4, <2>5, <2>10
    <3>2. NoExtensions' =>
            linted' = {g \in Wanted' : Lints(g)' /\ (g \in queue' => pc' = "lint" /\ g = First(queue'))}
      BY <1>1, <1>2, <2>10, <3>0, <3>1
    <3>3. NoExtensions' => (Lints(First(queue))' <=> pc' = "lint")
      BY <1>1, <2>10, <3>0, <3>1
    <3> QED
      BY <1>0, <1>1, <1>2, <2>1, <2>2, <2>3, <2>5, <2>6, <2>7, <2>10, <3>2, <3>3 DEF Selected, Busy
  <2>11. CASE /\ ~cfg.fails /\ ~cfg.excluded /\ Tree[f].readable /\ queue' = queue
              /\ Tree[f].ext \notin GetAllExtensions(cfg.settings)
              /\ pc' = "finish" /\ linted' = linted
    <3>0. First(queue') = f
      BY <2>11 DEF f
    <3>2. NoExtensions' =>
            linted' = {g \in Wanted' : Lints(g)' /\ (g \in queue' => pc' = "lint" /\ g = First(queue'))}
      BY <1>1, <1>2, <2>5, <2>11
    <3>3. NoExtensions' => (Lints(First(queue))' <=> pc' = "lint")
      BY <1>1, <2>4, <2>11, <3>0
    <3> QED
      BY <1>0, <1>1, <1>2, <2>3, <2>5, <2>6, <2>7, <2>11, <3>2, <3>3 DEF Selected, Busy
  <2> QED
    BY <1>4, <2>8, <2>9, <2>10, <2>11, FileStarts DEF f, cfg, Over
<1>5. CASE Error \/ UNCHANGED vars
  <2>1. UNCHANGED <<pc, queue, settings, linted>>
    BY <1>5 DEF Error, vars
  <2> QED
    BY <1>0, <1>1, <1>2, <2>1 DEF Selected, Busy, AsAskedFor
<1>6. CASE FinishFile
  <2> DEFINE f == First(queue)
  <2>1. /\ Busy /\ f \in queue /\ queue' = queue \ {f} /\ pc' = "next" /\ UNCHANGED <<settings, linted>>
    BY <1>6, FirstIsOne DEF FinishFile, Types, Busy
  <2>2. ASSUME NoExtensions PROVE linted = {g \in Wanted : Lints(g) /\ g \notin queue'}
    <3>1. /\ linted = {g \in Wanted : Lints(g) /\ (g \in queue => pc = "lint" /\ g = f)}
          /\ Lints(f) <=> pc = "lint"
      BY <2>1, <2>2 DEF Selected, Busy
    <3> HIDE DEF f
    <3> QED
      BY <2>1, <3>1
  <2>3. NoExtensions' =>
          linted' = {g \in Wanted' : Lints(g)' /\ (g \in queue' => pc' = "lint" /\ g = First(queue'))}
    BY <1>1, <1>2, <2>1, <2>2
  <2>4. NoExtensions => AsAskedFor(settings)'
    BY <1>0, <2>1 DEF Selected, Busy, AsAskedFor
  <2> QED
    BY <1>0, <1>1, <1>2, <2>1, <2>3, <2>4 DEF Selected, Busy
<1>7. CASE Exit
  <2>1. UNCHANGED <<queue, settings, linted>> /\ pc = "next" /\ queue = {} /\ pc' \in {"failure", "success"}
    BY <1>7 DEF Exit
  <2> QED
    BY <1>0, <1>1, <1>2, <2>1 DEF Selected, Busy, AsAskedFor
<1> QED
  BY <1>3, <1>4, <1>5, <1>6, <1>7 DEF Next

LEMMA InitSelected == Init => Selected
<1> SUFFICES ASSUME Init PROVE Selected
  OBVIOUS
<1>1. queue = {} /\ linted = {} /\ pc = "arguments"
  BY DEF Init
<1> QED
  BY <1>1 DEF Selected, Busy

(* No file is linted that --exclude or a CPPLINT.cfg in its reach excludes,  *)
(* and when no configuration file changes the extensions, every other file   *)
(* that was asked for and can be read has been linted when cpplint ends, for *)
(* any tree and any configuration (_FilterExcludedFiles,                     *)
(* ProcessConfigOverrides, ProcessFile).                                     *)
THEOREM SelectionExact == Spec => []LintedExactly
<1>1. Types /\ Selected => LintedExactly
  <2> SUFFICES ASSUME Types, Selected PROVE LintedExactly
    OBVIOUS
  <2>1. \A f \in linted : /\ ~Excluded(Tree[f].path)
                         /\ ~\E e \in args.excludes : IsPrefix(e, Tree[f].path)
    BY DEF Selected
  <2>2. ASSUME pc \in {"failure", "success"}, NoExtensions
        PROVE  linted = {f \in Filenames(args) :
                           /\ Tree[f].readable
                           /\ Tree[f].ext \in GetAllExtensions(args.settings)
                           /\ ~Excluded(Tree[f].path)}
    <3>1. queue = {} /\ Filenames(args) = Wanted
      BY <2>2 DEF Types, Wanted
    <3> QED
      BY <2>2, <3>1 DEF Selected, Lints
  <2> QED
    BY <2>1, <2>2 DEF LintedExactly, NoExtensions
<1>2. Types /\ LintedSoFar /\ Selected /\ [Next]_vars => Selected'
  BY StepSelected
<1>3. JustifiedInv => Types /\ LintedSoFar
  BY DEF JustifiedInv
<1> QED
  BY <1>1, <1>2, <1>3, InitSelected, InvariantJustified, PTL DEF Spec
=============================================================================
