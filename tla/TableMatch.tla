----------------------------- MODULE TableMatch -----------------------------
(***************************************************************************)
(* Match-action tables of the V1Model target: the entries of a table and   *)
(* extern_match of coq/lib/P4light/Architecture/V1ModelTarget.v, which     *)
(* finds the action a key selects.                                         *)
(*                                                                         *)
(* Keys are of type bit<Width>; a value is its bits, the most significant  *)
(* bit first (to_lbool).  The i-th entry's action is the number i.         *)
(***************************************************************************)
EXTENDS Integers, Sequences, SequencesExt

CONSTANTS
  Width,      \* the number of bits of a key
  Kinds,      \* the match kinds of the keys of the tables, a sequence for each
  KeySets,    \* KeySets[kind]: the sets an entry can have for a key of that kind
  NoConst,    \* the const entries of a table that has none
  MaxConst,   \* bound on the const entries of a table
  MaxEntries  \* bound on the const and the added entries of a table together

Bits == [1 .. Width -> {0, 1}]

Singletons == [is : {"singleton"}, value : Bits]
Masks      == [is : {"mask"}, value : Bits, mask : Bits]
Ranges     == [is : {"range"}, lo : Bits, hi : Bits]
Universal  == [is |-> "universal"]
Lpms       == [is : {"lpm"}, nbits : 0 .. Width, value : Bits]
ValSet     == Singletons \cup Masks \cup Ranges \cup {Universal}

\* a row of extern_match: an entry without ranges, or what is left of it
Row == [sets : Seq(Singletons \cup Masks \cup Lpms \cup {Universal}), action : Nat]

ASSUME WidthAssumption ==
  /\ Width \in Nat \ {0}
  /\ MaxConst \in 0 .. MaxEntries
  /\ MaxEntries \in Nat
ASSUME KindsAssumption ==
  /\ Kinds \subseteq Seq({"exact", "ternary", "range", "lpm"})
  /\ <<>> \notin Kinds
ASSUME SetsAssumption ==
  \A ks \in Kinds : \A i \in DOMAIN ks : KeySets[ks[i]] \subseteq ValSet

VARIABLES
  kinds,      \* the match kinds of the table's keys
  const,      \* the table's const entries, or NoConst
  installed   \* the entries in the extern state, as added

vars == <<kinds, const, installed>>

Miss == 0

\* the entries a table with these match kinds can have: a set for each key
EntriesOf(ks) == {e \in [DOMAIN ks -> UNION {KeySets[ks[i]] : i \in DOMAIN ks}] :
                    \A i \in DOMAIN ks : e[i] \in KeySets[ks[i]]}
ConstTablesOf(ks) == UNION {[1 .. n -> EntriesOf(ks)] : n \in 0 .. MaxConst}
KeysOf(ks)   == [DOMAIN ks -> Bits]

Init ==
  /\ kinds \in Kinds
  /\ const \in ConstTablesOf(kinds) \cup {NoConst}
  /\ installed = <<>>

-----------------------------------------------------------------------------
(* Matching one key with one set.                                          *)

Ones(n) == [i \in 1 .. Width |-> IF i > Width - n THEN 1 ELSE 0]

\* vmm_help: where the mask is 1, a bit of the key implies the bit of the value
MaskMatches(k, value, mask) ==
  \A i \in 1 .. Width : mask[i] = 1 => (k[i] = 1 => value[i] = 1)

\* values_match_set for one key
SetMatches(k, s) ==
  \/ s.is = "universal"
  \/ s.is = "singleton" /\ k = s.value
  \/ s.is = "mask" /\ MaskMatches(k, s.value, s.mask)
  \/ s.is = "lpm" /\ MaskMatches(k, s.value, Ones(s.nbits))

\* ... and for a list of keys and an entry with a set for each
RowMatches(ks, row) == \A i \in DOMAIN row.sets : SetMatches(ks[i], row.sets[i])

\* valset_to_valsett: a range becomes a mask
ToValSetT(s) == IF s.is = "range" THEN [is |-> "mask", value |-> s.lo, mask |-> s.hi] ELSE s

-----------------------------------------------------------------------------
(* Longest-prefix matching.                                                *)

NotLpm == [is |-> "none"]

\* lpm_set_of_set: the masks that count are 0..01..1, and of such a set only
\* the mask is kept
LpmSet(s) ==
  CASE s.is = "universal" -> s
    [] s.is = "singleton" -> [is |-> "lpm", nbits |-> Width, value |-> s.value]
    [] s.is = "mask" ->
         IF \E n \in 0 .. Width : s.mask = Ones(n)
         THEN [is |-> "lpm", nbits |-> CHOOSE n \in 0 .. Width : s.mask = Ones(n), value |-> s.mask]
         ELSE NotLpm

\* Mutant of InsertRow: shorter prefixes first.
InsertRowAscending(row, rows) ==
  LET later == {i \in DOMAIN rows : rows[i].sets[1].nbits >= row.sets[1].nbits}
      place == IF later = {} THEN Len(rows) + 1 ELSE CHOOSE i \in later : \A j \in later : i <= j
  IN  InsertAt(rows, place, row)

\* mergeSort of Utils/CoqLib.v with lpm_compare: the elements at odd and at even
\* places are sorted apart and merged by insertion
InsertRow(row, rows) ==
  LET later == {i \in DOMAIN rows : rows[i].sets[1].nbits <= row.sets[1].nbits}
      place == IF later = {} THEN Len(rows) + 1 ELSE CHOOSE i \in later : \A j \in later : i <= j
  IN  InsertAt(rows, place, row)

Merge(rows1, rows2) ==
  LET n == Len(rows1)
      merged[k \in 0 .. n] == IF k = 0 THEN rows2 ELSE InsertRow(rows1[n + 1 - k], merged[k - 1])
  IN  merged[n]

EveryOther(rows) == [i \in 1 .. (Len(rows) + 1) \div 2 |-> rows[2 * i - 1]]

\* MergeSortTo[n] sorts every list of at most n rows
MergeSortTo[n \in Nat] ==
  [rows \in Seq(Row) |->
     IF n = 0 \/ Len(rows) < 2 THEN rows
     ELSE Merge(MergeSortTo[n - 1][EveryOther(rows)], MergeSortTo[n - 1][EveryOther(Tail(rows))])]

MergeSort(rows) == MergeSortTo[Len(rows)][rows]

\* Mutant of SortLpm: the default is not put back.
SortLpmWithoutDefault(rows) ==
  LET lpm == [i \in DOMAIN rows |-> [rows[i] EXCEPT !.sets = <<LpmSet(@[1])>>]]
  IN  IF \E i \in DOMAIN lpm : lpm[i].sets[1] = NotLpm THEN <<>>
      ELSE MergeSort(SelectSeq(lpm, LAMBDA row : row.sets[1].is # "universal"))

\* sort_lpm: the rows before the first universal one by length, then that one;
\* no row at all if one of them is no prefix
SortLpm(rows) ==
  LET lpm       == [i \in DOMAIN rows |-> [rows[i] EXCEPT !.sets = <<LpmSet(@[1])>>]]
      universal == {i \in DOMAIN lpm : lpm[i].sets[1].is = "universal"}
      first     == CHOOSE i \in universal : \A j \in universal : i <= j
      before    == IF universal = {} THEN Len(lpm) ELSE first - 1
      sorted    == MergeSort(SubSeq(lpm, 1, before))
  IN  IF \E i \in DOMAIN lpm : lpm[i].sets[1] = NotLpm THEN <<>>
      ELSE IF universal = {} THEN sorted ELSE Append(sorted, lpm[first])

\* filter: the rows that match, in their order
Matching(ks, rows) ==
  LET among[n \in 0 .. Len(rows)] ==
        IF n = 0 THEN <<>>
        ELSE IF RowMatches(ks, rows[n]) THEN Append(among[n - 1], rows[n]) ELSE among[n - 1]
  IN  among[Len(rows)]

\* filter_lpm_prod: the rows that match, reduced to their lpm set
FilterLpmProd(index, ks, rows) ==
  LET matched == Matching(ks, rows)
  IN  SortLpm([i \in DOMAIN matched |-> [matched[i] EXCEPT !.sets = <<@[index]>>]])

-----------------------------------------------------------------------------
(* The table.                                                              *)

\* get_entries
Entries == IF const # NoConst THEN const ELSE installed

RowsOf(es) == [i \in DOMAIN es |->
  [sets |-> [j \in DOMAIN es[i] |-> ToValSetT(es[i][j])], action |-> i]]

FirstMatch(ks, rows) ==
  LET matching == {i \in DOMAIN rows : RowMatches(ks, rows[i])}
  IN  IF matching = {} THEN Miss
      ELSE rows[CHOOSE i \in matching : \A j \in matching : i <= j].action

LpmKeys == {i \in DOMAIN kinds : kinds[i] = "lpm"}

\* extern_match, on the entries es
Match(ks, es) ==
  LET index == CHOOSE i \in LpmKeys : TRUE
      rows  == RowsOf(es)
  IN  IF \E i, j \in LpmKeys : i # j THEN Miss
      ELSE IF kinds = <<"lpm">> THEN FirstMatch(ks, SortLpm(rows))
      ELSE IF LpmKeys # {} THEN FirstMatch(<<ks[index]>>, FilterLpmProd(index, ks, rows))
      ELSE FirstMatch(ks, rows)

\* interp_table_match
Lookup(ks) == Match(ks, Entries)

Size == Len(installed) + (IF const = NoConst THEN 0 ELSE Len(const))

\* Mutants of AddEntry: the entry loses its last set; it goes to the front.
AddEntryShort(e) ==
  /\ Size < MaxEntries
  /\ installed' = Append(installed, Front(e))
  /\ UNCHANGED <<kinds, const>>

AddEntryInFront(e) ==
  /\ Size < MaxEntries
  /\ installed' = <<e>> \o installed
  /\ UNCHANGED <<kinds, const>>

\* add_entry: const entries are not extended and go on hiding the others
AddEntry(e) ==
  /\ Size < MaxEntries
  /\ installed' = Append(installed, e)
  /\ UNCHANGED <<kinds, const>>

Full == Size = MaxEntries /\ UNCHANGED vars

Next == (\E e \in EntriesOf(kinds) : AddEntry(e)) \/ Full

Spec == Init /\ [][Next]_vars

-----------------------------------------------------------------------------
\* A table has entries with one set per key.
TypeOK ==
  /\ kinds \in Kinds
  /\ const # NoConst => const \in Seq(EntriesOf(kinds)) /\ Len(const) <= MaxConst
  /\ installed \in Seq(EntriesOf(kinds)) /\ Len(installed) <= MaxEntries

\* What a table with one lpm key makes of its i-th entry: the prefix it stands
\* for, and the keys it is a candidate for.
LpmIndex == CHOOSE i \in LpmKeys : TRUE
Rows     == RowsOf(Entries)
Prefix(i)      == LpmSet(Rows[i].sets[LpmIndex])
IsDefault(i)   == Prefix(i).is = "universal"
Length(i)      == IF IsDefault(i) THEN 0 ELSE Prefix(i).nbits
OneLpmKey      == \A i, j \in LpmKeys : i = j

Candidate(i, ks) ==
  /\ Prefix(i) # NotLpm
  /\ SetMatches(ks[LpmIndex], Prefix(i))
  /\ Len(kinds) > 1 => RowMatches(ks, Rows[i])

\* The answer of a table with one lpm key is a candidate, and no candidate is
\* longer but those behind a '_': splitting, sorting, merging and putting the
\* default back loses no better entry, whatever the order the entries came in.
LongestWins ==
  LpmKeys # {} /\ OneLpmKey =>
    \A ks \in KeysOf(kinds) :
      LET a == Lookup(ks)
      IN  a # Miss =>
            /\ Candidate(a, ks)
            /\ \A j \in DOMAIN Rows : Candidate(j, ks) /\ Length(j) > Length(a) =>
                 \E d \in 1 .. j - 1 : IsDefault(d) /\ Candidate(d, ks)

\* A table misses only when it has to: when no entry is a candidate, or an entry
\* that would have to be sorted is no prefix.
MissesJustified ==
  LpmKeys # {} /\ OneLpmKey =>
    \A ks \in KeysOf(kinds) :
      Lookup(ks) = Miss <=>
        \/ \A i \in DOMAIN Rows : ~Candidate(i, ks)
        \/ \E i \in DOMAIN Rows : /\ Prefix(i) = NotLpm
                                  /\ Len(kinds) > 1 => RowMatches(ks, Rows[i])

\* Adding an entry changes no answer but to that entry; without lpm keys it
\* changes no hit at all, and const entries are never affected.  The exception
\* is an entry of an lpm table that is no prefix: all its lookups may miss.
AddIsLocal ==
  [][\A ks \in KeysOf(kinds) :
       LET before == Lookup(ks)
           after  == Match(ks, Entries')
       IN  after # before =>
             /\ const = NoConst
             /\ \/ after = Len(installed')
                \/ /\ after = Miss /\ LpmKeys # {}
                   /\ LpmSet(ToValSetT(Last(installed')[LpmIndex])) = NotLpm
             /\ LpmKeys = {} => before = Miss]_vars

\* What the tests of the repository mean by an entry matching a key.
Number(bits) ==
  LET n[i \in 0 .. Width] == IF i = 0 THEN 0 ELSE 2 * n[i - 1] + bits[i] IN n[Width]

Agrees(k, s) ==
  CASE s.is = "universal" -> TRUE
    [] s.is = "singleton" -> k = s.value
    [] s.is = "mask"      -> \A i \in 1 .. Width : s.mask[i] = 1 => k[i] = s.value[i]
    [] s.is = "range"     -> Number(s.lo) <= Number(k) /\ Number(k) <= Number(s.hi)

Agreeing(k)    == {i \in DOMAIN Entries : Agrees(k, Entries[i][1])}

\* A key that has the prefix of some entry is answered by such an entry
\* (table-entries-lpm-bmv2.stf).
LpmPrefixFound ==
  kinds = <<"lpm">> =>
    \A k \in Bits : Agreeing(k) # {} => Lookup(<<k>>) \in Agreeing(k)
=============================================================================
