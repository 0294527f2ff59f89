-------------------------- MODULE TableMatch_proofs --------------------------
(***************************************************************************)
(* Proofs about table matching: for keys of any width, entries of any      *)
(* number and any match kinds.                                             *)
(***************************************************************************)
EXTENDS TableMatch, FiniteSetTheorems, WellFoundedInduction, TLAPS

(* A set of numbers that is not empty has a least member.                    *)
LEMMA Least ==
  ASSUME NEW T \in SUBSET Nat, T # {}
  PROVE  \E n \in T : \A m \in T : n <= m
<1>1. PICK n \in T : \A m \in T : <<m, n>> \notin OpToRel(<, Nat)
  BY WFMin, NatLessThanWellFounded, Zenon
<1>2. \A m \in T : ~(m < n)
  BY <1>1, Zenon DEF OpToRel
<1> QED
  BY <1>2

(* What holds at 0 and goes from n - 1 to n holds up to N.                   *)
LEMMA StepByStep ==
  ASSUME NEW N \in Nat, NEW Good, 0 \in Good,
         \A n \in 1 .. N : n - 1 \in Good => n \in Good
  PROVE  \A n \in 0 .. N : n \in Good
<1> SUFFICES ASSUME NEW k \in 0 .. N, k \notin Good PROVE FALSE
  OBVIOUS
<1> DEFINE T == {n \in 0 .. N : n \notin Good}
<1>1. T \in SUBSET Nat /\ T # {}
  OBVIOUS
<1>2. PICK n \in T : \A m \in T : n <= m
  BY <1>1, Least
<1>3. n # 0
  BY <1>2
<1>4. n - 1 \notin T /\ n - 1 \in 0 .. N
  BY <1>2, <1>3
<1> QED
  BY <1>2, <1>3, <1>4

(* A computation of N steps on the set A is a function on 0 .. N.            *)
Computes(f, a, step, N) == f[0] = a /\ \A n \in 1 .. N : f[n] = step[<<f[n - 1], n>>]

(* Every step function has a computation from every start.                   *)
LEMMA ComputationExists ==
  ASSUME NEW A, NEW N \in Nat, NEW a \in A, NEW step \in [A \X (1 .. N) -> A]
  PROVE  \E f \in [0 .. N -> A] : Computes(f, a, step, N)
<1> DEFINE Good == {n \in 0 .. N : \E f \in [0 .. n -> A] : Computes(f, a, step, n)}
<1>1. 0 \in Good
  <2>1. [n \in 0 .. 0 |-> a] \in [0 .. 0 -> A] /\ Computes([n \in 0 .. 0 |-> a], a, step, 0)
    BY DEF Computes
  <2> QED
    BY <2>1
<1>2. ASSUME NEW n \in 1 .. N, n - 1 \in Good PROVE n \in Good
  <2>1. PICK f \in [0 .. n - 1 -> A] : Computes(f, a, step, n - 1)
    BY <1>2
  <2> DEFINE g == [m \in 0 .. n |-> IF m = n THEN step[<<f[n - 1], n>>] ELSE f[m]]
  <2>2. f[n - 1] \in A /\ step[<<f[n - 1], n>>] \in A
    BY <2>1
  <2>3. g \in [0 .. n -> A]
    BY <2>1, <2>2
  <2>4. g[0] = a
    BY <2>1 DEF Computes
  <2>5. ASSUME NEW m \in 1 .. n PROVE g[m] = step[<<g[m - 1], m>>]
    <3>1. CASE m = n
      BY <3>1, SMTT(30)
    <3>2. CASE m # n
      <4>1. m \in 1 .. n - 1
        BY <3>2
      <4>2. g[m] = f[m] /\ g[m - 1] = f[m - 1]
        BY <4>1
      <4> QED
        BY <2>1, <4>1, <4>2 DEF Computes
    <3> QED
      BY <3>1, <3>2
  <2> HIDE DEF g
  <2>6. Computes(g, a, step, n)
    BY <2>4, <2>5 DEF Computes
  <2> QED
    BY <2>3, <2>6
<1> HIDE DEF Good
<1>3. N \in Good
  BY <1>1, <1>2, StepByStep
<1> QED
  BY <1>3 DEF Good

(* ... and only one.                                                         *)
LEMMA ComputationUnique ==
  ASSUME NEW N \in Nat, NEW M \in 0 .. N, NEW a, NEW step, NEW f, NEW g,
         Computes(f, a, step, N), Computes(g, a, step, M)
  PROVE  f[M] = g[M]
<1> DEFINE Good == {n \in 0 .. M : f[n] = g[n]}
<1>1. 0 \in Good
  BY DEF Computes
<1>2. ASSUME NEW n \in 1 .. M, n - 1 \in Good PROVE n \in Good
  <2>1. n \in 1 .. N
    OBVIOUS
  <2>2. f[n] = step[<<f[n - 1], n>>] /\ g[n] = step[<<g[n - 1], n>>]
    BY <2>1 DEF Computes
  <2> QED
    BY <1>2, <2>2
<1> HIDE DEF Good
<1>3. M \in Good
  BY <1>1, <1>2, StepByStep
<1> QED
  BY <1>3 DEF Good

(* A computation that goes on for ever.                                      *)
GoesOn(f, a, step) == f[0] = a /\ \A n \in Nat \ {0} : f[n] = step[<<f[n - 1], n>>]

(* ... also one that goes on for ever.                                       *)
LEMMA EndlessComputationExists ==
  ASSUME NEW A, NEW a \in A, NEW step \in [A \X (Nat \ {0}) -> A]
  PROVE  \E f \in [Nat -> A] : GoesOn(f, a, step)
<1> DEFINE Reaches(n, x) == \E f \in [0 .. n -> A] : Computes(f, a, step, n) /\ x = f[n]
           f == [n \in Nat |-> CHOOSE x : Reaches(n, x)]
<1>1. ASSUME NEW n \in Nat PROVE \E x : Reaches(n, x)
  <2> DEFINE some == [p \in A \X (1 .. n) |-> step[p]]
  <2>1. \A p \in A \X (1 .. n) : p \in A \X (Nat \ {0})
    OBVIOUS
  <2>2. some \in [A \X (1 .. n) -> A]
    BY <2>1
  <2> HIDE DEF some
  <2>3. PICK g \in [0 .. n -> A] : Computes(g, a, some, n)
    BY <2>2, ComputationExists
  <2>4. ASSUME NEW m \in 1 .. n PROVE g[m] = step[<<g[m - 1], m>>]
    <3>1. <<g[m - 1], m>> \in A \X (1 .. n)
      BY <2>3
    <3> QED
      BY <2>3, <3>1 DEF Computes, some
  <2>5. Computes(g, a, step, n)
    BY <2>3, <2>4 DEF Computes
  <2> QED
    BY <2>3, <2>5
<1>2. ASSUME NEW n \in Nat PROVE Reaches(n, f[n])
  <2> HIDE DEF Reaches
  <2> QED
    BY <1>1
<1> HIDE DEF f
<1>3. ASSUME NEW n \in Nat PROVE f[n] \in A
  BY <1>2
<1>4. f[0] = a
  BY <1>2 DEF Computes
<1>5. ASSUME NEW n \in Nat \ {0} PROVE f[n] = step[<<f[n - 1], n>>]
  <2>1. PICK g \in [0 .. n -> A] : Computes(g, a, step, n) /\ f[n] = g[n]
    BY <1>2
  <2>2. PICK h \in [0 .. n - 1 -> A] : Computes(h, a, step, n - 1) /\ f[n - 1] = h[n - 1]
    BY <1>2
  <2>3. g[n - 1] = h[n - 1]
    BY <2>1, <2>2, ComputationUnique
  <2>4. g[n] = step[<<g[n - 1], n>>]
    BY <2>1 DEF Computes
  <2> QED
    BY <2>1, <2>2, <2>3, <2>4
<1>6. f \in [Nat -> A]
  <2>1. f = [n \in Nat |-> f[n]]
    BY DEF f
  <2> QED
    BY <1>3, <2>1
<1> QED
  BY <1>4, <1>5, <1>6 DEF GoesOn

-----------------------------------------------------------------------------
(* Insertion.                                                                *)

(* Insertion into a list.  Inserted(s, t, p, r): t is s with r put at place p *)
Inserted(s, t, p, r) ==
    /\ Len(t) = Len(s) + 1
    /\ t[p] = r
    /\ \A i \in 1 .. p - 1 : t[i] = s[i]
    /\ \A i \in p .. Len(s) : t[i + 1] = s[i]

(* InsertAt of the community modules inserts.                                *)
LEMMA InsertAtInserts ==
  ASSUME NEW S, NEW s \in Seq(S), NEW r \in S, NEW p \in 1 .. Len(s) + 1
  PROVE  InsertAt(s, p, r) \in Seq(S) /\ Inserted(s, InsertAt(s, p, r), p, r)
<1> DEFINE front == SubSeq(s, 1, p - 1)
           back  == SubSeq(s, p, Len(s))
           front1 == front \o <<r>>
<1>1. Len(s) \in Nat /\ p \in Nat /\ p >= 1 /\ p <= Len(s) + 1
  OBVIOUS
<1>2. /\ front \in Seq(S) /\ Len(front) = p - 1
      /\ \A i \in 1 .. p - 1 : front[i] = s[i]
  BY <1>1
<1>3. /\ back \in Seq(S) /\ Len(back) = Len(s) - p + 1
      /\ \A i \in 1 .. Len(s) - p + 1 : back[i] = s[p + i - 1]
  BY <1>1
<1> HIDE DEF front, back
<1>4. /\ front1 \in Seq(S) /\ Len(front1) = p /\ front1[p] = r
      /\ \A i \in 1 .. p - 1 : front1[i] = s[i]
  BY <1>1, <1>2
<1>5. InsertAt(s, p, r) = front1 \o back
  BY DEF InsertAt, front, back
<1> HIDE DEF front1
<1>6. /\ front1 \o back \in Seq(S) /\ Len(front1 \o back) = Len(s) + 1
      /\ \A i \in 1 .. p : (front1 \o back)[i] = front1[i]
  BY <1>1, <1>3, <1>4
<1>7. ASSUME NEW i \in p .. Len(s) PROVE (front1 \o back)[i + 1] = s[i]
  <2>1. (front1 \o back)[i + 1] = back[i + 1 - p]
    BY <1>1, <1>3, <1>4
  <2>2. i + 1 - p \in 1 .. Len(s) - p + 1 /\ p + (i + 1 - p) - 1 = i
    BY <1>1
  <2> QED
    BY <1>3, <2>1, <2>2
<1>8. (front1 \o back)[p] = r
  BY <1>1, <1>4, <1>6
<1>9. \A i \in 1 .. p - 1 : (front1 \o back)[i] = s[i]
  BY <1>1, <1>4, <1>6
<1> QED
  BY <1>5, <1>6, <1>7, <1>8, <1>9 DEF Inserted

Nbits(row) == row.sets[1].nbits

(* InsertRow puts a row before the first that is not longer.                 *)
LEMMA InsertRowInserts ==
  ASSUME NEW S, NEW rows \in Seq(S), NEW row \in S
  PROVE  /\ InsertRow(row, rows) \in Seq(S)
         /\ \E p \in 1 .. Len(rows) + 1 :
              /\ Inserted(rows, InsertRow(row, rows), p, row)
              /\ \A i \in 1 .. p - 1 : ~(Nbits(rows[i]) <= Nbits(row))
              /\ p <= Len(rows) => Nbits(rows[p]) <= Nbits(row)
<1> DEFINE later == {i \in DOMAIN rows : Nbits(rows[i]) <= Nbits(row)}
           place == IF later = {} THEN Len(rows) + 1
                    ELSE CHOOSE i \in later : \A j \in later : i <= j
<1>1. Len(rows) \in Nat /\ DOMAIN rows = 1 .. Len(rows)
  OBVIOUS
<1>2. InsertRow(row, rows) = InsertAt(rows, place, row)
  BY DEF InsertRow, Nbits
<1>3. /\ place \in 1 .. Len(rows) + 1
      /\ \A i \in 1 .. place - 1 : i \notin later
      /\ place <= Len(rows) => place \in later
  <2>1. CASE later = {}
    BY <1>1, <2>1
  <2>2. CASE later # {}
    <3>1. later \in SUBSET Nat
      BY <1>1
    <3>2. \E i \in later : \A j \in later : i <= j
      BY <2>2, <3>1, Least
    <3> HIDE DEF later
    <3>3. place \in later /\ \A j \in later : place <= j
      BY <2>2, <3>2
    <3>4. later \subseteq 1 .. Len(rows)
      BY <1>1 DEF later
    <3> HIDE DEF place
    <3> QED
      BY <1>1, <3>3, <3>4
  <2> QED
    BY <2>1, <2>2
<1> HIDE DEF place
<1>4. /\ \A i \in 1 .. place - 1 : ~(Nbits(rows[i]) <= Nbits(row))
      /\ place <= Len(rows) => Nbits(rows[place]) <= Nbits(row)
  <2>1. ASSUME NEW i \in 1 .. place - 1 PROVE i \in DOMAIN rows
    BY <1>1, <1>3
  <2> QED
    BY <1>1, <1>3, <2>1, Zenon
<1> HIDE DEF later, Nbits
<1>5. InsertAt(rows, place, row) \in Seq(S) /\ Inserted(rows, InsertAt(rows, place, row), place, row)
  BY <1>3, InsertAtInserts
<1> QED
  BY <1>2, <1>3, <1>4, <1>5

(* What is in a list after an insertion.                                     *)
LEMMA InsertedElements ==
  ASSUME NEW S, NEW s \in Seq(S), NEW t \in Seq(S), NEW r, NEW p \in 1 .. Len(s) + 1,
         Inserted(s, t, p, r)
  PROVE  Range(t) = Range(s) \cup {r}
<1>1. Len(s) \in Nat /\ DOMAIN s = 1 .. Len(s) /\ Len(t) = Len(s) + 1 /\ DOMAIN t = 1 .. Len(s) + 1
  BY DEF Inserted
<1>2. ASSUME NEW i \in 1 .. Len(s) + 1 PROVE t[i] \in Range(s) \cup {r}
  <2>1. CASE i < p
    <3>1. i \in 1 .. p - 1 /\ i \in 1 .. Len(s)
      BY <1>1, <2>1
    <3> QED
      BY <1>1, <3>1 DEF Inserted, Range
  <2>2. CASE i = p
    BY <2>2 DEF Inserted
  <2>3. CASE i > p
    <3>1. i - 1 \in p .. Len(s) /\ i - 1 \in 1 .. Len(s) /\ (i - 1) + 1 = i
      BY <1>1, <2>3
    <3>2. t[i] = s[i - 1]
      BY <3>1 DEF Inserted
    <3> QED
      BY <1>1, <3>1, <3>2 DEF Range
  <2> QED
    BY <1>1, <2>1, <2>2, <2>3
<1>3. ASSUME NEW i \in 1 .. Len(s) PROVE s[i] \in Range(t)
  <2>1. CASE i < p
    <3>1. i \in 1 .. p - 1 /\ i \in 1 .. Len(s) + 1
      BY <1>1, <2>1
    <3> QED
      BY <1>1, <3>1 DEF Inserted, Range
  <2>2. CASE i >= p
    <3>1. i \in p .. Len(s) /\ i + 1 \in 1 .. Len(s) + 1
      BY <1>1, <2>2
    <3>2. t[i + 1] = s[i]
      BY <3>1 DEF Inserted
    <3> QED
      BY <1>1, <3>1, <3>2 DEF Range
  <2> QED
    BY <1>1, <2>1, <2>2
<1>4. r \in Range(t)
  BY <1>1 DEF Inserted, Range
<1>5. Range(t) \subseteq Range(s) \cup {r}
  BY <1>1, <1>2 DEF Range
<1>6. Range(s) \subseteq Range(t)
  BY <1>1, <1>3 DEF Range
<1> QED
  BY <1>4, <1>5, <1>6

(* Two insertions, in either order: the new row comes before the other one, *)
LEMMA InsertBefore ==
  ASSUME NEW s, NEW t, NEW u, NEW v, NEW r, NEW x,
         Len(s) \in Nat, NEW p \in 1 .. Len(s) + 1, NEW a \in 1 .. p,
         Inserted(s, t, p, r), Inserted(s, u, a, x), Inserted(t, v, a, x)
  PROVE  Inserted(u, v, p + 1, r)
<1>1. Len(v) = Len(u) + 1
  BY DEF Inserted
<1>2. v[p + 1] = r
  <2>1. p \in a .. Len(t)
    BY DEF Inserted
  <2> QED
    BY <2>1 DEF Inserted
<1>3. ASSUME NEW i \in 1 .. (p + 1) - 1 PROVE v[i] = u[i]
  <2>1. CASE i < a
    <3>1. i \in 1 .. a - 1 /\ i \in 1 .. p - 1
      BY <2>1
    <3> QED
      BY <3>1 DEF Inserted
  <2>2. CASE i = a
    BY <2>2 DEF Inserted
  <2>3. CASE i > a
    <3>1. i - 1 \in a .. Len(s) /\ i - 1 \in 1 .. p - 1 /\ (i - 1) + 1 = i
      BY <2>3
    <3>2. i - 1 \in a .. Len(t)
      BY <3>1 DEF Inserted
    <3>3. v[i] = t[i - 1] /\ t[i - 1] = s[i - 1] /\ u[i] = s[i - 1]
      BY <3>1, <3>2 DEF Inserted
    <3> QED
      BY <3>3
  <2> QED
    BY <2>1, <2>2, <2>3
<1>4. ASSUME NEW i \in p + 1 .. Len(u) PROVE v[i + 1] = u[i]
  <2>1. Len(u) = Len(s) + 1 /\ Len(t) = Len(s) + 1
    BY DEF Inserted
  <2>2. i \in a .. Len(t) /\ i - 1 \in p .. Len(s) /\ i - 1 \in a .. Len(s) /\ (i - 1) + 1 = i
    BY <2>1
  <2>3. v[i + 1] = t[i] /\ t[i] = s[i - 1] /\ u[i] = s[i - 1]
    BY <2>2 DEF Inserted
  <2> QED
    BY <2>3
<1> QED
  BY <1>1, <1>2, <1>3, <1>4 DEF Inserted

(* ... or behind it.                                                         *)
LEMMA InsertBehind ==
  ASSUME NEW s, NEW t, NEW u, NEW v, NEW r, NEW x,
         Len(s) \in Nat, NEW a \in 1 .. Len(s) + 1, NEW p \in 1 .. a,
         Inserted(s, t, p, r), Inserted(s, u, a, x), Inserted(t, v, a + 1, x)
  PROVE  Inserted(u, v, p, r)
<1>1. Len(v) = Len(u) + 1
  BY DEF Inserted
<1>2. v[p] = r
  <2>1. p \in 1 .. (a + 1) - 1
    OBVIOUS
  <2> QED
    BY <2>1 DEF Inserted
<1>3. ASSUME NEW i \in 1 .. p - 1 PROVE v[i] = u[i]
  <2>1. i \in 1 .. (a + 1) - 1 /\ i \in 1 .. a - 1
    OBVIOUS
  <2> QED
    BY <2>1 DEF Inserted
<1>4. ASSUME NEW i \in p .. Len(u) PROVE v[i + 1] = u[i]
  <2>0. Len(u) = Len(s) + 1 /\ Len(t) = Len(s) + 1
    BY DEF Inserted
  <2>1. CASE i < a
    <3>1. i + 1 \in 1 .. (a + 1) - 1 /\ i \in 1 .. a - 1 /\ i \in p .. Len(s)
      BY <2>1
    <3>2. v[i + 1] = t[i + 1] /\ t[i + 1] = s[i] /\ u[i] = s[i]
      BY <3>1 DEF Inserted
    <3> QED
      BY <3>2
  <2>2. CASE i = a
    BY <2>2 DEF Inserted
  <2>3. CASE i > a
    <3>1. /\ i \in a + 1 .. Len(t) /\ i - 1 \in p .. Len(s) /\ i - 1 \in a .. Len(s)
          /\ (i - 1) + 1 = i
      BY <2>0, <2>3
    <3>2. v[i + 1] = t[i] /\ t[i] = s[i - 1] /\ u[i] = s[i - 1]
      BY <3>1 DEF Inserted
    <3> QED
      BY <3>2
  <2> QED
    BY <2>1, <2>2, <2>3
<1> QED
  BY <1>1, <1>2, <1>3, <1>4 DEF Inserted

(* Lists of prefixes, the longest first.                                     *)
LpmRow == {row \in Row : Len(row.sets) = 1 /\ row.sets[1] \in Lpms}

(* The length of a prefix is a number.                                       *)
LEMMA LpmRowNbits == ASSUME NEW row \in LpmRow PROVE Nbits(row) \in Nat
BY WidthAssumption DEF LpmRow, Lpms, Nbits

Descending(rows) == \A i, j \in DOMAIN rows : i < j => Nbits(rows[j]) <= Nbits(rows[i])

(* Inserting keeps the longest first.                                        *)
LEMMA InsertRowDescends ==
  ASSUME NEW rows \in Seq(LpmRow), NEW row \in LpmRow, Descending(rows)
  PROVE  Descending(InsertRow(row, rows))
<1> DEFINE new == InsertRow(row, rows)
<1>1. new \in Seq(LpmRow)
  BY InsertRowInserts
<1>2. PICK p \in 1 .. Len(rows) + 1 :
        /\ Inserted(rows, new, p, row)
        /\ \A i \in 1 .. p - 1 : ~(Nbits(rows[i]) <= Nbits(row))
        /\ p <= Len(rows) => Nbits(rows[p]) <= Nbits(row)
  BY InsertRowInserts
<1> HIDE DEF new
<1>3. Len(rows) \in Nat /\ DOMAIN rows = 1 .. Len(rows) /\ DOMAIN new = 1 .. Len(rows) + 1
  BY <1>1, <1>2 DEF Inserted
<1>4. ASSUME NEW i \in DOMAIN rows PROVE Nbits(rows[i]) \in Nat
  BY LpmRowNbits
<1>5. Nbits(row) \in Nat
  BY LpmRowNbits
<1> HIDE DEF Nbits
<1>6. ASSUME NEW i \in p .. Len(rows) PROVE Nbits(rows[i]) <= Nbits(row)
  <2>1. p \in DOMAIN rows /\ i \in DOMAIN rows
    BY <1>3
  <2>2. Nbits(rows[p]) <= Nbits(row) /\ (p < i => Nbits(rows[i]) <= Nbits(rows[p]))
    BY <1>2, <1>3, <2>1 DEF Descending
  <2> QED
    BY <1>4, <1>5, <2>1, <2>2
<1>7. ASSUME NEW i \in 1 .. p - 1 PROVE Nbits(row) <= Nbits(rows[i])
  BY <1>2, <1>3, <1>4, <1>5
<1>8. ASSUME NEW i \in DOMAIN new, NEW j \in DOMAIN new, i < j
      PROVE  Nbits(new[j]) <= Nbits(new[i])
  <2>1. CASE j < p
    <3>1. new[i] = rows[i] /\ new[j] = rows[j] /\ i \in DOMAIN rows /\ j \in DOMAIN rows
      BY <1>2, <1>3, <1>8, <2>1 DEF Inserted
    <3> QED
      BY <1>8, <3>1 DEF Descending
  <2>2. CASE j = p
    <3>1. new[i] = rows[i] /\ new[j] = row /\ i \in 1 .. p - 1
      BY <1>2, <1>3, <1>8, <2>2 DEF Inserted
    <3> QED
      BY <1>7, <3>1
  <2>3. CASE j > p
    <3>0. j - 1 \in p .. Len(rows) /\ (j - 1) + 1 = j
      BY <1>3, <2>3
    <3>1. new[j] = rows[j - 1] /\ j - 1 \in DOMAIN rows
      BY <1>2, <1>3, <3>0 DEF Inserted
    <3>2. CASE i < p
      <4>1. new[i] = rows[i] /\ i \in DOMAIN rows /\ i < j - 1
        BY <1>2, <1>3, <2>3, <3>2 DEF Inserted
      <4> QED
        BY <3>1, <4>1 DEF Descending
    <3>3. CASE i = p
      <4>1. new[i] = row
        BY <1>2, <3>3 DEF Inserted
      <4> QED
        BY <1>6, <3>0, <3>1, <4>1
    <3>4. CASE i > p
      <4>1. i - 1 \in p .. Len(rows) /\ (i - 1) + 1 = i /\ i - 1 < j - 1
        BY <1>3, <1>8, <3>4
      <4>2. new[i] = rows[i - 1] /\ i - 1 \in DOMAIN rows
        BY <1>2, <1>3, <4>1 DEF Inserted
      <4> QED
        BY <3>1, <4>1, <4>2 DEF Descending
    <3> QED
      BY <1>3, <3>2, <3>3, <3>4
  <2> QED
    BY <1>3, <2>1, <2>2, <2>3
<1>9. Descending(new)
  BY <1>8 DEF Descending
<1> QED
  BY <1>9 DEF new

OneMore(s, t, r) == \E p \in 1 .. Len(s) + 1 : Inserted(s, t, p, r)

(* Of two lists that differ in one row, an insertion makes two that differ   *)
(* in that row.                                                              *)
LEMMA InsertRowKeepsOneMore ==
  ASSUME NEW s \in Seq(LpmRow), NEW t \in Seq(LpmRow), NEW r \in LpmRow, NEW x \in LpmRow,
         Descending(t), OneMore(s, t, r)
  PROVE  OneMore(InsertRow(x, s), InsertRow(x, t), r)
<1> DEFINE u == InsertRow(x, s)
           v == InsertRow(x, t)
<1>1. PICK a \in 1 .. Len(s) + 1 :
        /\ Inserted(s, u, a, x)
        /\ \A i \in 1 .. a - 1 : ~(Nbits(s[i]) <= Nbits(x))
        /\ a <= Len(s) => Nbits(s[a]) <= Nbits(x)
  BY InsertRowInserts
<1>2. PICK b \in 1 .. Len(t) + 1 :
        /\ Inserted(t, v, b, x)
        /\ \A i \in 1 .. b - 1 : ~(Nbits(t[i]) <= Nbits(x))
        /\ b <= Len(t) => Nbits(t[b]) <= Nbits(x)
  BY InsertRowInserts
<1> HIDE DEF u, v
<1>3. PICK p \in 1 .. Len(s) + 1 : Inserted(s, t, p, r)
  BY DEF OneMore
<1>4. Len(s) \in Nat /\ Len(t) = Len(s) + 1 /\ Len(u) = Len(s) + 1
  BY <1>1, <1>3 DEF Inserted
<1>5. /\ \A i \in 1 .. p - 1 : t[i] = s[i]
      /\ t[p] = r
      /\ \A i \in p .. Len(s) : t[i + 1] = s[i]
  BY <1>3 DEF Inserted
<1>6. /\ \A i \in 1 .. Len(s) : Nbits(s[i]) \in Nat
      /\ Nbits(r) \in Nat /\ Nbits(x) \in Nat
  BY LpmRowNbits
<1> HIDE DEF Nbits
<1>7. CASE a < p
  <2>1. t[a] = s[a] /\ Nbits(t[a]) <= Nbits(x)
    BY <1>1, <1>4, <1>5, <1>7
  <2>2. b <= a
    BY <1>2, <1>4, <2>1
  <2>3. ~(b < a)
    <3> SUFFICES ASSUME b < a PROVE FALSE
      OBVIOUS
    <3>1. t[b] = s[b] /\ b \in 1 .. a - 1 /\ b <= Len(t)
      BY <1>4, <1>5, <1>7
    <3> QED
      BY <1>1, <1>2, <3>1
  <2>4. b = a /\ a \in 1 .. p
    BY <1>4, <1>7, <2>2, <2>3
  <2>5. Inserted(u, v, p + 1, r)
    BY <1>1, <1>2, <1>3, <1>4, <2>4, InsertBefore
  <2> QED
    BY <1>4, <2>5 DEF OneMore, u, v
<1>8. CASE a >= p /\ ~(Nbits(r) <= Nbits(x))
  <2>1. ~(b < a + 1)
    <3> SUFFICES ASSUME b < a + 1 PROVE FALSE
      OBVIOUS
    <3>0. b <= Len(t)
      BY <1>4
    <3>1. CASE b < p
      <4>1. t[b] = s[b] /\ b \in 1 .. a - 1
        BY <1>4, <1>5, <1>8, <3>1
      <4> QED
        BY <1>1, <1>2, <3>0, <4>1
    <3>2. CASE b = p
      BY <1>2, <1>5, <1>8, <3>0, <3>2
    <3>3. CASE b > p
      <4>1. b - 1 \in p .. Len(s) /\ (b - 1) + 1 = b /\ b - 1 \in 1 .. a - 1
        BY <1>4, <3>3
      <4>2. t[b] = s[b - 1]
        BY <1>5, <4>1
      <4> QED
        BY <1>1, <1>2, <3>0, <4>1, <4>2
    <3> QED
      BY <1>4, <3>1, <3>2, <3>3
  <2>2. ~(a + 1 < b)
    <3> SUFFICES ASSUME a + 1 < b PROVE FALSE
      OBVIOUS
    <3>1. a \in p .. Len(s) /\ a + 1 \in 1 .. b - 1 /\ a <= Len(s)
      BY <1>4, <1>8
    <3>2. t[a + 1] = s[a]
      BY <1>5, <3>1
    <3> QED
      BY <1>1, <1>2, <3>1, <3>2
  <2>3. b = a + 1 /\ p \in 1 .. a
    BY <1>4, <1>8, <2>1, <2>2
  <2>4. Inserted(u, v, p, r)
    BY <1>1, <1>2, <1>3, <1>4, <2>3, InsertBehind
  <2> QED
    BY <1>4, <2>4 DEF OneMore, u, v
<1>9. CASE a >= p /\ Nbits(r) <= Nbits(x)
  <2>1. ~(b > p)
    <3> SUFFICES ASSUME b > p PROVE FALSE
      OBVIOUS
    <3>1. p \in 1 .. b - 1
      BY <1>4
    <3> QED
      BY <1>2, <1>5, <1>9, <3>1
  <2>2. ~(b < p)
    <3> SUFFICES ASSUME b < p PROVE FALSE
      OBVIOUS
    <3>1. t[b] = s[b] /\ b \in 1 .. a - 1 /\ b <= Len(t)
      BY <1>4, <1>5, <1>9
    <3> QED
      BY <1>1, <1>2, <3>1
  <2>3. ~(p < a)
    <3> SUFFICES ASSUME p < a PROVE FALSE
      OBVIOUS
    <3>1. p \in p .. Len(s) /\ p \in 1 .. a - 1 /\ p \in 1 .. Len(s)
      BY <1>4
    <3>2. t[p + 1] = s[p]
      BY <1>5, <3>1
    <3>3. p \in DOMAIN t /\ p + 1 \in DOMAIN t /\ p < p + 1
      BY <1>4, <3>1
    <3>4. Nbits(t[p + 1]) <= Nbits(t[p])
      BY <3>3 DEF Descending
    <3>5. Nbits(s[p]) <= Nbits(x)
      BY <1>5, <1>6, <1>9, <3>1, <3>2, <3>4
    <3> QED
      BY <1>1, <3>1, <3>5
  <2>4. b = p /\ a = p /\ a \in 1 .. p
    BY <1>4, <1>9, <2>1, <2>2, <2>3
  <2>5. Inserted(u, v, p + 1, r)
    BY <1>1, <1>2, <1>3, <1>4, <2>4, InsertBefore
  <2> QED
    BY <1>4, <2>5 DEF OneMore, u, v
<1> QED
  BY <1>4, <1>7, <1>8, <1>9

-----------------------------------------------------------------------------
(* Merge sort.                                                               *)

(* Merging, one insertion after the other.                                   *)
Merges(m, rows1, rows2) ==
    /\ m[0] = rows2
    /\ \A k \in 1 .. Len(rows1) : m[k] = InsertRow(rows1[Len(rows1) + 1 - k], m[k - 1])

(* Merge inserts the rows of the first list into the second, last row first. *)
LEMMA MergeSteps ==
  ASSUME NEW S, NEW rows1 \in Seq(S), NEW rows2 \in Seq(S)
  PROVE  \E m \in [0 .. Len(rows1) -> Seq(S)] :
           Merges(m, rows1, rows2) /\ Merge(rows1, rows2) = m[Len(rows1)]
<1> DEFINE n == Len(rows1)
           step == [x \in Seq(S) \X (1 .. n) |-> InsertRow(rows1[n + 1 - x[2]], x[1])]
           IsRun(m) == m = [k \in 0 .. n |-> IF k = 0 THEN rows2
                                             ELSE InsertRow(rows1[n + 1 - k], m[k - 1])]
<1>0. n \in Nat
  OBVIOUS
<1>1. ASSUME NEW k \in 1 .. n PROVE rows1[n + 1 - k] \in S
  BY <1>0
<1> HIDE DEF n
<1>2. step \in [Seq(S) \X (1 .. n) -> Seq(S)]
  <2> SUFFICES ASSUME NEW x \in Seq(S) \X (1 .. n)
               PROVE  InsertRow(rows1[n + 1 - x[2]], x[1]) \in Seq(S)
    OBVIOUS
  <2>1. x[1] \in Seq(S) /\ x[2] \in 1 .. n
    OBVIOUS
  <2>2. rows1[n + 1 - x[2]] \in S
    BY <1>1, <2>1
  <2> QED
    BY <2>1, <2>2, InsertRowInserts
<1>3. PICK m \in [0 .. n -> Seq(S)] : Computes(m, rows2, step, n)
  BY <1>0, <1>2, ComputationExists
<1>4. ASSUME NEW k \in 1 .. n PROVE m[k] = InsertRow(rows1[n + 1 - k], m[k - 1])
  <2>1. <<m[k - 1], k>> \in Seq(S) \X (1 .. n)
    BY <1>0, <1>3
  <2>2. step[<<m[k - 1], k>>] = InsertRow(rows1[n + 1 - k], m[k - 1])
    BY <2>1
  <2> QED
    BY <1>3, <2>2 DEF Computes
<1>5. m[0] = rows2
  BY <1>3 DEF Computes
<1> HIDE DEF step
<1>6. IsRun(m)
  <2>1. ASSUME NEW k \in 0 .. n
        PROVE  m[k] = IF k = 0 THEN rows2 ELSE InsertRow(rows1[n + 1 - k], m[k - 1])
    <3>1. k = 0 \/ k \in 1 .. n
      BY <1>0
    <3>2. 0 \notin 1 .. n
      OBVIOUS
    <3> QED
      BY <1>4, <1>5, <3>1, <3>2, Zenon
  <2> QED
    BY <1>3, <2>1
<1>7. Merge(rows1, rows2) = (CHOOSE h : IsRun(h))[n]
  BY DEF Merge, n
<1> DEFINE h == CHOOSE k : IsRun(k)
<1>8. IsRun(h)
  <2> HIDE DEF IsRun
  <2> QED
    BY <1>6, Zenon
<1>9. Merge(rows1, rows2) = h[n]
  BY <1>7
<1> HIDE DEF h
<1>10. h[0] = rows2 /\ \A k \in 1 .. n : h[k] = InsertRow(rows1[n + 1 - k], h[k - 1])
  <2>1. \A k \in 0 .. n : h[k] = IF k = 0 THEN rows2 ELSE InsertRow(rows1[n + 1 - k], h[k - 1])
    BY <1>8, Zenon
  <2> HIDE DEF IsRun
  <2>2. 0 \in 0 .. n
    BY <1>0
  <2>3. ASSUME NEW k \in 1 .. n PROVE k \in 0 .. n /\ k # 0
    BY <1>0
  <2> QED
    BY <2>1, <2>2, <2>3, Zenon
<1>11. h = [k \in 0 .. n |-> h[k]]
  BY <1>8, Zenon
<1> HIDE DEF IsRun
<1> DEFINE Good == {k \in 0 .. n : h[k] \in Seq(S)}
<1>12. 0 \in Good
  BY <1>0, <1>10
<1>13. ASSUME NEW k \in 1 .. n, k - 1 \in Good PROVE k \in Good
  <2>1. h[k] = InsertRow(rows1[n + 1 - k], h[k - 1])
    BY <1>10
  <2>2. h[k - 1] \in Seq(S) /\ rows1[n + 1 - k] \in S
    BY <1>1, <1>13
  <2>3. InsertRow(rows1[n + 1 - k], h[k - 1]) \in Seq(S)
    BY <2>2, InsertRowInserts
  <2> QED
    BY <2>1, <2>3
<1> HIDE DEF Good
<1>14. \A k \in 0 .. n : k \in Good
  BY <1>0, <1>12, <1>13, StepByStep
<1>15. h \in [0 .. n -> Seq(S)]
  <2>1. \A k \in 0 .. n : h[k] \in Seq(S)
    BY <1>14 DEF Good
  <2> QED
    BY <1>11, <2>1
<1>16. Merges(h, rows1, rows2)
  BY <1>10 DEF Merges, n
<1> QED
  BY <1>9, <1>15, <1>16 DEF n

(* A merged list has the rows of both.                                       *)
LEMMA MergeElements ==
  ASSUME NEW S, NEW rows1 \in Seq(S), NEW rows2 \in Seq(S)
  PROVE  /\ Merge(rows1, rows2) \in Seq(S)
         /\ Range(Merge(rows1, rows2)) = Range(rows1) \cup Range(rows2)
<1> DEFINE n == Len(rows1)
<1>1. PICK m \in [0 .. n -> Seq(S)] :
        Merges(m, rows1, rows2) /\ Merge(rows1, rows2) = m[n]
  BY MergeSteps
<1>2. n \in Nat /\ DOMAIN rows1 = 1 .. n
  OBVIOUS
<1> DEFINE LastRows(k) == {rows1[i] : i \in n + 1 - k .. n}
           Good == {k \in 0 .. n : Range(m[k]) = LastRows(k) \cup Range(rows2)}
<1>3. 0 \in Good
  <2>1. LastRows(0) = {}
    BY <1>2
  <2> QED
    BY <1>1, <1>2, <2>1 DEF Merges
<1>4. ASSUME NEW k \in 1 .. n, k - 1 \in Good PROVE k \in Good
  <2> DEFINE row == rows1[n + 1 - k]
  <2>1. m[k] = InsertRow(row, m[k - 1])
    BY <1>1 DEF Merges
  <2>2. row \in S /\ m[k - 1] \in Seq(S) /\ m[k] \in Seq(S)
    <3>1. n + 1 - k \in 1 .. n /\ k - 1 \in 0 .. n /\ k \in 0 .. n
      BY <1>2
    <3>2. m[k - 1] \in Seq(S) /\ m[k] \in Seq(S)
      BY <3>1
    <3>3. row \in S
      BY <3>1
    <3> QED
      BY <3>2, <3>3
  <2>3. Range(m[k]) = Range(m[k - 1]) \cup {row}
    <3> HIDE DEF row
    <3>1. PICK p \in 1 .. Len(m[k - 1]) + 1 : Inserted(m[k - 1], InsertRow(row, m[k - 1]), p, row)
      BY <2>2, InsertRowInserts
    <3> QED
      BY <2>1, <2>2, <3>1, InsertedElements
  <2>4. LastRows(k) = LastRows(k - 1) \cup {row}
    <3>1. n + 1 - k .. n = {n + 1 - k} \cup (n + 1 - (k - 1) .. n)
      BY <1>2
    <3> QED
      BY <3>1
  <2> HIDE DEF row, LastRows
  <2> QED
    BY <1>4, <2>3, <2>4
<1>5. n \in Good
  <2> HIDE DEF Good
  <2>1. \A k \in 0 .. n : k \in Good
    BY <1>2, <1>3, <1>4, StepByStep
  <2> QED
    BY <1>2, <2>1
<1>6. LastRows(n) = Range(rows1)
  <2>1. n + 1 - n = 1
    BY <1>2
  <2> QED
    BY <1>2, <2>1 DEF Range
<1> QED
  BY <1>1, <1>2, <1>5, <1>6

(* After every insertion of a merge the longest is first.                    *)
LEMMA MergesDescend ==
  ASSUME NEW rows1 \in Seq(LpmRow), NEW rows2 \in Seq(LpmRow), Descending(rows2),
         NEW m \in [0 .. Len(rows1) -> Seq(LpmRow)], Merges(m, rows1, rows2)
  PROVE  \A k \in 0 .. Len(rows1) : Descending(m[k])
<1> DEFINE n == Len(rows1)
           Good == {k \in 0 .. n : Descending(m[k])}
<1>1. n \in Nat /\ \A k \in 1 .. n : rows1[n + 1 - k] \in LpmRow
  OBVIOUS
<1>2. 0 \in Good
  BY <1>1 DEF Merges
<1>3. ASSUME NEW k \in 1 .. n, k - 1 \in Good PROVE k \in Good
  <2>1. m[k] = InsertRow(rows1[n + 1 - k], m[k - 1])
    BY DEF Merges
  <2>2. m[k - 1] \in Seq(LpmRow) /\ Descending(m[k - 1])
    BY <1>3
  <2>3. Descending(m[k])
    BY <1>1, <2>1, <2>2, InsertRowDescends
  <2> QED
    BY <2>3
<1> HIDE DEF Good
<1>4. \A k \in 0 .. n : k \in Good
  BY <1>1, <1>2, <1>3, StepByStep
<1> QED
  BY <1>4 DEF Good

(* A merged list has the longest first if the second one has.                *)
LEMMA MergeDescends ==
  ASSUME NEW rows1 \in Seq(LpmRow), NEW rows2 \in Seq(LpmRow), Descending(rows2)
  PROVE  Descending(Merge(rows1, rows2))
<1>1. PICK m \in [0 .. Len(rows1) -> Seq(LpmRow)] :
        Merges(m, rows1, rows2) /\ Merge(rows1, rows2) = m[Len(rows1)]
  BY MergeSteps
<1>2. Len(rows1) \in 0 .. Len(rows1)
  OBVIOUS
<1> QED
  BY <1>1, <1>2, MergesDescend

(* A row more in the second list is a row more in the merged list.           *)
LEMMA MergeOneMoreRight ==
  ASSUME NEW rows \in Seq(LpmRow), NEW s \in Seq(LpmRow), NEW t \in Seq(LpmRow),
         NEW r \in LpmRow, Descending(t), OneMore(s, t, r)
  PROVE  OneMore(Merge(rows, s), Merge(rows, t), r)
<1> DEFINE n == Len(rows)
<1>1. PICK m \in [0 .. n -> Seq(LpmRow)] : Merges(m, rows, s) /\ Merge(rows, s) = m[n]
  BY MergeSteps
<1>2. PICK h \in [0 .. n -> Seq(LpmRow)] : Merges(h, rows, t) /\ Merge(rows, t) = h[n]
  BY MergeSteps
<1>3. n \in Nat /\ \A k \in 1 .. n : rows[n + 1 - k] \in LpmRow
  OBVIOUS
<1>4. \A k \in 0 .. n : Descending(h[k])
  BY <1>2, MergesDescend
<1> DEFINE Good == {k \in 0 .. n : OneMore(m[k], h[k], r)}
<1>5. 0 \in Good
  BY <1>1, <1>2, <1>3 DEF Merges
<1>6. ASSUME NEW k \in 1 .. n, k - 1 \in Good PROVE k \in Good
  <2>1. m[k] = InsertRow(rows[n + 1 - k], m[k - 1]) /\ h[k] = InsertRow(rows[n + 1 - k], h[k - 1])
    BY <1>1, <1>2 DEF Merges
  <2>2. /\ m[k - 1] \in Seq(LpmRow) /\ h[k - 1] \in Seq(LpmRow)
        /\ Descending(h[k - 1]) /\ OneMore(m[k - 1], h[k - 1], r)
    BY <1>4, <1>6
  <2>3. OneMore(m[k], h[k], r)
    BY <1>3, <2>1, <2>2, InsertRowKeepsOneMore
  <2> QED
    BY <2>3
<1> HIDE DEF Good
<1>7. \A k \in 0 .. n : k \in Good
  BY <1>3, <1>5, <1>6, StepByStep
<1>8. n \in Good
  BY <1>3, <1>7
<1> QED
  BY <1>1, <1>2, <1>8 DEF Good

(* A row that is inserted is a row more.                                     *)
LEMMA InsertRowOneMore ==
  ASSUME NEW rows \in Seq(LpmRow), NEW r \in LpmRow
  PROVE  OneMore(rows, InsertRow(r, rows), r)
BY InsertRowInserts DEF OneMore

(* A row more in the first list is a row more in the merged list.            *)
LEMMA MergeOneMoreLeft ==
  ASSUME NEW s \in Seq(LpmRow), NEW t \in Seq(LpmRow), NEW rows \in Seq(LpmRow),
         NEW r \in LpmRow, Descending(rows), OneMore(s, t, r)
  PROVE  OneMore(Merge(s, rows), Merge(t, rows), r)
<1> DEFINE n == Len(s)
<1>1. PICK p \in 1 .. n + 1 : Inserted(s, t, p, r)
  BY DEF OneMore
<1>2. n \in Nat /\ Len(t) = n + 1
  BY <1>1 DEF Inserted
<1>3. PICK m \in [0 .. n -> Seq(LpmRow)] : Merges(m, s, rows) /\ Merge(s, rows) = m[n]
  BY MergeSteps
<1>4. PICK h \in [0 .. n + 1 -> Seq(LpmRow)] : Merges(h, t, rows) /\ Merge(t, rows) = h[n + 1]
  <2>1. \E h \in [0 .. Len(t) -> Seq(LpmRow)] : Merges(h, t, rows) /\ Merge(t, rows) = h[Len(t)]
    BY MergeSteps
  <2> QED
    BY <1>2, <2>1, Zenon
<1>5. \A k \in 0 .. n + 1 : Descending(h[k])
  BY <1>2, <1>4, MergesDescend
<1>6. ASSUME NEW k \in 1 .. n PROVE m[k] = InsertRow(s[n + 1 - k], m[k - 1])
  BY <1>3 DEF Merges
<1>7. ASSUME NEW k \in 1 .. n + 1 PROVE h[k] = InsertRow(t[n + 1 + 1 - k], h[k - 1])
  BY <1>2, <1>4 DEF Merges
<1>8. ASSUME NEW k \in 1 .. n PROVE s[n + 1 - k] \in LpmRow
  BY <1>2
<1>9. h[0] = rows /\ m[0] = rows
  BY <1>3, <1>4 DEF Merges
<1>10. /\ \A i \in 1 .. p - 1 : t[i] = s[i]
       /\ t[p] = r
       /\ \A i \in p .. n : t[i + 1] = s[i]
  BY <1>1 DEF Inserted
<1> HIDE DEF n
<1> DEFINE c == n + 1 - p
           Same == {k \in 0 .. c : h[k] = m[k]}
           More == {k \in 0 .. n : k >= c => OneMore(m[k], h[k + 1], r)}
<1>11. c \in 0 .. n
  BY <1>2
<1>12. 0 \in Same
  BY <1>9, <1>11
<1>13. ASSUME NEW k \in 1 .. c, k - 1 \in Same PROVE k \in Same
  <2>1. k \in 1 .. n /\ k \in 1 .. n + 1 /\ n + 1 - k \in p .. n /\ n + 1 + 1 - k = (n + 1 - k) + 1
    BY <1>2
  <2>2. t[n + 1 + 1 - k] = s[n + 1 - k]
    BY <1>10, <2>1
  <2>3. h[k] = m[k]
    BY <1>6, <1>7, <1>13, <2>1, <2>2
  <2> QED
    BY <2>3
<1>14. \A k \in 0 .. c : k \in Same
  <2> HIDE DEF Same, c
  <2>1. c \in Nat
    BY <1>11
  <2> QED
    BY <1>12, <1>13, <2>1, StepByStep
<1>15. OneMore(m[c], h[c + 1], r)
  <2>1. c + 1 \in 1 .. n + 1 /\ n + 1 + 1 - (c + 1) = p /\ (c + 1) - 1 = c /\ c \in 0 .. c
    BY <1>2
  <2>2. h[c + 1] = InsertRow(r, h[c])
    BY <1>7, <1>10, <2>1
  <2>3. h[c] = m[c] /\ m[c] \in Seq(LpmRow)
    BY <1>11, <1>14, <2>1
  <2> HIDE DEF c
  <2> QED
    BY <2>2, <2>3, InsertRowOneMore
<1> HIDE DEF Same
<1>16. ASSUME NEW k \in 0 .. n, k = c PROVE k \in More
  BY <1>15, <1>16
<1>17. 0 \in More
  <2>1. 0 >= c => 0 = c
    BY <1>11
  <2> HIDE DEF c
  <2> QED
    BY <1>2, <1>16, <2>1
<1>18. ASSUME NEW k \in 1 .. n, k - 1 \in More PROVE k \in More
  <2>1. CASE k < c
    <3>1. ~(k >= c) /\ k \in 0 .. n
      BY <1>2, <2>1
    <3> HIDE DEF c
    <3> QED
      BY <3>1, Zenon
  <2>2. CASE k = c
    BY <1>16, <2>2
  <2>3. CASE k > c
    <3> DEFINE x == s[n + 1 - k]
    <3>1. /\ k + 1 \in 1 .. n + 1 /\ k - 1 \in 0 .. n /\ k \in 0 .. n + 1 /\ k - 1 >= c
          /\ n + 1 - k \in 1 .. p - 1 /\ n + 1 + 1 - (k + 1) = n + 1 - k
          /\ (k + 1) - 1 = k /\ (k - 1) + 1 = k
      BY <1>2, <2>3
    <3>2. h[k + 1] = InsertRow(x, h[k]) /\ m[k] = InsertRow(x, m[k - 1]) /\ x \in LpmRow
      BY <1>6, <1>7, <1>8, <1>10, <3>1
    <3>3. OneMore(m[k - 1], h[k], r)
      BY <1>18, <3>1
    <3>4. Descending(h[k]) /\ h[k] \in Seq(LpmRow) /\ m[k - 1] \in Seq(LpmRow)
      BY <1>5, <3>1
    <3> HIDE DEF x, c
    <3>5. OneMore(InsertRow(x, m[k - 1]), InsertRow(x, h[k]), r)
      BY <3>2, <3>3, <3>4, InsertRowKeepsOneMore
    <3>6. OneMore(m[k], h[k + 1], r)
      BY <3>2, <3>5
    <3> QED
      BY <3>6
  <2> QED
    BY <1>2, <2>1, <2>2, <2>3
<1>19. \A k \in 0 .. n : k \in More
  <2> HIDE DEF More
  <2> QED
    BY <1>2, <1>17, <1>18, StepByStep
<1>20. OneMore(m[n], h[n + 1], r)
  BY <1>2, <1>19
<1> QED
  BY <1>3, <1>4, <1>20 DEF n

-----------------------------------------------------------------------------
(* The two halves of a list.                                                 *)
LEMMA Halves ==
  ASSUME NEW S, NEW rows \in Seq(S)
  PROVE  /\ EveryOther(rows) \in Seq(S)
         /\ Len(EveryOther(rows)) = (Len(rows) + 1) \div 2
         /\ \A i \in 1 .. (Len(rows) + 1) \div 2 :
              2 * i - 1 \in 1 .. Len(rows) /\ EveryOther(rows)[i] = rows[2 * i - 1]
<1> DEFINE n == (Len(rows) + 1) \div 2
<1>1. n \in Nat
  OBVIOUS
<1>2. \A i \in 1 .. n : 2 * i - 1 \in 1 .. Len(rows)
  OBVIOUS
<1>3. EveryOther(rows) = [i \in 1 .. n |-> rows[2 * i - 1]]
  BY DEF EveryOther
<1> HIDE DEF n
<1>4. \A i \in 1 .. n : rows[2 * i - 1] \in S
  BY <1>2
<1>5. EveryOther(rows) \in Seq(S) /\ Len(EveryOther(rows)) = n
  BY <1>1, <1>3, <1>4
<1> QED
  BY <1>2, <1>3, <1>5 DEF n

(* The half that starts with the second row.                                 *)
LEMMA TailHalves ==
  ASSUME NEW S, NEW rows \in Seq(S), Len(rows) >= 1
  PROVE  /\ Tail(rows) \in Seq(S) /\ Len(Tail(rows)) = Len(rows) - 1
         /\ EveryOther(Tail(rows)) \in Seq(S)
         /\ Len(EveryOther(Tail(rows))) = Len(rows) \div 2
         /\ \A i \in 1 .. Len(rows) \div 2 :
              2 * i \in 1 .. Len(rows) /\ EveryOther(Tail(rows))[i] = rows[2 * i]
<1>1. /\ Tail(rows) \in Seq(S) /\ Len(Tail(rows)) = Len(rows) - 1
      /\ \A i \in 1 .. Len(rows) - 1 : Tail(rows)[i] = rows[i + 1]
  OBVIOUS
<1>2. (Len(Tail(rows)) + 1) \div 2 = Len(rows) \div 2
  BY <1>1
<1>3. /\ EveryOther(Tail(rows)) \in Seq(S)
      /\ Len(EveryOther(Tail(rows))) = Len(rows) \div 2
      /\ \A i \in 1 .. Len(rows) \div 2 :
           2 * i - 1 \in 1 .. Len(rows) - 1 /\ EveryOther(Tail(rows))[i] = Tail(rows)[2 * i - 1]
  BY <1>1, <1>2, Halves
<1>4. ASSUME NEW i \in 1 .. Len(rows) \div 2
      PROVE  2 * i \in 1 .. Len(rows) /\ EveryOther(Tail(rows))[i] = rows[2 * i]
  <2>1. 2 * i - 1 \in 1 .. Len(rows) - 1 /\ EveryOther(Tail(rows))[i] = Tail(rows)[2 * i - 1]
    BY <1>3
  <2>2. Tail(rows)[2 * i - 1] = rows[2 * i - 1 + 1]
    BY <1>1, <2>1
  <2>3. Len(rows) \in Nat /\ i \in Nat
    OBVIOUS
  <2>4. 2 * i - 1 + 1 = 2 * i /\ 2 * i \in 1 .. Len(rows)
    BY <2>1, <2>3
  <2> QED
    BY <2>1, <2>2, <2>4
<1> QED
  BY <1>1, <1>3, <1>4

(* Every row is in one of the halves.                                        *)
LEMMA HalvesElements ==
  ASSUME NEW S, NEW rows \in Seq(S), Len(rows) >= 1
  PROVE  Range(rows) = Range(EveryOther(rows)) \cup Range(EveryOther(Tail(rows)))
<1> DEFINE odd == EveryOther(rows)
           even == EveryOther(Tail(rows))
           n == Len(rows)
<1>1. n \in Nat /\ DOMAIN rows = 1 .. n
  OBVIOUS
<1>2. /\ DOMAIN odd = 1 .. (n + 1) \div 2
      /\ \A i \in 1 .. (n + 1) \div 2 : 2 * i - 1 \in 1 .. n /\ odd[i] = rows[2 * i - 1]
  <2>1. odd \in Seq(S) /\ Len(odd) = (n + 1) \div 2
    BY Halves
  <2>2. DOMAIN odd = 1 .. (n + 1) \div 2
    BY <2>1
  <2> QED
    BY <2>2, Halves
<1>3. /\ DOMAIN even = 1 .. n \div 2
      /\ \A i \in 1 .. n \div 2 : 2 * i \in 1 .. n /\ even[i] = rows[2 * i]
  <2>1. even \in Seq(S) /\ Len(even) = n \div 2
    BY TailHalves
  <2>2. DOMAIN even = 1 .. n \div 2
    BY <2>1
  <2> QED
    BY <2>2, TailHalves
<1> HIDE DEF odd, even, n
<1>4. ASSUME NEW i \in 1 .. n
      PROVE  \/ \E j \in 1 .. (n + 1) \div 2 : i = 2 * j - 1
             \/ \E j \in 1 .. n \div 2 : i = 2 * j
  <2>1. CASE i % 2 = 1
    <3>1. (i + 1) \div 2 \in 1 .. (n + 1) \div 2 /\ i = 2 * ((i + 1) \div 2) - 1
      BY <1>1, <2>1
    <3> QED
      BY <3>1
  <2>2. CASE i % 2 = 0
    <3>1. i \div 2 \in 1 .. n \div 2 /\ i = 2 * (i \div 2)
      BY <1>1, <2>2
    <3> QED
      BY <3>1
  <2> QED
    BY <2>1, <2>2
<1>5. \A i \in 1 .. n : rows[i] \in Range(odd) \cup Range(even)
  BY <1>2, <1>3, <1>4 DEF Range
<1>6. Range(odd) \subseteq Range(rows)
  BY <1>1, <1>2 DEF Range
<1>7. Range(even) \subseteq Range(rows)
  BY <1>1, <1>3 DEF Range
<1>8. Range(rows) \subseteq Range(odd) \cup Range(even)
  BY <1>1, <1>5 DEF Range
<1> QED
  BY <1>6, <1>7, <1>8 DEF odd, even

(* Two lists are the same when they have the same rows at every place.       *)
LEMMA SameList ==
  ASSUME NEW S, NEW s \in Seq(S), NEW t \in Seq(S), Len(s) = Len(t),
         \A i \in 1 .. Len(s) : s[i] = t[i]
  PROVE  s = t
<1>1. s = [i \in 1 .. Len(s) |-> s[i]] /\ t = [i \in 1 .. Len(t) |-> t[i]]
  OBVIOUS
<1>2. [i \in 1 .. Len(s) |-> s[i]] = [i \in 1 .. Len(t) |-> t[i]]
  OBVIOUS
<1> QED
  BY <1>1, <1>2

(* What Append makes of a list.                                              *)
LEMMA AppendParts ==
  ASSUME NEW S, NEW rows \in Seq(S), NEW r \in S
  PROVE  /\ Append(rows, r) \in Seq(S)
         /\ Len(Append(rows, r)) = Len(rows) + 1
         /\ Append(rows, r)[Len(rows) + 1] = r
         /\ \A i \in 1 .. Len(rows) : Append(rows, r)[i] = rows[i]
OBVIOUS

(* One more row at the end of a list is one more at the end of one half.     *)
LEMMA EveryOtherAppend ==
  ASSUME NEW S, NEW rows \in Seq(S), NEW r \in S
  PROVE  /\ Len(rows) % 2 = 0 => EveryOther(Append(rows, r)) = Append(EveryOther(rows), r)
         /\ Len(rows) % 2 = 1 => EveryOther(Append(rows, r)) = EveryOther(rows)
<1> DEFINE more == Append(rows, r)
           half == EveryOther(rows)
           new  == EveryOther(more)
           n == Len(rows)
<1>1. /\ more \in Seq(S) /\ Len(more) = n + 1 /\ more[n + 1] = r
      /\ \A i \in 1 .. n : more[i] = rows[i]
  BY AppendParts
<1>2. /\ half \in Seq(S) /\ Len(half) = (n + 1) \div 2
      /\ \A i \in 1 .. (n + 1) \div 2 : 2 * i - 1 \in 1 .. n /\ half[i] = rows[2 * i - 1]
  BY Halves
<1> HIDE DEF more
<1>3. /\ new \in Seq(S) /\ Len(new) = (n + 1 + 1) \div 2
      /\ \A i \in 1 .. (n + 1 + 1) \div 2 : new[i] = more[2 * i - 1]
  BY <1>1, Halves
<1>4. /\ Append(half, r) \in Seq(S)
      /\ Len(Append(half, r)) = Len(half) + 1
      /\ Append(half, r)[Len(half) + 1] = r
      /\ \A i \in 1 .. Len(half) : Append(half, r)[i] = half[i]
  BY <1>2, AppendParts
<1>5. n \in Nat
  OBVIOUS
<1>6. ASSUME NEW i \in 1 .. (n + 1) \div 2 PROVE new[i] = half[i]
  <2>1. i \in 1 .. (n + 1 + 1) \div 2 /\ 2 * i - 1 \in 1 .. n
    BY <1>2, <1>5
  <2> QED
    BY <1>1, <1>2, <1>3, <2>1
<1> DEFINE app == Append(half, r)
<1> HIDE DEF half, new, n, app
<1>7. CASE n % 2 = 0
  <2>1. (n + 1 + 1) \div 2 = (n + 1) \div 2 + 1 /\ 2 * ((n + 1) \div 2 + 1) - 1 = n + 1
    BY <1>5, <1>7
  <2>2. Len(new) = Len(app)
    BY <1>2, <1>3, <1>4, <2>1 DEF app
  <2>3. new[Len(half) + 1] = r
    <3>1. Len(half) + 1 \in 1 .. (n + 1 + 1) \div 2 /\ 2 * (Len(half) + 1) - 1 = n + 1
      BY <1>2, <1>5, <2>1
    <3> QED
      BY <1>1, <1>3, <3>1
  <2>4. ASSUME NEW i \in 1 .. Len(new) PROVE new[i] = app[i]
    <3>1. CASE i = Len(half) + 1
      BY <1>4, <2>3, <3>1 DEF app
    <3>2. CASE i # Len(half) + 1
      <4>1. i \in 1 .. (n + 1) \div 2 /\ i \in 1 .. Len(half)
        BY <1>2, <1>3, <1>5, <2>1, <3>2
      <4> QED
        BY <1>4, <1>6, <4>1 DEF app
    <3> QED
      BY <3>1, <3>2
  <2>5. app \in Seq(S)
    BY <1>4 DEF app
  <2>6. new = app
    BY <1>3, <2>2, <2>4, <2>5, SameList
  <2> QED
    BY <1>5, <1>7, <2>6 DEF new, app, half, n, more
<1>8. CASE n % 2 = 1
  <2>1. (n + 1 + 1) \div 2 = (n + 1) \div 2
    BY <1>5, <1>8
  <2>2. Len(new) = Len(half)
    BY <1>2, <1>3, <2>1
  <2>3. \A i \in 1 .. Len(new) : new[i] = half[i]
    BY <1>2, <1>6, <2>2
  <2>4. new = half
    BY <1>2, <1>3, <2>2, <2>3, SameList
  <2> QED
    BY <1>5, <1>8, <2>4 DEF new, half, n, more
<1>9. n % 2 \in {0, 1}
  BY <1>5
<1> QED
  BY <1>7, <1>8, <1>9 DEF n

(* Tail and Append, in either order.                                         *)
LEMMA TailAppend ==
  ASSUME NEW S, NEW rows \in Seq(S), NEW r \in S, Len(rows) >= 1
  PROVE  Tail(Append(rows, r)) = Append(Tail(rows), r)
<1> DEFINE more == Append(rows, r)
           rest == Tail(rows)
           n == Len(rows)
<1>1. /\ more \in Seq(S) /\ Len(more) = n + 1 /\ more[n + 1] = r
      /\ \A i \in 1 .. n : more[i] = rows[i]
  BY AppendParts
<1>2. /\ rest \in Seq(S) /\ Len(rest) = n - 1 /\ \A i \in 1 .. n - 1 : rest[i] = rows[i + 1]
  OBVIOUS
<1> HIDE DEF more, rest
<1>3. /\ Append(rest, r) \in Seq(S) /\ Len(Append(rest, r)) = Len(rest) + 1
      /\ Append(rest, r)[Len(rest) + 1] = r
      /\ \A i \in 1 .. Len(rest) : Append(rest, r)[i] = rest[i]
  BY <1>2, AppendParts
<1>4. n \in Nat
  OBVIOUS
<1>5. /\ Tail(more) \in Seq(S) /\ Len(Tail(more)) = n
      /\ \A i \in 1 .. n : Tail(more)[i] = more[i + 1]
  BY <1>1, <1>4
<1> DEFINE x == Tail(more)
           y == Append(rest, r)
<1> HIDE DEF x, y, n
<1>6. /\ x \in Seq(S) /\ Len(x) = n /\ y \in Seq(S) /\ Len(y) = n
  BY <1>2, <1>3, <1>4, <1>5 DEF x, y
<1>7. ASSUME NEW i \in 1 .. n PROVE x[i] = y[i]
  <2>1. CASE i = n
    <3>1. x[i] = r
      BY <1>1, <1>5, <2>1 DEF x
    <3>2. y[n] = r
      <4>1. Len(rest) + 1 = n
        BY <1>2, <1>4
      <4> QED
        BY <1>3, <4>1 DEF y
    <3> QED
      BY <2>1, <3>1, <3>2
  <2>2. CASE i # n
    <3>1. i \in 1 .. n - 1 /\ i + 1 \in 1 .. n /\ i \in 1 .. Len(rest)
      BY <1>2, <1>4, <2>2
    <3>2. x[i] = more[i + 1] /\ y[i] = rest[i]
      BY <1>3, <1>5, <3>1 DEF x, y
    <3> QED
      BY <1>1, <1>2, <3>1, <3>2
  <2> QED
    BY <2>1, <2>2
<1>8. x = y
  BY <1>6, <1>7, SameList
<1> QED
  BY <1>8 DEF x, y, more, rest

Sorted(sort, n, rows) ==
  IF n = 0 \/ Len(rows) < 2 THEN rows
  ELSE Merge(sort[n - 1][EveryOther(rows)], sort[n - 1][EveryOther(Tail(rows))])

(* The sort of a list of rows is a list of rows.                             *)
LEMMA SortedType ==
  ASSUME NEW h \in [Seq(Row) -> Seq(Row)], NEW rows \in Seq(Row), Len(rows) >= 2
  PROVE  Merge(h[EveryOther(rows)], h[EveryOther(Tail(rows))]) \in Seq(Row)
<1>1. EveryOther(rows) \in Seq(Row) /\ EveryOther(Tail(rows)) \in Seq(Row)
  BY Halves, TailHalves
<1>2. h[EveryOther(rows)] \in Seq(Row) /\ h[EveryOther(Tail(rows))] \in Seq(Row)
  BY <1>1, Zenon
<1> QED
  BY <1>2, MergeElements

(* The sort is as its definition says.                                       *)
LEMMA MergeSortToStep ==
  /\ MergeSortTo \in [Nat -> [Seq(Row) -> Seq(Row)]]
  /\ \A n \in Nat : \A rows \in Seq(Row) : MergeSortTo[n][rows] = Sorted(MergeSortTo, n, rows)
<1> DEFINE Lists == Seq(Row)
           A == [Lists -> Lists]
           Half(h, rows) == IF Len(rows) < 2 THEN rows
                            ELSE Merge(h[EveryOther(rows)], h[EveryOther(Tail(rows))])
           step == [x \in A \X (Nat \ {0}) |-> [rows \in Lists |-> Half(x[1], rows)]]
           start == [rows \in Lists |-> rows]
           IsSort(f) == f = [n \in Nat |-> [rows \in Lists |-> Sorted(f, n, rows)]]
<1>1. step \in [A \X (Nat \ {0}) -> A]
  <2> SUFFICES ASSUME NEW x \in A \X (Nat \ {0}), NEW rows \in Lists
               PROVE  Half(x[1], rows) \in Lists
    <3> HIDE DEF Half, Lists
    <3> QED
      OBVIOUS
  <2>1. x[1] \in A
    <3> HIDE DEF A
    <3> QED
      OBVIOUS
  <2>2. Len(rows) \in Nat
    OBVIOUS
  <2>3. CASE Len(rows) < 2
    BY <2>3
  <2>4. CASE Len(rows) >= 2
    <3>1. Merge(x[1][EveryOther(rows)], x[1][EveryOther(Tail(rows))]) \in Seq(Row)
      BY <2>1, <2>4, SortedType
    <3> QED
      BY <2>2, <2>4, <3>1
  <2> QED
    BY <2>2, <2>3, <2>4
<1>2. start \in A
  OBVIOUS
<1> HIDE DEF Lists, A, step, start
<1>3. PICK f \in [Nat -> A] : f[0] = start /\ \A n \in Nat \ {0} : f[n] = step[<<f[n - 1], n>>]
  <2>1. \E f \in [Nat -> A] : GoesOn(f, start, step)
    BY <1>1, <1>2, EndlessComputationExists
  <2> QED
    BY <2>1 DEF GoesOn
<1>4. ASSUME NEW n \in Nat PROVE f[n] = [rows \in Lists |-> Sorted(f, n, rows)]
  <2>1. CASE n = 0
    <3>1. \A rows \in Lists : Sorted(f, n, rows) = rows
      BY <2>1 DEF Sorted
    <3> QED
      BY <1>3, <2>1, <3>1 DEF start
  <2>2. CASE n # 0
    <3>1. n \in Nat \ {0} /\ n - 1 \in Nat
      BY <2>2
    <3>2. f[n - 1] \in A /\ <<f[n - 1], n>> \in A \X (Nat \ {0})
      BY <1>3, <3>1
    <3>3. step[<<f[n - 1], n>>] = [rows \in Lists |-> Half(f[n - 1], rows)]
      <4> HIDE DEF Half
      <4> QED
        BY <3>2 DEF step
    <3>4. ASSUME NEW rows \in Lists PROVE Half(f[n - 1], rows) = Sorted(f, n, rows)
      BY <2>2, Zenon DEF Sorted
    <3> HIDE DEF Half
    <3> QED
      BY <1>3, <3>1, <3>3, <3>4
  <2> QED
    BY <2>1, <2>2
<1>5. IsSort(f)
  <2>1. f = [n \in Nat |-> f[n]]
    BY <1>3
  <2> QED
    BY <1>4, <2>1
<1>6. MergeSortTo = CHOOSE f1 : IsSort(f1)
  BY Zenon DEF MergeSortTo, Sorted, Lists
<1>7. IsSort(MergeSortTo)
  <2> HIDE DEF IsSort
  <2> QED
    BY <1>5, <1>6, Zenon
<1>8. \A n \in Nat : MergeSortTo[n] = [rows \in Lists |-> Sorted(MergeSortTo, n, rows)]
  BY <1>7, Zenon
<1>9. MergeSortTo = [n \in Nat |-> MergeSortTo[n]]
  BY <1>7, Zenon
<1>10. ASSUME NEW n \in Nat, NEW rows \in Lists
       PROVE  MergeSortTo[n][rows] = Sorted(MergeSortTo, n, rows)
  BY <1>8, Zenon
<1> DEFINE Typed(n) == \A rows \in Lists : MergeSortTo[n][rows] \in Lists
<1>11. ASSUME NEW n \in Nat PROVE Typed(n)
  <2> DEFINE Good == {m \in 0 .. n : Typed(m)}
  <2>1. 0 \in Good
    <3>1. ASSUME NEW rows \in Lists PROVE MergeSortTo[0][rows] = rows
      BY <1>10 DEF Sorted
    <3> QED
      BY <3>1
  <2>2. ASSUME NEW m \in 1 .. n, m - 1 \in Good PROVE m \in Good
    <3>1. MergeSortTo[m - 1] \in [Lists -> Lists]
      <4>1. m - 1 \in Nat /\ Typed(m - 1)
        BY <2>2
      <4>2. MergeSortTo[m - 1] = [rows \in Lists |-> Sorted(MergeSortTo, m - 1, rows)]
        BY <1>8, <4>1
      <4>3. MergeSortTo[m - 1] = [rows \in Lists |-> MergeSortTo[m - 1][rows]]
        BY <4>2, Zenon
      <4> QED
        BY <4>1, <4>3
    <3>2. ASSUME NEW rows \in Lists PROVE MergeSortTo[m][rows] \in Lists
      <4>1. MergeSortTo[m][rows] = Sorted(MergeSortTo, m, rows)
        BY <1>10
      <4>2. CASE Len(rows) < 2
        BY <4>1, <4>2, Zenon DEF Sorted
      <4>3. CASE ~(Len(rows) < 2)
        <5>1. Len(rows) >= 2 /\ m # 0
          BY <4>3 DEF Lists
        <5>2. Merge(MergeSortTo[m - 1][EveryOther(rows)],
                    MergeSortTo[m - 1][EveryOther(Tail(rows))]) \in Lists
          BY <3>1, <5>1, SortedType DEF Lists
        <5> QED
          BY <4>1, <4>3, <5>1, <5>2, Zenon DEF Sorted
      <4> QED
        BY <4>2, <4>3
    <3> QED
      BY <3>2
  <2> HIDE DEF Good
  <2>3. \A m \in 0 .. n : m \in Good
    BY <2>1, <2>2, StepByStep
  <2> QED
    BY <2>3 DEF Good
<1>12. MergeSortTo \in [Nat -> A]
  <2>1. ASSUME NEW n \in Nat PROVE MergeSortTo[n] \in A
    <3>1. MergeSortTo[n] = [rows \in Lists |-> MergeSortTo[n][rows]]
      BY <1>8, Zenon
    <3> QED
      BY <1>11, <3>1 DEF A
  <2> QED
    BY <1>9, <2>1
<1> QED
  BY <1>10, <1>12 DEF A, Lists

(* To sort a list it is enough to go as deep as it is long.                  *)
LEMMA MergeSortDepth ==
  ASSUME NEW rows \in Seq(Row), NEW n \in Nat, Len(rows) <= n
  PROVE  MergeSortTo[n][rows] = MergeSort(rows)
<1> DEFINE Same(k) == \A q \in Seq(Row) : Len(q) <= k =>
                        \A m \in Nat : m >= k => MergeSortTo[m][q] = MergeSortTo[k][q]
           Good == {k \in 0 .. n : Same(k)}
<1>1. \A m \in Nat : \A q \in Seq(Row) : MergeSortTo[m][q] = Sorted(MergeSortTo, m, q)
  BY MergeSortToStep
<1>2. ASSUME NEW q \in Seq(Row), Len(q) < 2, NEW m \in Nat PROVE MergeSortTo[m][q] = q
  BY <1>1, <1>2 DEF Sorted
<1>3. Same(0)
  <2> SUFFICES ASSUME NEW q \in Seq(Row), Len(q) <= 0, NEW m \in Nat
               PROVE  MergeSortTo[m][q] = MergeSortTo[0][q]
    OBVIOUS
  <2>1. Len(q) < 2
    OBVIOUS
  <2> QED
    BY <1>2, <2>1
<1>4. ASSUME NEW k \in 1 .. n, Same(k - 1) PROVE Same(k)
  <2> SUFFICES ASSUME NEW q \in Seq(Row), Len(q) <= k, NEW m \in Nat, m >= k
               PROVE  MergeSortTo[m][q] = MergeSortTo[k][q]
    OBVIOUS
  <2>1. CASE Len(q) < 2
    BY <1>2, <2>1
  <2>2. CASE ~(Len(q) < 2)
    <3>1. Len(q) >= 2 /\ Len(q) \in Nat /\ m # 0 /\ k # 0 /\ m - 1 \in Nat /\ k - 1 \in Nat /\ k \in Nat
      BY <2>2
    <3>2. /\ EveryOther(q) \in Seq(Row) /\ EveryOther(Tail(q)) \in Seq(Row)
          /\ Len(EveryOther(q)) <= k - 1 /\ Len(EveryOther(Tail(q))) <= k - 1
      <4>1. (Len(q) + 1) \div 2 <= Len(q) - 1 /\ Len(q) \div 2 <= Len(q) - 1
        BY <3>1
      <4> QED
        BY <3>1, <4>1, Halves, TailHalves
    <3>3. ASSUME NEW h \in Seq(Row), Len(h) <= k - 1
          PROVE  MergeSortTo[m - 1][h] = MergeSortTo[k - 1][h]
      BY <1>4, <3>1, <3>3
    <3>4. /\ MergeSortTo[m - 1][EveryOther(q)] = MergeSortTo[k - 1][EveryOther(q)]
          /\ MergeSortTo[m - 1][EveryOther(Tail(q))] = MergeSortTo[k - 1][EveryOther(Tail(q))]
      BY <3>2, <3>3
    <3>5. Sorted(MergeSortTo, m, q) = Sorted(MergeSortTo, k, q)
      BY <2>2, <3>1, <3>4, Zenon DEF Sorted
    <3> QED
      BY <1>1, <3>1, <3>5
  <2> QED
    BY <2>1, <2>2
<1> HIDE DEF Same
<1>5. 0 \in Good
  BY <1>3
<1>6. ASSUME NEW k \in 1 .. n, k - 1 \in Good PROVE k \in Good
  BY <1>4, <1>6
<1> HIDE DEF Good
<1>7. \A k \in 0 .. n : k \in Good
  BY <1>5, <1>6, StepByStep
<1>8. Len(rows) \in 0 .. n /\ Same(Len(rows))
  BY <1>7 DEF Good
<1> QED
  BY <1>8 DEF Same, MergeSort

(* mergeSort, as in the code: sort the halves and merge them.                *)
LEMMA MergeSortStep ==
  ASSUME NEW rows \in Seq(Row)
  PROVE  /\ Len(rows) < 2 => MergeSort(rows) = rows
         /\ Len(rows) >= 2 =>
              MergeSort(rows) = Merge(MergeSort(EveryOther(rows)), MergeSort(EveryOther(Tail(rows))))
<1> DEFINE n == Len(rows)
<1>1. n \in Nat
  OBVIOUS
<1>2. MergeSort(rows) = Sorted(MergeSortTo, n, rows)
  BY <1>1, MergeSortToStep DEF MergeSort
<1>3. CASE n < 2
  BY <1>2, <1>3 DEF Sorted
<1>4. CASE n >= 2
  <2>1. /\ EveryOther(rows) \in Seq(Row) /\ EveryOther(Tail(rows)) \in Seq(Row)
        /\ Len(EveryOther(rows)) <= n - 1 /\ Len(EveryOther(Tail(rows))) <= n - 1 /\ n - 1 \in Nat
    <3>1. (n + 1) \div 2 <= n - 1 /\ n \div 2 <= n - 1
      BY <1>1, <1>4
    <3> QED
      BY <1>1, <1>4, <3>1, Halves, TailHalves
  <2>2. /\ MergeSortTo[n - 1][EveryOther(rows)] = MergeSort(EveryOther(rows))
        /\ MergeSortTo[n - 1][EveryOther(Tail(rows))] = MergeSort(EveryOther(Tail(rows)))
    BY <2>1, MergeSortDepth
  <2>3. n # 0 /\ ~(n < 2)
    BY <1>1, <1>4
  <2> QED
    BY <1>2, <2>2, <2>3, Zenon DEF Sorted
<1> QED
  BY <1>1, <1>3, <1>4

(* Prefixes are rows.                                                        *)
LEMMA LpmLists == ASSUME NEW rows \in Seq(LpmRow) PROVE rows \in Seq(Row)
<1>1. LpmRow \subseteq Row
  BY DEF LpmRow
<1> QED
  BY <1>1

(* A list of one row at most is sorted.                                      *)
LEMMA MergeSortShort ==
  ASSUME NEW rows \in Seq(LpmRow), Len(rows) < 2
  PROVE  MergeSort(rows) = rows
BY LpmLists, MergeSortStep

(* A longer one is split.                                                    *)
LEMMA MergeSortLong ==
  ASSUME NEW rows \in Seq(LpmRow), Len(rows) >= 2
  PROVE  MergeSort(rows) = Merge(MergeSort(EveryOther(rows)), MergeSort(EveryOther(Tail(rows))))
<1>1. rows \in Seq(Row)
  BY LpmLists
<1> QED
  BY <1>1, MergeSortStep

(* The sort puts the longest prefixes first and keeps all rows.              *)
LEMMA MergeSortSorts ==
  ASSUME NEW rows \in Seq(LpmRow)
  PROVE  /\ MergeSort(rows) \in Seq(LpmRow)
         /\ Descending(MergeSort(rows))
         /\ Range(MergeSort(rows)) = Range(rows)
<1> DEFINE Sorts(q) == /\ MergeSort(q) \in Seq(LpmRow)
                       /\ Descending(MergeSort(q))
                       /\ Range(MergeSort(q)) = Range(q)
           Good == {n \in 0 .. Len(rows) : \A q \in Seq(LpmRow) : Len(q) <= n => Sorts(q)}
<1>1. ASSUME NEW q \in Seq(LpmRow), Len(q) < 2 PROVE Sorts(q)
  <2>1. MergeSort(q) = q
    BY <1>1, MergeSortShort
  <2>2. Descending(q)
    <3> SUFFICES ASSUME NEW i \in DOMAIN q, NEW j \in DOMAIN q, i < j PROVE FALSE
      BY DEF Descending
    <3> QED
      BY <1>1
  <2> QED
    BY <2>1, <2>2
<1>2. 0 \in Good
  <2>1. \A q \in Seq(LpmRow) : Len(q) <= 0 => Len(q) < 2
    OBVIOUS
  <2> HIDE DEF Sorts
  <2> QED
    BY <1>1, <2>1
<1>3. ASSUME NEW n \in 1 .. Len(rows), n - 1 \in Good PROVE n \in Good
  <2> SUFFICES ASSUME NEW q \in Seq(LpmRow), Len(q) <= n PROVE Sorts(q)
    <3> HIDE DEF Sorts
    <3> QED
      OBVIOUS
  <2>1. CASE Len(q) < 2
    BY <1>1, <2>1
  <2>2. CASE Len(q) >= 2
    <3> DEFINE odd == EveryOther(q)
               even == EveryOther(Tail(q))
    <3>1. Len(q) \in Nat /\ (Len(q) + 1) \div 2 <= Len(q) - 1 /\ Len(q) \div 2 <= Len(q) - 1
      BY <2>2
    <3>2. odd \in Seq(LpmRow) /\ even \in Seq(LpmRow) /\ Len(odd) <= n - 1 /\ Len(even) <= n - 1
      BY <2>2, <3>1, Halves, TailHalves
    <3>3. Range(q) = Range(odd) \cup Range(even)
      BY <2>2, <3>1, HalvesElements
    <3> HIDE DEF odd, even
    <3>4. Sorts(odd) /\ Sorts(even)
      <4> HIDE DEF Sorts
      <4> QED
        BY <1>3, <3>2
    <3>5. MergeSort(q) = Merge(MergeSort(odd), MergeSort(even))
      BY <2>2, MergeSortLong DEF odd, even
    <3>6. /\ Merge(MergeSort(odd), MergeSort(even)) \in Seq(LpmRow)
          /\ Range(Merge(MergeSort(odd), MergeSort(even))) = Range(q)
      BY <3>3, <3>4, MergeElements
    <3>7. Descending(Merge(MergeSort(odd), MergeSort(even)))
      BY <3>4, MergeDescends
    <3> QED
      BY <3>5, <3>6, <3>7
  <2>3. Len(q) \in Nat
    OBVIOUS
  <2> QED
    BY <2>1, <2>2, <2>3
<1> HIDE DEF Good
<1>4. \A n \in 0 .. Len(rows) : n \in Good
  <2> DEFINE N == Len(rows)
  <2>1. N \in Nat /\ \A n \in 1 .. N : n - 1 \in Good => n \in Good
    BY <1>3
  <2> HIDE DEF N
  <2>2. \A n \in 0 .. N : n \in Good
    BY <1>2, <2>1, StepByStep
  <2> QED
    BY <2>2 DEF N
<1>5. Len(rows) \in Good /\ Len(rows) <= Len(rows)
  BY <1>4
<1> HIDE DEF Sorts
<1>6. Sorts(rows)
  BY <1>5 DEF Good
<1> QED
  BY <1>6 DEF Sorts

(* One more row to sort is one more row in the result: the order of the      *)
(* others is as before.                                                      *)
LEMMA MergeSortOneMore ==
  ASSUME NEW rows \in Seq(LpmRow), NEW r \in LpmRow
  PROVE  OneMore(MergeSort(rows), MergeSort(Append(rows, r)), r)
<1> DEFINE Grows(q) == OneMore(MergeSort(q), MergeSort(Append(q, r)), r)
           Good == {n \in 0 .. Len(rows) : \A q \in Seq(LpmRow) : Len(q) <= n => Grows(q)}
<1>1. ASSUME NEW q \in Seq(LpmRow), Len(q) = 0 PROVE Grows(q)
  <2>1. Append(q, r) \in Seq(LpmRow) /\ Len(Append(q, r)) = 1 /\ Append(q, r)[1] = r
    BY <1>1
  <2>2. MergeSort(q) = q /\ MergeSort(Append(q, r)) = Append(q, r)
    <3>1. Len(q) < 2 /\ Len(Append(q, r)) < 2
      BY <1>1, <2>1
    <3> QED
      BY <2>1, <3>1, MergeSortShort, Zenon
  <2>3. Inserted(q, Append(q, r), 1, r)
    BY <1>1, <2>1 DEF Inserted
  <2>4. 1 \in 1 .. Len(q) + 1
    BY <1>1
  <2> QED
    BY <2>2, <2>3, <2>4 DEF OneMore
<1>2. ASSUME NEW q \in Seq(LpmRow), Len(q) = 1
      PROVE  MergeSort(q) = Merge(MergeSort(EveryOther(q)), MergeSort(EveryOther(Tail(q))))
  <2> DEFINE odd == EveryOther(q)
             even == EveryOther(Tail(q))
  <2>1. /\ odd \in Seq(LpmRow) /\ even \in Seq(LpmRow) /\ Len(odd) = 1 /\ Len(even) = 0
        /\ odd[1] = q[1]
    <3>1. (Len(q) + 1) \div 2 = 1 /\ Len(q) \div 2 = 0 /\ 2 * 1 - 1 = 1 /\ 1 \in 1 .. (Len(q) + 1) \div 2
      BY <1>2
    <3> QED
      BY <1>2, <3>1, Halves, TailHalves
  <2> HIDE DEF odd, even
  <2>2. MergeSort(odd) = odd /\ MergeSort(even) = even /\ MergeSort(q) = q
    <3>1. Len(q) < 2 /\ Len(odd) < 2 /\ Len(even) < 2
      BY <1>2, <2>1
    <3> QED
      BY <2>1, <3>1, MergeSortShort, Zenon
  <2>3. PICK m \in [0 .. 1 -> Seq(LpmRow)] : Merges(m, odd, even) /\ Merge(odd, even) = m[1]
    <3>1. \E m \in [0 .. Len(odd) -> Seq(LpmRow)] :
             Merges(m, odd, even) /\ Merge(odd, even) = m[Len(odd)]
      BY <2>1, MergeSteps
    <3> QED
      BY <2>1, <3>1, Zenon
  <2>4. m[0] = even /\ m[1] = InsertRow(odd[1], m[0])
    <3>1. 1 \in 1 .. Len(odd) /\ Len(odd) + 1 - 1 = 1 /\ 1 - 1 = 0
      BY <2>1
    <3> QED
      BY <2>3, <3>1 DEF Merges
  <2>5. odd[1] \in LpmRow
    BY <2>1
  <2>6. PICK p \in 1 .. Len(even) + 1 : Inserted(even, InsertRow(odd[1], even), p, odd[1])
    BY <2>1, <2>5, InsertRowInserts
  <2>7. InsertRow(odd[1], even) \in Seq(LpmRow)
    BY <2>1, <2>5, InsertRowInserts
  <2> DEFINE new == InsertRow(odd[1], even)
  <2> HIDE DEF new
  <2>8. p = 1 /\ Len(new) = 1 /\ new[1] = q[1]
    BY <2>1, <2>6 DEF Inserted, new
  <2>9. new = q
    BY <1>2, <2>7, <2>8, SameList DEF new
  <2> QED
    BY <2>2, <2>3, <2>4, <2>9 DEF odd, even, new
<1>3. ASSUME NEW n \in 1 .. Len(rows), n - 1 \in Good PROVE n \in Good
  <2> SUFFICES ASSUME NEW q \in Seq(LpmRow), Len(q) <= n PROVE Grows(q)
    <3> HIDE DEF Grows
    <3> QED
      OBVIOUS
  <2>1. CASE Len(q) = 0
    BY <1>1, <2>1
  <2>2. CASE Len(q) >= 1
    <3> DEFINE odd == EveryOther(q)
               even == EveryOther(Tail(q))
               more == Append(q, r)
    <3>1. Len(q) \in Nat /\ Len(q) \div 2 <= Len(q) - 1 /\ Len(q) \div 2 \in Nat
      BY <2>2
    <3>2. odd \in Seq(LpmRow) /\ even \in Seq(LpmRow) /\ Len(even) <= n - 1
      BY <2>2, <3>1, Halves, TailHalves
    <3>3. Len(odd) = (Len(q) + 1) \div 2
      BY Halves
    <3>4. more \in Seq(LpmRow) /\ Len(more) >= 2
      BY <2>2
    <3>5. EveryOther(Tail(more)) = EveryOther(Append(Tail(q), r)) /\ Len(Tail(q)) = Len(q) - 1 /\ Tail(q) \in Seq(LpmRow)
      BY <2>2, TailAppend, TailHalves
    <3>6. MergeSort(more) = Merge(MergeSort(EveryOther(more)), MergeSort(EveryOther(Tail(more))))
      BY <3>4, MergeSortLong
    <3>7. MergeSort(q) = Merge(MergeSort(odd), MergeSort(even))
      <4>1. CASE Len(q) = 1
        BY <1>2, <4>1
      <4>2. CASE Len(q) >= 2
        BY <4>2, MergeSortLong DEF odd, even
      <4>3. Len(q) = 1 \/ Len(q) >= 2
        <5> DEFINE k == Len(q)
        <5>1. k \in Nat /\ k >= 1
          BY <2>2
        <5> HIDE DEF k
        <5>2. k = 1 \/ k >= 2
          BY <5>1
        <5> QED
          BY <5>2 DEF k
      <4> QED
        BY <4>1, <4>2, <4>3
    <3>8. CASE Len(q) % 2 = 0
      <4>1. EveryOther(more) = Append(odd, r) /\ EveryOther(Tail(more)) = even
        <5>1. Len(Tail(q)) % 2 = 1
          BY <3>1, <3>5, <3>8
        <5> QED
          BY <3>5, <3>8, <5>1, EveryOtherAppend
      <4>2. Len(odd) <= n - 1
        BY <2>2, <3>1, <3>3, <3>8
      <4> HIDE DEF odd, even, more, Grows
      <4>3. Grows(odd)
        BY <1>3, <3>2, <4>2
      <4>4. Append(odd, r) \in Seq(LpmRow)
        BY <3>2
      <4>5. /\ MergeSort(odd) \in Seq(LpmRow) /\ MergeSort(Append(odd, r)) \in Seq(LpmRow)
            /\ MergeSort(even) \in Seq(LpmRow) /\ Descending(MergeSort(even))
        BY <3>2, <4>4, MergeSortSorts
      <4>6. OneMore(Merge(MergeSort(odd), MergeSort(even)),
                    Merge(MergeSort(Append(odd, r)), MergeSort(even)), r)
        BY <4>3, <4>5, MergeOneMoreLeft DEF Grows
      <4> QED
        BY <3>6, <3>7, <4>1, <4>6 DEF Grows, more
    <3>9. CASE Len(q) % 2 = 1
      <4>1. EveryOther(more) = odd /\ EveryOther(Tail(more)) = Append(even, r)
        <5>1. Len(Tail(q)) % 2 = 0
          BY <3>1, <3>5, <3>9
        <5> QED
          BY <3>5, <3>9, <5>1, EveryOtherAppend
      <4> HIDE DEF odd, even, more, Grows
      <4>3. Grows(even)
        BY <1>3, <3>2
      <4>4. Append(even, r) \in Seq(LpmRow)
        BY <3>2
      <4>5. /\ MergeSort(even) \in Seq(LpmRow) /\ MergeSort(Append(even, r)) \in Seq(LpmRow)
            /\ MergeSort(odd) \in Seq(LpmRow) /\ Descending(MergeSort(Append(even, r)))
        BY <3>2, <4>4, MergeSortSorts
      <4>6. OneMore(Merge(MergeSort(odd), MergeSort(even)),
                    Merge(MergeSort(odd), MergeSort(Append(even, r))), r)
        BY <4>3, <4>5, MergeOneMoreRight DEF Grows
      <4> QED
        BY <3>6, <3>7, <4>1, <4>6 DEF Grows, more
    <3>10. Len(q) % 2 \in {0, 1}
      BY <3>1
    <3> QED
      BY <3>8, <3>9, <3>10
  <2>3. Len(q) \in Nat
    OBVIOUS
  <2> QED
    BY <2>1, <2>2, <2>3
<1>4. 0 \in Good
  <2>1. \A q \in Seq(LpmRow) : Len(q) <= 0 => Len(q) = 0
    OBVIOUS
  <2> HIDE DEF Grows
  <2> QED
    BY <1>1, <2>1
<1> HIDE DEF Good
<1>5. \A n \in 0 .. Len(rows) : n \in Good
  <2> DEFINE N == Len(rows)
  <2>1. N \in Nat /\ \A n \in 1 .. N : n - 1 \in Good => n \in Good
    BY <1>3
  <2> HIDE DEF N
  <2>2. \A n \in 0 .. N : n \in Good
    BY <1>4, <2>1, StepByStep
  <2> QED
    BY <2>2 DEF N
<1>6. Len(rows) \in Good /\ Len(rows) <= Len(rows)
  BY <1>5
<1> HIDE DEF Grows
<1>7. Grows(rows)
  BY <1>6 DEF Good
<1> QED
  BY <1>7 DEF Grows

-----------------------------------------------------------------------------
(* Sorting prefixes.                                                         *)

(* What extern_match sorts: rows with one set.                               *)
PlainSet == Singletons \cup Masks \cup {Universal}
SetRow == {row \in Row : Len(row.sets) = 1 /\ row.sets[1] \in PlainSet}

(* lpm_set_of_set makes a prefix, a default or nothing of a set.             *)
LEMMA LpmSetType ==
  ASSUME NEW s \in PlainSet
  PROVE  /\ \/ LpmSet(s) = NotLpm
            \/ LpmSet(s) = Universal
            \/ LpmSet(s) \in Lpms
         /\ LpmSet(s).is \in {"none", "universal", "lpm"}
         /\ LpmSet(s).is = "none" <=> LpmSet(s) = NotLpm
         /\ LpmSet(s).is = "universal" <=> LpmSet(s) = Universal
         /\ LpmSet(s).is = "lpm" <=> LpmSet(s) \in Lpms
<1>0. Width \in 0 .. Width
  BY WidthAssumption
<1>1. \/ LpmSet(s) = NotLpm
      \/ LpmSet(s) = Universal
      \/ LpmSet(s) \in Lpms
  <2>1. CASE s \in Singletons
    <3>1. s.is = "singleton" /\ s.value \in Bits
      BY <2>1 DEF Singletons
    <3>2. LpmSet(s) = [is |-> "lpm", nbits |-> Width, value |-> s.value]
      BY <3>1 DEF LpmSet
    <3> QED
      BY <1>0, <3>1, <3>2 DEF Lpms
  <2>2. CASE s \in Masks
    <3>1. s.is = "mask" /\ s.mask \in Bits
      BY <2>2 DEF Masks
    <3> DEFINE n == CHOOSE n \in 0 .. Width : s.mask = Ones(n)
    <3>2. LpmSet(s) = IF \E k \in 0 .. Width : s.mask = Ones(k)
                      THEN [is |-> "lpm", nbits |-> n, value |-> s.mask] ELSE NotLpm
      BY <3>1 DEF LpmSet
    <3>3. (\E k \in 0 .. Width : s.mask = Ones(k)) => n \in 0 .. Width
      OBVIOUS
    <3> HIDE DEF n
    <3> QED
      BY <3>1, <3>2, <3>3 DEF Lpms
  <2>3. CASE s = Universal
    BY <2>3 DEF LpmSet, Universal
  <2> QED
    BY <2>1, <2>2, <2>3 DEF PlainSet
<1>2. NotLpm.is = "none" /\ Universal.is = "universal" /\ \A l \in Lpms : l.is = "lpm"
  BY DEF NotLpm, Universal, Lpms
<1> QED
  BY <1>1, <1>2

(* A row reduced to its prefix.                                              *)
Reduced(row) == [row EXCEPT !.sets = <<LpmSet(@[1])>>]
LpmOf(rows) == [i \in DOMAIN rows |-> Reduced(rows[i])]

(* The prefix and the action of a reduced row.                               *)
LEMMA ReducedParts ==
  ASSUME NEW row \in SetRow
  PROVE  /\ Reduced(row).sets = <<LpmSet(row.sets[1])>>
         /\ Reduced(row).sets[1] = LpmSet(row.sets[1])
         /\ Reduced(row).action = row.action
         /\ LpmSet(row.sets[1]) \in Lpms => Reduced(row) \in LpmRow
<1>1. row = [sets |-> row.sets, action |-> row.action] /\ row.action \in Nat
  BY DEF SetRow, Row
<1>2. Reduced(row) = [sets |-> <<LpmSet(row.sets[1])>>, action |-> row.action]
  BY <1>1 DEF Reduced
<1>3. LpmSet(row.sets[1]) \in Lpms => <<LpmSet(row.sets[1])>> \in Seq(Singletons \cup Masks \cup Lpms \cup {Universal})
  OBVIOUS
<1> HIDE DEF Reduced
<1>4. LpmSet(row.sets[1]) \in Lpms => Reduced(row) \in Row
  BY <1>1, <1>2, <1>3 DEF Row
<1> QED
  BY <1>1, <1>2, <1>4 DEF LpmRow

(* The rows of a list, reduced.                                              *)
LEMMA LpmOfParts ==
  ASSUME NEW rows \in Seq(SetRow)
  PROVE  /\ DOMAIN rows = 1 .. Len(rows) /\ Len(rows) \in Nat
         /\ DOMAIN LpmOf(rows) = 1 .. Len(rows)
         /\ Len(LpmOf(rows)) = Len(rows)
         /\ \A i \in 1 .. Len(rows) :
              /\ rows[i] \in SetRow
              /\ LpmOf(rows)[i] = Reduced(rows[i])
              /\ LpmOf(rows)[i].sets[1] = LpmSet(rows[i].sets[1])
<1>1. DOMAIN rows = 1 .. Len(rows) /\ Len(rows) \in Nat /\ \A i \in 1 .. Len(rows) : rows[i] \in SetRow
  OBVIOUS
<1>2. LpmOf(rows) = [i \in 1 .. Len(rows) |-> Reduced(rows[i])]
  BY <1>1 DEF LpmOf
<1> HIDE DEF Reduced
<1>3. \A i \in 1 .. Len(rows) : LpmOf(rows)[i] = Reduced(rows[i])
  BY <1>2
<1>4. Len(LpmOf(rows)) = Len(rows) /\ DOMAIN LpmOf(rows) = 1 .. Len(rows)
  BY <1>1, <1>2
<1>5. \A i \in 1 .. Len(rows) : Reduced(rows[i]).sets[1] = LpmSet(rows[i].sets[1])
  BY <1>1, ReducedParts
<1> QED
  BY <1>1, <1>3, <1>4, <1>5

(* What a row is to sort_lpm: a prefix, a default, or neither.               *)
PrefixRow(row) == LpmSet(row.sets[1]) \in Lpms
Default(row)   == LpmSet(row.sets[1]) = Universal
NoPrefix(row)  == LpmSet(row.sets[1]) = NotLpm

(* It is exactly one of them.                                                *)
LEMMA OneOfThree ==
  ASSUME NEW row \in SetRow
  PROVE  /\ PrefixRow(row) \/ Default(row) \/ NoPrefix(row)
         /\ ~(PrefixRow(row) /\ Default(row)) /\ ~(PrefixRow(row) /\ NoPrefix(row))
         /\ ~(Default(row) /\ NoPrefix(row))
         /\ Default(row) <=> LpmSet(row.sets[1]).is = "universal"
<1>1. row.sets[1] \in PlainSet
  BY DEF SetRow
<1> QED
  BY <1>1, LpmSetType DEF PrefixRow, Default, NoPrefix

(* The rows up to the n-th, reduced, when they are prefixes.                 *)
LEMMA LpmPart ==
  ASSUME NEW rows \in Seq(SetRow), NEW n \in 0 .. Len(rows), \A i \in 1 .. n : PrefixRow(rows[i])
  PROVE  /\ SubSeq(LpmOf(rows), 1, n) \in Seq(LpmRow)
         /\ Len(SubSeq(LpmOf(rows), 1, n)) = n
         /\ \A i \in 1 .. n : SubSeq(LpmOf(rows), 1, n)[i] = Reduced(rows[i])
<1> DEFINE l == LpmOf(rows)
<1>1. /\ Len(rows) \in Nat /\ Len(l) = Len(rows)
      /\ \A i \in 1 .. Len(rows) : rows[i] \in SetRow /\ l[i] = Reduced(rows[i])
  BY LpmOfParts
<1> HIDE DEF l
<1>2. \A i \in 1 .. n : l[i] = Reduced(rows[i]) /\ l[i] \in LpmRow
  <2> SUFFICES ASSUME NEW i \in 1 .. n PROVE l[i] = Reduced(rows[i]) /\ l[i] \in LpmRow
    OBVIOUS
  <2>1. i \in 1 .. Len(rows)
    BY <1>1
  <2> QED
    BY <1>1, <2>1, ReducedParts DEF PrefixRow
<1>3. SubSeq(l, 1, n) = [i \in 1 .. n |-> l[i]]
  <2>1. SubSeq(l, 1, n) = [i \in 1 .. (1 + n - 1) |-> l[i + 1 - 1]]
    OBVIOUS
  <2>2. n \in Nat /\ 1 + n - 1 = n /\ \A i \in 1 .. n : i + 1 - 1 = i
    BY <1>1
  <2> QED
    BY <2>1, <2>2
<1> HIDE DEF Reduced
<1>4. n \in Nat
  BY <1>1
<1> DEFINE m == SubSeq(l, 1, n)
<1>5. m = [i \in 1 .. n |-> l[i]]
  BY <1>3
<1> HIDE DEF m
<1>6. m \in Seq(LpmRow) /\ Len(m) = n /\ \A i \in 1 .. n : m[i] = l[i]
  BY <1>2, <1>4, <1>5
<1> QED
  BY <1>2, <1>6 DEF l, m

(* The three results of sort_lpm.                                            *)
LEMMA SortLpmShape ==
  ASSUME NEW rows \in Seq(SetRow)
  PROVE  LET uni    == {i \in 1 .. Len(rows) : Default(rows[i])}
             first  == CHOOSE i \in uni : \A j \in uni : i <= j
             before == IF uni = {} THEN Len(rows) ELSE first - 1
             sorted == MergeSort(SubSeq(LpmOf(rows), 1, before))
         IN  SortLpm(rows) =
               IF \E i \in 1 .. Len(rows) : NoPrefix(rows[i]) THEN <<>>
               ELSE IF uni = {} THEN sorted ELSE Append(sorted, LpmOf(rows)[first])
<1> DEFINE l == LpmOf(rows)
           universal == {i \in DOMAIN l : l[i].sets[1].is = "universal"}
           uni == {i \in 1 .. Len(rows) : Default(rows[i])}
           firstOf(U) == CHOOSE i \in U : \A j \in U : i <= j
           beforeOf(U, n) == IF U = {} THEN n ELSE firstOf(U) - 1
           sortedOf(U, n) == MergeSort(SubSeq(l, 1, beforeOf(U, n)))
           resultOf(U, n) == IF U = {} THEN sortedOf(U, n) ELSE Append(sortedOf(U, n), l[firstOf(U)])
<1>1. /\ DOMAIN l = 1 .. Len(rows) /\ Len(l) = Len(rows)
      /\ \A i \in 1 .. Len(rows) : rows[i] \in SetRow /\ l[i].sets[1] = LpmSet(rows[i].sets[1])
  BY LpmOfParts
<1>2. SortLpm(rows) = IF \E i \in DOMAIN l : l[i].sets[1] = NotLpm THEN <<>>
                      ELSE resultOf(universal, Len(l))
  BY Zenon DEF SortLpm, LpmOf, Reduced
<1> HIDE DEF l
<1>3. universal = uni
  <2>1. ASSUME NEW i \in 1 .. Len(rows)
        PROVE  l[i].sets[1].is = "universal" <=> Default(rows[i])
    BY <1>1, OneOfThree
  <2> QED
    BY <1>1, <2>1
<1>4. (\E i \in DOMAIN l : l[i].sets[1] = NotLpm) <=> (\E i \in 1 .. Len(rows) : NoPrefix(rows[i]))
  BY <1>1 DEF NoPrefix
<1> HIDE DEF uni, universal
<1>5. SortLpm(rows) = IF \E i \in 1 .. Len(rows) : NoPrefix(rows[i]) THEN <<>>
                      ELSE resultOf(uni, Len(rows))
  BY <1>1, <1>2, <1>3, <1>4, Zenon
<1> QED
  BY <1>5, Zenon DEF uni, l

(* One row that is no prefix leaves no row.                                  *)
LEMMA SortLpmNone ==
  ASSUME NEW rows \in Seq(SetRow), NEW i \in 1 .. Len(rows), NoPrefix(rows[i])
  PROVE  SortLpm(rows) = <<>>
BY SortLpmShape, Zenon

(* Prefixes alone are sorted.                                                *)
LEMMA SortLpmWithout ==
  ASSUME NEW rows \in Seq(SetRow), \A i \in 1 .. Len(rows) : PrefixRow(rows[i])
  PROVE  SortLpm(rows) = MergeSort(SubSeq(LpmOf(rows), 1, Len(rows)))
<1> DEFINE uni == {i \in 1 .. Len(rows) : Default(rows[i])}
<1>1. \A i \in 1 .. Len(rows) : rows[i] \in SetRow
  OBVIOUS
<1>2. \A i \in 1 .. Len(rows) : ~NoPrefix(rows[i]) /\ ~Default(rows[i])
  BY <1>1, OneOfThree
<1>3. uni = {}
  BY <1>2
<1> QED
  BY <1>2, <1>3, SortLpmShape, Zenon

(* The first default goes behind what is before it, sorted; the rest is      *)
(* lost.                                                                     *)
LEMMA SortLpmWith ==
  ASSUME NEW rows \in Seq(SetRow), NEW d \in 1 .. Len(rows), Default(rows[d]),
         \A i \in 1 .. Len(rows) : ~NoPrefix(rows[i]),
         \A i \in 1 .. d - 1 : ~Default(rows[i])
  PROVE  /\ SortLpm(rows) = Append(MergeSort(SubSeq(LpmOf(rows), 1, d - 1)), Reduced(rows[d]))
         /\ \A i \in 1 .. d - 1 : PrefixRow(rows[i])
<1> DEFINE uni == {i \in 1 .. Len(rows) : Default(rows[i])}
           first == CHOOSE i \in uni : \A j \in uni : i <= j
<1>1. d \in uni
  OBVIOUS
<1>2. \A j \in uni : d <= j
  <2> SUFFICES ASSUME NEW j \in uni, ~(d <= j) PROVE FALSE
    OBVIOUS
  <2>1. j \in 1 .. d - 1 /\ Default(rows[j])
    OBVIOUS
  <2> QED
    BY <2>1
<1>3. uni \in SUBSET Nat
  OBVIOUS
<1> HIDE DEF uni
<1>4. first = d
  <2>1. first \in uni /\ \A j \in uni : first <= j
    BY <1>1, <1>2
  <2>2. first <= d /\ d <= first /\ first \in Nat /\ d \in Nat
    BY <1>1, <1>2, <1>3, <2>1
  <2> HIDE DEF first
  <2> QED
    BY <2>2
<1>5. uni # {}
  BY <1>1
<1>6. SortLpm(rows) = Append(MergeSort(SubSeq(LpmOf(rows), 1, first - 1)), LpmOf(rows)[first])
  BY <1>5, SortLpmShape, Zenon DEF uni
<1>7. LpmOf(rows)[d] = Reduced(rows[d])
  BY LpmOfParts
<1>8. ASSUME NEW i \in 1 .. d - 1 PROVE PrefixRow(rows[i])
  <2>1. i \in 1 .. Len(rows) /\ rows[i] \in SetRow
    OBVIOUS
  <2> QED
    BY <2>1, OneOfThree
<1> HIDE DEF first
<1> QED
  BY <1>4, <1>6, <1>7, <1>8, Zenon

(* Either all rows are prefixes, or one is none, or there is a first default.*)
LEMMA ThreeWays ==
  ASSUME NEW rows \in Seq(SetRow)
  PROVE  \/ \E i \in 1 .. Len(rows) : NoPrefix(rows[i])
         \/ \A i \in 1 .. Len(rows) : PrefixRow(rows[i])
         \/ \E d \in 1 .. Len(rows) :
              /\ Default(rows[d]) /\ \A i \in 1 .. Len(rows) : ~NoPrefix(rows[i])
              /\ \A i \in 1 .. d - 1 : ~Default(rows[i])
<1> SUFFICES ASSUME \A i \in 1 .. Len(rows) : ~NoPrefix(rows[i]),
                    NEW k \in 1 .. Len(rows), ~PrefixRow(rows[k])
             PROVE  \E d \in 1 .. Len(rows) :
                      Default(rows[d]) /\ \A i \in 1 .. d - 1 : ~Default(rows[i])
  OBVIOUS
<1> DEFINE uni == {i \in 1 .. Len(rows) : Default(rows[i])}
<1>1. k \in uni
  <2>1. rows[k] \in SetRow
    OBVIOUS
  <2> QED
    BY <2>1, OneOfThree
<1>2. uni \in SUBSET Nat
  OBVIOUS
<1>3. PICK d \in uni : \A j \in uni : d <= j
  <2> HIDE DEF uni
  <2> QED
    BY <1>1, <1>2, Least
<1>4. ASSUME NEW i \in 1 .. d - 1 PROVE ~Default(rows[i])
  <2>1. i \in 1 .. Len(rows) /\ ~(d <= i)
    OBVIOUS
  <2> QED
    BY <1>3, <2>1
<1> QED
  BY <1>3, <1>4

(* Rows reduced to a prefix or to the default.                               *)
PrefixLength(row) == IF row.sets[1].is = "universal" THEN 0 ELSE Nbits(row)

(* Lengths are numbers, that of a default is 0.                              *)
LEMMA PrefixLengths ==
  /\ \A row \in LpmRow : PrefixLength(row) = Nbits(row) /\ Nbits(row) \in Nat
  /\ \A row : row.sets[1] = Universal => PrefixLength(row) = 0
<1>1. ASSUME NEW row \in LpmRow PROVE PrefixLength(row) = Nbits(row) /\ Nbits(row) \in Nat
  <2>1. row.sets[1].is = "lpm"
    BY DEF LpmRow, Lpms
  <2> QED
    BY <2>1, LpmRowNbits DEF PrefixLength
<1>2. Universal.is = "universal"
  BY DEF Universal
<1> QED
  BY <1>1, <1>2 DEF PrefixLength

(* What sort_lpm makes of rows that are all prefixes or defaults.            *)
LpmResult(rows, s) ==
  /\ DOMAIN s = 1 .. Len(s) /\ Len(s) \in Nat
  /\ \A k \in 1 .. Len(s) : \E i \in 1 .. Len(rows) : s[k] = Reduced(rows[i])
  /\ \A i \in 1 .. Len(rows) : \/ \E d \in 1 .. i - 1 : Default(rows[d])
                               \/ \E k \in 1 .. Len(s) : s[k] = Reduced(rows[i])
  /\ \A k, l \in 1 .. Len(s) : k < l => PrefixLength(s[l]) <= PrefixLength(s[k])

(* The part that is sorted has its rows, the longest first.                  *)
LEMMA SortedPart ==
  ASSUME NEW rows \in Seq(SetRow), NEW n \in 0 .. Len(rows), \A i \in 1 .. n : PrefixRow(rows[i])
  PROVE  LET s == MergeSort(SubSeq(LpmOf(rows), 1, n))
         IN  /\ s \in Seq(LpmRow)
             /\ \A k \in 1 .. Len(s) : \E i \in 1 .. n : s[k] = Reduced(rows[i])
             /\ \A i \in 1 .. n : \E k \in 1 .. Len(s) : s[k] = Reduced(rows[i])
             /\ \A k, l \in 1 .. Len(s) : k < l => PrefixLength(s[l]) <= PrefixLength(s[k])
<1> DEFINE q == SubSeq(LpmOf(rows), 1, n)
           s == MergeSort(q)
<1>1. q \in Seq(LpmRow) /\ Len(q) = n /\ \A i \in 1 .. n : q[i] = Reduced(rows[i])
  BY LpmPart
<1> HIDE DEF q
<1>2. s \in Seq(LpmRow) /\ Descending(s) /\ Range(s) = Range(q)
  BY <1>1, MergeSortSorts
<1> HIDE DEF s
<1>3. DOMAIN s = 1 .. Len(s) /\ DOMAIN q = 1 .. n
  BY <1>1, <1>2
<1>4. ASSUME NEW k \in 1 .. Len(s) PROVE \E i \in 1 .. n : s[k] = Reduced(rows[i])
  <2>1. s[k] \in Range(q)
    BY <1>2, <1>3 DEF Range
  <2> QED
    BY <1>1, <1>3, <2>1 DEF Range
<1>5. ASSUME NEW i \in 1 .. n PROVE \E k \in 1 .. Len(s) : s[k] = Reduced(rows[i])
  <2>1. q[i] \in Range(s)
    BY <1>2, <1>3 DEF Range
  <2> QED
    BY <1>1, <1>3, <2>1 DEF Range
<1>6. ASSUME NEW k \in 1 .. Len(s), NEW l \in 1 .. Len(s), k < l
      PROVE  PrefixLength(s[l]) <= PrefixLength(s[k])
  <2>1. s[k] \in LpmRow /\ s[l] \in LpmRow
    BY <1>2
  <2>2. Nbits(s[l]) <= Nbits(s[k])
    BY <1>2, <1>3, <1>6 DEF Descending
  <2> QED
    BY <2>1, <2>2, PrefixLengths
<1> QED
  BY <1>2, <1>4, <1>5, <1>6 DEF s, q

(* sort_lpm keeps what is not behind a default, the longest first.           *)
LEMMA SortLpmResult ==
  ASSUME NEW rows \in Seq(SetRow), \A i \in 1 .. Len(rows) : ~NoPrefix(rows[i])
  PROVE  LpmResult(rows, SortLpm(rows))
<1> DEFINE part(n) == MergeSort(SubSeq(LpmOf(rows), 1, n))
<1>0. Len(rows) \in Nat
  OBVIOUS
<1>1. CASE \A i \in 1 .. Len(rows) : PrefixRow(rows[i])
  <2> DEFINE s == part(Len(rows))
  <2>1. /\ s \in Seq(LpmRow)
        /\ \A k \in 1 .. Len(s) : \E i \in 1 .. Len(rows) : s[k] = Reduced(rows[i])
        /\ \A i \in 1 .. Len(rows) : \E k \in 1 .. Len(s) : s[k] = Reduced(rows[i])
        /\ \A k, l \in 1 .. Len(s) : k < l => PrefixLength(s[l]) <= PrefixLength(s[k])
    <3>1. Len(rows) \in 0 .. Len(rows)
      BY <1>0
    <3> QED
      BY <1>1, <3>1, SortedPart, Zenon
  <2>2. SortLpm(rows) = s
    BY <1>1, SortLpmWithout
  <2> HIDE DEF s
  <2>3. DOMAIN s = 1 .. Len(s) /\ Len(s) \in Nat
    BY <2>1
  <2> QED
    BY <2>1, <2>2, <2>3, Zenon DEF LpmResult
<1>2. ASSUME NEW d \in 1 .. Len(rows), Default(rows[d]), \A i \in 1 .. d - 1 : ~Default(rows[i])
      PROVE  LpmResult(rows, SortLpm(rows))
  <2> DEFINE s == part(d - 1)
             t == Append(s, Reduced(rows[d]))
             last == Reduced(rows[d])
  <2>1. SortLpm(rows) = t /\ \A i \in 1 .. d - 1 : PrefixRow(rows[i])
    BY <1>2, SortLpmWith
  <2>2. /\ s \in Seq(LpmRow)
        /\ \A k \in 1 .. Len(s) : \E i \in 1 .. d - 1 : s[k] = Reduced(rows[i])
        /\ \A i \in 1 .. d - 1 : \E k \in 1 .. Len(s) : s[k] = Reduced(rows[i])
        /\ \A k, l \in 1 .. Len(s) : k < l => PrefixLength(s[l]) <= PrefixLength(s[k])
    <3>1. d - 1 \in 0 .. Len(rows)
      BY <1>0
    <3> QED
      BY <2>1, <3>1, SortedPart, Zenon
  <2>3. PrefixLength(last) = 0
    <3>1. rows[d] \in SetRow
      OBVIOUS
    <3>2. last.sets[1] = Universal
      BY <1>2, <3>1, ReducedParts DEF Default
    <3> QED
      BY <3>2, PrefixLengths
  <2> HIDE DEF s, last
  <2>4. Len(s) \in Nat
    BY <2>2
  <2>5. /\ Len(t) = Len(s) + 1 /\ DOMAIN t = 1 .. Len(s) + 1
        /\ t[Len(s) + 1] = last /\ \A k \in 1 .. Len(s) : t[k] = s[k]
    BY <2>2 DEF last
  <2> HIDE DEF t
  <2>6. ASSUME NEW k \in 1 .. Len(t) PROVE \E i \in 1 .. Len(rows) : t[k] = Reduced(rows[i])
    <3>1. CASE k = Len(s) + 1
      BY <2>5, <3>1 DEF last
    <3>2. CASE k # Len(s) + 1
      <4>1. k \in 1 .. Len(s)
        BY <2>4, <2>5, <3>2
      <4>2. PICK i \in 1 .. d - 1 : s[k] = Reduced(rows[i])
        BY <2>2, <4>1
      <4>3. i \in 1 .. Len(rows)
        BY <1>0
      <4> QED
        BY <2>5, <4>1, <4>2, <4>3
    <3> QED
      BY <3>1, <3>2
  <2>7. ASSUME NEW i \in 1 .. Len(rows)
        PROVE  \/ \E e \in 1 .. i - 1 : Default(rows[e])
               \/ \E k \in 1 .. Len(t) : t[k] = Reduced(rows[i])
    <3>1. CASE i < d
      <4>1. i \in 1 .. d - 1
        BY <1>0, <3>1
      <4>2. PICK k \in 1 .. Len(s) : s[k] = Reduced(rows[i])
        BY <2>2, <4>1
      <4>3. k \in 1 .. Len(t) /\ t[k] = s[k]
        BY <2>4, <2>5
      <4> QED
        BY <4>2, <4>3
    <3>2. CASE i = d
      <4>1. Len(s) + 1 \in 1 .. Len(t)
        BY <2>4, <2>5
      <4> QED
        BY <2>5, <3>2, <4>1 DEF last
    <3>3. CASE i > d
      <4>1. d \in 1 .. i - 1
        BY <1>0, <3>3
      <4> QED
        BY <1>2, <4>1
    <3> QED
      BY <1>0, <3>1, <3>2, <3>3
  <2>8. ASSUME NEW k \in 1 .. Len(t), NEW l \in 1 .. Len(t), k < l
        PROVE  PrefixLength(t[l]) <= PrefixLength(t[k])
    <3>1. k \in 1 .. Len(s) /\ t[k] = s[k]
      BY <2>4, <2>5, <2>8
    <3>2. CASE l = Len(s) + 1
      <4>1. s[k] \in LpmRow
        BY <2>2, <3>1
      <4>2. PrefixLength(s[k]) \in Nat
        BY <4>1, PrefixLengths
      <4> QED
        BY <2>3, <2>5, <3>1, <3>2, <4>2
    <3>3. CASE l # Len(s) + 1
      <4>1. l \in 1 .. Len(s)
        BY <2>4, <2>5, <3>3
      <4> QED
        BY <2>2, <2>5, <2>8, <3>1, <4>1
    <3> QED
      BY <3>2, <3>3
  <2>9. DOMAIN t = 1 .. Len(t) /\ Len(t) \in Nat
    BY <2>4, <2>5
  <2> QED
    BY <2>1, <2>6, <2>7, <2>8, <2>9, Zenon DEF LpmResult
<1> QED
  BY <1>1, <1>2, ThreeWays, Zenon

(* A row appended is a row more.                                             *)
LEMMA OneMoreAtEnd ==
  ASSUME NEW S, NEW s \in Seq(S), NEW r
  PROVE  OneMore(s, Append(s, r), r)
<1>1. Len(s) \in Nat /\ Len(Append(s, r)) = Len(s) + 1 /\ Append(s, r)[Len(s) + 1] = r
      /\ \A i \in 1 .. Len(s) : Append(s, r)[i] = s[i]
  OBVIOUS
<1>2. Len(s) + 1 \in 1 .. Len(s) + 1
  BY <1>1
<1>3. Inserted(s, Append(s, r), Len(s) + 1, r)
  BY <1>1 DEF Inserted
<1> QED
  BY <1>2, <1>3 DEF OneMore

(* A row at the end changes no part of the list before it.                   *)
LEMMA SamePart ==
  ASSUME NEW rows \in Seq(SetRow), NEW r \in SetRow, NEW n \in 0 .. Len(rows),
         \A i \in 1 .. n : PrefixRow(rows[i])
  PROVE  SubSeq(LpmOf(Append(rows, r)), 1, n) = SubSeq(LpmOf(rows), 1, n)
<1> DEFINE more == Append(rows, r)
           p == SubSeq(LpmOf(rows), 1, n)
           q == SubSeq(LpmOf(more), 1, n)
<1>1. /\ more \in Seq(SetRow) /\ Len(more) = Len(rows) + 1
      /\ \A i \in 1 .. Len(rows) : more[i] = rows[i]
  BY AppendParts
<1> HIDE DEF more
<1>2. \A i \in 1 .. n : more[i] = rows[i]
  BY <1>1
<1>3. p \in Seq(LpmRow) /\ Len(p) = n /\ \A i \in 1 .. n : p[i] = Reduced(rows[i])
  BY LpmPart
<1>4. n \in 0 .. Len(more) /\ \A i \in 1 .. n : PrefixRow(more[i])
  BY <1>1, <1>2
<1>5. q \in Seq(LpmRow) /\ Len(q) = n /\ \A i \in 1 .. n : q[i] = Reduced(more[i])
  BY <1>1, <1>4, LpmPart
<1> HIDE DEF p, q
<1>6. p = q
  BY <1>2, <1>3, <1>5, SameList
<1> QED
  BY <1>6 DEF p, q, more

(* A row that is added changes sort_lpm's result by that row, or not at all, *)
(* or makes it empty.                                                        *)
LEMMA SortLpmAppend ==
  ASSUME NEW rows \in Seq(SetRow), NEW r \in SetRow
  PROVE  \/ SortLpm(Append(rows, r)) = SortLpm(rows)
         \/ OneMore(SortLpm(rows), SortLpm(Append(rows, r)), Reduced(r))
         \/ NoPrefix(r) /\ SortLpm(Append(rows, r)) = <<>>
<1> DEFINE more == Append(rows, r)
           n == Len(rows)
           all == SubSeq(LpmOf(rows), 1, n)
           s == SortLpm(rows)
           t == SortLpm(more)
<1>1. /\ more \in Seq(SetRow) /\ Len(more) = n + 1 /\ more[n + 1] = r /\ n \in Nat
      /\ \A i \in 1 .. n : more[i] = rows[i]
  BY AppendParts
<1>2. n + 1 \in 1 .. Len(more) /\ 1 .. n \subseteq 1 .. Len(more)
  BY <1>1
<1>3. \A d \in 0 .. n : (\A i \in 1 .. d : PrefixRow(rows[i])) =>
         SubSeq(LpmOf(more), 1, d) = SubSeq(LpmOf(rows), 1, d)
  BY SamePart
<1> HIDE DEF more
<1>4. CASE NoPrefix(r)
  <2>1. t = <<>>
    BY <1>1, <1>2, <1>4, SortLpmNone
  <2> QED
    BY <1>4, <2>1 DEF more
<1>5. ASSUME NEW i \in 1 .. n, NoPrefix(rows[i])
      PROVE  t = s
  <2>1. s = <<>>
    BY <1>5, SortLpmNone
  <2>2. i \in 1 .. Len(more) /\ NoPrefix(more[i])
    BY <1>1, <1>2, <1>5
  <2>3. t = <<>>
    BY <1>1, <2>2, SortLpmNone
  <2> QED
    BY <2>1, <2>3
<1>6. ASSUME \A i \in 1 .. n : PrefixRow(rows[i]), PrefixRow(r)
      PROVE  OneMore(s, t, Reduced(r))
  <2>1. ASSUME NEW i \in 1 .. n + 1 PROVE PrefixRow(more[i])
    <3>1. i = n + 1 \/ i \in 1 .. n
      BY <1>1
    <3> QED
      BY <1>1, <1>6, <3>1
  <2>2. s = MergeSort(all)
    BY <1>6, SortLpmWithout
  <2>3. t = MergeSort(SubSeq(LpmOf(more), 1, n + 1))
    BY <1>1, <2>1, SortLpmWithout
  <2>4. all \in Seq(LpmRow) /\ Len(all) = n /\ \A i \in 1 .. n : all[i] = Reduced(rows[i])
    <3>1. n \in 0 .. n
      BY <1>1
    <3> QED
      BY <1>6, <3>1, LpmPart, Zenon
  <2> DEFINE new == SubSeq(LpmOf(more), 1, n + 1)
  <2>5. new \in Seq(LpmRow) /\ Len(new) = n + 1 /\ \A i \in 1 .. n + 1 : new[i] = Reduced(more[i])
    <3>1. n + 1 \in 0 .. Len(more)
      BY <1>1
    <3> QED
      BY <1>1, <2>1, <3>1, LpmPart, Zenon
  <2>6. Reduced(r) \in LpmRow
    BY <1>6, ReducedParts DEF PrefixRow
  <2> HIDE DEF new, all, Reduced
  <2>7. /\ Append(all, Reduced(r)) \in Seq(LpmRow)
        /\ Len(Append(all, Reduced(r))) = n + 1
        /\ Append(all, Reduced(r))[n + 1] = Reduced(r)
        /\ \A i \in 1 .. n : Append(all, Reduced(r))[i] = all[i]
    <3>1. /\ Append(all, Reduced(r)) \in Seq(LpmRow)
          /\ Len(Append(all, Reduced(r))) = Len(all) + 1
          /\ Append(all, Reduced(r))[Len(all) + 1] = Reduced(r)
          /\ \A i \in 1 .. Len(all) : Append(all, Reduced(r))[i] = all[i]
      BY <2>4, <2>6, AppendParts
    <3> QED
      BY <2>4, <3>1
  <2>8. ASSUME NEW i \in 1 .. n + 1 PROVE new[i] = Append(all, Reduced(r))[i]
    <3>1. i = n + 1 \/ i \in 1 .. n
      BY <1>1
    <3> QED
      BY <1>1, <2>4, <2>5, <2>7, <3>1
  <2>9. new = Append(all, Reduced(r))
    BY <2>5, <2>7, <2>8, SameList
  <2>10. OneMore(MergeSort(all), MergeSort(Append(all, Reduced(r))), Reduced(r))
    BY <2>4, <2>6, MergeSortOneMore
  <2> QED
    BY <2>2, <2>3, <2>9, <2>10 DEF new
<1>7. ASSUME \A i \in 1 .. n : PrefixRow(rows[i]), Default(r)
      PROVE  OneMore(s, t, Reduced(r))
  <2>1. \A i \in 1 .. n : ~Default(rows[i]) /\ ~NoPrefix(rows[i])
    <3>1. \A i \in 1 .. n : rows[i] \in SetRow
      OBVIOUS
    <3> QED
      BY <1>7, <3>1, OneOfThree
  <2>2. ASSUME NEW i \in 1 .. n + 1 PROVE ~NoPrefix(more[i])
    <3>1. i = n + 1 \/ i \in 1 .. n
      BY <1>1
    <3> QED
      BY <1>1, <1>7, <2>1, <3>1, OneOfThree
  <2>3. /\ n + 1 \in 1 .. Len(more) /\ Default(more[n + 1])
        /\ \A i \in 1 .. Len(more) : ~NoPrefix(more[i])
        /\ \A i \in 1 .. (n + 1) - 1 : ~Default(more[i])
    <3>1. (n + 1) - 1 = n
      BY <1>1
    <3> QED
      BY <1>1, <1>2, <1>7, <2>1, <2>2, <3>1
  <2>4. t = Append(MergeSort(SubSeq(LpmOf(more), 1, (n + 1) - 1)), Reduced(more[n + 1]))
    BY <1>1, <2>3, SortLpmWith
  <2>5. (n + 1) - 1 = n /\ n \in 0 .. n
    BY <1>1
  <2>6. s = MergeSort(all)
    BY <1>7, SortLpmWithout
  <2>7. t = Append(s, Reduced(r))
    BY <1>1, <1>3, <1>7, <2>4, <2>5, <2>6, Zenon
  <2>8. s \in Seq(LpmRow)
    <3>1. all \in Seq(LpmRow)
      BY <1>7, <2>5, LpmPart, Zenon
    <3> QED
      BY <2>6, <3>1, MergeSortSorts
  <2> HIDE DEF s, t
  <2> QED
    BY <2>7, <2>8, OneMoreAtEnd
<1>8. ASSUME NEW d \in 1 .. n, Default(rows[d]), \A i \in 1 .. n : ~NoPrefix(rows[i]),
             \A i \in 1 .. d - 1 : ~Default(rows[i]), ~NoPrefix(r)
      PROVE  t = s
  <2>1. /\ s = Append(MergeSort(SubSeq(LpmOf(rows), 1, d - 1)), Reduced(rows[d]))
        /\ \A i \in 1 .. d - 1 : PrefixRow(rows[i])
    BY <1>8, SortLpmWith
  <2>2. ASSUME NEW i \in 1 .. n + 1 PROVE ~NoPrefix(more[i])
    <3>1. i = n + 1 \/ i \in 1 .. n
      BY <1>1
    <3> QED
      BY <1>1, <1>8, <3>1
  <2>3. ASSUME NEW i \in 1 .. d - 1 PROVE ~Default(more[i])
    <3>1. i \in 1 .. n
      BY <1>1
    <3> QED
      BY <1>1, <1>8, <3>1
  <2>4. d \in 1 .. Len(more) /\ Default(more[d]) /\ d - 1 \in 0 .. n
    BY <1>1, <1>8
  <2>5. t = Append(MergeSort(SubSeq(LpmOf(more), 1, d - 1)), Reduced(more[d]))
    BY <1>1, <2>2, <2>3, <2>4, SortLpmWith
  <2>6. SubSeq(LpmOf(more), 1, d - 1) = SubSeq(LpmOf(rows), 1, d - 1)
    BY <1>3, <2>1, <2>4
  <2> QED
    BY <1>1, <2>1, <2>5, <2>6, Zenon
<1>9. PrefixRow(r) \/ Default(r) \/ NoPrefix(r)
  BY OneOfThree
<1>10. \/ \E i \in 1 .. n : NoPrefix(rows[i])
       \/ \A i \in 1 .. n : PrefixRow(rows[i])
       \/ \E d \in 1 .. n :
            /\ Default(rows[d]) /\ \A i \in 1 .. n : ~NoPrefix(rows[i])
            /\ \A i \in 1 .. d - 1 : ~Default(rows[i])
  BY ThreeWays
<1>11. NoPrefix(r) \/ t = s \/ OneMore(s, t, Reduced(r))
  BY <1>5, <1>6, <1>7, <1>8, <1>9, <1>10, Zenon
<1> QED
  BY <1>4, <1>11, Zenon DEF more

-----------------------------------------------------------------------------
(* The first row that matches.                                               *)
FirstFound(ks, rows, i) ==
  /\ i \in 1 .. Len(rows) /\ RowMatches(ks, rows[i])
  /\ \A j \in 1 .. i - 1 : ~RowMatches(ks, rows[j])
  /\ FirstMatch(ks, rows) = rows[i].action
NoneFound(ks, rows) ==
  FirstMatch(ks, rows) = Miss /\ \A i \in 1 .. Len(rows) : ~RowMatches(ks, rows[i])

(* FirstMatch finds the first row that matches, or none matches.             *)
LEMMA FirstMatchIs ==
  ASSUME NEW ks, NEW rows, DOMAIN rows = 1 .. Len(rows), Len(rows) \in Nat
  PROVE  NoneFound(ks, rows) \/ \E i : FirstFound(ks, rows, i)
<1> DEFINE matching == {i \in DOMAIN rows : RowMatches(ks, rows[i])}
           first == CHOOSE i \in matching : \A j \in matching : i <= j
<1>1. FirstMatch(ks, rows) = IF matching = {} THEN Miss ELSE rows[first].action
  BY DEF FirstMatch
<1>2. CASE matching = {}
  BY <1>1, <1>2 DEF NoneFound
<1>3. CASE matching # {}
  <2>1. matching \in SUBSET Nat
    OBVIOUS
  <2>2. first \in matching /\ \A j \in matching : first <= j
    <3> HIDE DEF matching
    <3>1. \E i \in matching : \A j \in matching : i <= j
      BY <1>3, <2>1, Least
    <3> QED
      BY <3>1
  <2> HIDE DEF first
  <2>3. ASSUME NEW j \in 1 .. first - 1 PROVE ~RowMatches(ks, rows[j])
    <3>1. j \in DOMAIN rows /\ ~(first <= j)
      BY <2>1, <2>2
    <3> QED
      BY <2>2, <3>1
  <2> QED
    BY <1>1, <1>3, <2>2, <2>3 DEF FirstFound
<1> QED
  BY <1>2, <1>3

(* With one row more, the answer is as before or is that row.                *)
LEMMA FirstMatchOneMore ==
  ASSUME NEW ks, NEW s, NEW t, NEW r, OneMore(s, t, r),
         DOMAIN s = 1 .. Len(s), Len(s) \in Nat, DOMAIN t = 1 .. Len(t),
         FirstMatch(ks, t) # FirstMatch(ks, s)
  PROVE  RowMatches(ks, r) /\ FirstMatch(ks, t) = r.action
<1>1. PICK p \in 1 .. Len(s) + 1 : Inserted(s, t, p, r)
  BY DEF OneMore
<1>2. /\ Len(t) = Len(s) + 1 /\ t[p] = r
      /\ \A i \in 1 .. p - 1 : t[i] = s[i]
      /\ \A i \in p .. Len(s) : t[i + 1] = s[i]
  BY <1>1 DEF Inserted
<1>3. NoneFound(ks, s) \/ \E i : FirstFound(ks, s, i)
  BY FirstMatchIs
<1>4. NoneFound(ks, t) \/ \E i : FirstFound(ks, t, i)
  <2>1. Len(t) \in Nat
    BY <1>2
  <2> QED
    BY <2>1, FirstMatchIs
<1> USE DEF FirstFound, NoneFound
<1>5. CASE NoneFound(ks, t)
  <2>1. ASSUME NEW i \in 1 .. Len(s) PROVE ~RowMatches(ks, s[i])
    <3>1. CASE i < p
      <4>1. i \in 1 .. p - 1 /\ i \in 1 .. Len(t)
        BY <1>2, <3>1
      <4> QED
        BY <1>2, <1>5, <4>1
    <3>2. CASE i >= p
      <4>1. i \in p .. Len(s) /\ i + 1 \in 1 .. Len(t)
        BY <1>2, <3>2
      <4> QED
        BY <1>2, <1>5, <4>1
    <3> QED
      BY <3>1, <3>2
  <2>2. NoneFound(ks, s)
    BY <1>3, <2>1
  <2> QED
    BY <1>5, <2>2
<1>6. ASSUME NEW i, FirstFound(ks, t, i)
      PROVE  RowMatches(ks, r) /\ FirstMatch(ks, t) = r.action
  <2>1. CASE i = p
    BY <1>2, <1>6, <2>1
  <2>2. CASE i < p
    <3>1. i \in 1 .. p - 1 /\ i \in 1 .. Len(s)
      BY <1>2, <1>6, <2>2
    <3>2. ASSUME NEW j \in 1 .. i - 1 PROVE ~RowMatches(ks, s[j])
      <4>1. j \in 1 .. p - 1
        BY <3>1
      <4> QED
        BY <1>2, <1>6, <4>1
    <3>3. RowMatches(ks, s[i])
      BY <1>2, <1>6, <3>1
    <3>4. ASSUME NEW j, FirstFound(ks, s, j) PROVE j = i
      <4>1. ~(j < i) /\ ~(i < j)
        BY <1>6, <3>1, <3>2, <3>3, <3>4
      <4> QED
        BY <3>1, <3>4, <4>1
    <3>5. FirstMatch(ks, s) = s[i].action
      BY <1>3, <3>1, <3>3, <3>4
    <3>6. FirstMatch(ks, t) = s[i].action
      BY <1>2, <1>6, <3>1
    <3> QED
      BY <3>5, <3>6
  <2>3. CASE i > p
    <3> DEFINE k == i - 1
    <3>1. k \in p .. Len(s) /\ k + 1 = i /\ k \in 1 .. Len(s)
      BY <1>2, <1>6, <2>3
    <3> HIDE DEF k
    <3>2. ASSUME NEW j \in 1 .. k - 1 PROVE ~RowMatches(ks, s[j])
      <4>1. CASE j < p
        <5>1. j \in 1 .. p - 1 /\ j \in 1 .. i - 1
          BY <3>1, <4>1
        <5> QED
          BY <1>2, <1>6, <5>1
      <4>2. CASE j >= p
        <5>1. j \in p .. Len(s) /\ j + 1 \in 1 .. i - 1
          BY <3>1, <4>2
        <5> QED
          BY <1>2, <1>6, <5>1
      <4> QED
        BY <4>1, <4>2
    <3>3. RowMatches(ks, s[k])
      BY <1>2, <1>6, <3>1
    <3>4. ASSUME NEW j, FirstFound(ks, s, j) PROVE j = k
      <4>1. ~(j < k) /\ ~(k < j)
        BY <3>1, <3>2, <3>3, <3>4
      <4> QED
        BY <3>1, <3>4, <4>1
    <3>5. FirstMatch(ks, s) = s[k].action
      BY <1>3, <3>1, <3>3, <3>4
    <3>6. FirstMatch(ks, t) = s[k].action
      BY <1>2, <1>6, <3>1
    <3> QED
      BY <3>5, <3>6
  <2> QED
    BY <1>6, <2>1, <2>2, <2>3
<1> QED
  BY <1>4, <1>5, <1>6

-----------------------------------------------------------------------------
(* The rows of a table.                                                      *)

(* The rows that match, one after the other.                                 *)
Filters(m, ks, rows) ==
  /\ m[0] = <<>>
  /\ \A n \in 1 .. Len(rows) :
       m[n] = IF RowMatches(ks, rows[n]) THEN Append(m[n - 1], rows[n]) ELSE m[n - 1]

(* Matching goes from row to row.                                            *)
LEMMA MatchingSteps ==
  ASSUME NEW S, NEW ks, NEW rows \in Seq(S)
  PROVE  \E m \in [0 .. Len(rows) -> Seq(S)] :
           Filters(m, ks, rows) /\ Matching(ks, rows) = m[Len(rows)]
<1> DEFINE N == Len(rows)
           Next1(q, n) == IF RowMatches(ks, rows[n]) THEN Append(q, rows[n]) ELSE q
           step == [x \in Seq(S) \X (1 .. N) |-> Next1(x[1], x[2])]
           IsRun(m) == m = [n \in 0 .. N |-> IF n = 0 THEN <<>> ELSE Next1(m[n - 1], n)]
<1>0. N \in Nat
  OBVIOUS
<1>1. ASSUME NEW q \in Seq(S), NEW n \in 1 .. N PROVE Next1(q, n) \in Seq(S)
  <2>1. rows[n] \in S
    OBVIOUS
  <2>2. Append(q, rows[n]) \in Seq(S)
    BY <2>1
  <2> QED
    BY <2>2
<1>a. Matching(ks, rows) = (CHOOSE h : IsRun(h))[N]
  BY Zenon DEF Matching
<1> HIDE DEF N, Next1
<1>2. step \in [Seq(S) \X (1 .. N) -> Seq(S)]
  <2> SUFFICES ASSUME NEW x \in Seq(S) \X (1 .. N) PROVE Next1(x[1], x[2]) \in Seq(S)
    OBVIOUS
  <2>1. x[1] \in Seq(S) /\ x[2] \in 1 .. N
    OBVIOUS
  <2> QED
    BY <1>1, <2>1
<1>3. <<>> \in Seq(S)
  OBVIOUS
<1>4. PICK m \in [0 .. N -> Seq(S)] : Computes(m, <<>>, step, N)
  BY <1>0, <1>2, <1>3, ComputationExists
<1>5. ASSUME NEW n \in 1 .. N PROVE m[n] = Next1(m[n - 1], n)
  <2>1. <<m[n - 1], n>> \in Seq(S) \X (1 .. N)
    BY <1>0, <1>4
  <2>2. step[<<m[n - 1], n>>] = Next1(m[n - 1], n)
    BY <2>1
  <2> QED
    BY <1>4, <2>2 DEF Computes
<1>6. m[0] = <<>>
  BY <1>4 DEF Computes
<1> HIDE DEF step
<1>7. IsRun(m)
  <2>1. ASSUME NEW n \in 0 .. N PROVE m[n] = IF n = 0 THEN <<>> ELSE Next1(m[n - 1], n)
    <3>1. n = 0 \/ n \in 1 .. N
      BY <1>0
    <3>2. 0 \notin 1 .. N
      OBVIOUS
    <3> QED
      BY <1>5, <1>6, <3>1, <3>2, Zenon
  <2> QED
    BY <1>4, <2>1
<1> DEFINE h == CHOOSE k : IsRun(k)
<1>8. IsRun(h)
  <2> HIDE DEF IsRun
  <2> QED
    BY <1>7, Zenon
<1>9. Matching(ks, rows) = h[N]
  BY <1>a
<1> HIDE DEF h
<1>10. h[0] = <<>> /\ \A n \in 1 .. N : h[n] = Next1(h[n - 1], n)
  <2>1. \A n \in 0 .. N : h[n] = IF n = 0 THEN <<>> ELSE Next1(h[n - 1], n)
    BY <1>8, Zenon
  <2> HIDE DEF IsRun
  <2>2. 0 \in 0 .. N
    BY <1>0
  <2>3. ASSUME NEW n \in 1 .. N PROVE n \in 0 .. N /\ n # 0
    BY <1>0
  <2> QED
    BY <2>1, <2>2, <2>3, Zenon
<1>11. h = [n \in 0 .. N |-> h[n]]
  BY <1>8, Zenon
<1> HIDE DEF IsRun
<1> DEFINE Good == {n \in 0 .. N : h[n] \in Seq(S)}
<1>12. 0 \in Good
  <2>1. h[0] \in Seq(S) /\ 0 \in 0 .. N
    BY <1>0, <1>3, <1>10
  <2> QED
    BY <2>1
<1>13. ASSUME NEW n \in 1 .. N, n - 1 \in Good PROVE n \in Good
  <2>1. Next1(h[n - 1], n) \in Seq(S)
    BY <1>1, <1>13
  <2> QED
    BY <1>10, <2>1
<1> HIDE DEF Good
<1>14. \A n \in 0 .. N : n \in Good
  BY <1>0, <1>12, <1>13, StepByStep
<1>15. h \in [0 .. N -> Seq(S)]
  <2>1. \A n \in 0 .. N : h[n] \in Seq(S)
    BY <1>14 DEF Good
  <2> QED
    BY <1>11, <2>1
<1>16. Filters(h, ks, rows)
  BY <1>10, Zenon DEF Filters, N, Next1
<1> QED
  BY <1>9, <1>15, <1>16 DEF N

(* With the rows numbered, the rows that match are found by their numbers.   *)
Numbered(rows) == \A i \in 1 .. Len(rows) : rows[i].action = i

(* Of numbered rows, those that match are kept, in their order.              *)
LEMMA MatchingIs ==
  ASSUME NEW S, NEW ks, NEW rows \in Seq(S), Numbered(rows)
  PROVE  LET m == Matching(ks, rows)
         IN  /\ m \in Seq(S)
             /\ \A k \in 1 .. Len(m) : /\ m[k].action \in 1 .. Len(rows)
                                       /\ m[k] = rows[m[k].action] /\ RowMatches(ks, m[k])
             /\ \A i \in 1 .. Len(rows) : RowMatches(ks, rows[i]) =>
                  \E k \in 1 .. Len(m) : m[k] = rows[i]
             /\ \A k, l \in 1 .. Len(m) : k < l => m[k].action < m[l].action
<1> DEFINE N == Len(rows)
           Upto(n, q) ==
             /\ \A k \in 1 .. Len(q) : /\ q[k].action \in 1 .. n
                                       /\ q[k] = rows[q[k].action] /\ RowMatches(ks, q[k])
             /\ \A i \in 1 .. n : RowMatches(ks, rows[i]) => \E k \in 1 .. Len(q) : q[k] = rows[i]
             /\ \A k, l \in 1 .. Len(q) : k < l => q[k].action < q[l].action
<1>1. PICK m \in [0 .. N -> Seq(S)] : Filters(m, ks, rows) /\ Matching(ks, rows) = m[N]
  BY MatchingSteps, ZenonT(60)
<1>2. N \in Nat /\ \A n \in 1 .. N : rows[n] \in S /\ rows[n].action = n
  BY DEF Numbered
<1> DEFINE Good == {n \in 0 .. N : Upto(n, m[n])}
<1>3. 0 \in Good
  <2>1. m[0] = <<>>
    BY <1>1 DEF Filters
  <2>2. Len(m[0]) = 0
    BY <2>1
  <2> HIDE DEF N
  <2> QED
    BY <1>2, <2>2
<1>4. ASSUME NEW n \in 1 .. N, n - 1 \in Good PROVE n \in Good
  <2> DEFINE q == m[n - 1]
  <2>1. m[n] = IF RowMatches(ks, rows[n]) THEN Append(q, rows[n]) ELSE q
    BY <1>1, Zenon DEF Filters
  <2>2. q \in Seq(S) /\ Len(q) \in Nat /\ Upto(n - 1, q) /\ n \in 0 .. N
    <3>1. Upto(n - 1, q)
      <4> HIDE DEF Upto
      <4> QED
        BY <1>4
    <3>2. n - 1 \in 0 .. N /\ n \in 0 .. N
      BY <1>2
    <3>3. q \in Seq(S)
      BY <3>2
    <3>4. Len(q) \in Nat
      <4> HIDE DEF q
      <4> QED
        BY <3>3
    <3> HIDE DEF Upto
    <3> QED
      BY <3>1, <3>2, <3>3, <3>4
  <2> HIDE DEF q, N
  <2>3. CASE ~RowMatches(ks, rows[n])
    <3>1. m[n] = q
      BY <2>1, <2>3
    <3>2. \A k \in 1 .. Len(q) : q[k].action \in 1 .. n /\ q[k] = rows[q[k].action] /\ RowMatches(ks, q[k])
      BY <1>2, <2>2
    <3>3. ASSUME NEW i \in 1 .. n, RowMatches(ks, rows[i]) PROVE \E k \in 1 .. Len(q) : q[k] = rows[i]
      <4>1. i # n
        BY <2>3, <3>3
      <4>2. i \in 1 .. n - 1
        BY <1>2, <4>1
      <4> QED
        BY <2>2, <3>3, <4>2
    <3>4. Upto(n, q)
      BY <2>2, <3>2, <3>3
    <3> HIDE DEF Upto
    <3> QED
      BY <2>2, <3>1, <3>4
  <2>4. CASE RowMatches(ks, rows[n])
    <3> DEFINE p == Append(q, rows[n])
    <3>1. m[n] = p
      BY <2>1, <2>4
    <3>2. /\ Len(p) = Len(q) + 1 /\ p[Len(q) + 1] = rows[n]
          /\ \A k \in 1 .. Len(q) : p[k] = q[k]
      BY <1>2, <2>2, AppendParts
    <3> HIDE DEF p
    <3>3. ASSUME NEW k \in 1 .. Len(p)
          PROVE p[k].action \in 1 .. n /\ p[k] = rows[p[k].action] /\ RowMatches(ks, p[k])
      <4>1. CASE k = Len(q) + 1
        BY <1>2, <2>4, <3>2, <4>1
      <4>2. CASE k # Len(q) + 1
        <5>1. k \in 1 .. Len(q)
          BY <2>2, <3>2, <4>2
        <5>2. p[k] = q[k] /\ q[k].action \in 1 .. n - 1 /\ q[k] = rows[q[k].action] /\ RowMatches(ks, q[k])
          BY <2>2, <3>2, <5>1
        <5> QED
          BY <1>2, <5>2
      <4> QED
        BY <4>1, <4>2
    <3>4. ASSUME NEW i \in 1 .. n, RowMatches(ks, rows[i]) PROVE \E k \in 1 .. Len(p) : p[k] = rows[i]
      <4>1. CASE i = n
        <5>1. Len(q) + 1 \in 1 .. Len(p)
          BY <2>2, <3>2
        <5> QED
          BY <3>2, <4>1, <5>1
      <4>2. CASE i # n
        <5>1. i \in 1 .. n - 1
          BY <1>2, <4>2
        <5>2. PICK k \in 1 .. Len(q) : q[k] = rows[i]
          BY <2>2, <3>4, <5>1
        <5>3. k \in 1 .. Len(p)
          BY <2>2, <3>2
        <5> QED
          BY <3>2, <5>2, <5>3
      <4> QED
        BY <4>1, <4>2
    <3>5. ASSUME NEW k \in 1 .. Len(p), NEW l \in 1 .. Len(p), k < l
          PROVE  p[k].action < p[l].action
      <4>1. k \in 1 .. Len(q)
        BY <2>2, <3>2, <3>5
      <4>2. p[k] = q[k] /\ q[k].action \in 1 .. n - 1
        BY <2>2, <3>2, <4>1
      <4>3. CASE l = Len(q) + 1
        <5>1. p[l].action = n
          BY <1>2, <3>2, <4>3
        <5> QED
          BY <1>2, <4>2, <5>1
      <4>4. CASE l # Len(q) + 1
        <5>1. l \in 1 .. Len(q)
          BY <2>2, <3>2, <4>4
        <5>2. q[k].action < q[l].action
          BY <2>2, <3>5, <4>1, <5>1
        <5> QED
          BY <3>2, <4>2, <5>1, <5>2
      <4> QED
        BY <4>3, <4>4
    <3>6. Upto(n, p)
      BY <3>3, <3>4, <3>5
    <3> HIDE DEF Upto
    <3> QED
      BY <2>2, <3>1, <3>6
  <2> QED
    BY <2>3, <2>4
<1> HIDE DEF Good, N
<1>5. \A n \in 0 .. N : n \in Good
  BY <1>2, <1>3, <1>4, StepByStep
<1>6. N \in 0 .. N
  BY <1>2
<1>7. Upto(N, m[N]) /\ m[N] \in Seq(S)
  <2> HIDE DEF Upto
  <2> QED
    BY <1>5, <1>6 DEF Good
<1> QED
  BY <1>1, <1>7, Zenon DEF N

(* A row at the end is kept behind the others, or not at all.                *)
LEMMA MatchingAppend ==
  ASSUME NEW S, NEW ks, NEW rows \in Seq(S), NEW r \in S
  PROVE  Matching(ks, Append(rows, r)) =
           IF RowMatches(ks, r) THEN Append(Matching(ks, rows), r) ELSE Matching(ks, rows)
<1> DEFINE N == Len(rows)
           more == Append(rows, r)
<1>1. /\ more \in Seq(S) /\ Len(more) = N + 1 /\ more[N + 1] = r
      /\ \A i \in 1 .. N : more[i] = rows[i]
  BY AppendParts
<1>2. PICK m \in [0 .. N -> Seq(S)] : Filters(m, ks, rows) /\ Matching(ks, rows) = m[N]
  BY MatchingSteps, ZenonT(60)
<1> HIDE DEF more
<1>3. PICK h \in [0 .. Len(more) -> Seq(S)] :
        Filters(h, ks, more) /\ Matching(ks, more) = h[Len(more)]
  BY <1>1, MatchingSteps
<1>4. N \in Nat
  OBVIOUS
<1>5. /\ h[0] = <<>> /\ m[0] = <<>>
      /\ \A n \in 1 .. N : m[n] = IF RowMatches(ks, rows[n]) THEN Append(m[n - 1], rows[n]) ELSE m[n - 1]
  BY <1>2, <1>3, Zenon DEF Filters
<1>6. \A n \in 1 .. N + 1 : h[n] = IF RowMatches(ks, more[n]) THEN Append(h[n - 1], more[n]) ELSE h[n - 1]
  BY <1>1, <1>3, Zenon DEF Filters
<1> HIDE DEF N
<1> DEFINE Good == {n \in 0 .. N : h[n] = m[n]}
<1>7. 0 \in Good
  BY <1>4, <1>5
<1>8. ASSUME NEW n \in 1 .. N, n - 1 \in Good PROVE n \in Good
  <2>1. n \in 1 .. N + 1 /\ n \in 0 .. N /\ h[n - 1] = m[n - 1] /\ more[n] = rows[n]
    <3>1. n \in 1 .. N + 1 /\ n \in 0 .. N
      BY <1>4
    <3>2. h[n - 1] = m[n - 1]
      BY <1>8
    <3> QED
      BY <1>1, <3>1, <3>2
  <2>2. h[n] = m[n]
    BY <1>5, <1>6, <2>1, Zenon
  <2> QED
    BY <2>1, <2>2
<1> HIDE DEF Good
<1>9. \A n \in 0 .. N : n \in Good
  BY <1>4, <1>7, <1>8, StepByStep
<1>10. h[N] = m[N] /\ N + 1 \in 1 .. N + 1 /\ (N + 1) - 1 = N
  BY <1>4, <1>9 DEF Good
<1>11. h[N + 1] = IF RowMatches(ks, r) THEN Append(m[N], r) ELSE m[N]
  BY <1>1, <1>6, <1>10, Zenon
<1> QED
  BY <1>1, <1>2, <1>3, <1>11, Zenon DEF more

(* Rows of a table with the match kinds ks.                                  *)
TableRow(ks) ==
  {row \in Row : /\ DOMAIN row.sets = 1 .. Len(ks) /\ Len(row.sets) = Len(ks)
                 /\ \A j \in 1 .. Len(ks) : row.sets[j] \in PlainSet}
ToRow(e, n) == [sets |-> [j \in DOMAIN e |-> ToValSetT(e[j])], action |-> n]

(* Tables have a key.                                                        *)
LEMMA KindsType ==
  ASSUME NEW ks \in Kinds
  PROVE  /\ ks \in Seq({"exact", "ternary", "range", "lpm"}) /\ Len(ks) \in Nat \ {0}
         /\ DOMAIN ks = 1 .. Len(ks)
<1>1. ks \in Seq({"exact", "ternary", "range", "lpm"}) /\ ks # <<>>
  BY KindsAssumption
<1> QED
  BY <1>1

(* valset_to_valsett leaves no range.                                        *)
LEMMA ToValSetTType == ASSUME NEW s \in ValSet PROVE ToValSetT(s) \in PlainSet
<1>1. CASE s \in Singletons
  <2>1. s.is = "singleton"
    BY <1>1 DEF Singletons
  <2> QED
    BY <1>1, <2>1 DEF ToValSetT, PlainSet
<1>2. CASE s \in Masks
  <2>1. s.is = "mask"
    BY <1>2 DEF Masks
  <2> QED
    BY <1>2, <2>1 DEF ToValSetT, PlainSet
<1>3. CASE s \in Ranges
  <2>1. s.is = "range" /\ s.lo \in Bits /\ s.hi \in Bits
    BY <1>3 DEF Ranges
  <2>2. ToValSetT(s) = [is |-> "mask", value |-> s.lo, mask |-> s.hi]
    BY <2>1 DEF ToValSetT
  <2> QED
    BY <2>1, <2>2 DEF PlainSet, Masks
<1>4. CASE s = Universal
  <2>1. s.is = "universal"
    BY <1>4 DEF Universal
  <2> QED
    BY <1>4, <2>1 DEF ToValSetT, PlainSet
<1> QED
  BY <1>1, <1>2, <1>3, <1>4 DEF ValSet

(* The row of an entry.                                                      *)
LEMMA ToRowType ==
  ASSUME NEW ks \in Kinds, NEW e \in EntriesOf(ks), NEW n \in Nat
  PROVE  /\ ToRow(e, n) \in TableRow(ks) /\ ToRow(e, n).action = n
         /\ DOMAIN e = 1 .. Len(ks)
         /\ \A j \in 1 .. Len(ks) : ToRow(e, n).sets[j] = ToValSetT(e[j])
<1>1. Len(ks) \in Nat /\ DOMAIN ks = 1 .. Len(ks)
  BY KindsType
<1>2. e \in [DOMAIN ks -> UNION {KeySets[ks[i]] : i \in DOMAIN ks}]
      /\ \A i \in DOMAIN ks : e[i] \in KeySets[ks[i]]
  BY DEF EntriesOf
<1>3. DOMAIN e = 1 .. Len(ks) /\ \A j \in 1 .. Len(ks) : e[j] \in ValSet
  BY <1>1, <1>2, SetsAssumption
<1> DEFINE sets == [j \in DOMAIN e |-> ToValSetT(e[j])]
<1>4. \A j \in 1 .. Len(ks) : sets[j] = ToValSetT(e[j]) /\ sets[j] \in PlainSet
  BY <1>3, ToValSetTType
<1>5. sets = [j \in 1 .. Len(ks) |-> sets[j]]
  BY <1>3
<1> HIDE DEF sets
<1>6. sets \in Seq(PlainSet) /\ Len(sets) = Len(ks) /\ DOMAIN sets = 1 .. Len(ks)
  BY <1>1, <1>4, <1>5
<1>7. sets \in Seq(Singletons \cup Masks \cup Lpms \cup {Universal})
  <2>1. PlainSet \subseteq Singletons \cup Masks \cup Lpms \cup {Universal}
    BY DEF PlainSet
  <2> QED
    BY <1>6, <2>1
<1>8. ToRow(e, n) = [sets |-> sets, action |-> n]
  BY DEF ToRow, sets
<1>9. ToRow(e, n) \in Row
  BY <1>7, <1>8 DEF Row
<1>10. ToRow(e, n).sets = sets /\ ToRow(e, n).action = n
  BY <1>8
<1> QED
  BY <1>3, <1>4, <1>6, <1>9, <1>10 DEF TableRow

(* The rows of the entries, numbered in their order.                         *)
LEMMA RowsOfType ==
  ASSUME NEW ks \in Kinds, NEW es \in Seq(EntriesOf(ks))
  PROVE  /\ RowsOf(es) \in Seq(TableRow(ks))
         /\ Len(RowsOf(es)) = Len(es) /\ DOMAIN RowsOf(es) = 1 .. Len(es) /\ Len(es) \in Nat
         /\ Numbered(RowsOf(es))
         /\ \A i \in 1 .. Len(es) : RowsOf(es)[i] = ToRow(es[i], i)
<1>1. DOMAIN es = 1 .. Len(es) /\ Len(es) \in Nat /\ \A i \in 1 .. Len(es) : es[i] \in EntriesOf(ks)
  OBVIOUS
<1>2. RowsOf(es) = [i \in 1 .. Len(es) |-> ToRow(es[i], i)]
  BY <1>1, Zenon DEF RowsOf, ToRow
<1>3. \A i \in 1 .. Len(es) : ToRow(es[i], i) \in TableRow(ks) /\ ToRow(es[i], i).action = i
  BY <1>1, ToRowType
<1> HIDE DEF ToRow
<1>4. RowsOf(es) \in Seq(TableRow(ks)) /\ Len(RowsOf(es)) = Len(es) /\ DOMAIN RowsOf(es) = 1 .. Len(es)
  BY <1>1, <1>2, <1>3
<1>5. \A i \in 1 .. Len(es) : RowsOf(es)[i] = ToRow(es[i], i)
  BY <1>2
<1> QED
  BY <1>1, <1>3, <1>4, <1>5 DEF Numbered

(* An entry more is a row more, at the end.                                  *)
LEMMA RowsOfAppend ==
  ASSUME NEW ks \in Kinds, NEW es \in Seq(EntriesOf(ks)), NEW e \in EntriesOf(ks)
  PROVE  RowsOf(Append(es, e)) = Append(RowsOf(es), ToRow(e, Len(es) + 1))
<1> DEFINE n == Len(es)
           more == Append(es, e)
           r == ToRow(e, n + 1)
           s == RowsOf(es)
           t == RowsOf(more)
           u == Append(s, r)
<1>1. /\ more \in Seq(EntriesOf(ks)) /\ Len(more) = n + 1 /\ more[n + 1] = e /\ n \in Nat
      /\ \A i \in 1 .. n : more[i] = es[i]
  BY AppendParts
<1> HIDE DEF more
<1>2. /\ s \in Seq(TableRow(ks)) /\ Len(s) = n /\ \A i \in 1 .. n : s[i] = ToRow(es[i], i)
  BY RowsOfType
<1>3. /\ t \in Seq(TableRow(ks)) /\ Len(t) = n + 1 /\ \A i \in 1 .. n + 1 : t[i] = ToRow(more[i], i)
  BY <1>1, RowsOfType
<1>4. r \in TableRow(ks)
  BY <1>1, ToRowType
<1> HIDE DEF r, s, t
<1>5. u \in Seq(TableRow(ks)) /\ Len(u) = Len(s) + 1 /\ u[Len(s) + 1] = r /\ \A i \in 1 .. Len(s) : u[i] = s[i]
  BY <1>2, <1>4, AppendParts
<1> HIDE DEF u
<1>6. ASSUME NEW i \in 1 .. n + 1 PROVE t[i] = u[i]
  <2>1. CASE i = n + 1
    BY <1>1, <1>2, <1>3, <1>5, <2>1 DEF r
  <2>2. CASE i # n + 1
    <3>1. i \in 1 .. n
      BY <1>1, <2>2
    <3> QED
      BY <1>1, <1>2, <1>3, <1>5, <3>1
  <2> QED
    BY <2>1, <2>2
<1>7. t = u
  BY <1>2, <1>3, <1>5, <1>6, SameList
<1> QED
  BY <1>7 DEF t, u, r, s, more

(* The rows of filter_lpm_prod, before they are sorted.                      *)
PickSet(index, row) == [row EXCEPT !.sets = <<@[index]>>]
Picked(index, rows) == [i \in DOMAIN rows |-> PickSet(index, rows[i])]

(* Such a row has one set and keeps its action.                              *)
LEMMA PickSetType ==
  ASSUME NEW ks \in Kinds, NEW index \in 1 .. Len(ks), NEW row \in TableRow(ks)
  PROVE  /\ PickSet(index, row) \in SetRow
         /\ PickSet(index, row).action = row.action
         /\ PickSet(index, row).sets[1] = row.sets[index]
<1>1. row = [sets |-> row.sets, action |-> row.action] /\ row.action \in Nat
  BY DEF TableRow, Row
<1>2. PickSet(index, row) = [sets |-> <<row.sets[index]>>, action |-> row.action]
  BY <1>1 DEF PickSet
<1>3. row.sets[index] \in PlainSet
  BY DEF TableRow
<1>4. <<row.sets[index]>> \in Seq(Singletons \cup Masks \cup Lpms \cup {Universal})
  BY <1>3 DEF PlainSet
<1> HIDE DEF PickSet
<1>5. PickSet(index, row) \in Row
  BY <1>1, <1>2, <1>4 DEF Row
<1> QED
  BY <1>2, <1>3, <1>5 DEF SetRow

(* ... and so has each of a list.                                            *)
LEMMA PickedType ==
  ASSUME NEW ks \in Kinds, NEW index \in 1 .. Len(ks), NEW rows \in Seq(TableRow(ks))
  PROVE  /\ Picked(index, rows) \in Seq(SetRow) /\ Len(Picked(index, rows)) = Len(rows)
         /\ \A i \in 1 .. Len(rows) : Picked(index, rows)[i] = PickSet(index, rows[i])
<1>1. DOMAIN rows = 1 .. Len(rows) /\ Len(rows) \in Nat /\ \A i \in 1 .. Len(rows) : rows[i] \in TableRow(ks)
  OBVIOUS
<1>2. Picked(index, rows) = [i \in 1 .. Len(rows) |-> PickSet(index, rows[i])]
  BY <1>1, Zenon DEF Picked
<1>3. \A i \in 1 .. Len(rows) : PickSet(index, rows[i]) \in SetRow
  BY <1>1, PickSetType
<1> QED
  BY <1>1, <1>2, <1>3

(* A row more at the end is one more at the end.                             *)
LEMMA PickedAppend ==
  ASSUME NEW ks \in Kinds, NEW index \in 1 .. Len(ks), NEW rows \in Seq(TableRow(ks)),
         NEW r \in TableRow(ks)
  PROVE  Picked(index, Append(rows, r)) = Append(Picked(index, rows), PickSet(index, r))
<1> DEFINE n == Len(rows)
           more == Append(rows, r)
           x == PickSet(index, r)
           s == Picked(index, rows)
           t == Picked(index, more)
           u == Append(s, x)
<1>1. /\ more \in Seq(TableRow(ks)) /\ Len(more) = n + 1 /\ more[n + 1] = r /\ n \in Nat
      /\ \A i \in 1 .. n : more[i] = rows[i]
  BY AppendParts
<1> HIDE DEF more
<1>2. s \in Seq(SetRow) /\ Len(s) = n /\ \A i \in 1 .. n : s[i] = PickSet(index, rows[i])
  BY PickedType
<1>3. t \in Seq(SetRow) /\ Len(t) = n + 1 /\ \A i \in 1 .. n + 1 : t[i] = PickSet(index, more[i])
  BY <1>1, PickedType
<1>4. x \in SetRow
  BY PickSetType
<1> HIDE DEF x, s, t
<1>5. u \in Seq(SetRow) /\ Len(u) = Len(s) + 1 /\ u[Len(s) + 1] = x /\ \A i \in 1 .. Len(s) : u[i] = s[i]
  BY <1>2, <1>4, AppendParts
<1> HIDE DEF u
<1>6. ASSUME NEW i \in 1 .. n + 1 PROVE t[i] = u[i]
  <2>1. CASE i = n + 1
    BY <1>1, <1>2, <1>3, <1>5, <2>1 DEF x
  <2>2. CASE i # n + 1
    <3>1. i \in 1 .. n
      BY <1>1, <2>2
    <3> QED
      BY <1>1, <1>2, <1>3, <1>5, <3>1
  <2> QED
    BY <2>1, <2>2
<1>7. t = u
  BY <1>2, <1>3, <1>5, <1>6, SameList
<1> QED
  BY <1>7 DEF t, u, x, s, more

(* The entries of the initial table have the sets its keys need.             *)
LEMMA TypeInit == Init => TypeOK
<1> SUFFICES ASSUME Init PROVE TypeOK
  OBVIOUS
<1>1. kinds \in Kinds /\ installed = <<>> /\ const \in ConstTablesOf(kinds) \cup {NoConst}
  BY DEF Init
<1>2. ASSUME const # NoConst PROVE const \in Seq(EntriesOf(kinds)) /\ Len(const) <= MaxConst
  <2>1. PICK n \in 0 .. MaxConst : const \in [1 .. n -> EntriesOf(kinds)]
    BY <1>1, <1>2 DEF ConstTablesOf
  <2>2. n \in Nat
    OBVIOUS
  <2>3. const \in Seq(EntriesOf(kinds)) /\ Len(const) = n
    BY <2>1, <2>2
  <2> QED
    BY <2>3, WidthAssumption
<1>3. installed \in Seq(EntriesOf(kinds)) /\ Len(installed) = 0
  BY <1>1
<1> QED
  BY <1>1, <1>2, <1>3, WidthAssumption DEF TypeOK

(* ... so have those that a lookup reads.                                    *)
LEMMA EntriesType ==
  ASSUME TypeOK
  PROVE  /\ Entries \in Seq(EntriesOf(kinds)) /\ kinds \in Kinds
         /\ Len(installed) <= Size /\ Len(installed) \in Nat
<1>1. kinds \in Kinds /\ installed \in Seq(EntriesOf(kinds))
  BY DEF TypeOK
<1>2. CASE const = NoConst
  BY <1>1, <1>2 DEF Entries, Size
<1>3. CASE const # NoConst
  <2>1. const \in Seq(EntriesOf(kinds))
    BY <1>3 DEF TypeOK
  <2>2. Len(const) \in Nat /\ Len(installed) \in Nat
    BY <1>1, <2>1
  <2>3. Size = Len(installed) + Len(const)
    BY <1>3 DEF Size
  <2> QED
    BY <1>1, <1>3, <2>1, <2>2, <2>3 DEF Entries
<1> QED
  BY <1>2, <1>3

(* An entry that is added has them, too.                                     *)
LEMMA TypeNext == TypeOK /\ [Next]_vars => TypeOK'
<1> SUFFICES ASSUME TypeOK, [Next]_vars PROVE TypeOK'
  OBVIOUS
<1>1. CASE UNCHANGED vars
  BY <1>1 DEF TypeOK, vars, EntriesOf
<1>2. ASSUME NEW e \in EntriesOf(kinds), AddEntry(e) PROVE TypeOK'
  <2>1. kinds' = kinds /\ const' = const /\ installed' = Append(installed, e) /\ Size < MaxEntries
    BY <1>2 DEF AddEntry
  <2>2. EntriesOf(kinds)' = EntriesOf(kinds)
    BY <2>1 DEF EntriesOf
  <2>3. installed \in Seq(EntriesOf(kinds)) /\ Len(installed) \in Nat /\ Len(installed) < MaxEntries
    <3>1. Len(installed) <= Size /\ Len(installed) \in Nat /\ Size \in Nat
      <4>1. CASE const = NoConst
        BY <4>1, EntriesType DEF Size
      <4>2. CASE const # NoConst
        <5>1. Len(const) \in Nat
          BY <4>2 DEF TypeOK
        <5> QED
          BY <4>2, <5>1, EntriesType DEF Size
      <4> QED
        BY <4>1, <4>2
    <3> QED
      BY <2>1, <3>1, WidthAssumption DEF TypeOK
  <2>4. /\ Append(installed, e) \in Seq(EntriesOf(kinds))
        /\ Len(Append(installed, e)) = Len(installed) + 1
    BY <2>3, AppendParts
  <2>5. installed' \in Seq(EntriesOf(kinds)) /\ Len(installed') <= MaxEntries
    BY <2>1, <2>3, <2>4, WidthAssumption
  <2>6. kinds \in Kinds /\ (const # NoConst => const \in Seq(EntriesOf(kinds)) /\ Len(const) <= MaxConst)
    BY DEF TypeOK
  <2> QED
    BY <2>1, <2>2, <2>5, <2>6 DEF TypeOK
<1>3. CASE Full
  BY <1>1, <1>3 DEF Full
<1> QED
  BY <1>1, <1>2, <1>3 DEF Next

(* Every entry has a set for each key, in a table as declared and as         *)
(* extended by add_entry, and the bounds on their number hold.               *)
THEOREM TypesHold == Spec => []TypeOK
BY TypeInit, TypeNext, PTL DEF Spec

-----------------------------------------------------------------------------
(* Tables with one lpm key.                                                  *)
LEMMA TheLpmKey ==
  ASSUME kinds \in Kinds, LpmKeys # {}, OneLpmKey
  PROVE  /\ LpmIndex \in 1 .. Len(kinds) /\ LpmKeys = {LpmIndex}
         /\ kinds = <<"lpm">> <=> Len(kinds) = 1
         /\ Len(kinds) \in Nat \ {0} /\ DOMAIN kinds = 1 .. Len(kinds)
<1>1. Len(kinds) \in Nat \ {0} /\ DOMAIN kinds = 1 .. Len(kinds)
      /\ kinds \in Seq({"exact", "ternary", "range", "lpm"})
  BY KindsType
<1>2. LpmIndex \in LpmKeys
  BY Zenon DEF LpmIndex
<1>3. LpmKeys = {LpmIndex}
  BY <1>2 DEF OneLpmKey
<1>4. LpmIndex \in 1 .. Len(kinds) /\ kinds[LpmIndex] = "lpm"
  BY <1>1, <1>2 DEF LpmKeys
<1>5. ASSUME Len(kinds) = 1 PROVE kinds = <<"lpm">>
  <2>1. LpmIndex = 1
    BY <1>4, <1>5
  <2>2. kinds[1] = "lpm"
    BY <1>4, <2>1
  <2> QED
    BY <1>1, <1>5, <2>2
<1>6. kinds = <<"lpm">> => Len(kinds) = 1
  OBVIOUS
<1> QED
  BY <1>1, <1>3, <1>4, <1>5, <1>6

(* What is sorted for a lookup.                                              *)
Basis(ks, es) == IF Len(kinds) = 1 THEN RowsOf(es)
                 ELSE Picked(LpmIndex, Matching(ks, RowsOf(es)))

(* The rows of a table with one key have one set.                            *)
LEMMA SingleKeyRows ==
  ASSUME NEW ks \in Kinds, Len(ks) = 1, NEW row \in TableRow(ks)
  PROVE  row \in SetRow
BY DEF TableRow, SetRow

(* What matches are rows.                                                    *)
LEMMA MatchingType ==
  ASSUME NEW S, NEW ks, NEW rows \in Seq(S)
  PROVE  Matching(ks, rows) \in Seq(S)
<1>1. PICK m \in [0 .. Len(rows) -> Seq(S)] :
        Filters(m, ks, rows) /\ Matching(ks, rows) = m[Len(rows)]
  BY MatchingSteps, ZenonT(60)
<1>2. Len(rows) \in 0 .. Len(rows)
  OBVIOUS
<1> QED
  BY <1>1, <1>2

(* What is sorted are rows with one set.                                     *)
LEMMA BasisType ==
  ASSUME kinds \in Kinds, LpmKeys # {}, OneLpmKey, NEW ks, NEW es \in Seq(EntriesOf(kinds))
  PROVE  Basis(ks, es) \in Seq(SetRow)
<1>1. RowsOf(es) \in Seq(TableRow(kinds))
  BY RowsOfType
<1>2. CASE Len(kinds) = 1
  <2>1. TableRow(kinds) \subseteq SetRow
    BY <1>2, SingleKeyRows
  <2> QED
    BY <1>1, <1>2, <2>1 DEF Basis
<1>3. CASE Len(kinds) # 1
  <2>1. Matching(ks, RowsOf(es)) \in Seq(TableRow(kinds))
    BY <1>1, MatchingType
  <2>2. Picked(LpmIndex, Matching(ks, RowsOf(es))) \in Seq(SetRow)
    BY <2>1, TheLpmKey, PickedType
  <2> QED
    BY <1>3, <2>2 DEF Basis
<1> QED
  BY <1>2, <1>3

(* A lookup in such a table sorts these rows and takes the first match.      *)
LEMMA MatchIs ==
  ASSUME kinds \in Kinds, LpmKeys # {}, OneLpmKey,
         NEW ks \in KeysOf(kinds), NEW es
  PROVE  Match(ks, es) = FirstMatch(<<ks[LpmIndex]>>, SortLpm(Basis(ks, es)))
<1>1. ~\E i, j \in LpmKeys : i # j
  BY DEF OneLpmKey
<1>2. Match(ks, es) = IF kinds = <<"lpm">> THEN FirstMatch(ks, SortLpm(RowsOf(es)))
                      ELSE FirstMatch(<<ks[LpmIndex]>>, FilterLpmProd(LpmIndex, ks, RowsOf(es)))
  <2> DEFINE a == FirstMatch(ks, SortLpm(RowsOf(es)))
             b == FirstMatch(<<ks[LpmIndex]>>, FilterLpmProd(LpmIndex, ks, RowsOf(es)))
             c == FirstMatch(ks, RowsOf(es))
             several == \E i, j \in LpmKeys : i # j
  <2>1. Match(ks, es) = IF several THEN Miss ELSE IF kinds = <<"lpm">> THEN a
                        ELSE IF LpmKeys # {} THEN b ELSE c
    BY Zenon DEF Match, LpmIndex
  <2>2. ~several /\ LpmKeys # {}
    BY <1>1
  <2> HIDE DEF a, b, c, several
  <2>3. Match(ks, es) = IF kinds = <<"lpm">> THEN a ELSE b
    BY <2>1, <2>2
  <2> QED
    BY <2>3 DEF a, b
<1>3. CASE kinds = <<"lpm">>
  <2>1. Len(kinds) = 1 /\ LpmIndex = 1 /\ DOMAIN kinds = 1 .. 1
    BY <1>3, TheLpmKey
  <2>2. ks \in [1 .. 1 -> Bits]
    BY <2>1 DEF KeysOf
  <2>3. ks = <<ks[1]>>
    BY <2>2
  <2> QED
    BY <1>2, <1>3, <2>1, <2>3, Zenon DEF Basis
<1>4. CASE kinds # <<"lpm">>
  <2>1. Len(kinds) # 1
    BY <1>4, TheLpmKey
  <2>2. FilterLpmProd(LpmIndex, ks, RowsOf(es)) = SortLpm(Basis(ks, es))
    BY <2>1, Zenon DEF FilterLpmProd, Basis, Picked, PickSet
  <2> QED
    BY <1>2, <1>4, <2>2
<1> QED
  BY <1>3, <1>4

(* The rows that are sorted for a lookup stand for rows of the table.        *)
Stands(q, ks, rows) ==
  /\ \A k \in 1 .. Len(q) :
       /\ q[k].action \in 1 .. Len(rows)
       /\ q[k].sets[1] = rows[q[k].action].sets[LpmIndex]
       /\ Len(kinds) > 1 => RowMatches(ks, rows[q[k].action])
  /\ \A i \in 1 .. Len(rows) :
       (Len(kinds) > 1 => RowMatches(ks, rows[i])) => \E k \in 1 .. Len(q) : q[k].action = i
  /\ \A k, l \in 1 .. Len(q) : k < l => q[k].action < q[l].action

(* Those of a lookup do, in the order of the entries.                        *)
LEMMA BasisStands ==
  ASSUME kinds \in Kinds, LpmKeys # {}, OneLpmKey, NEW ks, NEW es \in Seq(EntriesOf(kinds))
  PROVE  Stands(Basis(ks, es), ks, RowsOf(es))
<1> DEFINE rows == RowsOf(es)
           q == Basis(ks, es)
<1>1. rows \in Seq(TableRow(kinds)) /\ Numbered(rows) /\ Len(rows) \in Nat
  BY RowsOfType
<1>2. LpmIndex \in 1 .. Len(kinds) /\ Len(kinds) \in Nat \ {0}
  BY TheLpmKey
<1>3. CASE Len(kinds) = 1
  <2>1. q = rows /\ LpmIndex = 1 /\ ~(Len(kinds) > 1)
    BY <1>2, <1>3 DEF Basis
  <2> HIDE DEF q, rows
  <2>2. \A k \in 1 .. Len(rows) : rows[k].action = k
    BY <1>1 DEF Numbered
  <2>3. Stands(q, ks, rows)
    BY <1>1, <2>1, <2>2 DEF Stands
  <2> QED
    BY <2>3 DEF q, rows
<1>4. CASE Len(kinds) # 1
  <2> DEFINE m == Matching(ks, rows)
  <2>1. q = Picked(LpmIndex, m)
    BY <1>4 DEF Basis
  <2> HIDE DEF q, rows
  <2>2. /\ m \in Seq(TableRow(kinds))
        /\ \A k \in 1 .. Len(m) : /\ m[k].action \in 1 .. Len(rows)
                                  /\ m[k] = rows[m[k].action] /\ RowMatches(ks, m[k])
        /\ \A i \in 1 .. Len(rows) : RowMatches(ks, rows[i]) =>
             \E k \in 1 .. Len(m) : m[k] = rows[i]
        /\ \A k, l \in 1 .. Len(m) : k < l => m[k].action < m[l].action
    BY <1>1, MatchingIs
  <2> HIDE DEF m
  <2>3. /\ Len(q) = Len(m) /\ Len(m) \in Nat
        /\ \A k \in 1 .. Len(m) : q[k] = PickSet(LpmIndex, m[k])
    BY <1>2, <2>1, <2>2, PickedType
  <2>4. \A k \in 1 .. Len(m) : q[k].action = m[k].action /\ q[k].sets[1] = m[k].sets[LpmIndex]
    <3>1. \A k \in 1 .. Len(m) : m[k] \in TableRow(kinds)
      BY <2>2
    <3> QED
      BY <1>2, <2>3, <3>1, PickSetType
  <2>5. Len(kinds) > 1 /\ \A i \in 1 .. Len(rows) : rows[i].action = i
    <3>1. \A i \in 1 .. Len(rows) : rows[i].action = i
      BY <1>1 DEF Numbered
    <3> DEFINE n == Len(kinds)
    <3>2. n \in Nat \ {0} /\ n # 1
      BY <1>2, <1>4
    <3> HIDE DEF n
    <3>3. n > 1
      BY <3>2
    <3> QED
      BY <3>1, <3>3 DEF n
  <2>6. ASSUME NEW k \in 1 .. Len(q)
        PROVE  /\ q[k].action \in 1 .. Len(rows)
               /\ q[k].sets[1] = rows[q[k].action].sets[LpmIndex]
               /\ RowMatches(ks, rows[q[k].action])
    BY <2>2, <2>3, <2>4
  <2>7. ASSUME NEW i \in 1 .. Len(rows), RowMatches(ks, rows[i])
        PROVE  \E k \in 1 .. Len(q) : q[k].action = i
    <3>1. PICK k \in 1 .. Len(m) : m[k] = rows[i]
      BY <2>2, <2>7
    <3> QED
      BY <2>3, <2>4, <2>5, <3>1
  <2>8. \A k, l \in 1 .. Len(q) : k < l => q[k].action < q[l].action
    BY <2>2, <2>3, <2>4
  <2>9. Stands(q, ks, rows)
    BY <2>5, <2>6, <2>7, <2>8 DEF Stands
  <2> QED
    BY <2>9 DEF q, rows
<1> QED
  BY <1>3, <1>4

(* Matching a row with one set.                                              *)
LEMMA OneSetMatches ==
  ASSUME NEW k, NEW row, NEW x, row.sets = <<x>>
  PROVE  RowMatches(<<k>>, row) <=> SetMatches(k, x)
<1>1. DOMAIN row.sets = {1} /\ row.sets[1] = x
  OBVIOUS
<1>2. <<k>>[1] = k
  OBVIOUS
<1> QED
  BY <1>1, <1>2, Zenon DEF RowMatches

(* A sorted row and the entry it comes from.                                 *)
LEMMA StandsFor ==
  ASSUME NEW q \in Seq(SetRow), NEW ks, Stands(q, ks, Rows), NEW c \in 1 .. Len(q)
  PROVE  LET i == q[c].action
         IN  /\ i \in 1 .. Len(Rows) /\ (Len(kinds) > 1 => RowMatches(ks, Rows[i]))
             /\ Reduced(q[c]).action = i
             /\ RowMatches(<<ks[LpmIndex]>>, Reduced(q[c])) <=> SetMatches(ks[LpmIndex], Prefix(i))
             /\ Prefix(i) = NotLpm <=> NoPrefix(q[c])
             /\ IsDefault(i) <=> Default(q[c])
             /\ Length(i) = PrefixLength(Reduced(q[c]))
             /\ ~NoPrefix(q[c]) => Length(i) \in Nat
<1> DEFINE i == q[c].action
           row == q[c]
<1>1. row \in SetRow
  OBVIOUS
<1> HIDE DEF row
<1>2. i \in 1 .. Len(Rows) /\ (Len(kinds) > 1 => RowMatches(ks, Rows[i])) /\ row.sets[1] = Rows[i].sets[LpmIndex]
  BY DEF Stands, row
<1>3. Prefix(i) = LpmSet(row.sets[1])
  BY <1>2 DEF Prefix
<1>4. /\ Reduced(row).sets = <<LpmSet(row.sets[1])>> /\ Reduced(row).sets[1] = LpmSet(row.sets[1])
      /\ Reduced(row).action = row.action
  BY <1>1, ReducedParts
<1>5. RowMatches(<<ks[LpmIndex]>>, Reduced(row)) <=> SetMatches(ks[LpmIndex], Prefix(i))
  BY <1>3, <1>4, OneSetMatches
<1>6. (Prefix(i) = NotLpm <=> NoPrefix(row)) /\ (IsDefault(i) <=> Default(row))
  BY <1>1, <1>3, OneOfThree, Zenon DEF NoPrefix, IsDefault
<1>7. Length(i) = PrefixLength(Reduced(row))
  BY <1>3, <1>4, Zenon DEF Length, IsDefault, PrefixLength, Nbits
<1>8. ASSUME ~NoPrefix(row) PROVE Length(i) \in Nat
  <2>1. CASE IsDefault(i)
    BY <2>1 DEF Length
  <2>2. CASE ~IsDefault(i)
    <3>1. Prefix(i) \in Lpms
      BY <1>1, <1>3, <1>6, <1>8, <2>2, OneOfThree DEF PrefixRow
    <3> QED
      BY <2>2, <3>1, WidthAssumption DEF Length, Lpms
  <2> QED
    BY <2>1, <2>2
<1> QED
  BY <1>2, <1>4, <1>5, <1>6, <1>7, <1>8 DEF row

(* The first default is kept by sort_lpm.                                    *)
LEMMA DefaultKept ==
  ASSUME NEW rows \in Seq(SetRow), NEW s, LpmResult(rows, s),
         NEW d \in 1 .. Len(rows), Default(rows[d])
  PROVE  \E e \in 1 .. d, k \in 1 .. Len(s) : Default(rows[e]) /\ s[k] = Reduced(rows[e])
<1> DEFINE D == {e \in 1 .. Len(rows) : Default(rows[e])}
<1>1. D \subseteq Nat /\ d \in D
  OBVIOUS
<1>2. PICK e \in D : \A f \in D : e <= f
  BY <1>1, Least
<1>3. e \in 1 .. Len(rows) /\ Default(rows[e]) /\ e <= d
  BY <1>1, <1>2
<1>4. ~\E f \in 1 .. e - 1 : Default(rows[f])
  <2> SUFFICES ASSUME NEW f \in 1 .. e - 1, Default(rows[f]) PROVE FALSE
    OBVIOUS
  <2>1. f \in D /\ ~(e <= f)
    BY <1>3
  <2> QED
    BY <1>2, <2>1
<1>5. PICK k \in 1 .. Len(s) : s[k] = Reduced(rows[e])
  BY <1>3, <1>4 DEF LpmResult
<1>6. e \in 1 .. d
  BY <1>3
<1> QED
  BY <1>3, <1>5, <1>6

(* sort_lpm returns a list.                                                  *)
LEMMA SortLpmType ==
  ASSUME NEW q \in Seq(SetRow)
  PROVE  DOMAIN SortLpm(q) = 1 .. Len(SortLpm(q)) /\ Len(SortLpm(q)) \in Nat
<1>1. CASE \E i \in 1 .. Len(q) : NoPrefix(q[i])
  <2>1. SortLpm(q) = <<>>
    BY <1>1, SortLpmNone
  <2> QED
    BY <2>1
<1>2. CASE \A i \in 1 .. Len(q) : ~NoPrefix(q[i])
  <2>1. LpmResult(q, SortLpm(q))
    BY <1>2, SortLpmResult
  <2> HIDE DEF SortLpm
  <2> QED
    BY <2>1 DEF LpmResult
<1> QED
  BY <1>1, <1>2

(* A default matches every key.                                              *)
LEMMA UniversalMatches == ASSUME NEW k, NEW s, s.is = "universal" PROVE SetMatches(k, s)
BY DEF SetMatches

(* The two preceding facts for the entries of a state.                       *)
LEMMA LookupSorts ==
  ASSUME TypeOK, LpmKeys # {}, OneLpmKey, NEW ks \in KeysOf(kinds)
  PROVE  LET q == Basis(ks, Entries)
         IN  /\ q \in Seq(SetRow) /\ Stands(q, ks, Rows)
             /\ Lookup(ks) = FirstMatch(<<ks[LpmIndex]>>, SortLpm(q))
             /\ DOMAIN Rows = 1 .. Len(Rows) /\ Len(Rows) \in Nat
<1>1. Entries \in Seq(EntriesOf(kinds)) /\ kinds \in Kinds
  BY EntriesType
<1>2. Basis(ks, Entries) \in Seq(SetRow)
  BY <1>1, BasisType
<1>3. Stands(Basis(ks, Entries), ks, Rows)
  BY <1>1, BasisStands DEF Rows
<1>4. Lookup(ks) = FirstMatch(<<ks[LpmIndex]>>, SortLpm(Basis(ks, Entries)))
  BY <1>1, MatchIs DEF Lookup
<1>5. RowsOf(Entries) \in Seq(TableRow(kinds))
  BY <1>1, RowsOfType
<1>6. DOMAIN Rows = 1 .. Len(Rows) /\ Len(Rows) \in Nat
  BY <1>5 DEF Rows
<1> QED
  BY <1>2, <1>3, <1>4, <1>6

(* What a lookup that hits has found.                                        *)
LEMMA HitIsBest ==
  ASSUME TypeOK, LpmKeys # {}, OneLpmKey, NEW ks \in KeysOf(kinds), Lookup(ks) # Miss
  PROVE  LET a == Lookup(ks)
         IN  /\ a \in DOMAIN Rows /\ Candidate(a, ks)
             /\ \A j \in DOMAIN Rows : Candidate(j, ks) /\ Length(j) > Length(a) =>
                  \E d \in 1 .. j - 1 : IsDefault(d) /\ Candidate(d, ks)
<1> DEFINE q == Basis(ks, Entries)
           s == SortLpm(q)
           k == ks[LpmIndex]
           a == Lookup(ks)
<1>1. /\ q \in Seq(SetRow) /\ Stands(q, ks, Rows) /\ a = FirstMatch(<<k>>, s)
      /\ DOMAIN Rows = 1 .. Len(Rows) /\ Len(Rows) \in Nat
  BY LookupSorts
<1> HIDE DEF q
<1>2. DOMAIN s = 1 .. Len(s) /\ Len(s) \in Nat
  BY <1>1, SortLpmType
<1>3. PICK m : FirstFound(<<k>>, s, m)
  <2> HIDE DEF s
  <2>1. ~NoneFound(<<k>>, s)
    BY <1>1 DEF NoneFound
  <2> QED
    BY <1>2, <2>1, FirstMatchIs
<1>4. \A i \in 1 .. Len(q) : ~NoPrefix(q[i])
  <2> SUFFICES ASSUME NEW i \in 1 .. Len(q), NoPrefix(q[i]) PROVE FALSE
    OBVIOUS
  <2>1. s = <<>>
    BY <1>1, SortLpmNone
  <2>2. m \in 1 .. Len(s)
    BY <1>3 DEF FirstFound
  <2> QED
    BY <2>1, <2>2
<1>5. LpmResult(q, s)
  BY <1>1, <1>4, SortLpmResult
<1> HIDE DEF s, a, k
<1>6. /\ m \in 1 .. Len(s) /\ RowMatches(<<k>>, s[m]) /\ a = s[m].action
      /\ \A j \in 1 .. m - 1 : ~RowMatches(<<k>>, s[j])
  BY <1>1, <1>3 DEF FirstFound
<1>7. PICK c \in 1 .. Len(q) : s[m] = Reduced(q[c])
  BY <1>5, <1>6 DEF LpmResult
<1>8. \A x \in 1 .. Len(q) :
        /\ q[x].action \in 1 .. Len(Rows) /\ (Len(kinds) > 1 => RowMatches(ks, Rows[q[x].action]))
        /\ Reduced(q[x]).action = q[x].action
        /\ RowMatches(<<k>>, Reduced(q[x])) <=> SetMatches(k, Prefix(q[x].action))
        /\ Prefix(q[x].action) = NotLpm <=> NoPrefix(q[x])
        /\ IsDefault(q[x].action) <=> Default(q[x])
        /\ Length(q[x].action) = PrefixLength(Reduced(q[x]))
        /\ ~NoPrefix(q[x]) => Length(q[x].action) \in Nat
  BY <1>1, StandsFor DEF k
<1>9. a = q[c].action /\ a \in DOMAIN Rows
  BY <1>1, <1>6, <1>7, <1>8
<1>10. Candidate(a, ks)
  <2>1. Prefix(a) # NotLpm
    BY <1>4, <1>8, <1>9
  <2>2. SetMatches(k, Prefix(a))
    BY <1>6, <1>7, <1>8, <1>9
  <2>3. Len(kinds) > 1 => RowMatches(ks, Rows[a])
    BY <1>8, <1>9
  <2> QED
    BY <2>1, <2>2, <2>3 DEF Candidate, k
<1>11. ASSUME NEW j \in DOMAIN Rows, Candidate(j, ks), Length(j) > Length(a)
       PROVE  \E d \in 1 .. j - 1 : IsDefault(d) /\ Candidate(d, ks)
  <2>1. j \in 1 .. Len(Rows) /\ (Len(kinds) > 1 => RowMatches(ks, Rows[j])) /\ SetMatches(k, Prefix(j))
    BY <1>1, <1>11 DEF Candidate, k
  <2>2. PICK x \in 1 .. Len(q) : q[x].action = j
    BY <1>1, <2>1 DEF Stands
  <2>3. ~\E l \in 1 .. Len(s) : s[l] = Reduced(q[x])
    <3> SUFFICES ASSUME NEW l \in 1 .. Len(s), s[l] = Reduced(q[x]) PROVE FALSE
      OBVIOUS
    <3>1. RowMatches(<<k>>, s[l])
      BY <1>8, <2>1, <2>2
    <3>2. m <= l
      BY <1>2, <1>6, <3>1
    <3>3. PrefixLength(s[l]) <= PrefixLength(s[m])
      <4>1. CASE l = m
        <5>1. PrefixLength(s[l]) \in Nat
          BY <1>4, <1>8
        <5> QED
          BY <4>1, <5>1
      <4>2. CASE l # m
        <5>1. m < l
          BY <1>2, <1>6, <3>2, <4>2
        <5> QED
          BY <1>5, <1>6, <5>1 DEF LpmResult
      <4> QED
        BY <4>1, <4>2
    <3>4. Length(j) = PrefixLength(s[l]) /\ Length(a) = PrefixLength(s[m])
          /\ Length(j) \in Nat /\ Length(a) \in Nat
      BY <1>4, <1>7, <1>8, <1>9, <2>2
    <3> QED
      BY <1>11, <3>3, <3>4
  <2>4. PICK y \in 1 .. x - 1 : Default(q[y])
    BY <1>5, <2>3 DEF LpmResult
  <2>5. y \in 1 .. Len(q) /\ y < x
    BY <1>1
  <2> DEFINE d == q[y].action
  <2>6. d \in 1 .. Len(Rows) /\ d < j
    BY <1>1, <1>8, <2>2, <2>5 DEF Stands
  <2> HIDE DEF d
  <2>7. d \in 1 .. j - 1
    BY <1>1, <2>1, <2>6
  <2>8. IsDefault(d) /\ Prefix(d) # NotLpm /\ (Len(kinds) > 1 => RowMatches(ks, Rows[d]))
    BY <1>4, <1>8, <2>4, <2>5 DEF d
  <2>9. SetMatches(k, Prefix(d))
    BY <2>8, UniversalMatches DEF IsDefault
  <2> QED
    BY <2>7, <2>8, <2>9 DEF Candidate, k
<1> QED
  BY <1>9, <1>10, <1>11 DEF a

(* A lookup misses exactly when it must.                                     *)
LEMMA MissIsJust ==
  ASSUME TypeOK, LpmKeys # {}, OneLpmKey, NEW ks \in KeysOf(kinds)
  PROVE  Lookup(ks) = Miss <=>
        \/ \A i \in DOMAIN Rows : ~Candidate(i, ks)
        \/ \E i \in DOMAIN Rows : /\ Prefix(i) = NotLpm
                                  /\ Len(kinds) > 1 => RowMatches(ks, Rows[i])
<1> DEFINE q == Basis(ks, Entries)
           s == SortLpm(q)
           k == ks[LpmIndex]
           a == Lookup(ks)
           NoCandidate == \A i \in DOMAIN Rows : ~Candidate(i, ks)
           Unsorted == \E i \in DOMAIN Rows : /\ Prefix(i) = NotLpm
                                              /\ Len(kinds) > 1 => RowMatches(ks, Rows[i])
<1>1. /\ q \in Seq(SetRow) /\ Stands(q, ks, Rows) /\ a = FirstMatch(<<k>>, s)
      /\ DOMAIN Rows = 1 .. Len(Rows) /\ Len(Rows) \in Nat
  BY LookupSorts
<1> HIDE DEF q
<1>2. DOMAIN s = 1 .. Len(s) /\ Len(s) \in Nat
  BY <1>1, SortLpmType
<1>3. \A x \in 1 .. Len(q) :
        /\ q[x].action \in 1 .. Len(Rows) /\ (Len(kinds) > 1 => RowMatches(ks, Rows[q[x].action]))
        /\ Reduced(q[x]).action = q[x].action
        /\ RowMatches(<<k>>, Reduced(q[x])) <=> SetMatches(k, Prefix(q[x].action))
        /\ Prefix(q[x].action) = NotLpm <=> NoPrefix(q[x])
        /\ IsDefault(q[x].action) <=> Default(q[x])
  BY <1>1, StandsFor
<1>4. ASSUME NoCandidate PROVE a = Miss
  BY <1>4, HitIsBest
<1>5. ASSUME Unsorted PROVE a = Miss
  <2>1. PICK i \in 1 .. Len(Rows) : Prefix(i) = NotLpm /\ (Len(kinds) > 1 => RowMatches(ks, Rows[i]))
    BY <1>1, <1>5
  <2>2. PICK x \in 1 .. Len(q) : q[x].action = i
    BY <1>1, <2>1 DEF Stands
  <2>3. s = <<>>
    BY <1>1, <1>3, <2>1, <2>2, SortLpmNone
  <2>4. DOMAIN s = {}
    BY <2>3
  <2> HIDE DEF s
  <2> QED
    BY <1>1, <2>4 DEF FirstMatch
<1>6. ASSUME a = Miss, ~Unsorted PROVE NoCandidate
  <2>1. \A x \in 1 .. Len(q) : ~NoPrefix(q[x])
    BY <1>1, <1>3, <1>6
  <2>2. LpmResult(q, s)
    BY <1>1, <2>1, SortLpmResult
  <2> HIDE DEF s, a, k, Unsorted
  <2>3. NoneFound(<<k>>, s)
    <3> SUFFICES ASSUME NEW m, FirstFound(<<k>>, s, m) PROVE FALSE
      BY <1>2, FirstMatchIs
    <3>1. m \in 1 .. Len(s) /\ a = s[m].action
      BY <1>1 DEF FirstFound
    <3>2. PICK c \in 1 .. Len(q) : s[m] = Reduced(q[c])
      BY <2>2, <3>1 DEF LpmResult
    <3>3. a \in 1 .. Len(Rows)
      BY <1>3, <3>1, <3>2
    <3> QED
      BY <1>1, <1>6, <3>3 DEF Miss
  <2>4. SUFFICES ASSUME NEW j \in DOMAIN Rows, Candidate(j, ks) PROVE FALSE
    OBVIOUS
  <2>5. j \in 1 .. Len(Rows) /\ (Len(kinds) > 1 => RowMatches(ks, Rows[j])) /\ SetMatches(k, Prefix(j))
    BY <1>1, <2>4 DEF Candidate, k
  <2>6. PICK x \in 1 .. Len(q) : q[x].action = j
    BY <1>1, <2>5 DEF Stands
  <2>7. CASE \E l \in 1 .. Len(s) : s[l] = Reduced(q[x])
    <3>1. PICK l \in 1 .. Len(s) : s[l] = Reduced(q[x])
      BY <2>7
    <3>2. RowMatches(<<k>>, s[l])
      BY <1>3, <2>5, <2>6, <3>1
    <3> QED
      BY <2>3, <3>2 DEF NoneFound
  <2>8. CASE \E d \in 1 .. x - 1 : Default(q[d])
    <3>1. PICK d \in 1 .. x - 1 : Default(q[d])
      BY <2>8
    <3>2. d \in 1 .. Len(q)
      BY <1>1
    <3>3. PICK e \in 1 .. d, l \in 1 .. Len(s) : Default(q[e]) /\ s[l] = Reduced(q[e])
      BY <1>1, <2>2, <3>1, <3>2, DefaultKept
    <3>4. e \in 1 .. Len(q)
      BY <1>1, <3>2
    <3>5. SetMatches(k, Prefix(q[e].action))
      BY <1>3, <3>3, <3>4, UniversalMatches DEF IsDefault
    <3>6. RowMatches(<<k>>, s[l])
      BY <1>3, <3>3, <3>4, <3>5
    <3> QED
      BY <2>3, <3>6 DEF NoneFound
  <2> QED
    BY <2>2, <2>7, <2>8 DEF LpmResult
<1> HIDE DEF a, NoCandidate, Unsorted
<1>7. a = Miss <=> NoCandidate \/ Unsorted
  BY <1>4, <1>5, <1>6
<1> QED
  BY <1>7, Zenon DEF a, NoCandidate, Unsorted

(* A hit is a candidate, and no candidate is longer but behind a default:    *)
(* sort_lpm loses no better entry, for keys of any width and any number of   *)
(* entries.                                                                  *)
THEOREM LongestPrefixWins == Spec => []LongestWins
<1>1. TypeOK => LongestWins
  BY HitIsBest DEF LongestWins
<1> QED
  BY <1>1, TypesHold, PTL

(* A lookup misses when no entry is a candidate or one of those to sort is   *)
(* no prefix, and only then.                                                 *)
THEOREM EveryMissIsJustified == Spec => []MissesJustified
<1>1. TypeOK => MissesJustified
  BY MissIsJust DEF MissesJustified
<1> QED
  BY <1>1, TypesHold, PTL

(* A row at the end hides no hit.                                            *)
LEMMA FirstMatchAtEnd ==
  ASSUME NEW S, NEW ks, NEW s \in Seq(S), NEW r \in S, FirstMatch(ks, s) # Miss
  PROVE  FirstMatch(ks, Append(s, r)) = FirstMatch(ks, s)
<1> DEFINE t == Append(s, r)
<1>1. /\ t \in Seq(S) /\ Len(t) = Len(s) + 1 /\ \A i \in 1 .. Len(s) : t[i] = s[i]
      /\ DOMAIN s = 1 .. Len(s) /\ Len(s) \in Nat
  BY AppendParts
<1> HIDE DEF t
<1>2. DOMAIN t = 1 .. Len(t) /\ Len(t) \in Nat
  BY <1>1
<1>3. PICK i : FirstFound(ks, s, i)
  BY <1>1, FirstMatchIs DEF NoneFound
<1>4. /\ i \in 1 .. Len(s) /\ RowMatches(ks, s[i]) /\ FirstMatch(ks, s) = s[i].action
      /\ \A j \in 1 .. i - 1 : ~RowMatches(ks, s[j])
  BY <1>3 DEF FirstFound
<1>5. i \in 1 .. Len(t) /\ t[i] = s[i]
  BY <1>1, <1>4
<1>6. ~NoneFound(ks, t)
  BY <1>4, <1>5 DEF NoneFound
<1>7. PICK l : FirstFound(ks, t, l)
  BY <1>2, <1>6, FirstMatchIs
<1>8. /\ l \in 1 .. Len(t) /\ RowMatches(ks, t[l]) /\ FirstMatch(ks, t) = t[l].action
      /\ \A j \in 1 .. l - 1 : ~RowMatches(ks, t[j])
  BY <1>7 DEF FirstFound
<1>9. l <= i
  <2> SUFFICES ASSUME i < l PROVE FALSE
    BY <1>4, <1>8
  <2>1. i \in 1 .. l - 1
    BY <1>4, <1>8
  <2> QED
    BY <1>4, <1>5, <1>8, <2>1
<1>10. l \in 1 .. Len(s)
  BY <1>1, <1>4, <1>8, <1>9
<1>11. RowMatches(ks, s[l])
  BY <1>1, <1>8, <1>10
<1>12. ~(l < i)
  <2> SUFFICES ASSUME l < i PROVE FALSE
    OBVIOUS
  <2>1. l \in 1 .. i - 1
    BY <1>4, <1>10
  <2> QED
    BY <1>4, <1>11, <2>1
<1>13. l = i
  BY <1>4, <1>9, <1>10, <1>12
<1> QED
  BY <1>4, <1>5, <1>8, <1>13 DEF t

(* What an entry adds to the rows that are sorted.                           *)
LEMMA BasisAppend ==
  ASSUME kinds \in Kinds, LpmKeys # {}, OneLpmKey, NEW ks,
         NEW es \in Seq(EntriesOf(kinds)), NEW e \in EntriesOf(kinds)
  PROVE  \/ Basis(ks, Append(es, e)) = Basis(ks, es)
         \/ \E r \in SetRow : /\ Basis(ks, Append(es, e)) = Append(Basis(ks, es), r)
                              /\ r.action = Len(es) + 1
                              /\ r.sets[1] = ToValSetT(e[LpmIndex])
<1> DEFINE rows == RowsOf(es)
           x == ToRow(e, Len(es) + 1)
<1>1. rows \in Seq(TableRow(kinds)) /\ RowsOf(Append(es, e)) = Append(rows, x) /\ Len(es) + 1 \in Nat
  BY RowsOfType, RowsOfAppend
<1>2. LpmIndex \in 1 .. Len(kinds)
  BY TheLpmKey
<1>3. x \in TableRow(kinds) /\ x.action = Len(es) + 1 /\ x.sets[LpmIndex] = ToValSetT(e[LpmIndex])
  BY <1>1, <1>2, ToRowType
<1> HIDE DEF rows, x
<1>4. CASE Len(kinds) = 1
  <2>1. Basis(ks, Append(es, e)) = Append(rows, x) /\ Basis(ks, es) = rows
    BY <1>1, <1>4 DEF Basis, rows
  <2>2. x \in SetRow
    BY <1>3, <1>4, SingleKeyRows
  <2>3. LpmIndex = 1
    BY <1>2, <1>4
  <2> QED
    BY <1>3, <2>1, <2>2, <2>3
<1>5. CASE Len(kinds) # 1
  <2> DEFINE m == Matching(ks, rows)
             r == PickSet(LpmIndex, x)
  <2>1. /\ Basis(ks, Append(es, e)) = Picked(LpmIndex, Matching(ks, Append(rows, x)))
        /\ Basis(ks, es) = Picked(LpmIndex, m)
    BY <1>1, <1>5 DEF Basis, rows
  <2>2. Matching(ks, Append(rows, x)) = IF RowMatches(ks, x) THEN Append(m, x) ELSE m
    BY <1>1, <1>3, MatchingAppend
  <2>3. m \in Seq(TableRow(kinds))
    BY <1>1, MatchingType
  <2>4. r \in SetRow /\ r.action = x.action /\ r.sets[1] = x.sets[LpmIndex]
    BY <1>2, <1>3, PickSetType
  <2> HIDE DEF m
  <2>5. Picked(LpmIndex, Append(m, x)) = Append(Picked(LpmIndex, m), r)
    BY <1>2, <1>3, <2>3, PickedAppend
  <2> HIDE DEF r
  <2>6. CASE RowMatches(ks, x)
    BY <1>3, <2>1, <2>2, <2>4, <2>5, <2>6
  <2>7. CASE ~RowMatches(ks, x)
    BY <2>1, <2>2, <2>7
  <2> QED
    BY <2>6, <2>7
<1> QED
  BY <1>4, <1>5

(* Without an lpm key the first row that matches wins.                       *)
LEMMA AddLocalPlain ==
  ASSUME kinds \in Kinds, LpmKeys = {}, NEW ks,
         NEW es \in Seq(EntriesOf(kinds)), NEW e \in EntriesOf(kinds),
         Match(ks, Append(es, e)) # Match(ks, es)
  PROVE  Match(ks, Append(es, e)) = Len(es) + 1 /\ Match(ks, es) = Miss
<1>1. kinds # <<"lpm">>
  <2> SUFFICES ASSUME kinds = <<"lpm">> PROVE FALSE
    OBVIOUS
  <2>1. 1 \in DOMAIN kinds /\ kinds[1] = "lpm"
    OBVIOUS
  <2>2. 1 \in LpmKeys
    BY <2>1 DEF LpmKeys
  <2> QED
    BY <2>2
<1>2. ASSUME NEW any PROVE Match(ks, any) = FirstMatch(ks, RowsOf(any))
  <2> DEFINE several == \E i, j \in LpmKeys : i # j
             a == FirstMatch(ks, SortLpm(RowsOf(any)))
             b == FirstMatch(<<ks[LpmIndex]>>, FilterLpmProd(LpmIndex, ks, RowsOf(any)))
             c == FirstMatch(ks, RowsOf(any))
  <2>1. Match(ks, any) = IF several THEN Miss ELSE IF kinds = <<"lpm">> THEN a
                         ELSE IF LpmKeys # {} THEN b ELSE c
    BY Zenon DEF Match, LpmIndex
  <2>2. ~several
    OBVIOUS
  <2> HIDE DEF several, a, b, c
  <2>3. Match(ks, any) = c
    BY <1>1, <2>1, <2>2
  <2> QED
    BY <2>3 DEF c
<1> DEFINE s == RowsOf(es)
           r == ToRow(e, Len(es) + 1)
<1>3. s \in Seq(TableRow(kinds)) /\ RowsOf(Append(es, e)) = Append(s, r) /\ Len(es) + 1 \in Nat
  BY RowsOfType, RowsOfAppend
<1>4. r \in TableRow(kinds) /\ r.action = Len(es) + 1
  BY <1>3, ToRowType
<1> HIDE DEF s, r
<1>5. Match(ks, es) = FirstMatch(ks, s) /\ Match(ks, Append(es, e)) = FirstMatch(ks, Append(s, r))
  BY <1>2, <1>3 DEF s
<1>6. FirstMatch(ks, s) = Miss
  BY <1>3, <1>4, <1>5, FirstMatchAtEnd
<1>7. FirstMatch(ks, Append(s, r)) = r.action
  <2> DEFINE t == Append(s, r)
  <2>1. OneMore(s, t, r)
    BY <1>3, <1>4, OneMoreAtEnd
  <2>2. DOMAIN s = 1 .. Len(s) /\ Len(s) \in Nat
    BY <1>3
  <2>3. t \in Seq(TableRow(kinds))
    BY <1>3, <1>4
  <2> HIDE DEF t
  <2>4. DOMAIN t = 1 .. Len(t)
    BY <2>3
  <2>5. FirstMatch(ks, t) # FirstMatch(ks, s)
    BY <1>5 DEF t
  <2>6. FirstMatch(ks, t) = r.action
    BY <2>1, <2>2, <2>4, <2>5, FirstMatchOneMore
  <2> QED
    BY <2>6 DEF t
<1> QED
  BY <1>4, <1>5, <1>6, <1>7

(* With one, the sorted rows change by the entry's row.                      *)
LEMMA AddLocalLpm ==
  ASSUME kinds \in Kinds, LpmKeys # {}, OneLpmKey, NEW ks \in KeysOf(kinds),
         NEW es \in Seq(EntriesOf(kinds)), NEW e \in EntriesOf(kinds),
         Match(ks, Append(es, e)) # Match(ks, es)
  PROVE  \/ Match(ks, Append(es, e)) = Len(es) + 1
         \/ Match(ks, Append(es, e)) = Miss /\ LpmSet(ToValSetT(e[LpmIndex])) = NotLpm
<1> DEFINE q == Basis(ks, es)
           p == Basis(ks, Append(es, e))
           s == SortLpm(q)
           t == SortLpm(p)
           k == ks[LpmIndex]
<1>1. Append(es, e) \in Seq(EntriesOf(kinds))
  BY AppendParts
<1>2. q \in Seq(SetRow) /\ p \in Seq(SetRow)
  BY <1>1, BasisType
<1>3. Match(ks, es) = FirstMatch(<<k>>, s) /\ Match(ks, Append(es, e)) = FirstMatch(<<k>>, t)
  BY MatchIs
<1> HIDE DEF k
<1>4. PICK r \in SetRow : p = Append(q, r) /\ r.action = Len(es) + 1
                          /\ r.sets[1] = ToValSetT(e[LpmIndex])
  <2> DEFINE Added(r) == p = Append(q, r) /\ r.action = Len(es) + 1
                         /\ r.sets[1] = ToValSetT(e[LpmIndex])
  <2>1. p = q \/ \E r \in SetRow : Added(r)
    BY BasisAppend
  <2> HIDE DEF p, q, Added
  <2>2. p # q
    BY <1>3
  <2> QED
    BY <2>1, <2>2 DEF Added
<1> HIDE DEF p, q
<1>5. DOMAIN s = 1 .. Len(s) /\ Len(s) \in Nat /\ DOMAIN t = 1 .. Len(t) /\ Len(t) \in Nat
  BY <1>2, SortLpmType
<1>6. \/ t = s
      \/ OneMore(s, t, Reduced(r))
      \/ NoPrefix(r) /\ t = <<>>
  BY <1>2, <1>4, SortLpmAppend
<1> HIDE DEF s, t
<1>7. CASE t = s
  BY <1>3, <1>7
<1>8. CASE OneMore(s, t, Reduced(r))
  <2>1. FirstMatch(<<k>>, t) = Reduced(r).action
    BY <1>3, <1>5, <1>8, FirstMatchOneMore
  <2>2. Reduced(r).action = Len(es) + 1
    BY <1>4, ReducedParts
  <2> QED
    BY <1>3, <2>1, <2>2
<1>9. CASE NoPrefix(r) /\ t = <<>>
  <2>1. DOMAIN t = {}
    BY <1>9
  <2>2. FirstMatch(<<k>>, t) = Miss
    BY <2>1 DEF FirstMatch
  <2> QED
    BY <1>3, <1>4, <1>9, <2>2 DEF NoPrefix
<1> QED
  BY <1>6, <1>7, <1>8, <1>9

(* Any table, by its number of lpm keys.                                     *)
LEMMA AddLocal ==
  ASSUME TypeOK, NEW e \in EntriesOf(kinds), AddEntry(e), NEW ks \in KeysOf(kinds),
         Match(ks, Entries') # Lookup(ks)
  PROVE  /\ const = NoConst
         /\ \/ Match(ks, Entries') = Len(installed')
            \/ /\ Match(ks, Entries') = Miss /\ LpmKeys # {}
               /\ LpmSet(ToValSetT(Last(installed')[LpmIndex])) = NotLpm
         /\ LpmKeys = {} => Lookup(ks) = Miss
<1>1. kinds' = kinds /\ const' = const /\ installed' = Append(installed, e)
  BY DEF AddEntry
<1>2. kinds \in Kinds /\ installed \in Seq(EntriesOf(kinds))
  BY DEF TypeOK
<1>3. const = NoConst
  <2> SUFFICES ASSUME const # NoConst PROVE FALSE
    OBVIOUS
  <2>1. Entries' = Entries
    BY <1>1 DEF Entries
  <2> QED
    BY <2>1 DEF Lookup
<1>4. Entries = installed /\ Entries' = Append(installed, e)
  BY <1>1, <1>3 DEF Entries
<1>5. Lookup(ks) = Match(ks, installed) /\ Match(ks, Entries') = Match(ks, Append(installed, e))
      /\ Match(ks, Append(installed, e)) # Match(ks, installed)
  BY <1>4 DEF Lookup
<1>6. Len(installed') = Len(installed) + 1 /\ Last(installed') = e
  <2>1. /\ Len(installed') = Len(installed) + 1 /\ installed'[Len(installed) + 1] = e
    BY <1>1, <1>2, AppendParts
  <2> QED
    BY <2>1 DEF Last
<1>7. CASE LpmKeys = {}
  BY <1>2, <1>3, <1>5, <1>6, <1>7, AddLocalPlain
<1>8. CASE LpmKeys # {} /\ OneLpmKey
  BY <1>2, <1>3, <1>5, <1>6, <1>8, AddLocalLpm
<1>9. CASE ~OneLpmKey
  <2>1. \E i, j \in LpmKeys : i # j
    BY <1>9 DEF OneLpmKey
  <2>2. \A any : Match(ks, any) = Miss
    BY <2>1, Zenon DEF Match
  <2> QED
    BY <1>5, <2>2
<1> QED
  BY <1>7, <1>8, <1>9

(* add_entry changes no answer of extern_match but to the new entry, never a *)
(* hit of a table without lpm keys, and nothing in a const table; an entry   *)
(* that is no prefix may make an lpm table miss.                             *)
THEOREM AddingIsLocal == Spec => AddIsLocal
<1> DEFINE Local ==
      \A ks \in KeysOf(kinds) :
        LET before == Lookup(ks)
            after  == Match(ks, Entries')
        IN  after # before =>
              /\ const = NoConst
              /\ \/ after = Len(installed')
                 \/ /\ after = Miss /\ LpmKeys # {}
                    /\ LpmSet(ToValSetT(Last(installed')[LpmIndex])) = NotLpm
              /\ LpmKeys = {} => before = Miss
<1>1. ASSUME TypeOK, NEW e \in EntriesOf(kinds), AddEntry(e) PROVE Local
  BY <1>1, AddLocal
<1>2. ASSUME UNCHANGED vars PROVE Local
  <2>1. Entries' = Entries
    BY <1>2 DEF Entries, vars
  <2>2. \A ks : Match(ks, Entries') = Lookup(ks)
    BY <2>1, Zenon DEF Lookup
  <2> QED
    BY <2>2
<1>3. ASSUME Full PROVE Local
  BY <1>2, <1>3 DEF Full
<1>4. TypeOK /\ [Next]_vars => [Local]_vars
  BY <1>1, <1>3, Zenon DEF Next
<1> HIDE DEF Local
<1>5. Spec => [][Local]_vars
  BY <1>4, TypesHold, PTL DEF Spec
<1> QED
  BY <1>5 DEF AddIsLocal, Local
=============================================================================
