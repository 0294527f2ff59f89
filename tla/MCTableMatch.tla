---------------------------- MODULE MCTableMatch ----------------------------
(* Keys of two bits.  An lpm key can have an exact entry, a mask that counts *)
(* as a prefix, one that does not, and '_'; ternary and range keys have sets *)
(* that overlap.                                                             *)
EXTENDS TableMatch

B(hi, lo) == <<hi, lo>>
Exactly(v)  == [is |-> "singleton", value |-> v]
Masked(v, m) == [is |-> "mask", value |-> v, mask |-> m]
Between(l, h) == [is |-> "range", lo |-> l, hi |-> h]

MCKinds == {<<"lpm">>, <<"ternary">>, <<"range">>, <<"ternary", "lpm">>, <<"lpm", "lpm">>}

MCKeySets == [kind \in {"ternary", "range", "lpm"} |->
  CASE kind = "ternary" -> {Masked(B(0, 1), B(0, 1)), Exactly(B(1, 0)), Universal}
    [] kind = "range"   -> {Between(B(0, 1), B(1, 0)), Between(B(1, 0), B(1, 1)), Universal}
    [] kind = "lpm"     -> {Exactly(B(0, 1)), Masked(B(0, 1), B(0, 1)),
                            Masked(B(1, 0), B(1, 0)), Universal}]
=============================================================================
