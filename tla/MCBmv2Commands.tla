------------------------- MODULE MCBmv2Commands -------------------------
(* Two tables of four, with keys of every type, that share the ends of     *)
(* their names; lines with up to two keys and two arguments.               *)
EXTENDS Bmv2Commands

Key(name, target, type) == [name |-> name, target |-> target, match_type |-> type]
Action(name, params) == [name |-> name, params |-> params]
Table(name, type, key, actions) ==
    [name |-> name, match_type |-> type, key |-> key, actions |-> actions]

Forward == Action(<<"in", ".", "go">>, <<"port", "mac">>)

MCTables ==
    <<Table(<<"in", ".", "t">>, "ternary",
            <<Key(<<>>, <<"h", "a">>, "ternary"), Key(<<"m", ".", "[1]", ".", "b">>, <<>>, "ternary"),
              Key(<<"x", ".", "h", ".", "b">>, <<>>, "ternary")>>,
            <<Forward, Action(<<"in", ".", "drop">>, <<>>), Action(<<"out", ".", "drop">>, <<>>)>>),
      Table(<<"in", ".", "u">>, "lpm",
            <<Key(<<>>, <<"h", "a">>, "lpm"), Key(<<>>, <<"h", "$valid$">>, "valid"),
              Key(<<"c", ".", "b", "$">>, <<>>, "exact")>>,
            <<Action(<<"go">>, <<"mac", "port">>), Forward>>),
      Table(<<"out", ".", "u">>, "range", <<Key(<<>>, <<"h", "a">>, "range")>>, <<Forward>>)>>

V(base, digits, length) == [base |-> base, digits |-> digits, length |-> length]
KeyWord(name, v) == [kind |-> "key", name |-> name, value |-> v]
Argument(name, v) == [kind |-> "argument", name |-> name, value |-> v]
ActionWord(name) == [kind |-> "action", name |-> name]
Priority == [kind |-> "priority", value |-> <<7>>]

Written == {V("0x", <<"0", "1">>, NoLength), V("0x", <<"1", "*">>, NoLength),
            V("0b", <<"*", "1">>, NoLength), V("", <<"1">>, NoLength),
            V("0x", <<"1", "0">>, 4), V("0b", <<"*", "*">>, NoLength)}
MCKeys == {KeyWord(n, v) : n \in {<<"a">>, <<"b">>, <<"m", ".", "$1", ".", "b">>, <<"h", ".", "b">>}, v \in Written}
          \cup {KeyWord(n, V("", <<"1">>, NoLength)) : n \in {<<"valid">>, <<"h", ".", "valid">>, <<"z">>}}

SeqsUpTo(S, n) == UNION {[1 .. k -> S] : k \in 0 .. n}
MCArguments ==
    {Argument(n, V("", d, NoLength)) : n \in {"port", "mac"}, d \in {<<"1">>, <<"0">>}}
      \cup {Argument("vlan", V("", <<"1">>, NoLength))}
Ends(n) == {<<ActionWord(a)>> \o s :
                a \in {<<"go">>, <<"drop">>, <<"out", ".", "drop">>}, s \in SeqsUpTo(MCArguments, n)}

Adds(t, keys, ends) ==
    {[first |-> "add", table |-> t, words |-> p \o k \o e] :
        p \in {<<>>, <<Priority>>}, k \in keys, e \in ends}

OneEnd == {<<ActionWord(<<"go">>), Argument("mac", V("", <<"0">>, NoLength)), 
            Argument("port", V("", <<"1">>, NoLength))>>}
Valid == KeyWord(<<"h", ".", "valid">>, V("", <<"1">>, NoLength))

MCLines ==
    Adds(<<"t">>, SeqsUpTo(MCKeys, 2), OneEnd)
      \cup Adds(<<"in", ".", "u">>, {Append(k, Valid) : k \in SeqsUpTo(MCKeys, 2)}, OneEnd)
      \cup UNION {Adds(n, {<<>>, <<Valid>>}, {<<>>} \cup Ends(2)) :
                    n \in {<<"t">>, <<"u">>, <<"in", ".", "u">>, <<"out", ".", "u">>, <<"v">>}}
      \cup {[first |-> "setdefault", table |-> n, words |-> e] :
                n \in {<<"t">>, <<"u">>, <<"out", ".", "u">>}, e \in Ends(3)}
=============================================================================
