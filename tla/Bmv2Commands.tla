-------------------------- MODULE Bmv2Commands --------------------------
(***************************************************************************)
(* How RunBMV2 of bmv2stf.py turns an "add" or "setdefault" line of an STF *)
(* file into a command for the switch's client, word by word: it finds the *)
(* table, the key fields and the action by names that may be shortened,    *)
(* makes masks and prefixes of digits and "*", and puts the arguments of   *)
(* the action in the order the program declares them.                      *)
(*                                                                         *)
(* A name is a sequence of parts, so that an end of it can be compared:    *)
(* <<"in", ".", "acl">>.  A value is its base ("0x", "0b", "0o", or "" for *)
(* a decimal one), its digits and, behind a "/", its prefix length (or     *)
(* NoLength).  Splitting a line into words, and handles behind a "=", are  *)
(* left out.                                                               *)
(***************************************************************************)
EXTENDS Integers, Sequences, FiniteSets, SequencesExt

CONSTANTS
    NoLength,
    Tables,     \* the tables in the JSON file, a sequence of records: name,
                \* match_type, key (fields: name, target, match_type), actions
    Lines       \* the STF lines: first, table and words; the words are at
                \* most one priority, keys, an action and its arguments

VARIABLES
    line, rest,     \* the line, and its words still to be read
    phase,
    table,          \* the table's number in Tables
    values,         \* TableKeyInstance: from the fields to their values
    action, args,   \* the action found, and BMV2ActionArguments
    prio,
    sent            \* the command

vars == <<line, rest, phase, table, values, action, args, prio, sent>>

Nothing == <<>>
BitsPerDigit == [b \in {"0x", "0b", "0o"} |-> CASE b = "0x" -> 4 [] b = "0b" -> 1 [] OTHER -> 3]
Digits(n) == [base |-> "", digits |-> n, length |-> NoLength]

-----------------------------------------------------------------------------
(* The fields of a table's key: a field without a name has that of the     *)
(* header field it reads.                                                  *)

Joined(parts) ==
    LET add(name, part) == IF name = <<>> THEN <<part>> ELSE name \o <<".", part>>
    IN  FoldLeft(add, <<>>, parts)

FieldName(k) == IF k.name = <<>> THEN Joined(k.target) ELSE k.name
Fields(t) == [i \in DOMAIN Tables[t].key |-> FieldName(Tables[t].key[i])]
TypeOf(t, field) ==
    LET i == CHOOSE i \in DOMAIN Tables[t].key : Fields(t)[i] = field
    IN  Tables[t].key[i].match_type

Default(type) ==
    CASE type = "ternary" -> [kind |-> "mask", value |-> <<"0">>, mask |-> <<"0">>]
      [] type = "lpm" -> [kind |-> "prefix", value |-> Digits(<<"0">>), length |-> 0]
      [] type \in {"exact", "valid"} -> [kind |-> "exact", value |-> Digits(<<"0">>)]

(* Other types of keys, ranges among them, cannot be given in an STF file. *)
CanMakeKey(t) ==
    \A i \in DOMAIN Tables[t].key :
        Tables[t].key[i].match_type \in {"ternary", "lpm", "exact", "valid"}

makeKeyInstance(t) == [f \in Range(Fields(t)) |-> Default(TypeOf(t, f))]

-----------------------------------------------------------------------------
(* Names.                                                                  *)

(* The one named so or, failing that, the one whose name ends so.          *)
ByName(names, name) ==
    LET exact == {i \in DOMAIN names : names[i] = name}
    IN  IF exact # {} THEN exact ELSE {i \in DOMAIN names : IsSuffix(name, names[i])}

tableByName(name) == ByName([t \in DOMAIN Tables |-> Tables[t].name], name)
actionByName(t, name) ==
    ByName([a \in DOMAIN Tables[t].actions |-> Tables[t].actions[a].name], name)

(* h$1.a stands for h[1].a.                                                *)
Indexed(name) ==
    LET element == [d \in {"$0", "$1"} |-> IF d = "$0" THEN "[0]" ELSE "[1]"]
        at == {i \in DOMAIN name : name[i] \in DOMAIN element}
    IN  IF at = {} THEN name ELSE [name EXCEPT ![Max(at)] = element[@]]

(* The names a key field is looked up under, in this order.                *)
Spellings(name) ==
    LET n == Len(name) IN
    <<name, Append(name, "$"), name \o <<".", "$valid$">>>>
      \o (IF n > 1 /\ SubSeq(name, n - 1, n) = <<".", "valid">>
          THEN <<Append(Front(name), "$valid$")>> ELSE <<>>)

EndsIn(name, field) ==
    \/ IsSuffix(<<".">> \o name, field)
    \/ IsSuffix(<<".">> \o Append(name, "$"), field)
    \/ name = <<"valid">> /\ IsSuffix(<<".", "$valid$">>, field)

(* Nothing when no field is meant.  The search goes on from the first      *)
(* field that ends in the name with the whole name of that field.          *)
FieldMeant(t, written) ==
    LET name == Indexed(written)
        isField(n) == n \in Range(Fields(t))
        known == SelectSeq(Spellings(name), isField)
        search(n, field) == IF EndsIn(n, field) THEN field ELSE n
        found == FoldLeft(search, name, Fields(t))
    IN  CASE known # <<>> -> known[1]
          [] known = <<>> /\ isField(found) -> found
          [] known = <<>> /\ ~isField(found) ->
                IF name = <<"valid">> /\ isField(<<"$valid$">>) THEN <<"$valid$">> ELSE Nothing

-----------------------------------------------------------------------------
(* Values.                                                                 *)

Stars(v) == {i \in DOMAIN v.digits : v.digits[i] = "*"}
Zeroed(v) == [v EXCEPT !.digits = [i \in DOMAIN @ |-> IF @[i] = "*" THEN "0" ELSE @[i]]]

(* A value with a length, or in an exact field with a "*", is passed on    *)
(* with it, and the client refuses that.                                   *)
makeMask(v) ==
    IF v.length # NoLength THEN [kind |-> "malformed"]
    ELSE [kind |-> "mask", value |-> Zeroed(v).digits,
          mask |-> [i \in DOMAIN v.digits |-> IF i \in Stars(v) THEN "0" ELSE "F"]]

Exactly(v) ==
    IF v.length # NoLength \/ Stars(v) # {} THEN [kind |-> "malformed"]
    ELSE [kind |-> "exact", value |-> v]

\* Mutant of PrefixLength: the digits that do not matter count too.
WholeLength(v) == Len(v.digits) * BitsPerDigit[v.base]

PrefixLength(v) == (Len(v.digits) - Cardinality(Stars(v))) * BitsPerDigit[v.base]

(* A decimal value gets the prefix "0x0x", which the client refuses.       *)
makeLpm(v) ==
    CASE v.length # NoLength -> [kind |-> "prefix", value |-> v, length |-> v.length]
      [] v.length = NoLength /\ v.base = "" -> [kind |-> "malformed"]
      [] OTHER -> [kind |-> "prefix", value |-> Zeroed(v), length |-> PrefixLength(v)]

-----------------------------------------------------------------------------
(* parse_table_add and parse_table_set_default.                            *)

Raises == phase' = "raised" /\ UNCHANGED <<rest, table, values, action, args, prio, sent>>
ReadOn == rest' = Tail(rest) /\ UNCHANGED <<line, phase, table, sent>>

FindTable ==
    /\ phase = "table"
    /\ LET found == tableByName(line.table) IN
       IF Cardinality(found) = 1 /\ (line.first = "add" => \A t \in found : CanMakeKey(t))
       THEN /\ table' \in found
            /\ values' = IF line.first = "add" THEN makeKeyInstance(table') ELSE values
            /\ phase' = "words"
            /\ UNCHANGED <<rest, action, args, prio, sent>>
       ELSE Raises
    /\ UNCHANGED line

NextIs(kind) == phase = "words" /\ rest # <<>> /\ Head(rest).kind = kind

ReadPriority ==
    /\ NextIs("priority") /\ line.first = "add"
    /\ rest = line.words
    /\ prio' = Head(rest).value
    /\ UNCHANGED <<values, action, args>>
    /\ ReadOn

SetKey ==
    /\ NextIs("key")
    /\ LET field == FieldMeant(table, Head(rest).name)
           v == Head(rest).value
           type == TypeOf(table, field)
       IN  IF field = Nothing \/ (type = "ternary" /\ v.base = "")
           THEN Raises /\ UNCHANGED line
           ELSE /\ values' = [values EXCEPT ![field] =
                        CASE type = "ternary" -> makeMask(v)
                          [] type = "lpm" -> makeLpm(v)
                          [] OTHER -> Exactly(v)]
                /\ UNCHANGED <<action, args, prio>>
                /\ ReadOn

FindAction ==
    /\ NextIs("action")
    /\ LET found == actionByName(table, Head(rest).name) IN
       IF Cardinality(found) = 1
       THEN /\ action' = Tables[table].actions[CHOOSE a \in found : TRUE]
            /\ args' = <<>>
            /\ UNCHANGED <<values, prio>>
            /\ ReadOn
       ELSE Raises /\ UNCHANGED line

SetArgument ==
    /\ NextIs("argument")
    /\ LET name == Head(rest).name IN
       IF name \in Range(action.params)
       THEN /\ args' = [a \in DOMAIN args \cup {name} |->
                            IF a = name THEN Head(rest).value ELSE args[a]]
            /\ UNCHANGED <<values, action, prio>>
            /\ ReadOn
       ELSE Raises /\ UNCHANGED line

Arguments == [i \in DOMAIN action.params |-> args[action.params[i]]]

(* Without an action, or without one of its arguments, there is nothing to *)
(* send.  A default action is sent with the names as they are written.     *)
(* The client refuses a ternary entry without a priority.                  *)
SendCommand ==
    /\ phase = "words" /\ rest = <<>>
    /\ IF action = Nothing \/ \E p \in Range(action.params) : p \notin DOMAIN args
       THEN Raises
       ELSE /\ sent' = [table |-> IF line.first = "add" THEN Tables[table].name ELSE line.table,
                        action |-> IF line.first = "add" THEN action.name
                                   ELSE line.words[1].name,
                        values |-> values,
                        args |-> Arguments,
                        prio |-> IF Tables[table].match_type = "ternary" /\ prio # Nothing
                                 THEN <<10000 - prio[1]>> ELSE Nothing]
            /\ phase' = "sent"
            /\ UNCHANGED <<rest, table, values, action, args, prio>>
    /\ UNCHANGED line

Init ==
    /\ line \in Lines
    /\ rest = line.words
    /\ phase = "table" /\ table = 0
    /\ values = Nothing /\ action = Nothing /\ args = <<>> /\ prio = Nothing
    /\ sent = Nothing

Next ==
    FindTable \/ ReadPriority \/ SetKey \/ FindAction \/ SetArgument \/ SendCommand
Spec == Init /\ [][Next]_vars

-----------------------------------------------------------------------------
(* The fields a name can be short for.                                     *)
Plain(field) ==
    CASE Last(field) = "$" -> {field, Front(field)}
      [] Last(field) = "$valid$" ->
            {field, Append(Front(field), "valid"), SubSeq(field, 1, Len(field) - 2)}
      [] OTHER -> {field}
Means(name) ==
    LET ends(f) == \E p \in Plain(f) : p = name \/ IsSuffix(<<".">> \o name, p)
    IN  {f \in Range(Fields(table)) : ends(f)}

Words(kind) == {i \in DOMAIN line.words : line.words[i].kind = kind}
Name(i) == Indexed(line.words[i].name)
Value(i) == line.words[i].value

(* Each key names one field, each field has at most one key, the fields to *)
(* be matched exactly have one, and "*" stands where it can: at the end of *)
(* a prefix, and never in an exact value.                                  *)
Clear ==
    /\ \A i \in Words("key") :
         /\ Cardinality(Means(Name(i))) = 1
         /\ \A j \in Words("key") : Means(Name(i)) = Means(Name(j)) => i = j
         /\ \A f \in Means(Name(i)) : \A n \in Stars(Value(i)) :
              \/ TypeOf(table, f) = "ternary"
              \/ TypeOf(table, f) = "lpm" /\ n .. Len(Value(i).digits) \subseteq Stars(Value(i))
    /\ \A f \in Range(Fields(table)) :
         TypeOf(table, f) \in {"exact", "valid"} => \E i \in Words("key") : f \in Means(Name(i))

(* Whether the switch finds a field's digits to match, and whether the line *)
(* says so, when the field is as wide as the value that was written.       *)
Accepts(key, digits) ==
    CASE key.kind = "mask" ->
            \A n \in DOMAIN key.mask : key.mask[n] = "F" => digits[n] = key.value[n]
      [] key.kind = "prefix" ->
            \A n \in DOMAIN key.value.digits :
                n * BitsPerDigit[key.value.base] <= key.length => digits[n] = key.value.digits[n]
      [] key.kind = "exact" -> digits = key.value.digits
MatchesAll(key) ==
    \/ key.kind = "mask" /\ Range(key.mask) = {"0"}
    \/ key.kind = "prefix" /\ key.length = 0
Asks(v, digits) ==
    \A n \in DOMAIN v.digits :
        \/ v.digits[n] \in {"*", digits[n]}
        \/ v.length # NoLength /\ n * BitsPerDigit[v.base] > v.length

(* An entry that is sent is the one the line describes: in the one table   *)
(* of that name, it matches the field values the line's keys match, any    *)
(* value of a field the line does not name, its action is the one of that  *)
(* table the line names, and every parameter of the action gets the value  *)
(* written for it, whatever the order (parse_table_add, TableKeyInstance,  *)
(* BMV2ActionArguments).  Keys the client refuses are left out.            *)
EntriesAsWritten ==
    phase = "sent" /\ line.first = "add" /\ Clear =>
        /\ IsSuffix(line.table, sent.table)
        /\ \A f \in Range(Fields(table)) :
             LET words == {i \in Words("key") : f \in Means(Name(i))} IN
             IF words = {} THEN MatchesAll(sent.values[f])
             ELSE \A i \in words :
                    sent.values[f].kind # "malformed" =>
                        \A digits \in [DOMAIN Value(i).digits -> {"0", "1"}] :
                            Accepts(sent.values[f], digits) <=> Asks(Value(i), digits)
        /\ \E i \in Words("action") : IsSuffix(line.words[i].name, sent.action)
        /\ \A p \in DOMAIN action.params :
             \E i \in Words("argument") :
                /\ line.words[i].name = action.params[p]
                /\ \A j \in Words("argument") : j > i => line.words[j].name # action.params[p]
                /\ sent.args[p] = Value(i)
=============================================================================
