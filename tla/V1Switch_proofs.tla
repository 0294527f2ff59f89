--------------------------- MODULE V1Switch_proofs ---------------------------
(* Proofs of the safety properties of V1Switch, for all headers, packets,    *)
(* scripts and programs.                                                     *)
EXTENDS V1Switch, FiniteSetTheorems, TLAPS

(* Width(h) and Consumed(h, n) are what their definitions choose. *)
LEMMA WidthType ==
  ASSUME NEW h \in Header
  PROVE  Width(h) \in Nat
BY HeaderAssumption DEF Width

LEMMA ConsumedBound ==
  ASSUME NEW h \in Header, NEW n \in Nat, n < Width(h)
  PROVE  /\ Consumed(h, n) \in Nat
         /\ Consumed(h, n) <= n
<1>1. n \in 0 .. Width(h)
  BY WidthType
<1>2. \E c \in Cuts[h] : c <= n /\ \A m \in Cuts[h] : m <= n => m <= c
  BY <1>1, HeaderAssumption
<1>3. Consumed(h, n) \in Cuts[h] /\ Consumed(h, n) <= n
  BY <1>2 DEF Consumed
<1> QED
  BY <1>3, HeaderAssumption

(* Cutting a packet: what is in front of and behind a position of it. *)
LEMMA SuffixType ==
  ASSUME NEW S, NEW s \in Seq(S), NEW n \in 0 .. Len(s)
  PROVE  /\ Suffix(s, n) \in Seq(S)
         /\ Len(Suffix(s, n)) = Len(s) - n
         /\ \A i \in 1 .. Len(s) - n : Suffix(s, n)[i] = s[n + i]
BY DEF Suffix

LEMMA SuffixSuffix ==
  ASSUME NEW S, NEW s \in Seq(S), NEW n \in 0 .. Len(s), NEW w \in 0 .. Len(s) - n
  PROVE  Suffix(Suffix(s, n), w) = Suffix(s, n + w)
BY DEF Suffix

LEMMA ElementsType ==
  ASSUME NEW S, NEW s \in Seq(S)
  PROVE  Elements(s) \subseteq S
BY DEF Elements

LEMMA PrefixGrows ==
  ASSUME NEW S, NEW s \in Seq(S), NEW n \in 0 .. Len(s), NEW m \in n .. Len(s)
  PROVE  Elements(SubSeq(s, 1, n)) \subseteq Elements(SubSeq(s, 1, m))
BY DEF Elements

LEMMA PrefixOfSuffix ==
  ASSUME NEW S, NEW s \in Seq(S), NEW n \in 0 .. Len(s), NEW w \in 0 .. Len(s) - n
  PROVE  Elements(SubSeq(Suffix(s, n), 1, w)) \subseteq Elements(SubSeq(s, 1, n + w))
<1> DEFINE t == Suffix(s, n)
<1>1. t \in Seq(S) /\ Len(t) = Len(s) - n /\ \A i \in 1 .. Len(s) - n : t[i] = s[n + i]
  BY SuffixType
<1>2. \A i \in 1 .. w : SubSeq(t, 1, w)[i] = s[n + i]
  BY <1>1
<1>3. DOMAIN SubSeq(t, 1, w) = 1 .. w
  BY <1>1
<1>4. \A i \in 1 .. n + w : SubSeq(s, 1, n + w)[i] = s[i] /\ DOMAIN SubSeq(s, 1, n + w) = 1 .. n + w
  OBVIOUS
<1> HIDE DEF t
<1>5. ASSUME NEW i \in 1 .. w
      PROVE  /\ n + i \in DOMAIN SubSeq(s, 1, n + w)
             /\ SubSeq(t, 1, w)[i] = SubSeq(s, 1, n + w)[n + i]
  <2>1. n + i \in 1 .. n + w
    OBVIOUS
  <2> QED
    BY <2>1, <1>2, <1>4
<1>6. Elements(SubSeq(t, 1, w)) \subseteq Elements(SubSeq(s, 1, n + w))
  BY <1>3, <1>5 DEF Elements
<1> QED
  BY <1>6 DEF t

LEMMA ElementsConcat ==
  ASSUME NEW S, NEW s \in Seq(S), NEW t \in Seq(S)
  PROVE  Elements(s \o t) \subseteq Elements(s) \cup Elements(t)
<1>1. ASSUME NEW i \in DOMAIN (s \o t)
      PROVE  \/ i \in DOMAIN s /\ (s \o t)[i] = s[i]
             \/ i - Len(s) \in DOMAIN t /\ (s \o t)[i] = t[i - Len(s)]
  OBVIOUS
<1> QED
  BY <1>1 DEF Elements

LEMMA TailConcrete ==
  ASSUME NEW s \in Seq(Statement), s # <<>>, PacketsConcrete(s)
  PROVE  Tail(s) \in Seq(Statement) /\ PacketsConcrete(Tail(s))
<1>1. Tail(s) \in Seq(Statement) /\ Len(Tail(s)) = Len(s) - 1
  OBVIOUS
<1>2. \A i \in 1 .. Len(Tail(s)) : Tail(s)[i] = s[i + 1] /\ i + 1 \in 1 .. Len(s)
  BY <1>1
<1> QED
  BY <1>1, <1>2 DEF PacketsConcrete

-----------------------------------------------------------------------------
(* TypeOK is inductive. *)
LEMMA InitTypeOK == Init => TypeOK
<1> SUFFICES ASSUME Init PROVE TypeOK
  OBVIOUS
<1>1. todo \in Seq(Statement) /\ PacketsConcrete(todo)
  BY ScriptAssumption DEF Init
<1>2. hdr \in [Header -> [valid : BOOLEAN, bits : Seq(Bit)]]
  <2>1. Zero \in Bit
    BY BitAssumption DEF Zero
  <2>2. ASSUME NEW h \in Header PROVE InvalidHeader(h) \in [valid : BOOLEAN, bits : Seq(Bit)]
    BY <2>1, WidthType DEF InvalidHeader
  <2> QED
    BY <2>2 DEF Init
<1>3. cur \in [op : {"packet"}, port : Port, bits : Seq(Bit)]
  BY PortAssumption DEF Init, NoPacket
<1>4. std \in Metadata
  BY PortAssumption DEF Init, ZeroMetadata, Metadata
<1> QED
  BY <1>1, <1>2, <1>3, <1>4, PortAssumption DEF Init, TypeOK

LEMMA StepTypeOK == TypeOK /\ [Next]_vars => TypeOK'
<1> SUFFICES ASSUME TypeOK, [Next]_vars PROVE TypeOK'
  OBVIOUS
<1> DEFINE Objects == [packet_in : {NoObject} \cup Seq(Bit), packet_out : {NoObject} \cup Seq(Bit)]
           Headers == [Header -> [valid : BOOLEAN, bits : Seq(Bit)]]
<1>0. /\ \A h \in Header : InvalidHeader(h) \in [valid : BOOLEAN, bits : Seq(Bit)]
      /\ ZeroMetadata \in Metadata
  <2>1. Zero \in Bit
    BY BitAssumption DEF Zero
  <2>2. ASSUME NEW h \in Header PROVE InvalidHeader(h) \in [valid : BOOLEAN, bits : Seq(Bit)]
    BY <2>1, WidthType DEF InvalidHeader
  <2>3. ZeroMetadata \in Metadata
    BY PortAssumption DEF ZeroMetadata, Metadata
  <2> QED
    BY <2>2, <2>3
<1>1. CASE ReadPacket
  <2>1. /\ todo # <<>> /\ Head(todo).op = "packet"
        /\ todo' = Tail(todo) /\ cur' = Head(todo)
        /\ es' = [es EXCEPT !.packet_in = Head(todo).bits]
        /\ hdr' = [h \in Header |-> InvalidHeader(h)]
        /\ std' = ZeroMetadata
        /\ sig' = NoError
        /\ pc' = "p"
        /\ verdict = "running"
        /\ UNCHANGED <<script, results, expected, verdict, body, port>>
    BY <1>1 DEF ReadPacket, StartProgram, AtStatement
  <2>2. Head(todo) = todo[1] /\ 1 \in 1 .. Len(todo) /\ Head(todo) \in Statement
    BY <2>1 DEF TypeOK
  <2>3. Head(todo) \in [op : {"packet"}, port : Port, bits : Seq(Bit)]
    BY <2>1, <2>2 DEF TypeOK, PacketsConcrete, Statement
  <2>4. Tail(todo) \in Seq(Statement) /\ PacketsConcrete(Tail(todo))
    BY <2>1, TailConcrete DEF TypeOK
  <2>5. es' \in Objects /\ es'.packet_in = Head(todo).bits
    BY <2>1, <2>3 DEF TypeOK
  <2>6. hdr' \in Headers
    BY <2>1, <1>0
  <2> QED
    BY <2>1, <2>3, <2>4, <2>5, <2>6, <1>0 DEF TypeOK
<1>2. CASE ReadExpect
  <2>1. /\ todo # <<>>
        /\ todo' = Tail(todo)
        /\ expected' = Append(expected, [port |-> Head(todo).port, bits |-> Head(todo).bits])
        /\ UNCHANGED <<script, pc, results, verdict, cur, pipeVars>>
    BY <1>2 DEF ReadExpect, AtStatement
  <2>2. Head(todo) \in Statement
    BY <2>1 DEF TypeOK
  <2>3. expected' \in Seq(Expectation)
    BY <2>1, <2>2 DEF TypeOK, Expectation, Statement
  <2>4. Tail(todo) \in Seq(Statement) /\ PacketsConcrete(Tail(todo))
    BY <2>1, TailConcrete DEF TypeOK
  <2> QED
    BY <2>1, <2>3, <2>4 DEF TypeOK, pipeVars
<1>3. CASE ReadUnimplemented \/ Judge \/ ModuleFails
  <2>1. /\ verdict' \in {"running", "passed", "failed", "crashed"} /\ pc' = "driver"
        /\ UNCHANGED <<script, todo, results, expected, cur, pipeVars>>
    BY <1>3 DEF ReadUnimplemented, Judge, ModuleFails, AtStatement
  <2> QED
    BY <2>1 DEF TypeOK, pipeVars
<1>4. ASSUME NEW h \in Header, NEW b \in BOOLEAN, SetValidity(h, b) PROVE TypeOK'
  <2>1. hdr' \in Headers
    BY <1>4 DEF SetValidity, TypeOK
  <2> QED
    BY <1>4, <2>1 DEF SetValidity, InModule, TypeOK, runVars
<1>5. ASSUME NEW h \in Header, NEW b \in Fresh, Rewrite(h, b) PROVE TypeOK'
  <2>1. [i \in 1 .. Len(hdr[h].bits) |-> b] \in Seq(Bit)
    BY BitAssumption DEF TypeOK
  <2>2. hdr' = [hdr EXCEPT ![h] = [hdr[h] EXCEPT !.bits = [i \in 1 .. Len(hdr[h].bits) |-> b]]]
    BY <1>5 DEF Rewrite
  <2>3. hdr' \in Headers
    BY <2>1, <2>2 DEF TypeOK
  <2> QED
    BY <1>5, <2>3 DEF Rewrite, InModule, TypeOK, runVars
<1>6. ASSUME NEW h \in Header, NEW g \in Header, CopyHeader(h, g) PROVE TypeOK'
  <2>1. hdr' \in Headers
    BY <1>6 DEF CopyHeader, TypeOK
  <2> QED
    BY <1>6, <2>1 DEF CopyHeader, InModule, TypeOK, runVars
<1>7. ASSUME NEW h \in Header, Extract(h) PROVE TypeOK'
  <2>1. /\ pc = "p" /\ pc' = pc
        /\ Width(h) <= Len(es.packet_in)
        /\ hdr' = [hdr EXCEPT ![h] =
                     [valid |-> TRUE, bits |-> SubSeq(es.packet_in, 1, Width(h))]]
        /\ es' = [es EXCEPT !.packet_in = Suffix(es.packet_in, Width(h))]
        /\ UNCHANGED <<runVars, body, port, sig, std>>
    BY <1>7 DEF Extract, InModule
  <2>2. es.packet_in \in Seq(Bit) /\ Width(h) \in 0 .. Len(es.packet_in)
    BY <2>1, WidthType DEF TypeOK
  <2>3. SubSeq(es.packet_in, 1, Width(h)) \in Seq(Bit)
    BY <2>2
  <2>4. Suffix(es.packet_in, Width(h)) \in Seq(Bit)
    BY <2>2, SuffixType
  <2>5. hdr' \in Headers
    BY <2>1, <2>3 DEF TypeOK
  <2>6. es' \in Objects /\ es'.packet_in \in Seq(Bit)
    BY <2>1, <2>4 DEF TypeOK
  <2> QED
    BY <2>1, <2>5, <2>6 DEF TypeOK, runVars
<1>8. ASSUME NEW h \in Header, Emit(h) PROVE TypeOK'
  <2> DEFINE out == es.packet_out \o (IF hdr[h].valid THEN hdr[h].bits ELSE <<>>)
  <2>1. /\ pc = "dep" /\ pc' = pc
        /\ es' = [es EXCEPT !.packet_out = out]
        /\ UNCHANGED <<runVars, body, port, sig, std, hdr>>
    BY <1>8 DEF Emit, InModule
  <2>2. es.packet_out \in Seq(Bit) /\ hdr[h].bits \in Seq(Bit)
    BY <2>1 DEF TypeOK
  <2>3. out \in Seq(Bit)
    BY <2>2
  <2>4. es' \in Objects /\ es'.packet_out \in Seq(Bit) /\ es'.packet_in = es.packet_in
    BY <2>1, <2>3 DEF TypeOK
  <2> QED
    BY <2>1, <2>4 DEF TypeOK, runVars
<1>9. ASSUME NEW f \in {"egress_spec", "egress_port"}, NEW v \in Port, SetStd(f, v)
      PROVE  TypeOK'
  <2>1. std' \in Metadata
    BY <1>9 DEF SetStd, TypeOK, Metadata
  <2> QED
    BY <1>9, <2>1 DEF SetStd, InModule, TypeOK, runVars
<1>10. CASE ParserAccepts \/ \E err \in Error : ParserRejects(err)
  <2>1. /\ pc = "p" /\ pc' = "vr"
        /\ body' = es.packet_in
        /\ sig' \in Error \cup {NoError}
        /\ UNCHANGED <<runVars, es, hdr, std, port>>
    BY <1>10 DEF ParserAccepts, ParserRejects, LeaveParser, SetStdMetaError
  <2> QED
    BY <2>1 DEF TypeOK, runVars
<1>11. ASSUME NEW h \in Header, ExtractTooShort(h) PROVE TypeOK'
  <2> DEFINE n    == Consumed(h, Len(es.packet_in))
             rest == Suffix(es.packet_in, n)
  <2>1. /\ pc = "p" /\ pc' = "vr"
        /\ Len(es.packet_in) < Width(h)
        /\ es' = [es EXCEPT !.packet_in = rest]
        /\ body' = rest
        /\ sig' = "PacketTooShort"
        /\ hdr' = [hdr EXCEPT ![h] = InvalidHeader(h)]
        /\ UNCHANGED <<runVars, port, std>>
    BY <1>11 DEF ExtractTooShort, LeaveParser, SetStdMetaError
  <2>2. es.packet_in \in Seq(Bit) /\ n \in 0 .. Len(es.packet_in)
    <3>1. es.packet_in \in Seq(Bit) /\ Len(es.packet_in) \in Nat
      BY <2>1 DEF TypeOK
    <3>2. n \in Nat /\ n <= Len(es.packet_in)
      BY <2>1, <3>1, ConsumedBound
    <3> QED
      BY <3>1, <3>2
  <2>3. rest \in Seq(Bit)
    BY <2>2, SuffixType
  <2>4. hdr' \in Headers
    BY <2>1, <1>0 DEF TypeOK
  <2>5. es' \in Objects /\ es'.packet_in \in Seq(Bit)
    BY <2>1, <2>3 DEF TypeOK
  <2> QED
    BY <2>1, <2>3, <2>4, <2>5, ErrorAssumption DEF TypeOK, runVars
<1>12. CASE VerifyEnds
  BY <1>12 DEF VerifyEnds, TypeOK, runVars, pipeVars
<1>13. CASE IngressEnds
  <2>1. std' \in Metadata
    BY <1>13 DEF IngressEnds, SetPortBySpec, TypeOK, Metadata
  <2> QED
    BY <1>13, <2>1 DEF IngressEnds, SetPortBySpec, TypeOK, runVars
<1>14. CASE EgressEnds
  <2>1. std.egress_port \in Port
    BY DEF TypeOK, Metadata
  <2> QED
    BY <1>14, <2>1 DEF EgressEnds, GetPortInt, TypeOK, runVars
<1>15. CASE ChecksumEnds
  <2>1. es' = [es EXCEPT !.packet_out = <<>>] /\ <<>> \in Seq(Bit)
    BY <1>15 DEF ChecksumEnds
  <2>2. es' \in Objects /\ es'.packet_out \in Seq(Bit)
    BY <2>1 DEF TypeOK
  <2> QED
    BY <1>15, <2>2 DEF ChecksumEnds, TypeOK, runVars
<1>16. CASE DeparserEnds
  <2>1. es.packet_out \o body \in Seq(Bit)
    BY <1>16 DEF DeparserEnds, TypeOK
  <2>2. results' \in Seq(Result)
    BY <1>16, <2>1 DEF DeparserEnds, TypeOK, Result
  <2> QED
    BY <1>16, <2>2 DEF DeparserEnds, TypeOK, pipeVars
<1>17. CASE UNCHANGED vars
  BY <1>17 DEF TypeOK, vars, runVars, pipeVars
<1> QED
  BY <1>1, <1>2, <1>3, <1>4, <1>5, <1>6, <1>7, <1>8, <1>9, <1>10, <1>11, <1>12, <1>13, <1>14,
     <1>15, <1>16, <1>17
  DEF Next, Driver, ModuleAction, ModuleEnd, Terminated

(* Every reachable state is well typed: in particular the extern objects are *)
(* there whenever a module that uses them runs.                              *)
THEOREM TypeCorrect == Spec => []TypeOK
BY InitTypeOK, StepTypeOK, PTL DEF Spec

-----------------------------------------------------------------------------
(* ParsedPrefix is inductive, given TypeOK. *)
LEMMA SuffixZero ==
  ASSUME NEW S, NEW s \in Seq(S)
  PROVE  Suffix(s, 0) = s
BY DEF Suffix

LEMMA InvalidHeaderFresh ==
  ASSUME NEW h \in Header
  PROVE  Elements(InvalidHeader(h).bits) \subseteq Fresh
<1>1. Zero \in Fresh
  BY BitAssumption DEF Zero
<1> QED
  BY <1>1, WidthType DEF InvalidHeader, Elements

LEMMA StepParsedPrefix == TypeOK /\ TypeOK' /\ ParsedPrefix /\ [Next]_vars => ParsedPrefix'
<1> SUFFICES ASSUME TypeOK, TypeOK', ParsedPrefix, [Next]_vars, pc' # "driver"
             PROVE  \E n \in 0 .. Len(cur.bits') : CutAt(n)'
  BY DEF ParsedPrefix
<1> USE DEF CutAt, CutBits
<1>1. CASE ReadPacket
  <2>1. /\ cur.bits' \in Seq(Bit)
        /\ cur' = Head(todo)
        /\ es'.packet_in = Head(todo).bits
        /\ hdr' = [h \in Header |-> InvalidHeader(h)]
        /\ pc' = "p"
    BY <1>1 DEF ReadPacket, StartProgram, TypeOK
  <2>2. es'.packet_in = Suffix(cur.bits', 0) /\ 0 \in 0 .. Len(cur.bits')
    BY <2>1, SuffixZero
  <2>3. \A h \in Header : Elements(hdr'[h].bits) \subseteq Fresh
    BY <2>1, InvalidHeaderFresh
  <2> QED
    BY <2>1, <2>2, <2>3
<1>2. CASE ReadExpect \/ ReadUnimplemented \/ Judge \/ ModuleFails \/ DeparserEnds
  BY <1>2 DEF ReadExpect, ReadUnimplemented, Judge, ModuleFails, DeparserEnds, AtStatement
<1>3. CASE UNCHANGED vars
  BY <1>3 DEF ParsedPrefix, vars, runVars, pipeVars
<1>4. ASSUME pc # "driver", UNCHANGED cur,
             \A n \in 0 .. Len(cur.bits) : CutAt(n) => CutAt(n)'
      PROVE  \E n \in 0 .. Len(cur.bits') : CutAt(n)'
  BY <1>4 DEF ParsedPrefix
<1>5. ASSUME NEW h \in Header, NEW b \in BOOLEAN, SetValidity(h, b)
      PROVE  \E n \in 0 .. Len(cur.bits') : CutAt(n)'
  <2>1. \A g \in Header : hdr'[g].bits = hdr[g].bits
    BY <1>5 DEF SetValidity, TypeOK
  <2> QED
    BY <1>5, <1>4, <2>1 DEF SetValidity, InModule, runVars
<1>6. ASSUME NEW h \in Header, NEW b \in Fresh, Rewrite(h, b)
      PROVE  \E n \in 0 .. Len(cur.bits') : CutAt(n)'
  <2>1. hdr' = [hdr EXCEPT ![h] = [hdr[h] EXCEPT !.bits = [i \in 1 .. Len(hdr[h].bits) |-> b]]]
    BY <1>6 DEF Rewrite
  <2>2. \A g \in Header : g # h => hdr'[g].bits = hdr[g].bits
    BY <2>1 DEF TypeOK
  <2>3. hdr'[h].bits = [i \in 1 .. Len(hdr[h].bits) |-> b]
    BY <2>1 DEF TypeOK
  <2>4. Elements(hdr'[h].bits) \subseteq Fresh
    BY <2>3 DEF Elements
  <2> QED
    BY <1>6, <1>4, <2>2, <2>4 DEF Rewrite, InModule, runVars
<1>7. ASSUME NEW h \in Header, NEW g \in Header, CopyHeader(h, g)
      PROVE  \E n \in 0 .. Len(cur.bits') : CutAt(n)'
  <2>1. \A f \in Header : hdr'[f] = hdr[f] \/ hdr'[f] = hdr[g]
    BY <1>7 DEF CopyHeader, TypeOK
  <2> QED
    BY <1>7, <1>4, <2>1 DEF CopyHeader, InModule, runVars
<1>8. ASSUME NEW h \in Header, Extract(h)
      PROVE  \E n \in 0 .. Len(cur.bits') : CutAt(n)'
  <2> DEFINE w == Width(h)
  <2>1. /\ pc = "p" /\ pc' = "p"
        /\ w \in 0 .. Len(es.packet_in)
        /\ hdr' = [hdr EXCEPT ![h] = [valid |-> TRUE, bits |-> SubSeq(es.packet_in, 1, w)]]
        /\ es' = [es EXCEPT !.packet_in = Suffix(es.packet_in, w)]
        /\ cur' = cur
    BY <1>8, WidthType DEF Extract, InModule, runVars, TypeOK
  <2> HIDE DEF w
  <2>2. cur.bits \in Seq(Bit)
    BY DEF TypeOK
  <2>3. PICK n \in 0 .. Len(cur.bits) : CutAt(n)
    BY <2>1 DEF ParsedPrefix
  <2>4. es.packet_in = Suffix(cur.bits, n) /\ Len(es.packet_in) = Len(cur.bits) - n
    BY <2>1, <2>2, <2>3, SuffixType
  <2>5. w \in 0 .. Len(cur.bits) - n /\ n + w \in 0 .. Len(cur.bits) /\ n + w \in n .. Len(cur.bits)
    BY <2>1, <2>2, <2>4
  <2>6. es'.packet_in = Suffix(cur.bits, n + w)
    <3>1. es'.packet_in = Suffix(es.packet_in, w)
      BY <2>1 DEF TypeOK
    <3> QED
      BY <3>1, <2>2, <2>4, <2>5, SuffixSuffix
  <2>7. Elements(SubSeq(cur.bits, 1, n)) \subseteq Elements(SubSeq(cur.bits, 1, n + w))
    BY <2>2, <2>5, PrefixGrows
  <2>8. Elements(SubSeq(es.packet_in, 1, w)) \subseteq Elements(SubSeq(cur.bits, 1, n + w))
    BY <2>2, <2>4, <2>5, PrefixOfSuffix
  <2>9. \A g \in Header : hdr'[g].bits = hdr[g].bits \/ hdr'[g].bits = SubSeq(es.packet_in, 1, w)
    BY <2>1 DEF TypeOK
  <2>10. \A g \in Header : Elements(hdr'[g].bits) \subseteq Elements(SubSeq(cur.bits, 1, n + w)) \cup Fresh
    BY <2>3, <2>7, <2>8, <2>9
  <2>11. CutAt(n + w)'
    BY <2>1, <2>6, <2>10
  <2> QED
    BY <2>1, <2>5, <2>11
<1>9. ASSUME NEW h \in Header, Emit(h)
      PROVE  \E n \in 0 .. Len(cur.bits') : CutAt(n)'
  <2> DEFINE added == IF hdr[h].valid THEN hdr[h].bits ELSE <<>>
  <2>1. /\ pc = "dep" /\ pc' = "dep"
        /\ es' = [es EXCEPT !.packet_out = es.packet_out \o added]
        /\ UNCHANGED <<cur, hdr, body>>
    BY <1>9 DEF Emit, InModule, runVars
  <2>2. es.packet_out \in Seq(Bit) /\ added \in Seq(Bit) /\ Elements(added) \subseteq Elements(hdr[h].bits)
    BY <2>1 DEF TypeOK, Elements
  <2> HIDE DEF added
  <2>3. Elements(es'.packet_out) \subseteq Elements(es.packet_out) \cup Elements(hdr[h].bits)
    BY <2>1, <2>2, ElementsConcat DEF TypeOK
  <2> QED
    BY <2>1, <2>3, <1>4
<1>10. ASSUME NEW f \in {"egress_spec", "egress_port"}, NEW v \in Port, SetStd(f, v)
       PROVE  \E n \in 0 .. Len(cur.bits') : CutAt(n)'
  BY <1>10, <1>4 DEF SetStd, InModule, runVars
<1>11. CASE ParserAccepts \/ \E err \in Error : ParserRejects(err)
  BY <1>11, <1>4 DEF ParserAccepts, ParserRejects, LeaveParser, runVars
<1>12. ASSUME NEW h \in Header, ExtractTooShort(h)
       PROVE  \E n \in 0 .. Len(cur.bits') : CutAt(n)'
  <2>1. /\ pc = "p" /\ pc' = "vr"
        /\ Len(es.packet_in) < Width(h)
        /\ es.packet_in \in Seq(Bit) /\ cur.bits \in Seq(Bit)
        /\ hdr' = [hdr EXCEPT ![h] = InvalidHeader(h)]
        /\ body' = Suffix(es.packet_in, Consumed(h, Len(es.packet_in)))
        /\ cur' = cur
    BY <1>12 DEF ExtractTooShort, LeaveParser, runVars, TypeOK
  <2>2. PICK w \in 0 .. Len(es.packet_in) : body' = Suffix(es.packet_in, w)
    <3>1. Len(es.packet_in) \in Nat
      BY <2>1
    <3> QED
      BY <2>1, <3>1, ConsumedBound
  <2>3. PICK n \in 0 .. Len(cur.bits) : CutAt(n)
    BY <2>1 DEF ParsedPrefix
  <2>4. es.packet_in = Suffix(cur.bits, n) /\ Len(es.packet_in) = Len(cur.bits) - n
    BY <2>1, <2>3, SuffixType
  <2>5. w \in 0 .. Len(cur.bits) - n /\ n + w \in 0 .. Len(cur.bits) /\ n + w \in n .. Len(cur.bits)
    BY <2>1, <2>2, <2>4
  <2>6. body' = Suffix(cur.bits, n + w)
    BY <2>1, <2>2, <2>4, <2>5, SuffixSuffix
  <2>7. Elements(SubSeq(cur.bits, 1, n)) \subseteq Elements(SubSeq(cur.bits, 1, n + w))
    BY <2>1, <2>5, PrefixGrows
  <2>8. \A g \in Header : hdr'[g].bits = hdr[g].bits \/ Elements(hdr'[g].bits) \subseteq Fresh
    BY <2>1, InvalidHeaderFresh DEF TypeOK
  <2>9. \A g \in Header : Elements(hdr'[g].bits) \subseteq Elements(SubSeq(cur.bits, 1, n + w)) \cup Fresh
    BY <2>3, <2>7, <2>8
  <2>10. cur' = cur /\ pc' = "vr"
    BY <2>1
  <2>11. CutAt(n + w)'
    BY <2>6, <2>9, <2>10
  <2> QED
    BY <2>5, <2>10, <2>11
<1>13. CASE VerifyEnds \/ IngressEnds \/ EgressEnds
  BY <1>13, <1>4 DEF VerifyEnds, IngressEnds, SetPortBySpec, EgressEnds, GetPortInt, runVars, pipeVars
<1>14. CASE ChecksumEnds
  <2>1. es'.packet_out = <<>>
    BY <1>14 DEF ChecksumEnds, TypeOK
  <2>2. Elements(es'.packet_out) = {}
    BY <2>1 DEF Elements
  <2> QED
    BY <1>14, <1>4, <2>2 DEF ChecksumEnds, runVars
<1> QED
  BY <1>1, <1>2, <1>3, <1>5, <1>6, <1>7, <1>8, <1>9, <1>10, <1>11, <1>12, <1>13, <1>14
  DEF Next, Driver, ModuleAction, ModuleEnd, Terminated

(* Headers and output never hold bits from behind the parser's position or   *)
(* from another packet.                                                      *)
THEOREM PrefixParsed == Spec => []ParsedPrefix
<1>1. Init => ParsedPrefix
  BY DEF Init, ParsedPrefix
<1> QED
  BY <1>1, TypeCorrect, StepParsedPrefix, PTL DEF Spec

LEMMA SuffixOfConcat ==
  ASSUME NEW S, NEW s \in Seq(S), NEW t \in Seq(S)
  PROVE  Suffix(s \o t, Len(s)) = t
<1> DEFINE u == Suffix(s \o t, Len(s))
<1>1. s \o t \in Seq(S) /\ Len(s \o t) = Len(s) + Len(t) /\ Len(s) \in 0 .. Len(s \o t)
  OBVIOUS
<1>2. u \in Seq(S) /\ Len(u) = Len(t) /\ \A i \in 1 .. Len(t) : u[i] = (s \o t)[Len(s) + i]
  <2>1. /\ u \in Seq(S)
        /\ Len(u) = Len(s \o t) - Len(s)
        /\ \A i \in 1 .. Len(s \o t) - Len(s) : u[i] = (s \o t)[Len(s) + i]
    BY <1>1, SuffixType
  <2>2. Len(s \o t) - Len(s) = Len(t)
    BY <1>1
  <2> QED
    BY <2>1, <2>2
<1>3. \A i \in 1 .. Len(t) : (s \o t)[Len(s) + i] = t[i]
  OBVIOUS
<1>4. \A i \in 1 .. Len(t) : u[i] = t[i]
  BY <1>2, <1>3
<1> HIDE DEF u
<1>5. u = t
  BY <1>2, <1>4
<1> QED
  BY <1>5 DEF u

-----------------------------------------------------------------------------
(* The switch implements PacketForwarder. *)
LEMMA InitForwards == Init => Forwarder!Init
BY DEF Init, Forwarder!Init, Stage, NoPacket

\* what DeparserEnds sends is an answer to cur
LEMMA AnswerSent ==
  ASSUME TypeOK, ParsedPrefix, pc = "dep"
  PROVE  Forwarder!Answers(es.packet_out \o body, body)
<1> DEFINE out == es.packet_out
           ans == out \o body
<1>1. out \in Seq(Bit) /\ body \in Seq(Bit) /\ cur.bits \in Seq(Bit)
  BY DEF TypeOK
<1>2. PICK n \in 0 .. Len(cur.bits) : CutAt(n)
  BY DEF ParsedPrefix
<1>3. Len(out) \in 0 .. Len(ans) /\ ans \in Seq(Bit) /\ Len(ans) = Len(out) + Len(body)
  BY <1>1
<1>4. Forwarder!Suffix(ans, Len(out)) = body
  BY <1>1, SuffixOfConcat DEF Forwarder!Suffix, Suffix
<1>5. Forwarder!Prefix(ans, Len(out)) = out
  BY <1>1, <1>3 DEF Forwarder!Prefix
<1>6. /\ body = Forwarder!Suffix(cur.bits, n)
      /\ Forwarder!Elements(out) \subseteq Forwarder!Elements(Forwarder!Prefix(cur.bits, n)) \cup Fresh
  BY <1>2 DEF CutAt, CutBits, Suffix, Elements, Forwarder!Suffix, Forwarder!Elements, Forwarder!Prefix
<1> HIDE DEF out, ans
<1>7. Forwarder!Answers(ans, body)
  BY <1>3, <1>4, <1>5, <1>6 DEF Forwarder!Answers
<1> QED
  BY <1>7 DEF ans, out

LEMMA StepForwards ==
  TypeOK /\ TypeOK' /\ ParsedPrefix /\ ParsedPrefix' /\ [Next]_vars
    => [Forwarder!Next]_(Forwarder!vars)
<1> SUFFICES ASSUME TypeOK, TypeOK', ParsedPrefix, ParsedPrefix', [Next]_vars
             PROVE  [Forwarder!Next]_(Forwarder!vars)
  OBVIOUS
<1> USE DEF Forwarder!Next, Forwarder!vars, Stage
<1>1. CASE ReadPacket
  BY <1>1 DEF ReadPacket, StartProgram, AtStatement, Forwarder!Take
<1>2. CASE ReadExpect
  BY <1>2 DEF ReadExpect, AtStatement, pipeVars, Forwarder!Expect
<1>3. CASE ReadUnimplemented
  BY <1>3 DEF ReadUnimplemented, AtStatement, pipeVars, Forwarder!Crash
<1>4. CASE ModuleFails
  BY <1>4 DEF ModuleFails, TypeOK, pipeVars, Forwarder!Crash
<1>5. CASE Judge
  <2>1. CASE Len(expected) # Len(results)
    BY <1>5, <2>1 DEF Judge, pipeVars, Forwarder!Crash
  <2>2. CASE Len(expected) = Len(results)
    <3>1. ASSUME NEW i \in DOMAIN results
          PROVE  PacketEqual(expected[i], results[i]) <=> Forwarder!Agree(expected[i], results[i])
      <4>1. results[i].bits \in Seq(Bit)
        <5>1. results \in Seq(Result)
          BY DEF TypeOK
        <5>2. results[i] \in Result
          BY <5>1
        <5> QED
          BY <5>2 DEF Result
      <4>2. DOMAIN results[i].bits = 1 .. Len(results[i].bits)
        BY <4>1
      <4> QED
        BY <4>2 DEF PacketEqual, Forwarder!Agree
    <3>2. DOMAIN results = 1 .. Len(results)
      BY DEF TypeOK
    <3>3. /\ verdict' \in {"passed", "failed"}
          /\ verdict' = "passed" <=> \A i \in DOMAIN results : Forwarder!Agree(expected[i], results[i])
      BY <1>5, <2>2, <3>1, <3>2 DEF Judge
    <3>4. Forwarder!Judge
      BY <1>5, <2>2, <3>3 DEF Judge, pipeVars, Forwarder!Judge
    <3> QED
      BY <3>4
  <2> QED
    BY <2>1, <2>2
<1>6. CASE ModuleAction
  <2>1. pc # "driver" /\ UNCHANGED <<runVars, body, port, sig>> /\ pc' = pc
    BY <1>6 DEF ModuleAction, SetValidity, Rewrite, CopyHeader, Extract, Emit, SetStd, InModule
  <2> QED
    BY <2>1 DEF runVars
<1>7. ASSUME pc = "p", pc' = "vr", UNCHANGED runVars
      PROVE  Forwarder!Parse
  <2>1. \E n \in 0 .. Len(cur.bits') : body' = Suffix(cur.bits', n)
    BY <1>7 DEF ParsedPrefix, CutAt
  <2> QED
    BY <1>7, <2>1 DEF Forwarder!Parse, Forwarder!Suffix, Suffix, runVars
<1>8. CASE \/ ParserAccepts
           \/ \E err \in Error : ParserRejects(err)
           \/ \E h \in Header : ExtractTooShort(h)
  BY <1>8, <1>7 DEF ParserAccepts, ParserRejects, ExtractTooShort, LeaveParser
<1>9. CASE VerifyEnds \/ IngressEnds \/ EgressEnds \/ ChecksumEnds
  BY <1>9 DEF VerifyEnds, IngressEnds, SetPortBySpec, EgressEnds, GetPortInt, ChecksumEnds, runVars, pipeVars
<1>10. CASE DeparserEnds
  <2> DEFINE ans == es.packet_out \o body
  <2>1. /\ pc = "dep" /\ pc' = "driver"
        /\ results' = Append(results, [port |-> port, bits |-> ans])
        /\ UNCHANGED <<script, todo, expected, verdict, cur, body>>
    BY <1>10 DEF DeparserEnds, pipeVars
  <2>2. Forwarder!Answers(ans, body)
    BY <2>1, AnswerSent
  <2> HIDE DEF ans
  <2>3. /\ Len(results') = Len(results) + 1
        /\ \A i \in 1 .. Len(results) : results'[i] = results[i]
        /\ results'[Len(results')] = [port |-> port, bits |-> ans]
    BY <2>1 DEF TypeOK
  <2>4. port \in Port
    BY DEF TypeOK
  <2>5. Forwarder!Deliver
    BY <2>1, <2>2, <2>3, <2>4 DEF Forwarder!Deliver
  <2> QED
    BY <2>5
<1>11. CASE UNCHANGED vars
  BY <1>11 DEF vars, runVars, pipeVars
<1> QED
  BY <1>1, <1>2, <1>3, <1>4, <1>5, <1>6, <1>8, <1>9, <1>10, <1>11
  DEF Next, Driver, ModuleEnd, Terminated

(* Whatever the P4 program does and whatever the script asks, the driver     *)
(* sees a packet forwarder.                                                  *)
THEOREM Implements == Spec => Forwards
BY InitForwards, StepForwards, TypeCorrect, PrefixParsed, PTL
DEF Spec, Forwards, Forwarder!Spec
-----------------------------------------------------------------------------
LEMMA DomainOfSeq ==
  ASSUME NEW S, NEW s \in Seq(S)
  PROVE  DOMAIN s = 1 .. Len(s) /\ Len(s) \in Nat
OBVIOUS

(* Counting statements.                                                      *)
LEMMA CountType ==
  ASSUME NEW op, NEW S, NEW s \in Seq(S)
  PROVE  IsFiniteSet({i \in DOMAIN s : s[i].op = op}) /\ CountOf(op, s) \in Nat
<1>1. IsFiniteSet(1 .. Len(s)) /\ DOMAIN s = 1 .. Len(s)
  BY FS_Interval
<1>2. IsFiniteSet({i \in DOMAIN s : s[i].op = op})
  BY <1>1, FS_Subset
<1> QED
  BY <1>2, FS_CardinalityType DEF CountOf

\* the first statement counts for one or for nothing, the others are only moved
LEMMA CountTail ==
  ASSUME NEW op, NEW S, NEW s \in Seq(S), s # <<>>
  PROVE  CountOf(op, s) = CountOf(op, Tail(s)) + (IF Head(s).op = op THEN 1 ELSE 0)
<1> DEFINE A == {i \in DOMAIN Tail(s) : Tail(s)[i].op = op}
           B == {i \in DOMAIN s \ {1} : s[i].op = op}
           f == [i \in A |-> i + 1]
<1>1. /\ Tail(s) \in Seq(S) /\ Len(Tail(s)) = Len(s) - 1 /\ Len(s) >= 1 /\ Len(s) \in Nat
      /\ \A i \in 1 .. Len(s) - 1 : Tail(s)[i] = s[i + 1]
      /\ DOMAIN s = 1 .. Len(s) /\ DOMAIN Tail(s) = 1 .. Len(s) - 1
      /\ Head(s) = s[1]
  OBVIOUS
<1>2. IsFiniteSet(A) /\ Cardinality(A) \in Nat /\ Cardinality(A) = CountOf(op, Tail(s))
  BY <1>1, CountType, ZenonT(40) DEF CountOf
<1>3. f \in Bijection(A, B)
  <2>1. f \in [A -> B]
    BY <1>1
  <2>2. \A i, j \in A : f[i] = f[j] => i = j
    BY <1>1
  <2>3. ASSUME NEW k \in B PROVE \E i \in A : f[i] = k
    <3>1. k - 1 \in A
      BY <1>1
    <3>2. f[k - 1] = k
      BY <1>1, <3>1
    <3> QED
      BY <3>1, <3>2
  <2> QED
    BY <2>1, <2>2, <2>3 DEF Bijection, Injection, Surjection, IsInjective
<1> HIDE DEF A, B, f
<1>4. IsFiniteSet(B) /\ Cardinality(B) = Cardinality(A)
  BY <1>2, <1>3, FS_Bijection DEF ExistsBijection
<1>5. {i \in DOMAIN s : s[i].op = op} = IF Head(s).op = op THEN B \cup {1} ELSE B
  BY <1>1 DEF B
<1>6. 1 \notin B
  BY DEF B
<1>7. Cardinality(B \cup {1}) = Cardinality(B) + 1
  BY <1>4, <1>6, FS_AddElement
<1>8. CASE Head(s).op = op
  <2>1. CountOf(op, s) = Cardinality(B \cup {1})
    BY <1>5, <1>8 DEF CountOf
  <2> QED
    BY <1>2, <1>4, <1>7, <1>8, <2>1
<1>9. CASE Head(s).op # op
  <2>1. CountOf(op, s) = Cardinality(B)
    BY <1>5, <1>9 DEF CountOf
  <2> QED
    BY <1>2, <1>4, <1>9, <2>1
<1> QED
  BY <1>8, <1>9

LEMMA CountAppended ==
  ASSUME TypeOK, todo # <<>>, NEW op
  PROVE  /\ CountOf(op, todo) = CountOf(op, Tail(todo)) + (IF Head(todo).op = op THEN 1 ELSE 0)
         /\ CountOf(op, todo) \in Nat /\ CountOf(op, Tail(todo)) \in Nat
<1>1. todo \in Seq(Statement) /\ Tail(todo) \in Seq(Statement)
  BY DEF TypeOK
<1> QED
  BY <1>1, CountType, CountTail

-----------------------------------------------------------------------------
LEMMA InitAccounted == Init => AllAccountedFor
<1> SUFFICES ASSUME Init PROVE AllAccountedFor
  OBVIOUS
<1>1. todo = script /\ script \in Seq(Statement) /\ Len(results) = 0 /\ Len(expected) = 0 /\ pc = "driver"
  BY ScriptAssumption DEF Init
<1>2. CountOf("packet", todo) \in Nat /\ CountOf("expect", todo) \in Nat
  BY <1>1, CountType
<1> QED
  BY <1>1, <1>2 DEF AllAccountedFor

LEMMA StepAccounted == TypeOK /\ AllAccountedFor /\ [Next]_vars => AllAccountedFor'
<1> SUFFICES ASSUME TypeOK, AllAccountedFor, [Next]_vars PROVE AllAccountedFor'
  OBVIOUS
<1>0. /\ Len(results) \in Nat /\ Len(expected) \in Nat
      /\ todo \in Seq(Statement) /\ script \in Seq(Statement)
      /\ \A op \in {"packet", "expect"} : CountOf(op, todo) \in Nat /\ CountOf(op, script) \in Nat
  <2>1. /\ results \in Seq(Result) /\ expected \in Seq(Expectation)
        /\ todo \in Seq(Statement) /\ script \in Seq(Statement)
    BY ScriptAssumption DEF TypeOK
  <2>2. Len(results) \in Nat /\ Len(expected) \in Nat
    BY <2>1
  <2>3. \A op : CountOf(op, todo) \in Nat
    BY <2>1, CountType
  <2>4. \A op : CountOf(op, script) \in Nat
    BY <2>1, CountType
  <2> QED
    BY <2>1, <2>2, <2>3, <2>4
<1>1. CASE ReadPacket
  <2>1. /\ pc = "driver" /\ pc' = "p" /\ verdict' = verdict /\ results' = results
        /\ expected' = expected /\ script' = script /\ todo' = Tail(todo)
        /\ todo # <<>> /\ Head(todo).op = "packet"
    BY <1>1 DEF ReadPacket, AtStatement, StartProgram
  <2>2. CountOf("packet", todo) = CountOf("packet", todo') + 1 /\ CountOf("packet", todo') \in Nat
    BY <2>1, CountAppended
  <2>3. CountOf("expect", todo) = CountOf("expect", todo')
    BY <2>1, CountAppended
  <2> QED
    BY <1>0, <2>1, <2>2, <2>3 DEF AllAccountedFor
<1>2. CASE ReadExpect
  <2> DEFINE e == [port |-> Head(todo).port, bits |-> Head(todo).bits]
  <2>1. /\ pc = "driver" /\ pc' = pc /\ verdict' = verdict /\ results' = results
        /\ expected' = Append(expected, e) /\ script' = script /\ todo' = Tail(todo)
        /\ todo # <<>> /\ Head(todo).op = "expect"
    BY <1>2 DEF ReadExpect, AtStatement, pipeVars
  <2>2. CountOf("packet", todo) = CountOf("packet", todo')
    BY <2>1, CountAppended
  <2>3. CountOf("expect", todo) = CountOf("expect", todo') + 1 /\ CountOf("expect", todo') \in Nat
    BY <2>1, CountAppended
  <2>4. Len(expected') = Len(expected) + 1
    BY <2>1 DEF TypeOK
  <2>5. pc' = pc /\ verdict' = verdict /\ results' = results /\ script' = script
    BY <2>1
  <2>6. CountOf("packet", script') = CountOf("packet", script)
        /\ CountOf("expect", script') = CountOf("expect", script)
    BY <2>5
  <2>7. Len(expected') + CountOf("expect", todo') = CountOf("expect", script')
    <3>1. Len(expected) + CountOf("expect", todo) = CountOf("expect", script)
      BY DEF AllAccountedFor
    <3> QED
      BY <1>0, <2>3, <2>4, <2>6, <3>1
  <2> QED
    BY <2>2, <2>5, <2>6, <2>7 DEF AllAccountedFor
<1>3. CASE DeparserEnds
  <2>1. /\ pc = "dep" /\ pc' = "driver" /\ verdict' = verdict
        /\ expected' = expected /\ script' = script /\ todo' = todo
        /\ results' = Append(results, [port |-> port, bits |-> es.packet_out \o body])
    BY <1>3 DEF DeparserEnds
  <2>2. Len(results') = Len(results) + 1
    BY <2>1 DEF TypeOK
  <2> QED
    BY <1>0, <2>1, <2>2 DEF AllAccountedFor
<1>4. CASE ModuleFails \/ ReadUnimplemented
  BY <1>4 DEF ModuleFails, ReadUnimplemented, AllAccountedFor
<1>5. CASE Judge
  BY <1>5 DEF Judge, AllAccountedFor
<1>6. CASE ModuleAction \/ (ModuleEnd /\ ~DeparserEnds)
  <2>1. UNCHANGED <<script, todo, results, expected, verdict>>
    BY <1>6 DEF ModuleAction, SetValidity, Rewrite, CopyHeader, Extract, Emit, SetStd, InModule,
       ModuleEnd, ParserAccepts, ParserRejects, ExtractTooShort, LeaveParser, VerifyEnds,
       IngressEnds, EgressEnds, ChecksumEnds, runVars
  <2>2. pc # "driver" /\ pc' # "driver"
    BY <1>6 DEF ModuleAction, SetValidity, Rewrite, CopyHeader, Extract, Emit, SetStd, InModule,
       ModuleEnd, ParserAccepts, ParserRejects, ExtractTooShort, LeaveParser, VerifyEnds,
       IngressEnds, EgressEnds, ChecksumEnds
  <2> QED
    BY <2>1, <2>2 DEF AllAccountedFor
<1>7. CASE UNCHANGED vars
  BY <1>7 DEF vars, runVars, AllAccountedFor
<1> QED
  BY <1>1, <1>2, <1>3, <1>4, <1>5, <1>6, <1>7 DEF Next, Driver, Terminated

(* The results, the expectations, what is left of the script and the packet  *)
(* in the pipeline account for every statement of it: nothing is lost or     *)
(* counted twice, for any script and program (run_test).                     *)
THEOREM NothingLost == Spec => []AllAccountedFor
BY InitAccounted, StepAccounted, TypeCorrect, PTL DEF Spec

-----------------------------------------------------------------------------
(* What run_test has made of the statements it has read.                     *)
Read == Len(script) - Len(todo)

StatementsRead ==
  /\ Read \in 0 .. Len(script)
  /\ \A i \in DOMAIN todo : todo[i] = script[Read + i]

\* the expectations are those of the statements read, each at its rank
ExpectedRead ==
  /\ Len(expected) = Rank("expect", script, Read)
  /\ \A i \in 1 .. Read : script[i].op = "expect" =>
       /\ Rank("expect", script, i) \in DOMAIN expected
       /\ expected[Rank("expect", script, i)] = [port |-> script[i].port, bits |-> script[i].bits]
  /\ \A k \in DOMAIN expected :
       \E i \in 1 .. Read : script[i].op = "expect" /\ Rank("expect", script, i) = k

VerdictInv == StatementsRead /\ ExpectedRead /\ VerdictSound

LEMMA RankStep ==
  ASSUME NEW op, NEW s, NEW n \in Nat
  PROVE  /\ Rank(op, s, n) \in Nat
         /\ Rank(op, s, n + 1) = Rank(op, s, n) + (IF s[n + 1].op = op THEN 1 ELSE 0)
<1> DEFINE A(m) == {j \in 1 .. m : s[j].op = op}
<1>1. IsFiniteSet(1 .. n)
  BY FS_Interval
<1>2. IsFiniteSet(A(n)) /\ Cardinality(A(n)) \in Nat
  BY <1>1, FS_Subset, FS_CardinalityType
<1>3. A(n + 1) = IF s[n + 1].op = op THEN A(n) \cup {n + 1} ELSE A(n)
  OBVIOUS
<1>4. n + 1 \notin A(n)
  OBVIOUS
<1>5. Cardinality(A(n) \cup {n + 1}) = Cardinality(A(n)) + 1
  BY <1>2, <1>4, FS_AddElement
<1>6. Rank(op, s, n) = Cardinality(A(n)) /\ Rank(op, s, n + 1) = Cardinality(A(n + 1))
  BY DEF Rank
<1> HIDE DEF A
<1>7. CASE s[n + 1].op = op
  BY <1>2, <1>3, <1>5, <1>6, <1>7
<1>8. CASE s[n + 1].op # op
  BY <1>2, <1>3, <1>6, <1>8
<1> QED
  BY <1>7, <1>8

LEMMA RankZero == ASSUME NEW op, NEW s PROVE Rank(op, s, 0) = 0
<1>1. {j \in 1 .. 0 : s[j].op = op} = {}
  OBVIOUS
<1> QED
  BY <1>1, FS_EmptySet DEF Rank

LEMMA InitVerdict == Init => VerdictInv
<1> SUFFICES ASSUME Init PROVE VerdictInv
  OBVIOUS
<1>1. /\ todo = script /\ script \in Seq(Statement) /\ expected = <<>> /\ verdict = "running"
  BY ScriptAssumption DEF Init
<1>2. Read = 0
  BY <1>1 DEF Read
<1>3. StatementsRead
  BY <1>1, <1>2 DEF StatementsRead
<1>4. ExpectedRead
  BY <1>1, <1>2, RankZero DEF ExpectedRead
<1> QED
  BY <1>1, <1>3, <1>4 DEF VerdictInv, VerdictSound

\* one statement more is read
LEMMA ReadOne ==
  ASSUME TypeOK, StatementsRead, todo # <<>>, todo' = Tail(todo), script' = script
  PROVE  /\ StatementsRead'
         /\ Read' = Read + 1 /\ Read \in Nat /\ Read + 1 \in 1 .. Len(script)
         /\ script[Read + 1] = Head(todo)
<1>1. /\ todo \in Seq(Statement) /\ script \in Seq(Statement)
  BY ScriptAssumption DEF TypeOK
<1>2. /\ Len(todo') = Len(todo) - 1 /\ Len(todo) \in Nat \ {0} /\ Len(script) \in Nat
      /\ DOMAIN todo = 1 .. Len(todo) /\ DOMAIN todo' = 1 .. Len(todo')
      /\ \A i \in 1 .. Len(todo') : todo'[i] = todo[i + 1]
      /\ Head(todo) = todo[1]
  BY <1>1
<1>3. Read' = Read + 1 /\ Read \in Nat /\ Read + 1 \in 1 .. Len(script)
  BY <1>2 DEF Read, StatementsRead
<1>4. script[Read + 1] = Head(todo)
  BY <1>2 DEF StatementsRead
<1>5. ASSUME NEW i \in DOMAIN todo' PROVE todo'[i] = script'[Read' + i]
  <2>1. i + 1 \in DOMAIN todo /\ todo'[i] = todo[i + 1]
    BY <1>2
  <2>2. todo[i + 1] = script[Read + (i + 1)]
    BY <2>1 DEF StatementsRead
  <2>3. Read + (i + 1) = Read' + i
    BY <1>2, <1>3
  <2> QED
    BY <2>1, <2>2, <2>3
<1> QED
  BY <1>2, <1>3, <1>4, <1>5 DEF StatementsRead

\* the verdict, when all statements are read
LEMMA JudgeSound ==
  ASSUME TypeOK, VerdictInv, Judge
  PROVE  VerdictSound'
<1>1. /\ todo = <<>> /\ UNCHANGED <<script, results, expected>>
      /\ script \in Seq(Statement) /\ results \in Seq(Result) /\ expected \in Seq(Expectation)
  BY ScriptAssumption DEF Judge, TypeOK
<1>2. Read = Len(script) /\ DOMAIN script = 1 .. Len(script)
  BY <1>1 DEF Read
<1>6. DOMAIN expected = 1 .. Len(expected) /\ Len(results) \in Nat
  BY <1>1, DomainOfSeq
<1>3. Len(expected) = CountOf("expect", script)
  BY <1>2 DEF VerdictInv, ExpectedRead, Rank, CountOf
<1>4. CASE Len(expected) # Len(results)
  BY <1>4 DEF Judge, VerdictSound
<1>5. CASE Len(expected) = Len(results)
  <2>1. ASSUME NEW i \in 1 .. Len(script), script[i].op = "expect"
        PROVE  PacketEqual(expected[Rank("expect", script, i)], results[Rank("expect", script, i)])
                 <=> Meets(results[Rank("expect", script, i)], script[i])
    <3> DEFINE k == Rank("expect", script, i)
    <3>1. k \in 1 .. Len(results) /\ expected[k] = [port |-> script[i].port, bits |-> script[i].bits]
      BY <1>1, <1>2, <1>5, <2>1 DEF VerdictInv, ExpectedRead
    <3> HIDE DEF k
    <3>2. results[k] \in Result /\ script[i] \in Statement
      BY <1>1, <3>1
    <3>3. results[k].bits \in Seq(Bit) /\ script[i].bits \in Seq(Bit \cup {Wildcard})
      BY <3>2 DEF Result, Statement
    <3>4. /\ DOMAIN results[k].bits = 1 .. Len(results[k].bits) /\ Len(results[k].bits) \in Nat
          /\ DOMAIN script[i].bits = 1 .. Len(script[i].bits) /\ Len(script[i].bits) \in Nat
      BY <3>3, DomainOfSeq
    <3>5. DOMAIN results[k].bits = DOMAIN script[i].bits
            <=> Len(script[i].bits) = Len(results[k].bits)
      BY <3>4
    <3>6. PacketEqual(expected[k], results[k]) <=>
            /\ script[i].port = results[k].port
            /\ Len(script[i].bits) = Len(results[k].bits)
            /\ \A j \in 1 .. Len(results[k].bits) : script[i].bits[j] \in {results[k].bits[j], Wildcard}
      BY <3>1 DEF PacketEqual
    <3>7. PacketEqual(expected[k], results[k]) <=> Meets(results[k], script[i])
      BY <3>4, <3>5, <3>6 DEF Meets
    <3> QED
      BY <3>7 DEF k
  <2>2. (\A k \in 1 .. Len(results) : PacketEqual(expected[k], results[k]))
          <=> \A i \in DOMAIN script :
                script[i].op = "expect" => Meets(results[Rank("expect", script, i)], script[i])
    <3>1. \A i \in 1 .. Len(script) : script[i].op = "expect" => Rank("expect", script, i) \in 1 .. Len(results)
      BY <1>2, <1>5, <1>6 DEF VerdictInv, ExpectedRead
    <3>2. \A k \in 1 .. Len(results) :
            \E i \in 1 .. Len(script) : script[i].op = "expect" /\ Rank("expect", script, i) = k
      BY <1>2, <1>5, <1>6 DEF VerdictInv, ExpectedRead
    <3> QED
      BY <1>2, <2>1, <3>1, <3>2, Zenon
  <2>3. Len(results) = CountOf("expect", script)
    BY <1>3, <1>5
  <2>4. verdict' = IF \A k \in 1 .. Len(results) : PacketEqual(expected[k], results[k])
                   THEN "passed" ELSE "failed"
    BY <1>5 DEF Judge
  <2>5. verdict' = "passed" <=> \A i \in DOMAIN script :
                script[i].op = "expect" => Meets(results[Rank("expect", script, i)], script[i])
    BY <2>2, <2>4
  <2> QED
    BY <1>1, <2>3, <2>5 DEF VerdictSound, Rank
<1> QED
  BY <1>4, <1>5

\* a step that leaves the script and the expectations alone
LEMMA NothingRead ==
  ASSUME StatementsRead, ExpectedRead, UNCHANGED <<script, todo, expected>>
  PROVE  StatementsRead' /\ ExpectedRead'
<1>1. script' = script /\ todo' = todo /\ expected' = expected
  OBVIOUS
<1>2. Read' = Read
  BY <1>1 DEF Read
<1>3. StatementsRead'
  BY <1>1, <1>2 DEF StatementsRead
<1>4. ExpectedRead'
  BY <1>1, <1>2 DEF ExpectedRead
<1> QED
  BY <1>3, <1>4

\* only Judge gives a verdict other than "crashed"
LEMMA VerdictKept ==
  ASSUME TypeOK, ReadUnimplemented \/ ModuleAction \/ ModuleEnd \/ ModuleFails
  PROVE  verdict' \in {"running", "crashed"}
<1>1. CASE ReadUnimplemented \/ ModuleFails
  BY <1>1 DEF ReadUnimplemented, ModuleFails
<1>2. CASE ModuleAction
  <2>1. pc # "driver" /\ verdict' = verdict
    BY <1>2 DEF ModuleAction, SetValidity, Rewrite, CopyHeader, Extract, Emit, SetStd, InModule, runVars
  <2> QED
    BY <2>1 DEF TypeOK
<1>3. CASE ModuleEnd
  <2>1. pc # "driver" /\ verdict' = verdict
    BY <1>3 DEF ModuleEnd, ParserAccepts, ParserRejects, ExtractTooShort, LeaveParser, VerifyEnds,
       IngressEnds, EgressEnds, ChecksumEnds, DeparserEnds, runVars
  <2> QED
    BY <2>1 DEF TypeOK
<1> QED
  BY <1>1, <1>2, <1>3

LEMMA StepVerdict == TypeOK /\ VerdictInv /\ [Next]_vars => VerdictInv'
<1> SUFFICES ASSUME TypeOK, VerdictInv, [Next]_vars PROVE VerdictInv'
  OBVIOUS
<1>1. CASE ReadPacket
  <2>1. /\ verdict = "running" /\ verdict' = verdict /\ expected' = expected
        /\ script' = script /\ todo' = Tail(todo) /\ todo # <<>> /\ Head(todo).op = "packet"
    BY <1>1 DEF ReadPacket, AtStatement, StartProgram
  <2>2. /\ StatementsRead' /\ Read' = Read + 1 /\ Read \in Nat
        /\ script[Read + 1].op = "packet"
    BY <2>1, ReadOne DEF VerdictInv
  <2>3. Rank("expect", script, Read + 1) = Rank("expect", script, Read)
    BY <2>2, RankStep
  <2>5. ExpectedRead'
    <3>1. Len(expected') = Rank("expect", script', Read')
      BY <2>1, <2>2, <2>3 DEF VerdictInv, ExpectedRead
    <3>2. ASSUME NEW i \in 1 .. Read', script'[i].op = "expect"
          PROVE  /\ Rank("expect", script', i) \in DOMAIN expected'
                 /\ expected'[Rank("expect", script', i)] = [port |-> script'[i].port, bits |-> script'[i].bits]
      <4>1. i \in 1 .. Read
        BY <2>1, <2>2, <3>2
      <4> QED
        BY <2>1, <3>2, <4>1 DEF VerdictInv, ExpectedRead
    <3>3. \A k \in DOMAIN expected' :
            \E i \in 1 .. Read' : script'[i].op = "expect" /\ Rank("expect", script', i) = k
      BY <2>1, <2>2 DEF VerdictInv, ExpectedRead
    <3> QED
      BY <3>1, <3>2, <3>3 DEF ExpectedRead
  <2> QED
    BY <2>1, <2>2, <2>5 DEF VerdictInv, VerdictSound
<1>2. CASE ReadExpect
  <2> DEFINE e == [port |-> Head(todo).port, bits |-> Head(todo).bits]
             n == Len(expected)
  <2>1. /\ verdict = "running" /\ verdict' = verdict /\ expected' = Append(expected, e)
        /\ script' = script /\ todo' = Tail(todo) /\ todo # <<>> /\ Head(todo).op = "expect"
    BY <1>2 DEF ReadExpect, AtStatement
  <2>2. /\ StatementsRead' /\ Read' = Read + 1 /\ Read \in Nat
        /\ script[Read + 1] = Head(todo)
    BY <2>1, ReadOne DEF VerdictInv
  <2>3. Rank("expect", script, Read + 1) = n + 1
    BY <2>1, <2>2, RankStep, SMTT(30) DEF VerdictInv, ExpectedRead
  <2>5. /\ Len(expected') = n + 1 /\ n \in Nat /\ expected'[n + 1] = e
        /\ DOMAIN expected = 1 .. n /\ DOMAIN expected' = 1 .. n + 1
        /\ \A k \in 1 .. n : expected'[k] = expected[k]
    BY <2>1 DEF TypeOK
  <2>6. e = [port |-> script[Read + 1].port, bits |-> script[Read + 1].bits]
    BY <2>2
  <2> HIDE DEF e, n
  <2>7. ExpectedRead'
    <3>1. Len(expected') = Rank("expect", script', Read')
      BY <2>1, <2>2, <2>3, <2>5
    <3>2. ASSUME NEW i \in 1 .. Read', script'[i].op = "expect"
          PROVE  /\ Rank("expect", script', i) \in DOMAIN expected'
                 /\ expected'[Rank("expect", script', i)] = [port |-> script'[i].port, bits |-> script'[i].bits]
      <4>1. CASE i = Read + 1
        BY <2>1, <2>3, <2>5, <2>6, <4>1
      <4>2. CASE i \in 1 .. Read
        <5>1. Rank("expect", script, i) \in DOMAIN expected
              /\ expected[Rank("expect", script, i)] = [port |-> script[i].port, bits |-> script[i].bits]
          BY <2>1, <3>2, <4>2 DEF VerdictInv, ExpectedRead
        <5> QED
          BY <2>1, <2>5, <5>1
      <4> QED
        BY <2>2, <4>1, <4>2
    <3>3. ASSUME NEW k \in DOMAIN expected'
          PROVE  \E i \in 1 .. Read' : script'[i].op = "expect" /\ Rank("expect", script', i) = k
      <4>1. CASE k = n + 1
        <5>1. Read + 1 \in 1 .. Read' /\ script'[Read + 1].op = "expect"
          BY <2>1, <2>2
        <5> QED
          BY <2>1, <2>3, <4>1, <5>1
      <4>2. CASE k \in DOMAIN expected
        BY <2>1, <2>2, <4>2 DEF VerdictInv, ExpectedRead
      <4> QED
        BY <2>5, <4>1, <4>2
    <3> QED
      BY <3>1, <3>2, <3>3 DEF ExpectedRead
  <2> QED
    BY <2>1, <2>2, <2>7 DEF VerdictInv, VerdictSound
<1>3. CASE Judge
  <2>1. UNCHANGED <<script, todo, expected>>
    BY <1>3 DEF Judge
  <2>2. StatementsRead' /\ ExpectedRead'
    BY <2>1, NothingRead DEF VerdictInv
  <2> QED
    BY <1>3, <2>2, JudgeSound DEF VerdictInv
<1>4. CASE ReadUnimplemented \/ ModuleAction \/ ModuleEnd \/ ModuleFails
  <2>1. UNCHANGED <<script, todo, expected>>
    BY <1>4 DEF ReadUnimplemented, ModuleFails, ModuleAction, SetValidity, Rewrite, CopyHeader,
       Extract, Emit, SetStd, InModule, ModuleEnd, ParserAccepts, ParserRejects, ExtractTooShort,
       LeaveParser, VerifyEnds, IngressEnds, EgressEnds, ChecksumEnds, DeparserEnds, runVars
  <2>2. StatementsRead' /\ ExpectedRead'
    BY <2>1, NothingRead DEF VerdictInv
  <2>3. verdict' \in {"running", "crashed"}
    BY <1>4, VerdictKept
  <2> QED
    BY <2>2, <2>3 DEF VerdictInv, VerdictSound
<1>5. CASE UNCHANGED vars
  <2>1. UNCHANGED <<script, todo, expected, results, verdict>>
    BY <1>5 DEF vars, runVars
  <2>2. StatementsRead' /\ ExpectedRead'
    BY <2>1, NothingRead DEF VerdictInv
  <2>3. VerdictSound'
    BY <2>1 DEF VerdictInv, VerdictSound, CountOf
  <2> QED
    BY <2>2, <2>3 DEF VerdictInv
<1> QED
  BY <1>1, <1>2, <1>3, <1>4, <1>5 DEF Next, Driver, Terminated

(* A test passes exactly when every expectation of its script is met by the  *)
(* packet of the same number, whatever the order of the statements: for any  *)
(* script and program (run_test, stf_alco_test).                             *)
THEOREM VerdictsSound == Spec => []VerdictSound
<1>1. VerdictInv => VerdictSound
  BY DEF VerdictInv
<1> QED
  BY <1>1, InitVerdict, StepVerdict, TypeCorrect, PTL DEF Spec
=============================================================================
