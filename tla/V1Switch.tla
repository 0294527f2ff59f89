------------------------------ MODULE V1Switch ------------------------------
(***************************************************************************)
(* The V1Model target run by the STF driver: one P4 program, a script of   *)
(* packets and expectations, and for every packet the six modules          *)
(*                                                                         *)
(*     p (parser) -> vr -> ig -> eg -> ck -> dep (deparser)                *)
(*                                                                         *)
(* of interp_prog in coq/lib/P4light/Architecture/V1ModelTarget.v, driven  *)
(* by run_test in lib/stf.ml and judged by p4stf/test.ml.                  *)
(*                                                                         *)
(* What a module does is up to the P4 program, so each module is a set of  *)
(* small actions it may take in any order, followed by the step with which *)
(* interp_prog picks up its result.  Bits are opaque: two bits of a packet *)
(* differ only if CONSTANT Bit makes them differ.                          *)
(***************************************************************************)
EXTENDS Naturals, Sequences, FiniteSets

CONSTANTS
  Header,       \* the headers of the program's headers struct
  Cuts,         \* Cuts[h]: the bit offsets in h at which a field of h ends, 0 included
  Bit,          \* the bits a packet is made of
  Fresh,        \* the bits the program itself can produce
  Port,         \* ports of the switch
  Wildcard,     \* the '*' of an expectation
  Error,        \* the errors of core.p4 a parser can stop with
  NoError,
  NoObject,     \* PathMap.get of a path that was never set
  Scripts,      \* the STF files, each a sequence of statements
  MaxEmitted    \* bound on the length of packet_out

Zero == CHOOSE b \in Fresh : TRUE      \* the bit a header is initialised with

Width(h) == CHOOSE n \in Cuts[h] : \A m \in Cuts[h] : m <= n

Statement ==
  [op : {"packet", "expect", "unimplemented"}, port : Port, bits : Seq(Bit \cup {Wildcard})]

\* the last field boundary in the first n bits of h
Consumed(h, n) == CHOOSE c \in Cuts[h] : c <= n /\ \A m \in Cuts[h] : m <= n => m <= c

\* only expectations may have a '*'
PacketsConcrete(s) == \A i \in 1 .. Len(s) : s[i].op = "packet" => s[i].bits \in Seq(Bit)

ASSUME HeaderAssumption ==
  \A h \in Header :
    /\ Cuts[h] \subseteq Nat
    /\ 0 \in Cuts[h]
    /\ \E n \in Cuts[h] : \A m \in Cuts[h] : m <= n
    /\ \A n \in 0 .. Width(h) :
         \E c \in Cuts[h] : c <= n /\ \A m \in Cuts[h] : m <= n => m <= c
ASSUME BitAssumption == Fresh \subseteq Bit /\ Fresh # {} /\ Wildcard \notin Bit
ASSUME PortAssumption == 0 \in Port /\ Port \subseteq Nat
ASSUME ErrorAssumption == NoError \notin Error /\ "PacketTooShort" \in Error
ASSUME ObjectAssumption == NoObject \notin Seq(Bit)
ASSUME ScriptAssumption ==
  /\ Scripts \subseteq Seq(Statement)
  /\ \A s \in Scripts : PacketsConcrete(s)
ASSUME BoundAssumption == MaxEmitted \in Nat

VARIABLES
  pc,         \* where the run is: a module of the pipeline, or the driver
  script,     \* the statements of the STF file
  todo,       \* run_test's stmts
  results,    \* run_test's results, one record per processed packet
  expected,   \* run_test's expected
  verdict,    \* "running", then what stf_alco_test reports
  cur,        \* the packet statement being processed
  es,         \* the extern state: the objects at paths packet_in and packet_out
  hdr,        \* the headers struct passed from module to module
  std,        \* the fields of standard_metadata the driver reads or sets
  body,       \* pkt_body: the suffix of the packet the parser left
  port,       \* the port read between eg and ck
  sig         \* the signal of the parser: NoError when it accepted

runVars  == <<script, todo, results, expected, verdict, cur>>
pipeVars == <<es, hdr, std, body, port, sig>>
vars     == <<pc, runVars, pipeVars>>

Suffix(s, n) == SubSeq(s, n + 1, Len(s))
Elements(s)  == {s[i] : i \in DOMAIN s}

InvalidHeader(h) == [valid |-> FALSE, bits |-> [i \in 1 .. Width(h) |-> Zero]]

\* standard_metadata1: all fields zero, whatever port the packet came in on
ZeroMetadata ==
  [ingress_port |-> 0, egress_spec |-> 0, egress_port |-> 0, parser_error |-> NoError]

NoPacket == [op |-> "packet", port |-> 0, bits |-> <<>>]

Init ==
  /\ pc = "driver"
  /\ script \in Scripts
  /\ todo = script
  /\ results = <<>> /\ expected = <<>>
  /\ verdict = "running"
  /\ cur = NoPacket
  /\ es = [packet_in |-> NoObject, packet_out |-> NoObject]
  /\ hdr = [h \in Header |-> InvalidHeader(h)]
  /\ std = ZeroMetadata
  /\ body = <<>>
  /\ port = 0
  /\ sig = NoError

-----------------------------------------------------------------------------
(* The driver: run_test takes the statements one after the other.          *)

AtStatement(op) == pc = "driver" /\ verdict = "running" /\ todo # <<>> /\ Head(todo).op = op

\* interp_prog up to its parser: the packet is put at the path packet_in of the
\* extern state the last packet left; the headers are an out parameter
StartProgram(pin) ==
  /\ es' = [es EXCEPT !.packet_in = pin]
  /\ hdr' = [h \in Header |-> InvalidHeader(h)]
  /\ std' = ZeroMetadata
  /\ sig' = NoError
  /\ pc' = "p"

\* Mutant of ReadPacket: the packet is not put at the path packet_in.
ReadPacketKeepsInput ==
  /\ AtStatement("packet")
  /\ cur' = Head(todo)
  /\ todo' = Tail(todo)
  /\ hdr' = [h \in Header |-> InvalidHeader(h)]
  /\ std' = ZeroMetadata
  /\ sig' = NoError
  /\ pc' = "p"
  /\ UNCHANGED <<script, results, expected, verdict, es, body, port>>

ReadPacket ==
  /\ AtStatement("packet")
  /\ cur' = Head(todo)
  /\ todo' = Tail(todo)
  /\ StartProgram(Head(todo).bits)
  /\ UNCHANGED <<script, results, expected, verdict, body, port>>

\* Mutant of ReadExpect: the expectations pile up in reverse.
ReadExpectInFront ==
  /\ AtStatement("expect")
  /\ expected' = <<[port |-> Head(todo).port, bits |-> Head(todo).bits]>> \o expected
  /\ todo' = Tail(todo)
  /\ UNCHANGED <<script, pc, results, verdict, cur, pipeVars>>

ReadExpect ==
  /\ AtStatement("expect")
  /\ expected' = Append(expected, [port |-> Head(todo).port, bits |-> Head(todo).bits])
  /\ todo' = Tail(todo)
  /\ UNCHANGED <<script, pc, results, verdict, cur, pipeVars>>

\* Mutant of ReadUnimplemented: the driver waits instead of raising.
ReadUnimplementedWaits == AtStatement("unimplemented") /\ UNCHANGED vars

\* Add, Wait, Set_default, Remove_all, No_packet, Check_counter, and Expect
\* without a packet raise, which ends the test.
ReadUnimplemented ==
  /\ AtStatement("unimplemented")
  /\ verdict' = "crashed"
  /\ UNCHANGED <<script, pc, todo, results, expected, cur, pipeVars>>

\* packet_equal: same port, same length, every digit equal or expected as '*'
PacketEqual(e, r) ==
  /\ e.port = r.port
  /\ Len(e.bits) = Len(r.bits)
  /\ \A i \in 1 .. Len(r.bits) : e.bits[i] \in {r.bits[i], Wildcard}

\* List.zip_exn raises on lists of different lengths
Judge ==
  /\ pc = "driver" /\ verdict = "running" /\ todo = <<>>
  /\ verdict' = IF Len(expected) # Len(results) THEN "crashed"
                ELSE IF \A i \in 1 .. Len(results) : PacketEqual(expected[i], results[i])
                     THEN "passed" ELSE "failed"
  /\ UNCHANGED <<script, pc, todo, results, expected, cur, pipeVars>>

\* An error of run_module or of interp_prog itself makes run_test raise.
ModuleFails ==
  /\ pc # "driver"
  /\ verdict' = "crashed"
  /\ pc' = "driver"
  /\ UNCHANGED <<script, todo, results, expected, cur, pipeVars>>

-----------------------------------------------------------------------------
(* What the modules of the program may do.                                 *)

InModule(ms) == pc \in ms /\ UNCHANGED <<runVars, body, port, sig>>

\* setValid() and setInvalid() keep the contents of the header
SetValidity(h, b) ==
  /\ InModule({"p", "vr", "ig", "eg", "ck"})
  /\ hdr' = [hdr EXCEPT ![h].valid = b]
  /\ UNCHANGED <<pc, es, std>>

\* an assignment to all fields of a valid header, of bits the program computes
Rewrite(h, b) ==
  /\ InModule({"p", "vr", "ig", "eg", "ck"})
  /\ hdr[h].valid
  /\ hdr' = [hdr EXCEPT ![h].bits = [i \in 1 .. Len(@) |-> b]]
  /\ UNCHANGED <<pc, es, std>>

\* h = g, between headers of the same type
CopyHeader(h, g) ==
  /\ InModule({"p", "vr", "ig", "eg", "ck"})
  /\ Cuts[h] = Cuts[g]
  /\ hdr' = [hdr EXCEPT ![h] = hdr[g]]
  /\ UNCHANGED <<pc, es, std>>

SetStd(field, v) ==
  /\ InModule({"p", "ig", "eg"})
  /\ std' = [std EXCEPT ![field] = v]
  /\ UNCHANGED <<pc, es, hdr>>

\* extract consumes the header field by field: a packet that ends inside a
\* field has lost the fields before it when PacketTooShort is signalled.
Extract(h) ==
  /\ InModule({"p"})
  /\ Width(h) <= Len(es.packet_in)
  /\ hdr' = [hdr EXCEPT ![h] = [valid |-> TRUE, bits |-> SubSeq(es.packet_in, 1, Width(h))]]
  /\ es' = [es EXCEPT !.packet_in = Suffix(@, Width(h))]
  /\ UNCHANGED <<pc, std>>

\* emit appends the bits of a valid header and nothing for an invalid one
Emit(h) ==
  /\ InModule({"dep"})
  /\ LET out == es.packet_out \o (IF hdr[h].valid THEN hdr[h].bits ELSE <<>>)
     IN  /\ Len(out) <= MaxEmitted
         /\ es' = [es EXCEPT !.packet_out = out]
  /\ UNCHANGED <<pc, hdr, std>>

-----------------------------------------------------------------------------
(* How interp_prog goes from one module to the next.                       *)

\* set_std_meta_error returns standard_metadata as it is, and the parser's
\* result is used with standard_metadata2, not with the updated meta'
SetStdMetaError(s, err) == s

\* pkt_body is taken from packet_in when the parser is done
LeaveParser(packet_in, signal) ==
  /\ body' = packet_in
  /\ sig' = signal
  /\ pc' = "vr"
  /\ UNCHANGED <<runVars, port>>

ParserAccepts ==
  /\ pc = "p"
  /\ LeaveParser(es.packet_in, NoError)
  /\ UNCHANGED <<es, hdr, std>>

\* A parser is rejected by a step that does not touch the packet (hs.next on a
\* full stack).  The state reject itself calls verify, which V1Model does not
\* implement: that is ModuleFails.
ParserRejects(err) ==
  /\ pc = "p"
  /\ std' = SetStdMetaError(std, err)
  /\ LeaveParser(es.packet_in, err)
  /\ UNCHANGED <<es, hdr>>

\* an extract past the end of the packet: the header is reset, the signal
\* SReject ends the parser and the copy-out still happens
ExtractTooShort(h) ==
  /\ pc = "p"
  /\ Len(es.packet_in) < Width(h)
  /\ LET rest == Suffix(es.packet_in, Consumed(h, Len(es.packet_in)))
     IN  /\ es' = [es EXCEPT !.packet_in = rest]
         /\ LeaveParser(rest, "PacketTooShort")
  /\ hdr' = [hdr EXCEPT ![h] = InvalidHeader(h)]
  /\ std' = SetStdMetaError(std, "PacketTooShort")

\* expect_result_null lets SReturn null, SExit and SReject pass
VerifyEnds ==
  /\ pc = "vr"
  /\ pc' = "ig"
  /\ UNCHANGED <<runVars, pipeVars>>

SetPortBySpec(s) == [s EXCEPT !.egress_port = s.egress_spec]

IngressEnds ==
  /\ pc = "ig"
  /\ std' = SetPortBySpec(std)
  /\ pc' = "eg"
  /\ UNCHANGED <<runVars, es, hdr, body, port, sig>>

GetPortInt(s) == s.egress_port

EgressEnds ==
  /\ pc = "eg"
  /\ port' = GetPortInt(std)
  /\ pc' = "ck"
  /\ UNCHANGED <<runVars, es, hdr, std, body, sig>>

\* Mutant of ChecksumEnds: packet_out is only initialised for the first packet.
ChecksumEndsKeepsOut ==
  /\ pc = "ck"
  /\ es' = [es EXCEPT !.packet_out = IF @ = NoObject THEN <<>> ELSE @]
  /\ pc' = "dep"
  /\ UNCHANGED <<runVars, hdr, std, body, port, sig>>

ChecksumEnds ==
  /\ pc = "ck"
  /\ es' = [es EXCEPT !.packet_out = <<>>]
  /\ pc' = "dep"
  /\ UNCHANGED <<runVars, hdr, std, body, port, sig>>

\* Mutants of DeparserEnds: the body is not sent; the earlier results are lost.
DeparserEndsWithoutBody ==
  /\ pc = "dep"
  /\ results' = Append(results, [port |-> port, bits |-> es.packet_out])
  /\ pc' = "driver"
  /\ UNCHANGED <<script, todo, expected, verdict, cur, pipeVars>>

DeparserEndsOverwrites ==
  /\ pc = "dep"
  /\ results' = <<[port |-> port, bits |-> es.packet_out \o body]>>
  /\ pc' = "driver"
  /\ UNCHANGED <<script, todo, expected, verdict, cur, pipeVars>>

DeparserEnds ==
  /\ pc = "dep"
  /\ results' = Append(results, [port |-> port, bits |-> es.packet_out \o body])
  /\ pc' = "driver"
  /\ UNCHANGED <<script, todo, expected, verdict, cur, pipeVars>>

-----------------------------------------------------------------------------
Driver == ReadPacket \/ ReadExpect \/ ReadUnimplemented \/ Judge

ModuleAction ==
  \/ \E h \in Header :
       \/ \E b \in BOOLEAN : SetValidity(h, b)
       \/ \E b \in Fresh : Rewrite(h, b)
       \/ \E g \in Header : CopyHeader(h, g)
       \/ Extract(h)
       \/ Emit(h)
  \/ \E f \in {"egress_spec", "egress_port"}, v \in Port : SetStd(f, v)

ModuleEnd ==
  \/ ParserAccepts
  \/ \E err \in Error : ParserRejects(err)
  \/ \E h \in Header : ExtractTooShort(h)
  \/ VerifyEnds \/ IngressEnds \/ EgressEnds \/ ChecksumEnds \/ DeparserEnds

Terminated == verdict # "running" /\ UNCHANGED vars

Next == Driver \/ ModuleAction \/ ModuleEnd \/ ModuleFails \/ Terminated

Spec == Init /\ [][Next]_vars

\* Modules terminate (controls and deparsers have no loops; the driver runs
\* parsers with unlimited fuel, so a parser that loops for ever is outside the
\* assumption), and the driver never waits.
Fairness == WF_vars(ModuleEnd) /\ WF_vars(Driver)

FairSpec == Spec /\ Fairness

-----------------------------------------------------------------------------
Result == [port : Port, bits : Seq(Bit)]
Expectation == [port : Port, bits : Seq(Bit \cup {Wildcard})]
Metadata ==
  [ingress_port : Port, egress_spec : Port, egress_port : Port, parser_error : Error \cup {NoError}]

\* The values the variables range over.
TypeOK ==
  /\ pc \in {"driver", "p", "vr", "ig", "eg", "ck", "dep"}
  /\ script \in Scripts
  /\ todo \in Seq(Statement) /\ PacketsConcrete(todo)
  /\ cur \in [op : {"packet"}, port : Port, bits : Seq(Bit)]
  /\ results \in Seq(Result) /\ expected \in Seq(Expectation)
  /\ verdict \in {"running", "passed", "failed", "crashed"}
  /\ pc # "driver" => verdict = "running"
  /\ es \in [packet_in : {NoObject} \cup Seq(Bit), packet_out : {NoObject} \cup Seq(Bit)]
  /\ pc # "driver" => es.packet_in \in Seq(Bit)
  /\ pc = "dep" => es.packet_out \in Seq(Bit)
  /\ hdr \in [Header -> [valid : BOOLEAN, bits : Seq(Bit)]]
  /\ std \in Metadata
  /\ body \in Seq(Bit)
  /\ port \in Port
  /\ sig \in Error \cup {NoError}

\* While a packet is in the pipeline there is one cut of it such that packet_in
\* (in the parser) or pkt_body (after it) is everything behind the cut, and the
\* headers and packet_out hold only bits from before the cut or bits the
\* program made.  Headers and extern objects are threaded through all six
\* modules and, for the extern state, from one packet to the next: nothing of
\* an earlier packet may stay in them, and no bit may be both emitted and left
\* in the body.
CutBits(n) == Elements(SubSeq(cur.bits, 1, n)) \cup Fresh

CutAt(n) ==
  /\ (IF pc = "p" THEN es.packet_in ELSE body) = Suffix(cur.bits, n)
  /\ \A h \in Header : Elements(hdr[h].bits) \subseteq CutBits(n)
  /\ pc = "dep" => Elements(es.packet_out) \subseteq CutBits(n)

ParsedPrefix == pc # "driver" => \E n \in 0 .. Len(cur.bits) : CutAt(n)

\* run_test's accumulators and what is left of the script account for every
\* packet and every expectation of it, and so does the one in the pipeline.
CountOf(op, s) == Cardinality({i \in DOMAIN s : s[i].op = op})

AllAccountedFor ==
  LET inFlight == IF pc = "driver" THEN 0 ELSE 1
  IN  /\ verdict # "crashed" =>
           Len(results) + inFlight + CountOf("packet", todo) = CountOf("packet", script)
      /\ Len(expected) + CountOf("expect", todo) = CountOf("expect", script)

\* The verdict of a test does not depend on how packets and expectations
\* interleave in the script: it passes exactly when there are as many packets
\* as expectations and the i-th packet's result is what the i-th expectation
\* of the script says.
Rank(op, s, i) == Cardinality({j \in 1 .. i : s[j].op = op})

Meets(result, st) ==
  /\ result.port = st.port
  /\ DOMAIN result.bits = DOMAIN st.bits
  /\ \A j \in DOMAIN st.bits : st.bits[j] # Wildcard => st.bits[j] = result.bits[j]

VerdictSound ==
  verdict \in {"passed", "failed"} =>
    /\ Len(results) = CountOf("expect", script)
    /\ verdict = "passed" <=>
         \A i \in DOMAIN script :
           script[i].op = "expect" => Meets(results[Rank("expect", script, i)], script[i])

\* The switch under its driver implements the abstract packet forwarder.
Stage == IF pc = "driver" THEN "idle" ELSE IF pc = "p" THEN "parsing" ELSE "parsed"

Forwarder == INSTANCE PacketForwarder WITH
  stage <- Stage,
  pkt   <- cur.bits

Forwards == Forwarder!Spec

\* Every test run comes to a verdict: the driver never waits for an answer that
\* no module will give.
RunEnds == <>(verdict # "running")
=============================================================================
