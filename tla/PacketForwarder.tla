-------------------------- MODULE PacketForwarder --------------------------
(***************************************************************************)
(* What a switch promises to the test driver, whatever program it runs.    *)
(* Packets are answered one by one and in order.  Of each packet the       *)
(* parser takes a prefix; the answer is made of bits of that prefix, or of *)
(* bits the program produces, followed by the whole rest of the packet.    *)
(* No bit of another packet is ever sent.                                  *)
(***************************************************************************)
EXTENDS Naturals, Sequences

CONSTANTS Fresh, Port, Wildcard, Scripts

VARIABLES
  script,     \* the statements of the test
  todo,       \* statements of the script still to be taken
  results,    \* the answers so far
  expected,   \* the expectations so far
  verdict,    \* "running", "passed", "failed" or "crashed"
  stage,      \* "idle", "parsing" or "parsed"
  pkt,        \* the packet being forwarded
  body        \* what its parser left

vars == <<script, todo, results, expected, verdict, stage, pkt, body>>

Prefix(s, n) == SubSeq(s, 1, n)
Suffix(s, n) == SubSeq(s, n + 1, Len(s))
Elements(s)  == {s[i] : i \in DOMAIN s}

Init ==
  /\ script \in Scripts
  /\ todo = script
  /\ results = <<>> /\ expected = <<>>
  /\ verdict = "running"
  /\ stage = "idle"
  /\ pkt = <<>> /\ body = <<>>

Take ==
  /\ stage = "idle" /\ verdict = "running"
  /\ todo # <<>> /\ Head(todo).op = "packet"
  /\ pkt' = Head(todo).bits
  /\ todo' = Tail(todo)
  /\ stage' = "parsing"
  /\ UNCHANGED <<script, results, expected, verdict, body>>

Parse ==
  /\ stage = "parsing"
  /\ \E n \in 0 .. Len(pkt) : body' = Suffix(pkt, n)
  /\ stage' = "parsed"
  /\ UNCHANGED <<script, todo, results, expected, verdict, pkt>>

\* out is an answer to a packet pkt whose parser left rest
Answers(out, rest) ==
  \E n \in 0 .. Len(pkt), m \in 0 .. Len(out) :
    /\ rest = Suffix(pkt, n)
    /\ Suffix(out, m) = rest
    /\ Elements(Prefix(out, m)) \subseteq Elements(Prefix(pkt, n)) \cup Fresh

Deliver ==
  /\ stage = "parsed"
  /\ Len(results') = Len(results) + 1
  /\ \A i \in 1 .. Len(results) : results'[i] = results[i]
  /\ results'[Len(results')].port \in Port
  /\ Answers(results'[Len(results')].bits, body)
  /\ stage' = "idle"
  /\ UNCHANGED <<script, todo, expected, verdict, pkt, body>>

Expect ==
  /\ stage = "idle" /\ verdict = "running"
  /\ todo # <<>> /\ Head(todo).op = "expect"
  /\ expected' = Append(expected, [port |-> Head(todo).port, bits |-> Head(todo).bits])
  /\ todo' = Tail(todo)
  /\ UNCHANGED <<script, results, verdict, stage, pkt, body>>

Crash ==
  /\ verdict = "running"
  /\ verdict' = "crashed"
  /\ stage' = "idle"
  /\ UNCHANGED <<script, todo, results, expected, pkt, body>>

Agree(e, r) ==
  /\ e.port = r.port
  /\ Len(e.bits) = Len(r.bits)
  /\ \A i \in DOMAIN r.bits : e.bits[i] = Wildcard \/ e.bits[i] = r.bits[i]

\* "passed" only when every answer was expected, in this order, and no
\* expectation is left over
Judge ==
  /\ stage = "idle" /\ verdict = "running" /\ todo = <<>>
  /\ verdict' \in {"passed", "failed"}
  /\ verdict' = "passed" <=> \A i \in DOMAIN results : Agree(expected[i], results[i])
  /\ Len(expected) = Len(results)
  /\ UNCHANGED <<script, todo, results, expected, stage, pkt, body>>

Next == Take \/ Parse \/ Deliver \/ Expect \/ Crash \/ Judge

Spec == Init /\ [][Next]_vars
=============================================================================
