----------------------------- MODULE MCV1Switch -----------------------------
(* A small switch: two headers of different widths and two packets whose     *)
(* bits are all different, so that every bit can be traced to its packet.   *)
EXTENDS V1Switch

CONSTANTS eth, ip, zero, a1, a2, a3, b1, b2

MCCuts  == [h \in Header |-> {0, 1, 2}]
MCBit   == {zero, a1, a2, a3, b1, b2}

Packet(p, bits) == [op |-> "packet", port |-> p, bits |-> bits]
Expect(p, bits) == [op |-> "expect", port |-> p, bits |-> bits]

MCScripts ==
  { \* an expectation before its packet, one after, and one bit left open
    << Expect(1, <<a1, a2, a3>>), Packet(1, <<a1, a2, a3>>),
       Packet(0, <<b1, b2>>), Expect(0, <<Wildcard, b2>>) >>,
    \* a packet without an expectation
    << Packet(0, <<b1, b2>>), Packet(1, <<b1>>), Expect(1, <<b1>>) >>,
    \* a statement the driver does not implement
    << Packet(1, <<b1, b2>>), [op |-> "unimplemented", port |-> 0, bits |-> <<>>] >> }
=============================================================================
