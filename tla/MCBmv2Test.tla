--------------------------- MODULE MCBmv2Test ---------------------------
(* One script that tests a program and one started by hand.  The STF file  *)
(* of the first is a good one, with a command before each packet and an    *)
(* interface where anything is fine; that of the second has a packet that  *)
(* is not hexadecimal and an interface with both kinds of expectation.     *)
EXTENDS Bmv2Test

CONSTANTS a, b

P(port, hex) == [kind |-> "packet", port |-> port, hex |-> hex]
E(port, data) == [kind |-> "expect", port |-> port, data |-> data]
C(parses) == [kind |-> "cli", parses |-> parses]
Blank == [kind |-> "other"]

MCStf == [s \in {a, b} |->
    IF s = a
    THEN <<C(TRUE), P(0, TRUE), E(1, <<"1", "*", "$">>), C(TRUE), P(1, TRUE),
           E(0, <<>>), Blank>>
    ELSE <<P(0, FALSE), E(0, <<"1">>), E(0, <<>>)>>]

(* No interfaces: what matters is who has which port.                      *)
NoPackets == [s \in {a, b} |-> <<C(TRUE)>>]

MCEmitted == {<<"1", "0">>, <<"0">>}

Options(errors, stf) ==
    [errors |-> errors, hasBMv2 |-> TRUE, stf |-> stf, init |-> 1, cleanup |-> TRUE]

MCOptions == [s \in {a, b} |->
    IF s = a THEN {Options(e, f) : e \in BOOLEAN, f \in BOOLEAN}
    ELSE {Options(FALSE, TRUE)}]
=============================================================================
