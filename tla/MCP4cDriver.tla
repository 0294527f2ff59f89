--------------------------- MODULE MCP4cDriver ---------------------------
(* Two sources with one base name, two runs of the driver in one directory, *)
(* the back ends of the tree and one of a site that has set-up and cleanup  *)
(* commands and an assembler.                                               *)
EXTENDS P4cDriver

Request(target, arch, source) ==
    [target |-> target, arch |-> arch, source |-> source, language |-> "p4-16",
     words |-> {}, early |-> FALSE, help_pragmas |-> FALSE, dry_run |-> FALSE,
     debug_info |-> FALSE, run_preprocessor_only |-> FALSE,
     skip_preprocessor |-> FALSE, run_till_assembler |-> FALSE]

Plain(source) == Request("bmv2", <<"v1model">>, source)
Dpdk(source) == Request("dpdk", <<"psa">>, source)
Mode(o, E, e, S) ==
    [o EXCEPT !.run_preprocessor_only = E, !.skip_preprocessor = e,
              !.run_till_assembler = S]

MCRequests ==
    {Plain("a/p"), [Plain("b/p") EXCEPT !.language = "p4_14"],
     Mode(Plain("b/p"), FALSE, TRUE, FALSE),
     Mode(Plain("a/p"), TRUE, TRUE, FALSE),
     Dpdk("a/p"), [Dpdk("b/p") EXCEPT !.language = "p4_16", !.words = {<<"-D", "X">>}],
     Mode(Dpdk("a/p"), TRUE, FALSE, TRUE), Mode(Dpdk("b/p"), FALSE, TRUE, FALSE),
     Mode(Dpdk("a/p"), FALSE, TRUE, TRUE), Mode(Dpdk("b/p"), FALSE, FALSE, TRUE),
     [Dpdk("a/p") EXCEPT !.dry_run = TRUE],
     [Dpdk("none") EXCEPT !.help_pragmas = TRUE],
     [Plain("none") EXCEPT !.help_pragmas = TRUE],
     [Plain("none") EXCEPT !.early = TRUE],
     Plain("none"), Plain("missing"),
     Request("bmv2", <<"psa">>, "a/p"), Request("nic", <<"psa">>, "a/p"),
     Request("ebpf", <<"v1model", "2">>, "b/p"),
     [Request("site", <<"psa">>, "a/p") EXCEPT !.debug_info = TRUE]}

Tools == {"preprocessor", "cleaner"}
Unset == [version |-> "unset", target |-> "unset", arch |-> "unset", path |-> Tools]
MCEnvironments ==
    {Unset, [Unset EXCEPT !.path = {"preprocessor"}],
     [Unset EXCEPT !.version = "p4_14"], [Unset EXCEPT !.version = "p4_16"],
     [Unset EXCEPT !.target = "dpdk", !.arch = "psa"]}

MCSiteTargets ==
    LET site == Backend(<<"site", "psa">>, "site",
                        {"preprocessor", "compiler", "assembler", "linker"},
                        <<"preprocessor", "compiler", "assembler", "linker">>)
    IN <<[site EXCEPT !.before["compiler"] = 1, !.after["compiler"] = 2]>>

MCLoadOrders == {<<"bmv2", "dpdk", "ebpf", "site">>, <<"site", "ebpf", "dpdk", "bmv2">>}

MCCodes == {0, 1, -9}
==========================================================================
