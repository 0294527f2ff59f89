------------------------- MODULE P4cDriver_proofs -------------------------
(* The compiler driver for any sources, requests, environments, tools and  *)
(* well-formed back ends of the site, and any number of runs.              *)
EXTENDS P4cDriver, FiniteSetTheorems, SequenceTheorems, WellFoundedInduction, TLAPS

-----------------------------------------------------------------------------
(* Back ends and the commands they run                                      *)

(* Every back end that can be found, of the tree or of the site.            *)
IsBackend(b) == WellFormed(b) /\ (b.kind = "dpdk" => b = DPDKBackend)

Commands == Enabled(backend, opts)
Working == pc \in {"preRun", "runCmd", "postRun"}
Entry == [command : DOMAIN backend.first,
          kind : {"before", "command", "after", "interrupt"}, code : Int]

(* todo is what is left of the commands of this run.                        *)
Done == Len(Commands) - Len(todo)
Progress ==
    /\ Commands \in Seq(DOMAIN backend.first)
    /\ todo \in Seq(DOMAIN backend.first)
    /\ Len(todo) <= Len(Commands)
    /\ \A i \in 1 .. Len(todo) : todo[i] = Commands[Done + i]

DriverInv ==
    /\ pc \in {"idle", "main", "makedirs"} \/ Working
    /\ Len(targets) \in Nat /\ DOMAIN targets = 1 .. Len(targets)
    /\ \A i \in DOMAIN targets : IsBackend(targets[i])
    /\ IsBackend(backend)
    /\ run \in Nat /\ pending \in Nat /\ rc \in Codes
    /\ ran \in Seq(Entry)
    /\ pc # "idle" => DOMAIN opts = Options /\ \A w \in opts.words : w[1] \notin OwnWords
    /\ pc \in {"main", "makedirs"} => ran = <<>>
    /\ pc = "makedirs" => todo = Commands
    /\ pc = "makedirs" \/ Working => Progress /\ cmdline = Line(backend, opts)
    /\ Working => todo # <<>>

(* How many commands have succeeded while nothing has failed, and what     *)
(* that says of the files; a text of this run is in the language of it.     *)
Succeeded == IF pc = "postRun" THEN Done + 1 ELSE Done
LastOf(i) == \A j \in i + 1 .. Succeeded : Commands[j] # "preprocessor"
AfterSuccess(i) ==
    /\ Worked(Commands[i])
    /\ Commands[i] = "preprocessor" =>
         p4i = None \/ (p4i # Torn /\ p4i.run = run /\ p4i.source = opts.source)
    /\ Commands[i] = "compiler" /\ LastOf(i) => p4i = None \/ (out # None /\ out.text = p4i)
    /\ Commands[i] = "cleaner" /\ LastOf(i) => p4i = None
TextInv ==
    p4i \notin {None, Torn} =>
       p4i.run \in Nat /\ p4i.run <= run /\ (p4i.run = run => p4i.language = Standard(opts))
FilesInv ==
    /\ TextInv
    /\ Working /\ ~opts.dry_run /\ (pc = "postRun" => rc = 0) =>
         \A i \in 1 .. Succeeded : AfterSuccess(i)

(* What CleanedUpAfter and Place say, of the first m entries of any list.   *)
CleanedIn(r, after, i, m) ==
    LET last == i + after[r[i].command] IN
    /\ last <= m
    /\ \A j \in i + 1 .. last : r[j].kind = "after" /\ r[j].command = r[i].command
    /\ last < m => r[last + 1].kind # "after"
PlaceIn(r, i) == Cardinality({j \in 1 .. i : r[j].kind = "command"})

(* The entries of the commands that are over, their cleanup included; the   *)
(* last command is still being cleaned up after.                            *)
Over == IF pc = "postRun" THEN Len(ran) - (backend.after[todo[1]] - pending) - 1 ELSE Len(ran)
OverInv ==
    /\ Over \in 0 .. Len(ran)
    /\ \A i \in 1 .. Over :
          /\ ran[i].kind # "after" => ran[i].code = 0
          /\ ran[i].kind = "command" => CleanedIn(ran, backend.after, i, Over)
    /\ pc = "postRun" =>
          /\ pending <= backend.after[todo[1]]
          /\ ran[Over + 1] = [command |-> todo[1], kind |-> "command", code |-> rc]
          /\ \A j \in Over + 2 .. Len(ran) : ran[j].kind = "after" /\ ran[j].command = todo[1]
PlaceInv ==
    /\ PlaceIn(ran, Len(ran)) = Succeeded
    /\ \A i \in DOMAIN ran : ran[i].kind = "command" => ran[i].command = Commands[PlaceIn(ran, i)]
RanInv ==
    /\ Working =>
         /\ \A i \in DOMAIN ran : ran[i].kind # "interrupt"
         /\ OverInv
         /\ PlaceInv
    /\ EndsAsItsCommands

-----------------------------------------------------------------------------

LEMMA Least ==
  ASSUME NEW T \in SUBSET Nat, T # {}
  PROVE  \E n \in T : \A m \in T : n <= m
<1>1. PICK n \in T : \A m \in T : <<m, n>> \notin OpToRel(<, Nat)
  BY WFMin, NatLessThanWellFounded, Zenon
<1>2. \A m \in T : ~(m < n)
  BY <1>1, Zenon DEF OpToRel
<1> QED
  BY <1>2

LEMMA MinIn ==
  ASSUME NEW T \in SUBSET Nat, T # {}
  PROVE  Min(T) \in T
BY Least DEF Min

LEMMA BMV2IsBackend == IsBackend(BMV2Backend)
BY DEF IsBackend, BMV2Backend, Backend, WellFormed, WellOrdered, OwnWords

LEMMA PsaIsBackend == IsBackend(psa_target)
BY DEF IsBackend, psa_target, Backend, WellFormed, WellOrdered, OwnWords

LEMMA DPDKIsBackend == IsBackend(DPDKBackend)
BY DEF IsBackend, DPDKBackend, Backend, WellFormed, WellOrdered, OwnWords

LEMMA EBPFIsBackend == IsBackend(EBPFBackend)
BY DEF IsBackend, EBPFBackend, Backend, WellFormed, WellOrdered, OwnWords

LEMMA FilesAreBackends ==
  ASSUME NEW f \in DOMAIN CfgFiles
  PROVE  /\ Len(CfgFiles[f]) \in Nat /\ DOMAIN CfgFiles[f] = 1 .. Len(CfgFiles[f])
         /\ CfgFiles[f] \in Seq(Range(CfgFiles[f]))
         /\ \A i \in DOMAIN CfgFiles[f] : IsBackend(CfgFiles[f][i])
<1>1. \A i \in DOMAIN SiteTargets : IsBackend(SiteTargets[i])
  <2>1. \A i \in DOMAIN SiteTargets : SiteTargets[i] \in Range(SiteTargets)
    BY DEF Range
  <2> QED
    BY <2>1, SiteAssumption DEF IsBackend
<1>2. CASE f = "bmv2"
  <2>1. CfgFiles[f] = <<BMV2Backend, psa_target>>
    BY <1>2 DEF CfgFiles
  <2> HIDE DEF CfgFiles
  <2> QED
    BY <2>1, BMV2IsBackend, PsaIsBackend DEF Range
<1>3. CASE f = "dpdk"
  <2>1. CfgFiles[f] = <<DPDKBackend>>
    BY <1>3 DEF CfgFiles
  <2> QED
    BY <2>1, DPDKIsBackend DEF Range
<1>4. CASE f = "ebpf"
  <2>1. CfgFiles[f] = <<EBPFBackend>>
    BY <1>4 DEF CfgFiles
  <2> QED
    BY <2>1, EBPFIsBackend DEF Range
<1>5. CASE f = "site"
  <2>1. CfgFiles[f] = SiteTargets
    BY <1>5 DEF CfgFiles
  <2> QED
    BY <2>1, <1>1, SiteAssumption
<1> QED
  BY <1>2, <1>3, <1>4, <1>5 DEF CfgFiles

LEMMA JoinedBackends ==
  ASSUME NEW S, NEW T, NEW s \in Seq(S), NEW t \in Seq(T),
         \A i \in DOMAIN s : IsBackend(s[i]), \A i \in DOMAIN t : IsBackend(t[i])
  PROVE  /\ s \o t \in Seq(S \cup T)
         /\ Len(s \o t) \in Nat /\ DOMAIN (s \o t) = 1 .. Len(s \o t)
         /\ \A i \in DOMAIN (s \o t) : IsBackend((s \o t)[i])
<1>1. s \in Seq(S \cup T) /\ t \in Seq(S \cup T)
  OBVIOUS
<1>2. s \o t \in Seq(S \cup T) /\ Len(s \o t) = Len(s) + Len(t)
  BY <1>1
<1>3. ASSUME NEW i \in 1 .. Len(s) + Len(t) PROVE IsBackend((s \o t)[i])
  <2>1. CASE i <= Len(s)
    <3>1. (s \o t)[i] = s[i] /\ i \in DOMAIN s
      BY <2>1
    <3> QED
      BY <3>1
  <2>2. CASE i > Len(s)
    <3>1. (s \o t)[i] = t[i - Len(s)] /\ i - Len(s) \in DOMAIN t
      BY <2>2
    <3> QED
      BY <3>1
  <2> QED
    BY <2>1, <2>2
<1> QED
  BY <1>2, <1>3

LEMMA FoundBackend ==
  ASSUME Len(targets) \in Nat, DOMAIN targets = 1 .. Len(targets),
         \A i \in DOMAIN targets : IsBackend(targets[i]),
         NEW o, Matching(o) # {}
  PROVE  IsBackend(targets[Min(Matching(o))])
<1>1. Matching(o) \in SUBSET Nat /\ Matching(o) \subseteq DOMAIN targets
  BY DEF Matching
<1> QED
  BY <1>1, MinIn

LEMMA OneCommand ==
  ASSUME NEW C, NEW c \in C
  PROVE  <<c>> \in Seq(C) /\ Len(<<c>>) = 1 /\ <<c>>[1] = c /\ <<c>> # <<>>
OBVIOUS

LEMMA TwoCommands ==
  ASSUME NEW C, NEW c \in C, NEW d \in C, NEW s \in Seq(C), NEW t \in Seq(C),
         Len(s) = 1, s[1] = c, Len(t) = 1, t[1] = d
  PROVE  /\ s \o t \in Seq(C) /\ DOMAIN (s \o t) = 1 .. 2 /\ s \o t # <<>>
         /\ (s \o t)[1] = c /\ (s \o t)[2] = d
<1>1. /\ s \o t \in Seq(C) /\ Len(s \o t) = Len(s) + Len(t)
      /\ \A i \in 1 .. Len(s) + Len(t) : (s \o t)[i] = IF i <= Len(s) THEN s[i] ELSE t[i - Len(s)]
  BY ConcatProperties
<1> QED
  BY <1>1

LEMMA RemovedAt ==
  ASSUME NEW C, NEW s \in Seq(C), NEW p \in 1 .. Len(s)
  PROVE  /\ RemoveAt(s, p) \in Seq(C) /\ Len(RemoveAt(s, p)) = Len(s) - 1
         /\ \A i \in 1 .. Len(s) - 1 : RemoveAt(s, p)[i] = s[IF i < p THEN i ELSE i + 1]
<1> DEFINE front == SubSeq(s, 1, p - 1)
           back == SubSeq(s, p + 1, Len(s))
<1>1. front \in Seq(C) /\ Len(front) = p - 1 /\ \A i \in 1 .. p - 1 : front[i] = s[i]
  OBVIOUS
<1>2. /\ back \in Seq(C) /\ Len(back) = Len(s) - p
      /\ \A i \in 1 .. Len(s) - p : back[i] = s[p + i]
  OBVIOUS
<1>3. RemoveAt(s, p) = front \o back
  BY DEF RemoveAt
<1> HIDE DEF front, back
<1>4. front \o back \in Seq(C) /\ Len(front \o back) = Len(s) - 1
  BY <1>1, <1>2
<1>5. ASSUME NEW i \in 1 .. Len(s) - 1
      PROVE  (front \o back)[i] = s[IF i < p THEN i ELSE i + 1]
  <2>1. CASE i < p
    BY <1>1, <1>2, <2>1
  <2>2. CASE i >= p
    <3>1. (front \o back)[i] = back[i - (p - 1)]
      BY <1>1, <1>2, <2>2, SMTT(30)
    <3>2. back[i - (p - 1)] = s[p + (i - (p - 1))]
      BY <1>2, <2>2
    <3>3. p + (i - (p - 1)) = i + 1
      OBVIOUS
    <3> QED
      BY <2>2, <3>1, <3>2, <3>3
  <2>3. i < p \/ i >= p
    OBVIOUS
  <2> QED
    BY <2>1, <2>2, <2>3, Zenon
<1> QED
  BY <1>3, <1>4, <1>5

LEMMA FirstPlace ==
  ASSUME NEW C, NEW s \in Seq(C), NEW c,
         {i \in DOMAIN s : s[i] = c} # {}
  PROVE  LET p == Min({i \in DOMAIN s : s[i] = c}) IN p \in 1 .. Len(s) /\ s[p] = c
<1> DEFINE at == {i \in DOMAIN s : s[i] = c}
<1>1. at \in SUBSET Nat /\ at # {}
  <2>1. at \in SUBSET Nat
    BY DOMAIN s = 1 .. Len(s), Len(s) \in Nat
  <2> QED
    BY <2>1
<1>2. Min(at) \in at
  <2> HIDE DEF at
  <2> QED
    BY <1>1, MinIn
<1> QED
  BY <1>2

LEMMA EnabledType ==
  ASSUME NEW b, IsBackend(b), NEW o
  PROVE  Enabled(b, o) \in Seq(DOMAIN b.first)
<1>1. b.enabled \in Seq(DOMAIN b.first)
  BY DEF IsBackend, WellFormed
<1>2. \A c : Known(b, c) \in Seq(DOMAIN b.first)
  <2>1. <<>> \in Seq(DOMAIN b.first)
    BY EmptySeq
  <2>2. \A c \in DOMAIN b.first : <<c>> \in Seq(DOMAIN b.first)
    BY OneCommand, Zenon
  <2> QED
    BY <2>1, <2>2, Zenon DEF Known
<1>3. \A k \in Seq(DOMAIN b.first) : enable_commands(b, k) \in Seq(DOMAIN b.first)
  BY <1>1 DEF enable_commands
<1>4. \A c : disable_commands(b, c) \in Seq(DOMAIN b.first)
  <2> SUFFICES ASSUME NEW c, {i \in DOMAIN b.enabled : b.enabled[i] = c} # {}
               PROVE  disable_commands(b, c) \in Seq(DOMAIN b.first)
    BY <1>1 DEF disable_commands
  <2> DEFINE at == {i \in DOMAIN b.enabled : b.enabled[i] = c}
  <2>1. Min(at) \in 1 .. Len(b.enabled)
    BY <1>1, FirstPlace
  <2>2. disable_commands(b, c) = RemoveAt(b.enabled, Min(at))
    BY DEF disable_commands
  <2> QED
    BY <1>1, <2>1, <2>2, RemovedAt
<1>5. Known(b, "preprocessor") \o Known(b, "compiler") \in Seq(DOMAIN b.first)
  BY <1>2
<1> QED
  BY <1>1, <1>2, <1>3, <1>4, <1>5 DEF Enabled

(* Taking the preprocessor away keeps compilers in front of cleaners.       *)
LEMMA CleanersFollow ==
  ASSUME NEW C, NEW s \in Seq(C), WellOrdered(s),
         NEW p \in 1 .. Len(s), s[p] = "preprocessor"
  PROVE  \A i \in DOMAIN RemoveAt(s, p) : RemoveAt(s, p)[i] = "cleaner" =>
            \E j \in 1 .. i - 1 : /\ RemoveAt(s, p)[j] = "compiler"
                                  /\ \A k \in j .. i : RemoveAt(s, p)[k] # "preprocessor"
<1> DEFINE r == RemoveAt(s, p)
           old(i) == IF i < p THEN i ELSE i + 1
<1>1. /\ DOMAIN r = 1 .. Len(s) - 1
      /\ \A i \in 1 .. Len(s) - 1 : r[i] = s[old(i)] /\ old(i) \in DOMAIN s
  BY RemovedAt, SMTT(30)
<1> HIDE DEF r
<1> SUFFICES ASSUME NEW i \in DOMAIN r, r[i] = "cleaner"
             PROVE  \E j \in 1 .. i - 1 : r[j] = "compiler" /\ \A k \in j .. i : r[k] # "preprocessor"
  BY DEF r
<1>2. PICK j \in 1 .. old(i) - 1 : s[j] = "compiler" /\ \A k \in j .. old(i) : s[k] # "preprocessor"
  BY <1>1 DEF WellOrdered
<1>3. p \notin j .. old(i)
  BY <1>2
<1> DEFINE new == IF j < p THEN j ELSE j - 1
<1>4. /\ new \in 1 .. i - 1 /\ old(new) = j
      /\ \A k \in new .. i : old(k) \in j .. old(i) /\ k \in 1 .. Len(s) - 1
  BY <1>1, <1>2, <1>3
<1>5. r[new] = "compiler"
  BY <1>1, <1>2, <1>4
<1>6. \A k \in new .. i : r[k] # "preprocessor"
  BY <1>1, <1>2, <1>4
<1> QED
  BY <1>4, <1>5, <1>6

(* What is run is in order too, but for the preprocessor that was skipped.  *)
LEMMA EnabledOrder ==
  ASSUME NEW b, IsBackend(b), NEW o
  PROVE  \A i \in DOMAIN Enabled(b, o) :
            /\ Enabled(b, o)[i] = "compiler" /\ ~o.skip_preprocessor =>
                 \E j \in 1 .. i - 1 : Enabled(b, o)[j] = "preprocessor"
            /\ Enabled(b, o)[i] = "cleaner" =>
                 \E j \in 1 .. i - 1 : /\ Enabled(b, o)[j] = "compiler"
                                      /\ \A k \in j .. i : Enabled(b, o)[k] # "preprocessor"
<1> DEFINE e == Enabled(b, o)
           Ordered(s) ==
              \A i \in DOMAIN s :
                 /\ s[i] = "compiler" /\ ~o.skip_preprocessor =>
                      \E j \in 1 .. i - 1 : s[j] = "preprocessor"
                 /\ s[i] = "cleaner" =>
                      \E j \in 1 .. i - 1 : /\ s[j] = "compiler"
                                           /\ \A k \in j .. i : s[k] # "preprocessor"
<1>1. Ordered(b.enabled)
  BY DEF IsBackend, WellFormed, WellOrdered
<1>2. Ordered(enable_commands(b, Known(b, "preprocessor")))
  BY <1>1 DEF enable_commands, Known
<1>3. Ordered(enable_commands(b, Known(b, "preprocessor") \o Known(b, "compiler")))
  <2>1. CASE "compiler" \in DOMAIN b.first
    <3>1. "preprocessor" \in DOMAIN b.first
      BY <2>1 DEF IsBackend, WellFormed
    <3>2. Known(b, "preprocessor") = <<"preprocessor">> /\ Known(b, "compiler") = <<"compiler">>
      BY <2>1, <3>1 DEF Known
    <3> DEFINE both == Known(b, "preprocessor") \o Known(b, "compiler")
    <3>3. /\ DOMAIN both = 1 .. 2 /\ both # <<>>
          /\ both[1] = "preprocessor" /\ both[2] = "compiler"
      <4>1. /\ <<"preprocessor">> \in Seq(DOMAIN b.first) /\ Len(<<"preprocessor">>) = 1
            /\ <<"compiler">> \in Seq(DOMAIN b.first) /\ Len(<<"compiler">>) = 1
            /\ <<"preprocessor">>[1] = "preprocessor" /\ <<"compiler">>[1] = "compiler"
        BY <2>1, <3>1, OneCommand
      <4> QED
        BY <2>1, <3>1, <3>2, <4>1, TwoCommands
    <3> HIDE DEF both
    <3>4. Ordered(both)
      <4>1. \A i \in 1 .. 2 : both[i] # "cleaner"
        BY <3>3
      <4>2. \A i \in 1 .. 2 : both[i] = "compiler" => 1 \in 1 .. i - 1
        BY <3>3
      <4> QED
        BY <3>3, <4>1, <4>2
    <3>5. enable_commands(b, both) = both
      BY <3>3 DEF enable_commands
    <3> HIDE DEF Ordered
    <3>6. Ordered(enable_commands(b, both))
      BY <3>4, <3>5
    <3> QED
      BY <3>6 DEF both
  <2>2. CASE "compiler" \notin DOMAIN b.first /\ "preprocessor" \in DOMAIN b.first
    <3>1. Known(b, "preprocessor") \o Known(b, "compiler") = <<"preprocessor">>
      BY <2>2 DEF Known
    <3>2. Ordered(<<"preprocessor">>)
      OBVIOUS
    <3>3. <<"preprocessor">> # <<>>
      OBVIOUS
    <3>4. enable_commands(b, <<"preprocessor">>) = <<"preprocessor">>
      BY <3>3 DEF enable_commands
    <3> HIDE DEF Ordered
    <3> QED
      BY <3>1, <3>2, <3>4
  <2>3. CASE "compiler" \notin DOMAIN b.first /\ "preprocessor" \notin DOMAIN b.first
    <3>1. Known(b, "preprocessor") \o Known(b, "compiler") = <<>>
      BY <2>3 DEF Known
    <3> QED
      BY <1>1, <3>1 DEF enable_commands
  <2> QED
    BY <2>1, <2>2, <2>3
<1>4. o.skip_preprocessor => Ordered(disable_commands(b, "preprocessor"))
  <2> DEFINE at == {i \in DOMAIN b.enabled : b.enabled[i] = "preprocessor"}
  <2>1. CASE at = {}
    BY <1>1, <2>1 DEF disable_commands
  <2>2. CASE at # {}
    <3>1. b.enabled \in Seq(DOMAIN b.first) /\ WellOrdered(b.enabled)
      BY DEF IsBackend, WellFormed
    <3>2. Min(at) \in 1 .. Len(b.enabled) /\ b.enabled[Min(at)] = "preprocessor"
      BY <2>2, <3>1, FirstPlace
    <3>3. disable_commands(b, "preprocessor") = RemoveAt(b.enabled, Min(at))
      BY <2>2 DEF disable_commands
    <3> HIDE DEF at
    <3> QED
      BY <3>1, <3>2, <3>3, CleanersFollow
  <2> QED
    BY <2>1, <2>2
<1> HIDE DEF Ordered
<1>5. Ordered(e)
  BY <1>1, <1>2, <1>3, <1>4 DEF Enabled
<1> QED
  BY <1>5 DEF Ordered

-----------------------------------------------------------------------------
(* The words of the command lines                                           *)

LEMMA LineWords ==
  ASSUME NEW b, IsBackend(b), NEW o, \A w \in o.words : w[1] \notin OwnWords
  PROVE  /\ "preprocessor" \in DOMAIN b.first =>
              /\ <<"-I", Standard(o)>> \in Line(b, o)["preprocessor"]
              /\ \A w \in Line(b, o)["preprocessor"] :
                    /\ w[1] = "in" => w[2] = o.source
                    /\ w[1] = "-I" => w[2] = Standard(o)
         /\ "compiler" \in DOMAIN b.first =>
              /\ <<"--p4v", Standard(o)>> \in Line(b, o)["compiler"]
              /\ \A w \in Line(b, o)["compiler"] : w[1] = "--p4v" => w[2] = Standard(o)
<1> DEFINE base == add_command_option(b.first, BaseOptions(o))
           all == add_command_option(base, OwnOptions(b, o))
<1>1. Line(b, o) = IF b.kind = "base" THEN base ELSE all
  BY DEF Line
<1>2. /\ DOMAIN BaseOptions(o) = {"preprocessor", "compiler", "assembler", "linker"}
      /\ DOMAIN OwnOptions(b, o) = {"preprocessor", "compiler", "cleaner"}
  BY DEF BaseOptions, OwnOptions
<1>3. ASSUME NEW c \in DOMAIN b.first, c \in {"preprocessor", "compiler"}
      PROVE  /\ base[c] = b.first[c] \cup BaseOptions(o)[c]
             /\ all[c] = base[c] \cup OwnOptions(b, o)[c]
  BY <1>2, <1>3 DEF add_command_option
<1>4. ASSUME NEW c \in DOMAIN b.first, NEW w \in b.first[c] PROVE w[1] \notin OwnWords
  BY DEF IsBackend, WellFormed
<1>5. /\ <<"-I", Standard(o)>> \in BaseOptions(o)["preprocessor"]
      /\ <<"--p4v", Standard(o)>> \in BaseOptions(o)["compiler"]
  BY DEF BaseOptions, Include
<1>6. ASSUME NEW w \in BaseOptions(o)["preprocessor"]
      PROVE  w[1] # "in" /\ (w[1] = "-I" => w[2] = Standard(o))
  <2>1. w \in o.words \/ w = <<"-undef">> \/ w = <<"-nostdinc">> \/ w = <<"-I", Standard(o)>>
    BY DEF BaseOptions, Include
  <2> QED
    BY <2>1 DEF OwnWords
<1>7. ASSUME NEW w \in BaseOptions(o)["compiler"]
      PROVE  w[1] = "--p4v" => w[2] = Standard(o)
  <2>1. w \in o.words \/ w = <<"-g">> \/ w = <<"-I", Standard(o)>> \/ w = <<"--p4v", Standard(o)>>
    BY DEF BaseOptions, Include, Debug, Only
  <2> QED
    BY <2>1 DEF OwnWords
<1>8. ASSUME NEW w \in OwnOptions(b, o)["preprocessor"]
      PROVE  (w[1] = "in" => w[2] = o.source) /\ w[1] # "-I"
  <2>1. w = <<"-Idpdk">> \/ w = <<"-o", "p4i">> \/ w = <<"in", o.source>>
    BY DEF OwnOptions, Only
  <2> QED
    BY <2>1
<1>9. ASSUME NEW w \in OwnOptions(b, o)["compiler"] PROVE w[1] # "--p4v"
  <2>1. w = <<"-Idpdk">> \/ w = <<"-o", "out">> \/ w = <<"in", "p4i">> \/ w = <<"--arch", b.name[2]>>
    BY DEF OwnOptions, Only
  <2> QED
    BY <2>1
<1> HIDE DEF base, all
<1>10. ASSUME "preprocessor" \in DOMAIN b.first
       PROVE  /\ <<"-I", Standard(o)>> \in Line(b, o)["preprocessor"]
              /\ \A w \in Line(b, o)["preprocessor"] :
                    /\ w[1] = "in" => w[2] = o.source
                    /\ w[1] = "-I" => w[2] = Standard(o)
  <2>1. ASSUME NEW w \in b.first["preprocessor"] PROVE w[1] # "in" /\ w[1] # "-I"
    BY <1>4, <1>10 DEF OwnWords
  <2>2. /\ base["preprocessor"] = b.first["preprocessor"] \cup BaseOptions(o)["preprocessor"]
        /\ all["preprocessor"] = base["preprocessor"] \cup OwnOptions(b, o)["preprocessor"]
    BY <1>3, <1>10
  <2>3. Line(b, o)["preprocessor"] \in {base["preprocessor"], all["preprocessor"]}
    BY <1>1
  <2> QED
    BY <1>5, <1>6, <1>8, <2>1, <2>2, <2>3
<1>11. ASSUME "compiler" \in DOMAIN b.first
       PROVE  /\ <<"--p4v", Standard(o)>> \in Line(b, o)["compiler"]
              /\ \A w \in Line(b, o)["compiler"] : w[1] = "--p4v" => w[2] = Standard(o)
  <2>1. ASSUME NEW w \in b.first["compiler"] PROVE w[1] # "--p4v"
    BY <1>4, <1>11 DEF OwnWords
  <2>2. /\ base["compiler"] = b.first["compiler"] \cup BaseOptions(o)["compiler"]
        /\ all["compiler"] = base["compiler"] \cup OwnOptions(b, o)["compiler"]
    BY <1>3, <1>11
  <2>3. Line(b, o)["compiler"] \in {base["compiler"], all["compiler"]}
    BY <1>1
  <2> QED
    BY <1>5, <1>7, <1>9, <2>1, <2>2, <2>3
<1> QED
  BY <1>10, <1>11

LEMMA WordsFound ==
  ASSUME IsBackend(backend), \A w \in opts.words : w[1] \notin OwnWords,
         cmdline = Line(backend, opts)
  PROVE  /\ "preprocessor" \in DOMAIN backend.first =>
              Word("preprocessor", "in") \subseteq {opts.source}
              /\ Word("preprocessor", "-I") = {Standard(opts)}
         /\ "compiler" \in DOMAIN backend.first => Word("compiler", "--p4v") = {Standard(opts)}
<1>1. ASSUME "preprocessor" \in DOMAIN backend.first
      PROVE  Word("preprocessor", "in") \subseteq {opts.source}
             /\ Word("preprocessor", "-I") = {Standard(opts)}
  <2>1. /\ <<"-I", Standard(opts)>> \in cmdline["preprocessor"]
        /\ \A w \in cmdline["preprocessor"] :
              /\ w[1] = "in" => w[2] = opts.source
              /\ w[1] = "-I" => w[2] = Standard(opts)
    BY <1>1, LineWords
  <2> QED
    BY <2>1 DEF Word
<1>2. ASSUME "compiler" \in DOMAIN backend.first
      PROVE  Word("compiler", "--p4v") = {Standard(opts)}
  <2>1. /\ <<"--p4v", Standard(opts)>> \in cmdline["compiler"]
        /\ \A w \in cmdline["compiler"] : w[1] = "--p4v" => w[2] = Standard(opts)
    BY <1>2, LineWords
  <2> QED
    BY <2>1 DEF Word
<1> QED
  BY <1>1, <1>2

-----------------------------------------------------------------------------
(* The driver                                                               *)

LEMMA InitDriver == Init => DriverInv
<1> SUFFICES ASSUME Init PROVE DriverInv
  OBVIOUS
<1>1. PICK order \in LoadOrders :
         targets = CfgFiles[order[1]] \o CfgFiles[order[2]] \o CfgFiles[order[3]] \o CfgFiles[order[4]]
  BY DEF Init
<1>2. \A i \in 1 .. 4 : order[i] \in DOMAIN CfgFiles
  BY LoadOrdersAssumption
<1> DEFINE file(i) == CfgFiles[order[i]]
<1>3. /\ file(1) \in Seq(Range(file(1))) /\ \A i \in DOMAIN file(1) : IsBackend(file(1)[i])
      /\ file(2) \in Seq(Range(file(2))) /\ \A i \in DOMAIN file(2) : IsBackend(file(2)[i])
      /\ file(3) \in Seq(Range(file(3))) /\ \A i \in DOMAIN file(3) : IsBackend(file(3)[i])
      /\ file(4) \in Seq(Range(file(4))) /\ \A i \in DOMAIN file(4) : IsBackend(file(4)[i])
  <2>1. order[1] \in DOMAIN CfgFiles /\ order[2] \in DOMAIN CfgFiles
        /\ order[3] \in DOMAIN CfgFiles /\ order[4] \in DOMAIN CfgFiles
    BY <1>2
  <2> HIDE DEF CfgFiles
  <2> QED
    BY <2>1, FilesAreBackends
<1>4. targets = file(1) \o file(2) \o file(3) \o file(4)
  BY <1>1
<1> HIDE DEF file
<1>5. /\ file(1) \o file(2) \in Seq(Range(file(1)) \cup Range(file(2)))
      /\ \A i \in DOMAIN (file(1) \o file(2)) : IsBackend((file(1) \o file(2))[i])
  BY <1>3, JoinedBackends
<1>6. /\ file(1) \o file(2) \o file(3) \in Seq(Range(file(1)) \cup Range(file(2)) \cup Range(file(3)))
      /\ \A i \in DOMAIN (file(1) \o file(2) \o file(3)) : IsBackend((file(1) \o file(2) \o file(3))[i])
  BY <1>3, <1>5, JoinedBackends
<1>7. /\ Len(targets) \in Nat /\ DOMAIN targets = 1 .. Len(targets)
      /\ \A i \in DOMAIN targets : IsBackend(targets[i])
  BY <1>3, <1>4, <1>6, JoinedBackends, SMTT(30)
<1>8. IsBackend(backend)
  BY PsaIsBackend DEF Init
<1>9. ran \in Seq(Entry)
  BY EmptySeq DEF Init
<1>10. pc = "idle" /\ run \in Nat /\ pending \in Nat /\ rc \in Codes
  BY CodesAssumption DEF Init
<1> QED
  BY <1>7, <1>8, <1>9, <1>10 DEF DriverInv, Working

LEMMA BackendType ==
  ASSUME IsBackend(backend), NEW c \in DOMAIN backend.first
  PROVE  backend.before[c] \in Nat /\ backend.after[c] \in Nat
BY DEF IsBackend, WellFormed

(* The command that is being run.                                           *)
LEMMA CurrentCommand ==
  ASSUME DriverInv, Working
  PROVE  /\ IsBackend(backend) /\ Progress /\ todo # <<>>
         /\ todo[1] \in DOMAIN backend.first
         /\ Len(todo) \in Nat /\ Len(todo) > 0 /\ Len(Commands) \in Nat
         /\ Done \in 0 .. Len(Commands) - 1
         /\ todo[1] = Commands[Done + 1]
         /\ backend.before[todo[1]] \in Nat /\ backend.after[todo[1]] \in Nat
<1>1. IsBackend(backend) /\ Progress /\ todo # <<>>
  BY DEF DriverInv
<1>2. todo \in Seq(DOMAIN backend.first) /\ Commands \in Seq(DOMAIN backend.first)
      /\ Len(todo) <= Len(Commands) /\ \A i \in 1 .. Len(todo) : todo[i] = Commands[Done + i]
  BY <1>1 DEF Progress
<1>3. Len(todo) \in Nat /\ Len(todo) > 0 /\ todo[1] \in DOMAIN backend.first
  BY <1>1, <1>2
<1>4. Done \in 0 .. Len(Commands) - 1 /\ Len(Commands) \in Nat
  BY <1>2, <1>3 DEF Done
<1> QED
  BY <1>1, <1>2, <1>3, <1>4, BackendType

LEMMA CodesType == CodesOf \subseteq Codes /\ Codes \subseteq Int /\ 0 \in Codes
BY CodesAssumption DEF CodesOf

LEMMA EndedType ==
  ASSUME DriverInv, Working, NEW code \in Int,
         NEW kind \in {"before", "command", "after", "interrupt"}
  PROVE  /\ Ended(code, kind) \in Seq(Entry)
         /\ Len(ran) \in Nat /\ Len(Ended(code, kind)) = Len(ran) + 1
         /\ \A i \in 1 .. Len(ran) : Ended(code, kind)[i] = ran[i]
         /\ Ended(code, kind)[Len(ran) + 1] = [command |-> todo[1], kind |-> kind, code |-> code]
<1> DEFINE e == [command |-> todo[1], kind |-> kind, code |-> code]
<1>1. ran \in Seq(Entry) /\ e \in Entry
  BY CurrentCommand DEF DriverInv, Entry
<1>2. Ended(code, kind) = Append(ran, e)
  BY DEF Ended
<1> HIDE DEF e
<1>3. /\ Append(ran, e) \in Seq(Entry) /\ Len(Append(ran, e)) = Len(ran) + 1
      /\ \A i \in 1 .. Len(ran) : Append(ran, e)[i] = ran[i]
      /\ Append(ran, e)[Len(ran) + 1] = e
  BY <1>1, AppendProperties
<1> QED
  BY <1>1, <1>2, <1>3 DEF e

(* What does not change from one step of a run to the next.                 *)
LEMMA SameRun ==
  ASSUME DriverInv, UNCHANGED <<targets, run, setup>>
  PROVE  /\ Commands' = Commands /\ Entry' = Entry
         /\ Len(targets') \in Nat /\ DOMAIN targets' = 1 .. Len(targets')
         /\ \A i \in DOMAIN targets' : IsBackend(targets'[i])
         /\ IsBackend(backend') /\ run' \in Nat
         /\ pc # "idle" => DOMAIN opts' = Options /\ \A w \in opts'.words : w[1] \notin OwnWords
         /\ cmdline = Line(backend, opts) => cmdline' = Line(backend', opts')
BY DEF DriverInv, setup, Commands, Entry

LEMMA NextCommandKeeps ==
  ASSUME IsBackend(backend), todo' \in Seq(DOMAIN backend.first), Next_command
  PROVE  /\ pc' = "idle" \/ (pc' = "preRun" /\ todo' # <<>>)
         /\ pending' \in Nat
<1>1. CASE todo' = <<>>
  BY <1>1 DEF Next_command, Finish
<1>2. CASE todo' # <<>>
  <2>1. todo'[1] \in DOMAIN backend.first
    BY <1>2
  <2> QED
    BY <1>2, <2>1, BackendType DEF Next_command
<1> QED
  BY <1>1, <1>2

LEMMA StartDriver ==
  ASSUME DriverInv, NEW o \in Requests, Start(o)
  PROVE  /\ DriverInv'
         /\ opts' = Effective(o) /\ DOMAIN opts' = Options
         /\ opts'.language = Spelling(Default(env.version, o.language))
<1>1. opts' = Effective(o)
  BY DEF Start
<1>2. DOMAIN o = Options /\ \A w \in o.words : w[1] \notin OwnWords
  BY RequestAssumption
<1>3. /\ DOMAIN Effective(o) = Options /\ Effective(o).words = o.words
      /\ Effective(o).language = Spelling(Default(env.version, o.language))
  BY <1>2 DEF Effective, Options
<1>4. ran' = <<>> /\ pc' = "main" /\ pending' = 0 /\ rc' = 0 /\ run' \in Nat
  BY DEF Start, DriverInv
<1>5. /\ Len(targets') \in Nat /\ DOMAIN targets' = 1 .. Len(targets')
      /\ \A i \in DOMAIN targets' : IsBackend(targets'[i])
      /\ IsBackend(backend')
  BY DEF Start, DriverInv
<1>6. ran' \in Seq(Entry')
  BY <1>4, EmptySeq
<1> QED
  BY <1>1, <1>2, <1>3, <1>4, <1>5, <1>6, CodesAssumption DEF DriverInv, Working

LEMMA ConfigureDriver ==
  ASSUME DriverInv, Configure
  PROVE  /\ DriverInv'
         /\ DOMAIN opts' = Options /\ opts'.language = opts.language
<1> DEFINE b == targets[Min(Matching(opts))]
           o == [opts EXCEPT !.source = IF CheckInput THEN @ ELSE "dummy.p4"]
<1>1. /\ backend' = b /\ opts' = o /\ cmdline' = Line(b, o) /\ todo' = Enabled(b, o)
      /\ pc' \in {"idle", "makedirs"}
      /\ ran' = ran /\ ran = <<>> /\ UNCHANGED <<targets, run, pending, rc>>
  BY DEF Configure, Finish, DriverInv
<1>2. IsBackend(b)
  BY FoundBackend DEF Configure, DriverInv
<1>3. DOMAIN opts = Options /\ \A w \in opts.words : w[1] \notin OwnWords
  BY DEF Configure, DriverInv
<1>4. DOMAIN o = Options /\ o.words = opts.words /\ o.language = opts.language
  BY <1>3 DEF Options
<1>5. Enabled(b, o) \in Seq(DOMAIN b.first)
  BY <1>2, EnabledType
<1> HIDE DEF b, o
<1>6. Commands' = Enabled(b, o) /\ Done' = Len(Commands') - Len(todo')
  BY <1>1 DEF Commands, Done
<1>7. Progress'
  <2>1. todo' = Commands' /\ backend' = b /\ Commands' \in Seq(DOMAIN b.first)
    BY <1>1, <1>5, <1>6
  <2>2. Len(Commands') \in Nat
    BY <2>1
  <2>3. Done' = 0
    BY <1>6, <2>1, <2>2
  <2>4. \A i \in 1 .. Len(todo') : todo'[i] = Commands'[0 + i]
    BY <2>1
  <2> QED
    BY <2>1, <2>2, <2>3, <2>4 DEF Progress
<1>8. /\ Len(targets') \in Nat /\ DOMAIN targets' = 1 .. Len(targets')
      /\ \A i \in DOMAIN targets' : IsBackend(targets'[i])
      /\ run' \in Nat /\ pending' \in Nat /\ rc' \in Codes
  BY <1>1 DEF DriverInv
<1>9. ran' \in Seq(Entry')
  BY <1>1, EmptySeq
<1>10. cmdline' = Line(backend', opts') /\ todo' = Commands'
  BY <1>1, <1>6
<1>11. IsBackend(backend') /\ DOMAIN opts' = Options /\ \A w \in opts'.words : w[1] \notin OwnWords
  BY <1>1, <1>2, <1>3, <1>4
<1> QED
  BY <1>1, <1>4, <1>7, <1>8, <1>9, <1>10, <1>11 DEF DriverInv, Working

LEMMA SameProgress ==
  ASSUME UNCHANGED <<setup, todo>>, Progress PROVE Progress' /\ Done' = Done
BY DEF setup, Progress, Done, Commands

LEMMA StepDriver == DriverInv /\ [Next]_vars => DriverInv'
<1> SUFFICES ASSUME DriverInv, [Next]_vars PROVE DriverInv'
  OBVIOUS
<1>1. CASE \E o \in Requests : Start(o)
  BY <1>1, StartDriver
<1>2. CASE ExitEarly \/ Reject
  <2>1. /\ pc' = "idle" /\ UNCHANGED <<targets, run, setup, pending, rc, ran>>
    BY <1>2 DEF ExitEarly, Reject, Finish
  <2>2. ran' \in Seq(Entry') /\ pending' \in Nat /\ rc' \in Codes
    BY <2>1, SameRun DEF DriverInv
  <2> QED
    BY <2>1, <2>2, SameRun DEF DriverInv, Working
<1>3. CASE Configure
  BY <1>3, ConfigureDriver
<1>4. CASE MakeDirs
  <2>1. /\ pc = "makedirs" /\ UNCHANGED <<targets, run, setup, todo, rc, ran>>
        /\ Next_command \/ (pc' = "idle" /\ pending' = pending)
    BY <1>4 DEF MakeDirs, Finish
  <2>2. Progress /\ IsBackend(backend) /\ todo \in Seq(DOMAIN backend.first)
    BY <2>1 DEF DriverInv, Progress
  <2>3. /\ pc' = "idle" \/ (pc' = "preRun" /\ todo' # <<>>)
        /\ pending' \in Nat
    BY <2>1, <2>2, NextCommandKeeps DEF DriverInv
  <2>4. Progress'
    BY <2>1, <2>2, SameProgress
  <2>5. ran' \in Seq(Entry') /\ rc' \in Codes /\ cmdline = Line(backend, opts)
    BY <2>1, SameRun DEF DriverInv
  <2>6. DOMAIN opts' = Options /\ \A w \in opts'.words : w[1] \notin OwnWords
    BY <2>1, SameRun
  <2> QED
    BY <2>1, <2>3, <2>4, <2>5, <2>6, SameRun DEF DriverInv, Working
<1>5. CASE FindBin
  <2>1. /\ pc = "preRun" /\ pc' \in {"idle", "runCmd"}
        /\ UNCHANGED <<targets, run, setup, todo, pending, rc, ran>>
    BY <1>5 DEF FindBin, Finish
  <2>2. Working
    BY <2>1 DEF Working
  <2>3. Progress' /\ ran' \in Seq(Entry') /\ pending' \in Nat /\ rc' \in Codes
        /\ todo' # <<>> /\ cmdline = Line(backend, opts)
    BY <2>1, <2>2, CurrentCommand, SameProgress, SameRun DEF DriverInv
  <2>4. DOMAIN opts' = Options /\ \A w \in opts'.words : w[1] \notin OwnWords
    BY <2>1, SameRun
  <2> QED
    BY <2>1, <2>3, <2>4, SameRun DEF DriverInv, Working
<1>6. CASE (\E code \in Codes : preRun(code) \/ runCmd(code) \/ postRun(code)) \/ Interrupt
  <2>1. PICK code \in Int, kind \in {"before", "command", "after", "interrupt"} :
           ran' = Ended(code, kind)
    BY <1>6, CodesType DEF preRun, runCmd, postRun, Interrupt
  <2>2. /\ pc' \in {"idle", "preRun", "runCmd", "postRun"}
        /\ UNCHANGED <<targets, run, setup, todo>>
    BY <1>6 DEF preRun, runCmd, postRun, Interrupt, Working, Finish
  <2>3. Working
    BY <1>6 DEF preRun, runCmd, postRun, Interrupt, Working
  <2>4. pending' \in Nat
    BY <1>6, <2>3, CurrentCommand, SMTT(30) DEF preRun, runCmd, postRun, Interrupt, DriverInv
  <2>5. rc' \in Codes
    BY <1>6 DEF preRun, runCmd, postRun, Interrupt, DriverInv
  <2>6. Progress' /\ ran' \in Seq(Entry') /\ todo' # <<>> /\ cmdline = Line(backend, opts)
    BY <2>1, <2>2, <2>3, CurrentCommand, SameProgress, SameRun, EndedType DEF DriverInv
  <2>7. DOMAIN opts' = Options /\ \A w \in opts'.words : w[1] \notin OwnWords
    BY <2>2, <2>3, SameRun DEF Working
  <2>8. pc' \in {"idle", "preRun", "runCmd", "postRun"}
    BY <2>2
  <2> QED
    BY <2>2, <2>4, <2>5, <2>6, <2>7, <2>8, SameRun DEF DriverInv, Working
<1>7. CASE AfterCommand
  <2>1. /\ pc = "postRun" /\ todo' = Tail(todo)
        /\ UNCHANGED <<targets, run, setup, rc, ran>>
        /\ Next_command \/ (pc' = "idle" /\ pending' = pending)
    BY <1>7 DEF AfterCommand, Finish
  <2>2. Working
    BY <2>1 DEF Working
  <2>3. /\ todo \in Seq(DOMAIN backend.first) /\ Len(todo) > 0 /\ Len(todo) \in Nat
        /\ Commands \in Seq(DOMAIN backend.first) /\ Len(todo) <= Len(Commands)
        /\ \A i \in 1 .. Len(todo) : todo[i] = Commands[Done + i]
    BY <2>2, CurrentCommand DEF Progress
  <2>4. /\ Tail(todo) \in Seq(DOMAIN backend.first) /\ Len(Tail(todo)) = Len(todo) - 1
        /\ \A i \in 1 .. Len(todo) - 1 : Tail(todo)[i] = todo[i + 1]
    BY <2>3
  <2>5. /\ pc' = "idle" \/ (pc' = "preRun" /\ todo' # <<>>)
        /\ pending' \in Nat
    BY <2>1, <2>2, <2>4, CurrentCommand, NextCommandKeeps DEF DriverInv
  <2>6. Commands' = Commands /\ Done' = Done + 1
    <3>1. Commands' = Commands /\ Len(Commands) \in Nat
      BY <2>1, <2>3, SameRun
    <3>2. Done = Len(Commands) - Len(todo) /\ Done' = Len(Commands') - Len(todo')
      BY DEF Done
    <3>3. Len(todo') = Len(todo) - 1
      BY <2>1, <2>4
    <3> HIDE DEF Commands
    <3> QED
      BY <3>1, <3>2, <3>3, <2>3
  <2>7. Progress'
    <3>1. backend' = backend /\ Len(todo') <= Len(Commands')
      BY <2>1, <2>3, <2>4, <2>6 DEF setup
    <3>2. \A i \in 1 .. Len(todo') : todo'[i] = Commands'[Done' + i]
      <4> SUFFICES ASSUME NEW i \in 1 .. Len(todo') PROVE todo'[i] = Commands'[Done' + i]
        OBVIOUS
      <4>1. i \in 1 .. Len(todo) - 1 /\ i + 1 \in 1 .. Len(todo)
        BY <2>1, <2>3, <2>4
      <4>2. todo'[i] = Commands[Done + (i + 1)]
        BY <2>1, <2>3, <2>4, <4>1
      <4>3. Done + (i + 1) = Done' + i
        BY <2>2, <2>6, <4>1, CurrentCommand
      <4> QED
        BY <2>6, <4>2, <4>3
    <3> QED
      BY <2>1, <2>3, <2>4, <2>6, <3>1, <3>2 DEF Progress
  <2>8. ran' \in Seq(Entry') /\ rc' \in Codes /\ cmdline = Line(backend, opts)
    BY <2>1, <2>2, SameRun DEF DriverInv
  <2>9. DOMAIN opts' = Options /\ \A w \in opts'.words : w[1] \notin OwnWords
    BY <2>1, SameRun
  <2> QED
    BY <2>1, <2>5, <2>7, <2>8, <2>9, SameRun DEF DriverInv, Working
<1>8. CASE (\E s \in Sources : Edit(s)) \/ UNCHANGED vars
  <2>1. UNCHANGED <<targets, run, setup, pc, todo, pending, rc, ran>>
    BY <1>8 DEF Edit, vars, setup
  <2>2. Progress => Progress'
    BY <2>1, SameProgress
  <2>3. Commands' = Commands /\ Entry' = Entry
    BY <2>1, SameRun
  <2> HIDE DEF Progress, IsBackend
  <2> QED
    BY <2>1, <2>2, <2>3, SameRun DEF DriverInv, Working
<1> QED
  BY <1>1, <1>2, <1>3, <1>4, <1>5, <1>6, <1>7, <1>8 DEF Next

-----------------------------------------------------------------------------
(* The files that the tools hand over                                       *)

LEMMA WorkedKept ==
  ASSUME DriverInv, Working, NEW code \in Int,
         NEW kind \in {"before", "command", "after", "interrupt"}, ran' = Ended(code, kind)
  PROVE  /\ \A c : Worked(c) => Worked(c)'
         /\ kind = "command" /\ code = 0 => \A c : c = todo[1] => Worked(c)'
<1>1. /\ ran \in Seq(Entry) /\ ran' \in Seq(Entry) /\ Len(ran) \in Nat /\ Len(ran') = Len(ran) + 1
      /\ \A i \in 1 .. Len(ran) : ran'[i] = ran[i]
      /\ ran'[Len(ran) + 1] = [command |-> todo[1], kind |-> kind, code |-> code]
  <2>1. /\ Ended(code, kind) \in Seq(Entry)
        /\ Len(ran) \in Nat /\ Len(Ended(code, kind)) = Len(ran) + 1
        /\ \A i \in 1 .. Len(ran) : Ended(code, kind)[i] = ran[i]
        /\ Ended(code, kind)[Len(ran) + 1] = [command |-> todo[1], kind |-> kind, code |-> code]
    BY EndedType, Zenon
  <2> QED
    BY <2>1, Zenon DEF DriverInv
<1>2. DOMAIN ran = 1 .. Len(ran) /\ DOMAIN ran' = 1 .. Len(ran) + 1
  BY <1>1
<1>3. ASSUME NEW c, Worked(c) PROVE Worked(c)'
  <2>1. PICK i \in DOMAIN ran : ran[i] = [command |-> c, kind |-> "command", code |-> 0]
    BY <1>3 DEF Worked
  <2>2. i \in DOMAIN ran' /\ ran'[i] = ran[i]
    BY <1>1, <1>2
  <2> QED
    BY <2>1, <2>2 DEF Worked
<1>4. ASSUME kind = "command", code = 0, NEW c, c = todo[1] PROVE Worked(c)'
  <2>1. Len(ran) + 1 \in DOMAIN ran'
    BY <1>1, <1>2
  <2>2. \E i \in DOMAIN ran' : ran'[i] = [command |-> c, kind |-> "command", code |-> 0]
    BY <1>1, <1>4, <2>1
  <2> QED
    BY <2>2, <1>4 DEF Worked
<1> QED
  BY <1>3, <1>4

(* A step that runs no tool.                                                *)
LEMMA SuccessKept ==
  ASSUME UNCHANGED <<p4i, out, run, setup>>, Succeeded' = Succeeded,
         \A c : Worked(c) => Worked(c)',
         \A i \in 1 .. Succeeded : AfterSuccess(i)
  PROVE  \A i \in 1 .. Succeeded' : AfterSuccess(i)'
<1> SUFFICES ASSUME NEW i \in 1 .. Succeeded PROVE AfterSuccess(i)'
  OBVIOUS
<1>1. opts' = opts /\ Commands' = Commands
  BY DEF setup, Commands
<1>2. LastOf(i)' <=> LastOf(i)
  BY <1>1 DEF LastOf
<1>3. AfterSuccess(i)
  OBVIOUS
<1> QED
  BY <1>1, <1>2, <1>3 DEF AfterSuccess

LEMMA StandardType == ASSUME NEW o PROVE Standard(o) \in {14, 16}
BY DEF Standard

LEMMA TextWritten ==
  ASSUME DriverInv, pc = "runCmd", todo[1] = "preprocessor",
         NEW s \in Word("preprocessor", "in")
  PROVE  /\ Text(s) # None /\ Text(s) # Torn
         /\ Text(s).run = run /\ Text(s).source = opts.source
         /\ Text(s).language = Standard(opts)
<1>1. Working
  BY DEF Working
<1>2. /\ Word("preprocessor", "in") \subseteq {opts.source}
      /\ Word("preprocessor", "-I") = {Standard(opts)}
  BY <1>1, CurrentCommand, WordsFound DEF DriverInv
<1>3. (CHOOSE l \in Word("preprocessor", "-I") : l \in {14, 16}) = Standard(opts)
  BY <1>2, StandardType
<1>4. s = opts.source
  BY <1>2
<1>5. /\ Text(s).run = run /\ Text(s).source = opts.source
      /\ Text(s).language = Standard(opts)
  BY <1>3, <1>4 DEF Text
<1>6. Text(s) # None /\ Text(s) # Torn
  <2>1. "run" \in DOMAIN Text(s)
    BY DEF Text
  <2>2. "run" \notin DOMAIN None /\ "run" \notin DOMAIN Torn
    BY DEF None, Torn
  <2> QED
    BY <2>1, <2>2
<1> QED
  BY <1>5, <1>6

LEMMA OutputWritten ==
  ASSUME DriverInv, pc = "runCmd", todo[1] = "compiler"
  PROVE  Output # None /\ Output.text = p4i /\ Output.language = Standard(opts)
<1>1. Working
  BY DEF Working
<1>2. Word("compiler", "--p4v") = {Standard(opts)}
  BY <1>1, CurrentCommand, WordsFound DEF DriverInv
<1>3. (CHOOSE l \in Word("compiler", "--p4v") : TRUE) = Standard(opts)
  BY <1>2
<1>4. "text" \in DOMAIN Output /\ "text" \notin DOMAIN None
  BY DEF Output, None
<1>5. Output # None
  BY <1>4
<1> QED
  BY <1>3, <1>5 DEF Output

(* A tool has run, or was stopped.                                          *)
LEMMA ToolText ==
  ASSUME DriverInv, TextInv, pc = "runCmd", UNCHANGED <<run, setup>>,
         Works(todo[1]) \/ Fails(todo[1])
  PROVE  TextInv'
<1>1. p4i' \in {p4i, Torn, None}
      \/ (todo[1] = "preprocessor" /\ \E s \in Word("preprocessor", "in") : p4i' = Text(s))
  BY DEF Works, Fails
<1>2. run \in Nat /\ opts' = opts /\ Standard(opts') = Standard(opts)
  BY DEF DriverInv, setup
<1>3. CASE p4i' \in {p4i, Torn, None}
  BY <1>2, <1>3 DEF TextInv, None, Torn
<1>4. CASE todo[1] = "preprocessor" /\ \E s \in Word("preprocessor", "in") : p4i' = Text(s)
  BY <1>2, <1>4, TextWritten DEF TextInv
<1> QED
  BY <1>1, <1>3, <1>4

LEMMA ToolSuccess ==
  ASSUME DriverInv, runCmd(0), ~opts.dry_run,
         \A i \in 1 .. Succeeded : AfterSuccess(i)
  PROVE  \A i \in 1 .. Succeeded' : AfterSuccess(i)'
<1>1. /\ pc = "runCmd" /\ Works(todo[1]) /\ pc' = "postRun" /\ ran' = Ended(0, "command")
      /\ UNCHANGED <<run, setup, todo>>
  BY DEF runCmd
<1>2. Working
  BY <1>1 DEF Working
<1>3. /\ Done \in Nat /\ todo[1] = Commands[Done + 1]
      /\ Succeeded = Done /\ Succeeded' = Done + 1
      /\ Commands' = Commands /\ opts' = opts
  <2>1. Commands' = Commands /\ opts' = opts
    BY <1>1 DEF Commands, setup
  <2>2. Done' = Done
    BY <1>1, <2>1 DEF Done
  <2> QED
    BY <1>1, <1>2, <2>1, <2>2, CurrentCommand DEF Succeeded
<1>4. /\ \A c : Worked(c) => Worked(c)'
      /\ \A c : c = todo[1] => Worked(c)'
  BY <1>1, <1>2, WorkedKept
<1> SUFFICES ASSUME NEW i \in 1 .. Done + 1 PROVE AfterSuccess(i)'
  BY <1>3
<1> DEFINE c == todo[1]
<1>5. Worked(Commands[i])'
  <2>1. CASE i = Done + 1
    <3>1. Commands'[i] = todo[1]
      BY <1>3, <2>1
    <3>2. PICK d : d = todo[1]
      OBVIOUS
    <3>3. Worked(d)'
      BY <1>4, <3>2
    <3> QED
      BY <3>1, <3>2, <3>3 DEF Worked
  <2>2. CASE i # Done + 1
    <3>1. i \in 1 .. Succeeded
      BY <1>3, <2>2
    <3>2. Worked(Commands[i])
      BY <3>1 DEF AfterSuccess
    <3> QED
      BY <1>3, <1>4, <3>2
  <2> QED
    BY <2>1, <2>2
<1>6. LastOf(i)' => /\ i = Done + 1 \/ c # "preprocessor"
                    /\ i # Done + 1 => LastOf(i)
  <2>1. LastOf(i)' <=> \A j \in i + 1 .. Done + 1 : Commands[j] # "preprocessor"
    BY <1>3 DEF LastOf
  <2>2. LastOf(i) <=> \A j \in i + 1 .. Done : Commands[j] # "preprocessor"
    BY <1>3 DEF LastOf
  <2> QED
    BY <1>3, <2>1, <2>2
<1>7. i # Done + 1 => AfterSuccess(i)
  BY <1>3
<1>8. CASE c = "preprocessor"
  <2>1. PICK s \in Word("preprocessor", "in") : p4i' = Text(s)
    BY <1>1, <1>8 DEF Works
  <2>2. p4i' # Torn /\ p4i'.run = run' /\ p4i'.source = opts'.source
    BY <1>1, <1>3, <1>8, <2>1, TextWritten
  <2>3. LastOf(i)' => i = Done + 1
    BY <1>6, <1>8
  <2>4. i = Done + 1 => Commands'[i] = "preprocessor"
    BY <1>3, <1>8
  <2> QED
    BY <1>5, <2>2, <2>3, <2>4 DEF AfterSuccess
<1>9. CASE c = "compiler"
  <2>1. p4i' = p4i /\ p4i # None /\ out' = Output
    BY <1>1, <1>9 DEF Works
  <2>2. out' # None /\ out'.text = p4i'
    BY <1>1, <1>9, <2>1, OutputWritten
  <2>3. i = Done + 1 => Commands'[i] = "compiler"
    BY <1>3, <1>9
  <2> QED
    BY <1>1, <1>3, <1>5, <1>6, <1>7, <2>1, <2>2, <2>3 DEF AfterSuccess
<1>10. CASE c = "cleaner"
  <2>1. p4i' = None
    BY <1>1, <1>10 DEF Works
  <2> QED
    BY <1>5, <2>1 DEF AfterSuccess
<1>11. CASE c \notin {"preprocessor", "compiler", "cleaner"}
  <2>1. p4i' = p4i /\ out' = out
    BY <1>1, <1>11 DEF Works
  <2>2. i = Done + 1 => Commands'[i] \notin {"preprocessor", "compiler", "cleaner"}
    BY <1>3, <1>11
  <2> QED
    BY <1>1, <1>3, <1>5, <1>6, <1>7, <2>1, <2>2 DEF AfterSuccess
<1> QED
  BY <1>8, <1>9, <1>10, <1>11

LEMMA InitFiles == Init => FilesInv
BY DEF Init, FilesInv, TextInv, Working

LEMMA StepText == DriverInv /\ FilesInv /\ [Next]_vars => TextInv'
<1> SUFFICES ASSUME DriverInv, FilesInv, [Next]_vars PROVE TextInv'
  OBVIOUS
<1>1. TextInv /\ run \in Nat
  BY DEF FilesInv, DriverInv
<1>2. CASE \E o \in Requests : Start(o)
  <2>1. run' = run + 1 /\ p4i' = p4i
    BY <1>2 DEF Start, files
  <2> QED
    BY <1>1, <2>1 DEF TextInv
<1>3. CASE Configure
  <2>1. p4i' = p4i /\ run' = run /\ opts'.language = opts.language
    BY <1>3, ConfigureDriver DEF Configure, files
  <2> QED
    BY <1>1, <2>1 DEF TextInv, Standard
<1>4. CASE \E code \in Codes : runCmd(code)
  <2>1. pc = "runCmd" /\ UNCHANGED <<run, setup>>
        /\ (UNCHANGED <<p4i, out>> \/ Works(todo[1]) \/ Fails(todo[1]))
    BY <1>4 DEF runCmd
  <2>2. CASE UNCHANGED <<p4i, out>>
    BY <1>1, <2>1, <2>2 DEF TextInv, setup
  <2> QED
    BY <1>1, <2>1, <2>2, ToolText
<1>5. CASE Interrupt
  <2>1. UNCHANGED <<run, setup>>
        /\ (UNCHANGED <<p4i, out>> \/ (pc = "runCmd" /\ Fails(todo[1])))
    BY <1>5 DEF Interrupt
  <2>2. CASE UNCHANGED <<p4i, out>>
    BY <1>1, <2>1, <2>2 DEF TextInv, setup
  <2> QED
    BY <1>1, <2>1, <2>2, ToolText
<1>6. CASE \/ ExitEarly \/ Reject \/ MakeDirs \/ FindBin
           \/ \E code \in Codes : preRun(code) \/ postRun(code)
           \/ AfterCommand \/ (\E s \in Sources : Edit(s)) \/ UNCHANGED vars
  <2>1. UNCHANGED <<p4i, run, opts>>
    BY <1>6 DEF ExitEarly, Reject, MakeDirs, FindBin, preRun, postRun, AfterCommand, Edit,
                vars, files, setup
  <2> QED
    BY <1>1, <2>1 DEF TextInv
<1> QED
  BY <1>2, <1>3, <1>4, <1>5, <1>6 DEF Next

LEMMA StepFiles == DriverInv /\ FilesInv /\ [Next]_vars => FilesInv'
<1> SUFFICES ASSUME DriverInv, FilesInv, [Next]_vars,
                    Working', ~opts'.dry_run, pc' = "postRun" => rc' = 0
             PROVE  \A i \in 1 .. Succeeded' : AfterSuccess(i)'
  BY StepText DEF FilesInv
<1>1. CASE \E o \in Requests : Start(o)
  BY <1>1 DEF Start, Working
<1>2. CASE ExitEarly \/ Reject \/ Configure \/ Interrupt
  BY <1>2 DEF ExitEarly, Reject, Configure, Interrupt, Finish, Working
<1>3. CASE MakeDirs
  <2>1. /\ pc = "makedirs" /\ UNCHANGED <<setup, todo>> /\ pc' \in {"idle", "preRun"}
    BY <1>3 DEF MakeDirs, Next_command, Finish
  <2>2. todo = Commands /\ Commands \in Seq(DOMAIN backend.first)
    BY <2>1 DEF DriverInv, Progress
  <2>3. Commands' = Commands /\ todo' = Commands'
    BY <2>1, <2>2 DEF Commands, setup
  <2>4. Len(Commands) \in Nat
    BY <2>2
  <2>5. Done' = 0
    BY <2>3, <2>4 DEF Done
  <2>6. Succeeded' = 0
    BY <2>1, <2>5 DEF Succeeded, Working
  <2> QED
    BY <2>6
<1>4. CASE FindBin
  <2>1. /\ pc = "preRun" /\ pc' = "runCmd"
        /\ UNCHANGED <<p4i, out, run, setup, todo, ran>>
    BY <1>4 DEF FindBin, Finish, files, Working
  <2>2. Working /\ opts' = opts /\ \A c : Worked(c) => Worked(c)'
    BY <2>1 DEF Working, Worked, setup
  <2>3. Succeeded' = Succeeded
    BY <2>1 DEF Succeeded, Done, Commands, setup
  <2>4. \A i \in 1 .. Succeeded : AfterSuccess(i)
    BY <2>1, <2>2 DEF FilesInv
  <2> QED
    BY <2>1, <2>2, <2>3, <2>4, SuccessKept
<1>5. ASSUME NEW code \in Codes, preRun(code) \/ postRun(code)
      PROVE  \A i \in 1 .. Succeeded' : AfterSuccess(i)'
  <2>1. /\ pc' = pc /\ (pc = "postRun" => rc = 0)
        /\ pc \in {"preRun", "postRun"}
        /\ UNCHANGED <<p4i, out, run, setup, todo>>
        /\ ran' = Ended(code, "before") \/ ran' = Ended(code, "after")
    BY <1>5 DEF preRun, postRun, Finish, files, Working
  <2>2. Working /\ opts' = opts /\ code \in Int
    BY <2>1, CodesType DEF Working, setup
  <2>3. \A c : Worked(c) => Worked(c)'
    BY <2>1, <2>2, WorkedKept
  <2>4. Succeeded' = Succeeded
    BY <2>1 DEF Succeeded, Done, Commands, setup
  <2>5. \A i \in 1 .. Succeeded : AfterSuccess(i)
    BY <2>1, <2>2 DEF FilesInv
  <2> QED
    BY <2>1, <2>3, <2>4, <2>5, SuccessKept
<1>6. ASSUME NEW code \in Codes, runCmd(code)
      PROVE  \A i \in 1 .. Succeeded' : AfterSuccess(i)'
  <2>1. pc = "runCmd" /\ code = 0 /\ ~opts.dry_run
    BY <1>6 DEF runCmd, setup
  <2>2. \A i \in 1 .. Succeeded : AfterSuccess(i)
    BY <2>1 DEF FilesInv, Working
  <2> QED
    BY <1>6, <2>1, <2>2, ToolSuccess
<1>7. CASE AfterCommand
  <2>1. /\ pc = "postRun" /\ todo' = Tail(todo) /\ pc' = "preRun" /\ rc = 0
        /\ UNCHANGED <<p4i, out, run, setup, ran>>
    BY <1>7 DEF AfterCommand, Next_command, Finish, files, Working
  <2>2. Working /\ opts' = opts /\ \A c : Worked(c) => Worked(c)'
    BY <2>1 DEF Working, Worked, setup
  <2>3. Succeeded' = Succeeded
    <3>1. Commands' = Commands
      BY <2>1 DEF Commands, setup
    <3>2. todo \in Seq(DOMAIN backend.first) /\ Len(todo) > 0 /\ Len(Commands) \in Nat
      BY <2>2, CurrentCommand DEF Progress
    <3>3. Len(todo') = Len(todo) - 1 /\ Len(todo) \in Nat
      BY <2>1, <3>2
    <3> HIDE DEF Commands
    <3>4. Done' = Done + 1
      BY <3>1, <3>2, <3>3 DEF Done
    <3> QED
      BY <2>1, <3>4 DEF Succeeded
  <2>4. \A i \in 1 .. Succeeded : AfterSuccess(i)
    BY <2>1, <2>2 DEF FilesInv
  <2> QED
    BY <2>1, <2>2, <2>3, <2>4, SuccessKept
<1>8. CASE (\E s \in Sources : Edit(s)) \/ UNCHANGED vars
  <2>1. UNCHANGED <<p4i, out, run, setup, pc, todo, rc, ran>>
    BY <1>8 DEF Edit, vars, files, setup
  <2>2. Working /\ (pc = "postRun" => rc = 0) /\ opts' = opts /\ \A c : Worked(c) => Worked(c)'
    BY <2>1 DEF Working, Worked, setup
  <2>3. Succeeded' = Succeeded
    BY <2>1 DEF Succeeded, Done, Commands, setup
  <2>4. \A i \in 1 .. Succeeded : AfterSuccess(i)
    BY <2>2 DEF FilesInv
  <2> QED
    BY <2>1, <2>2, <2>3, <2>4, SuccessKept
<1> QED
  BY <1>1, <1>2, <1>3, <1>4, <1>5, <1>6, <1>7, <1>8 DEF Next

(* Only a compiler that succeeds makes a new output.                        *)
LEMMA OutputChanged ==
  ASSUME DriverInv, [Next]_vars, out' \notin {out, None}
  PROVE  /\ pc = "runCmd" /\ Working /\ ~opts.dry_run /\ todo[1] = "compiler"
         /\ UNCHANGED <<run, opts>> /\ out' = Output /\ p4i # None
<1>1. \E code \in Codes : runCmd(code)
  BY DEF Next, vars, Start, ExitEarly, Reject, Configure, MakeDirs, FindBin, preRun, postRun,
         AfterCommand, Interrupt, Edit, Fails, files
<1>2. pc = "runCmd" /\ ~opts.dry_run /\ Works(todo[1]) /\ UNCHANGED <<run, opts>>
  BY <1>1 DEF runCmd, Fails, setup
<1> QED
  BY <1>2 DEF Works, Working

(* A text is only removed by a preprocessor that fails or by a cleaner.     *)
LEMMA TextRemoved ==
  ASSUME DriverInv, [Next]_vars, p4i' = None, p4i # None
  PROVE  /\ Working /\ (todo[1] = "preprocessor"
                          \/ (pc = "runCmd" /\ ~opts.dry_run /\ todo[1] = "cleaner"))
<1>1. (\E code \in Codes : runCmd(code)) \/ Interrupt
  BY DEF Next, vars, Start, ExitEarly, Reject, Configure, MakeDirs, FindBin, preRun, postRun,
         AfterCommand, Edit, files
<1>2. Working
  BY <1>1 DEF runCmd, Interrupt, Working
<1>3. CASE \E code \in Codes : runCmd(code)
  BY <1>2, <1>3 DEF runCmd, Works, Fails
<1>4. CASE Interrupt
  BY <1>2, <1>4 DEF Interrupt, Fails
<1> QED
  BY <1>1, <1>3, <1>4

(* The language of a run, from the command line and the environment.        *)
LEMMA LanguageAsked ==
  ASSUME DriverInv, NEW o \in Requests, Start(o)
  PROVE  opts'.language = "p4-16" <=> Asked(o) \in {"p4-16", "p4_16"}
<1>1. opts'.language = Spelling(Default(env.version, o.language))
  BY StartDriver
<1>2. Default(env.version, o.language) = Asked(o)
  BY DEF Default, Asked
<1>3. ASSUME NEW l PROVE Spelling(l) = "p4-16" <=> l \in {"p4-16", "p4_16"}
  BY DEF Spelling
<1> QED
  BY <1>1, <1>2, <1>3

LEMMA StepCompiled ==
  ASSUME DriverInv, FilesInv, [Next]_vars, out' \notin {out, None}
  PROVE  \/ opts.skip_preprocessor
         \/ out'.text # Torn /\ out'.text.run = run /\ out'.text.source = opts.source
<1> SUFFICES ASSUME ~opts.skip_preprocessor
             PROVE  out'.text # Torn /\ out'.text.run = run /\ out'.text.source = opts.source
  OBVIOUS
<1>1. /\ pc = "runCmd" /\ Working /\ ~opts.dry_run /\ todo[1] = "compiler"
      /\ out' = Output /\ p4i # None
  BY OutputChanged
<1>2. out'.text = p4i
  BY <1>1, OutputWritten
<1>3. /\ IsBackend(backend) /\ Commands[Done + 1] = "compiler" /\ Done + 1 \in DOMAIN Commands
      /\ Done \in Nat
  BY <1>1, CurrentCommand DEF Progress
<1>4. PICK j \in 1 .. (Done + 1) - 1 : Commands[j] = "preprocessor"
  BY <1>3, EnabledOrder DEF Commands
<1>5. j \in 1 .. Succeeded
  BY <1>1, <1>3, <1>4 DEF Succeeded
<1>6. AfterSuccess(j)
  BY <1>1, <1>5 DEF FilesInv
<1> QED
  BY <1>1, <1>2, <1>4, <1>6 DEF AfterSuccess

LEMMA StepLanguages ==
  ASSUME DriverInv, FilesInv, [Next]_vars, out' \notin {out, None}
  PROVE  /\ out'.language = (IF opts.language = "p4-16" THEN 16 ELSE 14)
         /\ out'.text # Torn /\ out'.text.run = run => out'.text.language = out'.language
<1>1. /\ pc = "runCmd" /\ todo[1] = "compiler" /\ out' = Output /\ p4i # None
  BY OutputChanged
<1>2. out'.text = p4i /\ out'.language = Standard(opts)
  BY <1>1, OutputWritten
<1>3. p4i # Torn /\ p4i.run = run => p4i.language = Standard(opts)
  BY <1>1 DEF FilesInv, TextInv
<1> QED
  BY <1>2, <1>3 DEF Standard

LEMMA StepRemoved ==
  ASSUME DriverInv, FilesInv, [Next]_vars, p4i' = None, p4i # None
  PROVE  \/ todo[1] = "preprocessor"
         \/ Worked("compiler") /\ out # None /\ out.text = p4i
<1> SUFFICES ASSUME todo[1] # "preprocessor"
             PROVE  Worked("compiler") /\ out # None /\ out.text = p4i
  OBVIOUS
<1>1. Working /\ pc = "runCmd" /\ ~opts.dry_run /\ todo[1] = "cleaner"
  BY TextRemoved
<1>2. /\ IsBackend(backend) /\ Commands[Done + 1] = "cleaner" /\ Done + 1 \in DOMAIN Commands
      /\ Done \in Nat
  BY <1>1, CurrentCommand DEF Progress
<1>3. PICK j \in 1 .. (Done + 1) - 1 :
         Commands[j] = "compiler" /\ \A k \in j .. Done + 1 : Commands[k] # "preprocessor"
  BY <1>2, EnabledOrder DEF Commands
<1>4. j \in 1 .. Succeeded /\ LastOf(j)
  BY <1>1, <1>2, <1>3 DEF Succeeded, LastOf
<1>5. AfterSuccess(j)
  BY <1>1, <1>4 DEF FilesInv
<1> QED
  BY <1>3, <1>4, <1>5 DEF AfterSuccess

(* The DPDK back end runs its cleaner last.                                 *)
LEMMA CleanerLast ==
  ASSUME RunsAll(opts), backend = DPDKBackend
  PROVE  Len(Commands) \in Nat /\ Len(Commands) > 0 /\ Commands[Len(Commands)] = "cleaner"
<1>1. PICK e, C : e = backend.enabled /\ C = {"preprocessor", "compiler", "cleaner"}
  OBVIOUS
<1>2. e = <<"preprocessor", "compiler", "cleaner">>
  BY <1>1 DEF DPDKBackend, Backend
<1>3. e \in Seq(C) /\ Len(e) = 3
  BY <1>1, <1>2
<1>4. e[1] = "preprocessor" /\ e[2] # "preprocessor" /\ e[3] = "cleaner"
  BY <1>2
<1>5. CASE ~opts.skip_preprocessor
  <2>1. Commands = e
    BY <1>1, <1>5 DEF Commands, Enabled, RunsAll
  <2>2. Len(Commands) = 3 /\ Commands[3] = "cleaner"
    BY <1>3, <1>4, <2>1, Zenon
  <2> QED
    BY <2>2
<1>6. CASE opts.skip_preprocessor
  <2>1. Commands = disable_commands(backend, "preprocessor")
    BY <1>6 DEF Commands, Enabled, RunsAll
  <2>2. 1 \in {i \in DOMAIN e : e[i] = "preprocessor"}
    BY <1>3, <1>4
  <2>3. PICK p : p = Min({i \in DOMAIN e : e[i] = "preprocessor"})
    OBVIOUS
  <2>4. p \in 1 .. Len(e) /\ e[p] = "preprocessor"
    <3>1. {i \in DOMAIN e : e[i] = "preprocessor"} # {}
      BY <2>2, Zenon
    <3> QED
      BY <1>3, <2>3, <3>1, FirstPlace, ZenonT(40)
  <2>5. p = 1
    BY <1>3, <1>4, <2>4
  <2>6. Commands = RemoveAt(e, p)
    BY <1>1, <2>1, <2>2, <2>3 DEF disable_commands
  <2>7. /\ RemoveAt(e, p) \in Seq(C) /\ Len(RemoveAt(e, p)) = Len(e) - 1
        /\ \A i \in 1 .. Len(e) - 1 : RemoveAt(e, p)[i] = e[IF i < p THEN i ELSE i + 1]
    BY <1>3, <2>4, RemovedAt
  <2>8. Len(Commands) = 2 /\ Commands[2] = e[3]
    BY <1>3, <2>5, <2>6, <2>7
  <2> QED
    BY <1>4, <2>8
<1> QED
  BY <1>5, <1>6

(* Every way to end a run with status 0 after a command is through the loop.*)
LEMMA EndedWell ==
  ASSUME DriverInv, [Next]_vars, pc # "idle", pc' = "idle", status' = 0, ran # <<>>
  PROVE  AfterCommand /\ rc = 0 /\ todo' = <<>>
<1>1. pc \notin {"main", "makedirs"}
  BY DEF DriverInv
<1>2. /\ \A code \in Codes : code % 256 = 0 => code = 0
      /\ \A code \in -64 .. 255 : code % 256 = 0 => code = 0
  BY CodesAssumption
<1>3. CASE AfterCommand
  <2>1. rc \in Codes
    BY DEF DriverInv
  <2> QED
    BY <1>2, <1>3, <2>1 DEF AfterCommand, Next_command, Finish
<1>4. CASE \E code \in Codes : preRun(code)
  <2>1. PICK code \in Codes : preRun(code)
    BY <1>4
  <2>2. code # 0 /\ status' = code % 256
    BY <2>1 DEF preRun, Finish
  <2> QED
    BY <1>2, <2>2
<1>5. CASE FindBin
  BY <1>5 DEF FindBin, Finish
<1>6. CASE Interrupt
  <2>1. status' = (-2) % 256
    BY <1>6 DEF Interrupt, Finish
  <2>2. -2 \in -64 .. 255 /\ -2 # 0
    OBVIOUS
  <2> QED
    BY <1>2, <2>1, <2>2
<1>7. CASE \E code \in Codes : runCmd(code) \/ postRun(code)
  BY <1>7 DEF runCmd, postRun
<1>8. CASE (\E s \in Sources : Edit(s)) \/ UNCHANGED vars
  BY <1>8 DEF Edit, vars
<1>9. CASE (\E o \in Requests : Start(o)) \/ ExitEarly \/ Reject \/ Configure \/ MakeDirs
  BY <1>1, <1>9 DEF Start, ExitEarly, Reject, Configure, MakeDirs
<1> QED
  BY <1>3, <1>4, <1>5, <1>6, <1>7, <1>8, <1>9 DEF Next

LEMMA StepCleaned ==
  ASSUME DriverInv, FilesInv, [Next]_vars, pc # "idle", pc' = "idle", status' = 0, ran # <<>>,
         backend.kind = "dpdk", ~opts.dry_run, RunsAll(opts)
  PROVE  p4i = None
<1>1. AfterCommand /\ rc = 0 /\ todo' = <<>> /\ pc = "postRun" /\ todo' = Tail(todo)
  BY EndedWell DEF AfterCommand
<1>2. Working
  BY <1>1 DEF Working
<1>3. /\ IsBackend(backend) /\ todo \in Seq(DOMAIN backend.first) /\ Len(todo) \in Nat
      /\ Len(todo) > 0 /\ Len(Commands) \in Nat
  BY <1>2, CurrentCommand DEF Progress
<1>4. Len(todo) = 1
  <2>1. Len(Tail(todo)) = Len(todo) - 1
    BY <1>3
  <2>2. Tail(todo) = <<>>
    BY <1>1
  <2>3. Len(<<>>) = 0
    OBVIOUS
  <2>4. Len(Tail(todo)) = 0 /\ Len(todo) \in Nat
    BY <1>3, <2>2, <2>3, Zenon
  <2> QED
    BY <2>1, <2>4
<1>5. Succeeded = Len(Commands)
  BY <1>1, <1>3, <1>4 DEF Succeeded, Done
<1>6. Len(Commands) > 0 /\ Commands[Len(Commands)] = "cleaner"
  BY <1>3, CleanerLast DEF IsBackend
<1>7. LastOf(Len(Commands)) /\ Len(Commands) \in 1 .. Succeeded
  <2> HIDE DEF Commands
  <2> QED
    BY <1>3, <1>5, <1>6 DEF LastOf
<1>8. AfterSuccess(Len(Commands))
  BY <1>1, <1>2, <1>7 DEF FilesInv
<1> QED
  BY <1>6, <1>7, <1>8 DEF AfterSuccess

LEMMA FilesInvariant == Spec => [](DriverInv /\ FilesInv)
<1>1. Init => DriverInv /\ FilesInv
  BY InitDriver, InitFiles
<1>2. DriverInv /\ FilesInv /\ [Next]_vars => (DriverInv /\ FilesInv)'
  BY StepDriver, StepFiles
<1> QED
  BY <1>1, <1>2, PTL DEF Spec

(* What the compiler compiles is what the preprocessor made of the user's   *)
(* source in the same run, unless the user skips the preprocessor: for any  *)
(* well-formed back ends, failures, interrupts and edits.                   *)
THEOREM CompiledInTheRun == Spec => CompiledThisRun
<1>1. DriverInv /\ FilesInv /\ [Next]_vars =>
        [ out' \notin {out, None} =>
            \/ opts.skip_preprocessor
            \/ out'.text # Torn /\ out'.text.run = run /\ out'.text.source = opts.source ]_vars
  BY StepCompiled
<1> QED
  BY <1>1, FilesInvariant, PTL DEF Spec, CompiledThisRun

(* The tools of one run agree on the language, which is the one that the    *)
(* environment or else the command line asks for, in either spelling.       *)
THEOREM LanguagesTheSame == Spec => LanguagesAgree
<1>1. DriverInv /\ FilesInv /\ [Next]_vars =>
        [ /\ \A o \in Requests : Start(o) =>
               (opts'.language = "p4-16" <=> Asked(o) \in {"p4-16", "p4_16"})
          /\ out' \notin {out, None} =>
               /\ out'.language = (IF opts.language = "p4-16" THEN 16 ELSE 14)
               /\ out'.text # Torn /\ out'.text.run = run
                     => out'.text.language = out'.language ]_vars
  BY LanguageAsked, StepLanguages
<1> QED
  BY <1>1, FilesInvariant, PTL DEF Spec, LanguagesAgree

(* The preprocessed program is removed only after the compiler of the same  *)
(* run has used it, and is gone when a run of everything by the back end    *)
(* that cleans up reports success.                                          *)
THEOREM RemovedAfterUse == Spec => CleanedAfterUse
<1>1. DriverInv /\ FilesInv /\ [Next]_vars =>
        [ /\ p4i' = None /\ p4i # None =>
               \/ todo[1] = "preprocessor"
               \/ Worked("compiler") /\ out # None /\ out.text = p4i
          /\ /\ pc # "idle" /\ pc' = "idle" /\ status' = 0 /\ ran # <<>>
             /\ backend.kind = "dpdk" /\ ~opts.dry_run /\ RunsAll(opts)
             => p4i = None ]_vars
  BY StepRemoved, StepCleaned
<1> QED
  BY <1>1, FilesInvariant, PTL DEF Spec, CleanedAfterUse

-----------------------------------------------------------------------------
(* How a run ends                                                           *)

LEMMA PlaceStep ==
  ASSUME NEW r, NEW n \in Nat
  PROVE  /\ PlaceIn(r, n) \in Nat
         /\ PlaceIn(r, n + 1) = PlaceIn(r, n) + (IF r[n + 1].kind = "command" THEN 1 ELSE 0)
<1> DEFINE A(m) == {j \in 1 .. m : r[j].kind = "command"}
<1>1. IsFiniteSet(1 .. n)
  BY FS_Interval
<1>2. IsFiniteSet(A(n)) /\ Cardinality(A(n)) \in Nat
  BY <1>1, FS_Subset, FS_CardinalityType
<1>3. A(n + 1) = IF r[n + 1].kind = "command" THEN A(n) \cup {n + 1} ELSE A(n)
  OBVIOUS
<1>4. n + 1 \notin A(n)
  OBVIOUS
<1>5. Cardinality(A(n) \cup {n + 1}) = Cardinality(A(n)) + 1
  BY <1>2, <1>4, FS_AddElement
<1>6. PlaceIn(r, n) = Cardinality(A(n)) /\ PlaceIn(r, n + 1) = Cardinality(A(n + 1))
  BY DEF PlaceIn
<1> HIDE DEF A
<1>7. CASE r[n + 1].kind = "command"
  BY <1>2, <1>3, <1>5, <1>6, <1>7
<1>8. CASE r[n + 1].kind # "command"
  BY <1>2, <1>3, <1>6, <1>8
<1> QED
  BY <1>7, <1>8

LEMMA PlaceZero == ASSUME NEW r PROVE PlaceIn(r, 0) = 0
<1>1. {j \in 1 .. 0 : r[j].kind = "command"} = {}
  OBVIOUS
<1> QED
  BY <1>1, FS_EmptySet DEF PlaceIn

(* A list that only grows.                                                  *)
LEMMA PlaceKept ==
  ASSUME NEW r, NEW s, NEW n \in Nat, \A i \in 1 .. n : s[i] = r[i]
  PROVE  \A i \in 0 .. n : PlaceIn(s, i) = PlaceIn(r, i)
<1> SUFFICES ASSUME NEW i \in 0 .. n PROVE PlaceIn(s, i) = PlaceIn(r, i)
  OBVIOUS
<1>1. {j \in 1 .. i : s[j].kind = "command"} = {j \in 1 .. i : r[j].kind = "command"}
  OBVIOUS
<1> QED
  BY <1>1, Zenon DEF PlaceIn

LEMMA CleanedKept ==
  ASSUME NEW r, NEW s, NEW after, NEW m \in Nat, \A i \in 1 .. m : s[i] = r[i],
         NEW i \in 1 .. m, after[r[i].command] \in Nat, CleanedIn(r, after, i, m)
  PROVE  CleanedIn(s, after, i, m)
<1> DEFINE last == i + after[r[i].command]
<1>1. s[i] = r[i] /\ last \in Nat /\ last >= i /\ i >= 1 /\ i \in Nat
  OBVIOUS
<1>2. last <= m /\ (last < m => r[last + 1].kind # "after")
      /\ \A j \in i + 1 .. last : r[j].kind = "after" /\ r[j].command = r[i].command
  BY DEF CleanedIn
<1>3. last = i + after[s[i].command]
  BY <1>1
<1> HIDE DEF last
<1>4. last < m => s[last + 1] = r[last + 1]
  BY <1>1
<1>5. \A j \in i + 1 .. last : s[j] = r[j]
  BY <1>1, <1>2
<1> QED
  BY <1>1, <1>2, <1>3, <1>4, <1>5 DEF CleanedIn

LEMMA CleanedExtends ==
  ASSUME NEW r, NEW after, NEW m \in Nat, NEW n \in Nat, m <= n,
         m < n => r[m + 1].kind # "after",
         NEW i \in 1 .. m, after[r[i].command] \in Nat, CleanedIn(r, after, i, m)
  PROVE  CleanedIn(r, after, i, n)
<1> DEFINE last == i + after[r[i].command]
<1>1. last \in Nat
  OBVIOUS
<1>2. last <= m /\ (last < m => r[last + 1].kind # "after")
      /\ \A j \in i + 1 .. last : r[j].kind = "after" /\ r[j].command = r[i].command
  BY DEF CleanedIn
<1> HIDE DEF last
<1>3. last <= n /\ (last < n => r[last + 1].kind # "after")
  BY <1>1, <1>2
<1> QED
  BY <1>2, <1>3 DEF CleanedIn, last

LEMMA RanType ==
  ASSUME DriverInv
  PROVE  /\ Len(ran) \in Nat /\ DOMAIN ran = 1 .. Len(ran)
         /\ \A i \in DOMAIN ran : backend.after[ran[i].command] \in Nat /\ ran[i].code \in Int
<1>1. ran \in Seq(Entry) /\ IsBackend(backend)
  BY DEF DriverInv
<1>2. Len(ran) \in Nat /\ DOMAIN ran = 1 .. Len(ran) /\ \A i \in DOMAIN ran : ran[i] \in Entry
  BY <1>1
<1>3. \A e \in Entry : e.command \in DOMAIN backend.first /\ e.code \in Int
  BY DEF Entry
<1> QED
  BY <1>1, <1>2, <1>3, BackendType

(* One entry more.                                                          *)
LEMMA RanGrows ==
  ASSUME DriverInv, Working, NEW code \in Int,
         NEW kind \in {"before", "command", "after", "interrupt"}, ran' = Ended(code, kind)
  PROVE  /\ Len(ran) \in Nat /\ Len(ran') = Len(ran) + 1
         /\ DOMAIN ran = 1 .. Len(ran) /\ DOMAIN ran' = 1 .. Len(ran) + 1
         /\ \A i \in 1 .. Len(ran) : ran'[i] = ran[i]
         /\ ran'[Len(ran) + 1] = [command |-> todo[1], kind |-> kind, code |-> code]
         /\ \A i \in 0 .. Len(ran) : PlaceIn(ran', i) = PlaceIn(ran, i)
         /\ PlaceIn(ran', Len(ran) + 1)
              = PlaceIn(ran, Len(ran)) + (IF kind = "command" THEN 1 ELSE 0)
<1>1. /\ Ended(code, kind) \in Seq(Entry)
      /\ Len(ran) \in Nat /\ Len(Ended(code, kind)) = Len(ran) + 1
      /\ \A i \in 1 .. Len(ran) : Ended(code, kind)[i] = ran[i]
      /\ Ended(code, kind)[Len(ran) + 1] = [command |-> todo[1], kind |-> kind, code |-> code]
  BY EndedType, Zenon
<1>2. DOMAIN ran = 1 .. Len(ran)
  BY RanType
<1>3. DOMAIN Ended(code, kind) = 1 .. Len(ran) + 1
  BY <1>1
<1>4. \A i \in 0 .. Len(ran) : PlaceIn(ran', i) = PlaceIn(ran, i)
  BY <1>1, PlaceKept
<1>5. PlaceIn(ran', Len(ran) + 1)
        = PlaceIn(ran', Len(ran)) + (IF ran'[Len(ran) + 1].kind = "command" THEN 1 ELSE 0)
  BY <1>1, PlaceStep
<1>6. ran'[Len(ran) + 1].kind = kind
  BY <1>1
<1>7. PlaceIn(ran', Len(ran)) = PlaceIn(ran, Len(ran))
  BY <1>1, <1>4
<1>8. PlaceIn(ran', Len(ran) + 1)
        = PlaceIn(ran, Len(ran)) + (IF kind = "command" THEN 1 ELSE 0)
  BY <1>5, <1>6, <1>7
<1> QED
  BY <1>1, <1>2, <1>3, <1>4, <1>8, Zenon

(* The three parts of the property, after a step that ends the run.         *)
LEMMA Ending ==
  ASSUME backend' = backend, opts' = opts,
         \A i \in DOMAIN ran' : ran'[i].kind # "after" /\ ran'[i].code # 0 =>
            /\ status' = ran'[i].code % 256
            /\ \A j \in i + 1 .. Len(ran') : ran'[j].kind = "after",
         status' = 0 =>
            /\ PlaceIn(ran', Len(ran')) = Len(Commands)
            /\ \A i \in DOMAIN ran' : ran'[i].kind = "command" =>
                  ran'[i].command = Commands[PlaceIn(ran', i)],
         \A i \in DOMAIN ran' : ran'[i].kind = "command" =>
            CleanedIn(ran', backend.after, i, Len(ran'))
  PROVE  EndsAsItsCommands'
<1>1. StopsAtFailure'
  BY DEF StopsAtFailure
<1>2. \A i : CleanedUpAfter(i)' <=> CleanedIn(ran', backend'.after, i, Len(ran'))
  BY DEF CleanedUpAfter, CleanedIn
<1>3. Place(Len(ran))' = PlaceIn(ran', Len(ran')) /\ \A i : Place(i)' = PlaceIn(ran', i)
  BY DEF Place, PlaceIn
<1>4. status' = 0 => AllWereRun(Enabled(backend, opts))'
  BY <1>3, Zenon DEF AllWereRun, Commands
<1> QED
  BY <1>1, <1>2, <1>4, Zenon DEF EndsAsItsCommands

LEMMA InitRan == Init => RanInv
BY DEF Init, RanInv, Working, EndsAsItsCommands

LEMMA PlaceIsPrime ==
  ASSUME Commands' = Commands
  PROVE  PlaceInv' <=> /\ PlaceIn(ran', Len(ran')) = Succeeded'
                       /\ \A i \in DOMAIN ran' : ran'[i].kind = "command" =>
                             ran'[i].command = Commands[PlaceIn(ran', i)]
BY DEF PlaceInv

LEMMA SetUpRan ==
  ASSUME DriverInv, RanInv, NEW code \in Codes, preRun(code) PROVE RanInv'
<1>1. /\ pc = "preRun" /\ pc' \in {"idle", "preRun"} /\ ran' = Ended(code, "before")
      /\ UNCHANGED <<setup, todo>>
      /\ code # 0 => pc' = "idle" /\ status' = code % 256
      /\ code = 0 => pc' = "preRun"
  BY DEF preRun, Finish
<1>2. Working /\ code \in Int /\ (code % 256 = 0 => code = 0)
  BY <1>1, CodesType, CodesAssumption DEF Working
<1>3. /\ Len(ran) \in Nat /\ Len(ran') = Len(ran) + 1
      /\ DOMAIN ran = 1 .. Len(ran) /\ DOMAIN ran' = 1 .. Len(ran) + 1
      /\ \A i \in 1 .. Len(ran) : ran'[i] = ran[i]
      /\ ran'[Len(ran) + 1] = [command |-> todo[1], kind |-> "before", code |-> code]
      /\ \A i \in 0 .. Len(ran) : PlaceIn(ran', i) = PlaceIn(ran, i)
      /\ PlaceIn(ran', Len(ran) + 1) = PlaceIn(ran, Len(ran)) + (IF "before" = "command" THEN 1 ELSE 0)
  BY <1>1, <1>2, RanGrows, Zenon
<1>4. /\ ran'[Len(ran) + 1].kind = "before" /\ ran'[Len(ran) + 1].code = code
      /\ PlaceIn(ran, Len(ran)) \in Nat
      /\ PlaceIn(ran', Len(ran) + 1) = PlaceIn(ran, Len(ran))
  BY <1>3, PlaceStep
<1>5. /\ \A i \in DOMAIN ran : ran[i].kind # "interrupt"
      /\ OverInv /\ PlaceInv
  BY <1>2 DEF RanInv
<1>6. /\ backend' = backend /\ opts' = opts /\ Commands' = Commands
      /\ \A i \in DOMAIN ran : backend.after[ran[i].command] \in Nat
  BY <1>1, RanType DEF setup, Commands
<1>7. \A i \in 1 .. Len(ran) :
         /\ ran[i].kind # "after" => ran[i].code = 0
         /\ ran[i].kind = "command" => CleanedIn(ran, backend.after, i, Len(ran))
  BY <1>1, <1>5 DEF OverInv, Over
<1>8. ASSUME NEW i \in 1 .. Len(ran), ran[i].kind = "command"
      PROVE  CleanedIn(ran', backend.after, i, Len(ran) + 1)
  <2>1. CleanedIn(ran', backend.after, i, Len(ran))
    BY <1>3, <1>6, <1>7, <1>8, CleanedKept
  <2>2. /\ Len(ran) + 1 \in Nat /\ Len(ran) <= Len(ran) + 1
        /\ ran'[Len(ran) + 1].kind # "after" /\ backend.after[ran'[i].command] \in Nat
    BY <1>3, <1>4, <1>6
  <2> QED
    BY <1>3, <2>1, <2>2, CleanedExtends
<1>9. CASE code # 0
  <2>1. /\ \A i \in 1 .. Len(ran) : ran'[i].kind # "after" => ran'[i].code = 0
        /\ \A i \in 1 .. Len(ran) + 1 : i \in 1 .. Len(ran) \/ i = Len(ran) + 1
    BY <1>3, <1>7
  <2>2. \A i \in DOMAIN ran' : ran'[i].kind # "after" /\ ran'[i].code # 0 =>
           /\ status' = ran'[i].code % 256
           /\ \A j \in i + 1 .. Len(ran') : ran'[j].kind = "after"
    BY <1>1, <1>3, <1>4, <1>9, <2>1
  <2>3. status' # 0
    BY <1>1, <1>2, <1>9
  <2>4. \A i \in DOMAIN ran' : ran'[i].kind = "command" =>
           CleanedIn(ran', backend.after, i, Len(ran'))
    BY <1>3, <1>4, <1>8, <2>1
  <2>5. EndsAsItsCommands'
    BY <1>6, <2>2, <2>3, <2>4, Ending
  <2> QED
    BY <1>1, <1>9, <2>5 DEF RanInv, Working
<1>10. CASE code = 0
  <2>1. Over' = Len(ran') /\ pc' = "preRun"
    BY <1>1, <1>10 DEF Over
  <2>2. OverInv'
    <3>1. Over' \in 0 .. Len(ran')
      BY <1>3, <2>1
    <3>2. \A i \in 1 .. Over' :
             /\ ran'[i].kind # "after" => ran'[i].code = 0
             /\ ran'[i].kind = "command" => CleanedIn(ran', backend'.after, i, Over')
      <4> SUFFICES ASSUME NEW i \in 1 .. Len(ran) + 1
                   PROVE  /\ ran'[i].kind # "after" => ran'[i].code = 0
                          /\ ran'[i].kind = "command" => CleanedIn(ran', backend.after, i, Len(ran) + 1)
        BY <1>3, <1>6, <2>1
      <4>1. CASE i = Len(ran) + 1
        BY <1>4, <1>10, <4>1
      <4>2. CASE i # Len(ran) + 1
        <5>1. i \in 1 .. Len(ran) /\ ran'[i] = ran[i]
          BY <1>3, <4>2
        <5> QED
          BY <1>7, <1>8, <5>1
      <4> QED
        BY <4>1, <4>2
    <3> QED
      BY <2>1, <3>1, <3>2 DEF OverInv
  <2>3. Succeeded' = Succeeded
    BY <1>1, <2>1, <1>6 DEF Succeeded, Done
  <2>4. PlaceInv'
    <3>1. PlaceIn(ran', Len(ran')) = Succeeded'
      BY <1>3, <1>4, <1>5, <2>3 DEF PlaceInv
    <3>2. \A i \in DOMAIN ran' : ran'[i].kind = "command" => ran'[i].command = Commands[PlaceIn(ran', i)]
      BY <1>3, <1>4, <1>5 DEF PlaceInv
    <3> QED
      BY <1>6, <3>1, <3>2, PlaceIsPrime
  <2>5. \A i \in DOMAIN ran' : ran'[i].kind # "interrupt"
    BY <1>3, <1>4, <1>5
  <2> QED
    BY <2>1, <2>2, <2>4, <2>5 DEF RanInv, EndsAsItsCommands
<1> QED
  BY <1>9, <1>10

LEMMA CommandRan ==
  ASSUME DriverInv, RanInv, NEW code \in Codes, runCmd(code) PROVE RanInv'
<1>1. /\ pc = "runCmd" /\ pc' = "postRun" /\ ran' = Ended(code, "command") /\ rc' = code
      /\ pending' = backend.after[todo[1]] /\ UNCHANGED <<setup, todo>>
  BY DEF runCmd
<1>2. Working /\ code \in Int
  BY <1>1, CodesType DEF Working
<1>3. /\ Len(ran) \in Nat /\ Len(ran') = Len(ran) + 1
      /\ DOMAIN ran = 1 .. Len(ran) /\ DOMAIN ran' = 1 .. Len(ran) + 1
      /\ \A i \in 1 .. Len(ran) : ran'[i] = ran[i]
      /\ ran'[Len(ran) + 1] = [command |-> todo[1], kind |-> "command", code |-> code]
      /\ \A i \in 0 .. Len(ran) : PlaceIn(ran', i) = PlaceIn(ran, i)
      /\ PlaceIn(ran', Len(ran) + 1) = PlaceIn(ran, Len(ran)) + (IF "command" = "command" THEN 1 ELSE 0)
  BY <1>1, <1>2, RanGrows, Zenon
<1>4. /\ ran'[Len(ran) + 1].kind = "command" /\ ran'[Len(ran) + 1].command = todo[1]
      /\ PlaceIn(ran, Len(ran)) \in Nat
      /\ PlaceIn(ran', Len(ran) + 1) = PlaceIn(ran, Len(ran)) + 1
  BY <1>3, PlaceStep
<1>5. /\ \A i \in DOMAIN ran : ran[i].kind # "interrupt"
      /\ OverInv /\ PlaceInv
  BY <1>2 DEF RanInv
<1>6. /\ backend' = backend /\ opts' = opts /\ Commands' = Commands
      /\ \A i \in DOMAIN ran : backend.after[ran[i].command] \in Nat
      /\ backend.after[todo[1]] \in Nat
      /\ Done \in Nat /\ todo[1] = Commands[Done + 1]
  BY <1>1, <1>2, RanType, CurrentCommand DEF setup, Commands
<1>7. \A i \in 1 .. Len(ran) :
         /\ ran[i].kind # "after" => ran[i].code = 0
         /\ ran[i].kind = "command" => CleanedIn(ran, backend.after, i, Len(ran))
  BY <1>1, <1>5 DEF OverInv, Over
<1>8. Over' = Len(ran)
  <2>1. Over' = Len(ran') - (backend.after[todo[1]] - backend.after[todo[1]]) - 1
    BY <1>1, <1>6 DEF Over
  <2> QED
    BY <1>3, <1>6, <2>1
<1>9. OverInv'
  <2>1. Over' \in 0 .. Len(ran')
    BY <1>3, <1>8
  <2>2. \A i \in 1 .. Over' :
           /\ ran'[i].kind # "after" => ran'[i].code = 0
           /\ ran'[i].kind = "command" => CleanedIn(ran', backend'.after, i, Over')
    <3> SUFFICES ASSUME NEW i \in 1 .. Len(ran)
                 PROVE  /\ ran'[i].kind # "after" => ran'[i].code = 0
                        /\ ran'[i].kind = "command" => CleanedIn(ran', backend.after, i, Len(ran))
      BY <1>6, <1>8
    <3>1. ran[i].kind = "command" => CleanedIn(ran', backend.after, i, Len(ran))
      BY <1>3, <1>6, <1>7, CleanedKept
    <3> QED
      BY <1>3, <1>7, <3>1
  <2>3. pending' <= backend'.after[todo'[1]]
    BY <1>1, <1>6
  <2>4. ran'[Over' + 1] = [command |-> todo'[1], kind |-> "command", code |-> rc']
    BY <1>1, <1>3, <1>8
  <2>5. \A j \in Over' + 2 .. Len(ran') : ran'[j].kind = "after" /\ ran'[j].command = todo'[1]
    BY <1>3, <1>8
  <2> QED
    BY <2>1, <2>2, <2>3, <2>4, <2>5 DEF OverInv
<1>10. Succeeded' = Succeeded + 1 /\ Succeeded = Done
  <2>1. Done' = Done
    BY <1>1, <1>6 DEF Done
  <2> QED
    BY <1>1, <1>6, <2>1 DEF Succeeded
<1>11. PlaceInv'
  <2>1. PlaceIn(ran', Len(ran')) = Succeeded'
    BY <1>3, <1>4, <1>5, <1>10 DEF PlaceInv
  <2>2. \A i \in DOMAIN ran' : ran'[i].kind = "command" => ran'[i].command = Commands[PlaceIn(ran', i)]
    <3>1. Commands[PlaceIn(ran', Len(ran) + 1)] = todo[1]
      BY <1>4, <1>5, <1>6, <1>10 DEF PlaceInv
    <3> QED
      BY <1>3, <1>4, <1>5, <3>1 DEF PlaceInv
  <2> QED
    BY <1>6, <2>1, <2>2, PlaceIsPrime
<1>12. \A i \in DOMAIN ran' : ran'[i].kind # "interrupt"
  BY <1>3, <1>4, <1>5
<1> QED
  BY <1>1, <1>9, <1>11, <1>12 DEF RanInv, EndsAsItsCommands

LEMMA CleanupRan ==
  ASSUME DriverInv, RanInv, NEW code \in Codes, postRun(code) PROVE RanInv'
<1>1. /\ pc = "postRun" /\ pc' = "postRun" /\ ran' = Ended(code, "after") /\ rc' = rc
      /\ pending > 0 /\ pending' = pending - 1 /\ UNCHANGED <<setup, todo>>
  BY DEF postRun
<1>2. Working /\ code \in Int
  BY <1>1, CodesType DEF Working
<1>3. /\ Len(ran) \in Nat /\ Len(ran') = Len(ran) + 1
      /\ DOMAIN ran = 1 .. Len(ran) /\ DOMAIN ran' = 1 .. Len(ran) + 1
      /\ \A i \in 1 .. Len(ran) : ran'[i] = ran[i]
      /\ ran'[Len(ran) + 1] = [command |-> todo[1], kind |-> "after", code |-> code]
      /\ \A i \in 0 .. Len(ran) : PlaceIn(ran', i) = PlaceIn(ran, i)
      /\ PlaceIn(ran', Len(ran) + 1) = PlaceIn(ran, Len(ran)) + (IF "after" = "command" THEN 1 ELSE 0)
  BY <1>1, <1>2, RanGrows, Zenon
<1>4. /\ ran'[Len(ran) + 1].kind = "after" /\ ran'[Len(ran) + 1].command = todo[1]
      /\ PlaceIn(ran, Len(ran)) \in Nat
      /\ PlaceIn(ran', Len(ran) + 1) = PlaceIn(ran, Len(ran))
  BY <1>3, PlaceStep
<1>5. /\ \A i \in DOMAIN ran : ran[i].kind # "interrupt"
      /\ OverInv /\ PlaceInv
  BY <1>2 DEF RanInv
<1>6. /\ backend' = backend /\ opts' = opts /\ Commands' = Commands
      /\ \A i \in DOMAIN ran : backend.after[ran[i].command] \in Nat
      /\ backend.after[todo[1]] \in Nat /\ pending \in Nat
  BY <1>1, <1>2, RanType, CurrentCommand DEF setup, Commands, DriverInv
<1>7. /\ Over \in 0 .. Len(ran) /\ pending <= backend.after[todo[1]]
      /\ \A i \in 1 .. Over :
            /\ ran[i].kind # "after" => ran[i].code = 0
            /\ ran[i].kind = "command" => CleanedIn(ran, backend.after, i, Over)
      /\ ran[Over + 1] = [command |-> todo[1], kind |-> "command", code |-> rc]
      /\ \A j \in Over + 2 .. Len(ran) : ran[j].kind = "after" /\ ran[j].command = todo[1]
      /\ Over = Len(ran) - (backend.after[todo[1]] - pending) - 1
  BY <1>1, <1>5 DEF OverInv, Over
<1>8. Over' = Over
  <2>1. PICK a \in Nat, n \in Nat, m \in Nat :
           a = backend.after[todo[1]] /\ n = Len(ran) /\ m = pending
    BY <1>3, <1>6
  <2>2. Over = n - (a - m) - 1
    BY <1>7, <2>1, Zenon
  <2>3. Over' = (n + 1) - (a - (m - 1)) - 1
    <3>1. Over' = Len(ran') - (backend.after[todo[1]] - pending') - 1
      BY <1>1, <1>6, Zenon DEF Over
    <3> QED
      BY <1>1, <1>3, <2>1, <3>1, Zenon
  <2>4. (n + 1) - (a - (m - 1)) - 1 = n - (a - m) - 1
    OBVIOUS
  <2> QED
    BY <2>2, <2>3, <2>4, Zenon
<1>9. Over + 1 \in 1 .. Len(ran)
  <2>1. PICK a \in Nat, n \in Nat, m \in Nat :
           a = backend.after[todo[1]] /\ n = Len(ran) /\ m = pending
    BY <1>3, <1>6
  <2>2. Over = n - (a - m) - 1 /\ Over \in 0 .. n /\ m <= a
    BY <1>7, <2>1, Zenon
  <2> HIDE DEF Over
  <2>3. Over + 1 \in 1 .. n
    BY <2>2
  <2> QED
    BY <2>1, <2>3, Zenon
<1>10. OverInv'
  <2>1. Over' \in 0 .. Len(ran')
    BY <1>3, <1>7, <1>8
  <2>2. \A i \in 1 .. Over' :
           /\ ran'[i].kind # "after" => ran'[i].code = 0
           /\ ran'[i].kind = "command" => CleanedIn(ran', backend'.after, i, Over')
    <3>1. PICK m \in 0 .. Len(ran) : m = Over
      BY <1>7
    <3> SUFFICES ASSUME NEW i \in 1 .. m
                 PROVE  /\ ran'[i].kind # "after" => ran'[i].code = 0
                        /\ ran'[i].kind = "command" => CleanedIn(ran', backend.after, i, m)
      BY <1>6, <1>8, <3>1
    <3>2. m \in Nat /\ i \in 1 .. Len(ran) /\ \A j \in 1 .. m : ran'[j] = ran[j]
      BY <1>3
    <3>3. ran[i].kind = "command" => CleanedIn(ran', backend.after, i, m)
      BY <1>3, <1>6, <1>7, <3>1, <3>2, CleanedKept
    <3> QED
      BY <1>7, <3>1, <3>2, <3>3
  <2>3. pending' <= backend'.after[todo'[1]]
    BY <1>1, <1>6, <1>7
  <2>4. ran'[Over' + 1] = [command |-> todo'[1], kind |-> "command", code |-> rc']
    BY <1>1, <1>3, <1>7, <1>8, <1>9
  <2>5. \A j \in Over' + 2 .. Len(ran') : ran'[j].kind = "after" /\ ran'[j].command = todo'[1]
    <3> SUFFICES ASSUME NEW j \in Over + 2 .. Len(ran) + 1
                 PROVE  ran'[j].kind = "after" /\ ran'[j].command = todo[1]
      BY <1>1, <1>3, <1>8
    <3>1. CASE j = Len(ran) + 1
      BY <1>4, <3>1
    <3>2. CASE j # Len(ran) + 1
      <4>1. j \in Over + 2 .. Len(ran) /\ j \in 1 .. Len(ran)
        BY <1>3, <1>7, <3>2
      <4> QED
        BY <1>3, <1>7, <4>1
    <3> QED
      BY <3>1, <3>2
  <2> QED
    BY <2>1, <2>2, <2>3, <2>4, <2>5 DEF OverInv
<1>11. Succeeded' = Succeeded
  BY <1>1, <1>6 DEF Succeeded, Done
<1>12. PlaceInv'
  <2>1. PlaceIn(ran', Len(ran')) = Succeeded'
    BY <1>3, <1>4, <1>5, <1>11 DEF PlaceInv
  <2>2. \A i \in DOMAIN ran' : ran'[i].kind = "command" => ran'[i].command = Commands[PlaceIn(ran', i)]
    BY <1>3, <1>4, <1>5 DEF PlaceInv
  <2> QED
    BY <1>6, <2>1, <2>2, PlaceIsPrime
<1>13. \A i \in DOMAIN ran' : ran'[i].kind # "interrupt"
  BY <1>3, <1>4, <1>5
<1> QED
  BY <1>1, <1>10, <1>12, <1>13 DEF RanInv, EndsAsItsCommands

(* All is over that was run: what the entries say when no cleanup is left.   *)
LEMMA AllOver ==
  ASSUME DriverInv, RanInv, pc = "postRun", pending = 0
  PROVE  /\ \A i \in DOMAIN ran : ran[i].kind = "command" =>
                CleanedIn(ran, backend.after, i, Len(ran))
         /\ \A i \in DOMAIN ran : ran[i].kind # "after" /\ ran[i].code # 0 =>
                ran[i].code = rc /\ \A j \in i + 1 .. Len(ran) : ran[j].kind = "after"
<1>1. Working /\ OverInv
  BY DEF RanInv, Working
<1>2. /\ Len(ran) \in Nat /\ DOMAIN ran = 1 .. Len(ran)
      /\ \A i \in DOMAIN ran : backend.after[ran[i].command] \in Nat
  BY RanType
<1>3. PICK a \in Nat, m \in 0 .. Len(ran) : a = backend.after[todo[1]] /\ m = Over
  BY <1>1, CurrentCommand DEF OverInv
<1>4. /\ \A i \in 1 .. m :
            /\ ran[i].kind # "after" => ran[i].code = 0
            /\ ran[i].kind = "command" => CleanedIn(ran, backend.after, i, m)
      /\ ran[m + 1] = [command |-> todo[1], kind |-> "command", code |-> rc]
      /\ \A j \in m + 2 .. Len(ran) : ran[j].kind = "after" /\ ran[j].command = todo[1]
  BY <1>1, <1>3 DEF OverInv
<1>5. m = Len(ran) - (a - pending) - 1
  BY <1>3 DEF Over
<1>6. Len(ran) = (m + 1) + a
  BY <1>2, <1>5
<1>7. /\ ran[m + 1].kind = "command" /\ ran[m + 1].command = todo[1] /\ ran[m + 1].code = rc
      /\ \A i \in DOMAIN ran : i \in 1 .. m \/ i = m + 1 \/ i \in m + 2 .. Len(ran)
  BY <1>2, <1>4
<1>8. ASSUME NEW i \in DOMAIN ran, ran[i].kind = "command"
      PROVE  CleanedIn(ran, backend.after, i, Len(ran))
  <2>1. CASE i \in 1 .. m
    <3>1. CleanedIn(ran, backend.after, i, m) /\ backend.after[ran[i].command] \in Nat
      BY <1>2, <1>4, <1>8, <2>1
    <3>2. m \in Nat /\ Len(ran) \in Nat /\ m <= Len(ran) /\ ran[m + 1].kind # "after"
      BY <1>2, <1>7
    <3> QED
      BY <2>1, <3>1, <3>2, CleanedExtends
  <2>2. CASE i = m + 1
    <3>1. Len(ran) = i + backend.after[ran[i].command]
      BY <1>3, <1>6, <1>7, <2>2
    <3>2. \A j \in i + 1 .. Len(ran) : ran[j].kind = "after" /\ ran[j].command = ran[i].command
      BY <1>4, <1>7, <2>2
    <3> QED
      BY <1>2, <3>1, <3>2, SMTT(30) DEF CleanedIn
  <2> QED
    BY <1>4, <1>7, <1>8, <2>1, <2>2
<1>9. ASSUME NEW i \in DOMAIN ran, ran[i].kind # "after", ran[i].code # 0
      PROVE  ran[i].code = rc /\ \A j \in i + 1 .. Len(ran) : ran[j].kind = "after"
  <2>1. i = m + 1
    BY <1>4, <1>7, <1>9
  <2> QED
    BY <1>4, <1>7, <2>1
<1> QED
  BY <1>8, <1>9

LEMMA AfterRan ==
  ASSUME DriverInv, RanInv, AfterCommand PROVE RanInv'
<1>1. /\ pc = "postRun" /\ pending = 0 /\ todo' = Tail(todo) /\ rc' = rc
      /\ UNCHANGED <<setup, ran>>
      /\ \/ rc # 0 /\ pc' = "idle" /\ status' = rc % 256
         \/ rc = 0 /\ todo' = <<>> /\ pc' = "idle" /\ status' = 0 % 256
         \/ rc = 0 /\ todo' # <<>> /\ pc' = "preRun"
  BY DEF AfterCommand, Next_command, Finish
<1>2. Working /\ rc \in Codes /\ (rc % 256 = 0 => rc = 0)
  <2>1. rc \in Codes
    BY DEF DriverInv
  <2> QED
    BY <1>1, <2>1, CodesAssumption DEF Working
<1>3. /\ Len(ran) \in Nat /\ DOMAIN ran = 1 .. Len(ran)
      /\ backend' = backend /\ opts' = opts /\ Commands' = Commands
  BY <1>1, RanType DEF setup, Commands
<1>4. PlaceInv /\ \A i \in DOMAIN ran : ran[i].kind # "interrupt"
  BY <1>2 DEF RanInv
<1>5. /\ \A i \in DOMAIN ran : ran[i].kind = "command" =>
             CleanedIn(ran, backend.after, i, Len(ran))
      /\ \A i \in DOMAIN ran : ran[i].kind # "after" /\ ran[i].code # 0 =>
             ran[i].code = rc /\ \A j \in i + 1 .. Len(ran) : ran[j].kind = "after"
  BY <1>1, AllOver
<1>6. PICK n \in Nat, l \in Nat :
         n = Len(Commands) /\ l = Len(todo) /\ l > 0 /\ Len(Tail(todo)) = l - 1
  <2>1. todo \in Seq(DOMAIN backend.first) /\ Len(todo) > 0 /\ Len(Commands) \in Nat
    BY <1>2, CurrentCommand DEF Progress
  <2>2. Len(Tail(todo)) = Len(todo) - 1 /\ Len(todo) \in Nat
    BY <2>1
  <2> QED
    BY <2>1, <2>2
<1>7. PlaceIn(ran, Len(ran)) = (n - l) + 1
  <2>1. PlaceIn(ran, Len(ran)) = Done + 1
    BY <1>1, <1>4 DEF PlaceInv, Succeeded
  <2> QED
    BY <1>6, <2>1, Zenon DEF Done
<1>8. CASE pc' = "idle"
  <2>1. \A i \in DOMAIN ran' : ran'[i].kind # "after" /\ ran'[i].code # 0 =>
           /\ status' = ran'[i].code % 256
           /\ \A j \in i + 1 .. Len(ran') : ran'[j].kind = "after"
    BY <1>1, <1>5, <1>8
  <2>2. ASSUME status' = 0
        PROVE  /\ PlaceIn(ran', Len(ran')) = Len(Commands)
               /\ \A i \in DOMAIN ran' : ran'[i].kind = "command" =>
                     ran'[i].command = Commands[PlaceIn(ran', i)]
    <3>1. Tail(todo) = <<>>
      BY <1>1, <1>2, <1>8, <2>2
    <3>2. Len(<<>>) = 0
      OBVIOUS
    <3>3. Len(Tail(todo)) = 0
      BY <3>1, <3>2, Zenon
    <3>4. l - 1 = 0
      BY <1>6, <3>3, Zenon
    <3>5. (n - l) + 1 = n
      BY <3>4
    <3>6. PlaceIn(ran, Len(ran)) = Len(Commands)
      BY <1>6, <1>7, <3>5, Zenon
    <3> QED
      BY <1>1, <1>4, <3>6 DEF PlaceInv
  <2>3. \A i \in DOMAIN ran' : ran'[i].kind = "command" =>
           CleanedIn(ran', backend.after, i, Len(ran'))
    BY <1>1, <1>5
  <2>4. EndsAsItsCommands'
    BY <1>3, <2>1, <2>2, <2>3, Ending
  <2> QED
    BY <1>8, <2>4 DEF RanInv, Working
<1>9. CASE pc' = "preRun"
  <2>1. rc = 0 /\ Over' = Len(ran)
    BY <1>1, <1>9 DEF Over
  <2>2. OverInv'
    <3>1. \A i \in 1 .. Len(ran) :
             /\ ran[i].kind # "after" => ran[i].code = 0
             /\ ran[i].kind = "command" => CleanedIn(ran, backend.after, i, Len(ran))
      BY <1>3, <1>5, <2>1
    <3> QED
      BY <1>1, <1>3, <1>9, <2>1, <3>1 DEF OverInv
  <2>3. Succeeded' = PlaceIn(ran, Len(ran))
    <3>1. Done' = n - (l - 1)
      BY <1>1, <1>3, <1>6, Zenon DEF Done
    <3>2. Succeeded' = Done'
      BY <1>9 DEF Succeeded
    <3>3. n - (l - 1) = (n - l) + 1
      OBVIOUS
    <3> QED
      BY <1>7, <3>1, <3>2, <3>3, Zenon
  <2>4. PlaceInv'
    BY <1>1, <1>3, <1>4, <2>3, PlaceIsPrime DEF PlaceInv
  <2> QED
    BY <1>1, <1>4, <1>9, <2>2, <2>4 DEF RanInv, EndsAsItsCommands
<1> QED
  BY <1>1, <1>8, <1>9

LEMMA FoundRan ==
  ASSUME DriverInv, RanInv, FindBin PROVE RanInv'
<1>1. /\ pc = "preRun" /\ UNCHANGED <<setup, todo, pending, rc, ran>>
      /\ \/ pc' = "idle" /\ status' = 1 % 256
         \/ pc' = "runCmd"
  BY DEF FindBin, Finish
<1>2. /\ backend' = backend /\ opts' = opts /\ Commands' = Commands
      /\ Len(ran) \in Nat /\ DOMAIN ran = 1 .. Len(ran)
  BY <1>1, RanType DEF setup, Commands
<1>3. OverInv /\ PlaceInv /\ \A i \in DOMAIN ran : ran[i].kind # "interrupt"
  BY <1>1 DEF RanInv, Working
<1>4. \A i \in DOMAIN ran :
         /\ ran[i].kind # "after" => ran[i].code = 0
         /\ ran[i].kind = "command" => CleanedIn(ran, backend.after, i, Len(ran))
  BY <1>1, <1>2, <1>3 DEF OverInv, Over
<1>5. CASE pc' = "idle"
  <2>1. status' = 1
    BY <1>1, <1>5
  <2>2. \A i \in DOMAIN ran' : ~(ran'[i].kind # "after" /\ ran'[i].code # 0)
    BY <1>1, <1>4
  <2>3. \A i \in DOMAIN ran' : ran'[i].kind = "command" =>
           CleanedIn(ran', backend.after, i, Len(ran'))
    BY <1>1, <1>4
  <2>4. EndsAsItsCommands'
    BY <1>2, <2>1, <2>2, <2>3, Ending
  <2> QED
    BY <1>5, <2>4 DEF RanInv, Working
<1>6. CASE pc' = "runCmd"
  <2>1. Over' = Len(ran) /\ Over = Len(ran) /\ Succeeded' = Succeeded
    BY <1>1, <1>2, <1>6 DEF Over, Succeeded, Done
  <2>2. OverInv'
    BY <1>1, <1>2, <1>4, <1>6, <2>1 DEF OverInv
  <2>3. PlaceInv'
    BY <1>1, <1>2, <1>3, <2>1, PlaceIsPrime DEF PlaceInv
  <2> QED
    BY <1>1, <1>3, <1>6, <2>2, <2>3 DEF RanInv, EndsAsItsCommands
<1> QED
  BY <1>1, <1>5, <1>6

(* Nothing has been run when the driver makes the directories.              *)
LEMMA MadeRan ==
  ASSUME DriverInv, RanInv, MakeDirs PROVE RanInv'
<1>1. /\ pc = "makedirs" /\ UNCHANGED <<setup, todo, rc, ran>> /\ pc' \in {"idle", "preRun"}
  BY DEF MakeDirs, Next_command, Finish
<1>2. ran = <<>> /\ ran' = <<>> /\ Len(<<>>) = 0 /\ 1 .. 0 = {}
      /\ todo = Commands /\ Len(Commands) \in Nat /\ Commands' = Commands
  BY <1>1 DEF DriverInv, Progress, setup, Commands
<1>3. CASE pc' = "idle"
  BY <1>2, <1>3 DEF RanInv, Working, EndsAsItsCommands
<1>4. CASE pc' = "preRun"
  <2>1. Over' = 0
    BY <1>2, <1>4 DEF Over
  <2>2. OverInv'
    BY <1>2, <1>4, <2>1 DEF OverInv
  <2>3. Succeeded' = 0
    <3>1. Done' = Len(Commands) - Len(Commands)
      BY <1>1, <1>2 DEF Done
    <3> QED
      BY <1>2, <1>4, <3>1 DEF Succeeded
  <2>4. PlaceInv'
    <3>1. DOMAIN ran' = {}
      BY <1>2
    <3>2. PlaceIn(ran', Len(ran')) = 0
      BY <1>2, PlaceZero
    <3> QED
      BY <1>2, <2>3, <3>1, <3>2, PlaceIsPrime
  <2>5. \A i \in DOMAIN ran' : ran'[i].kind # "interrupt"
    BY <1>2
  <2> QED
    BY <1>4, <2>2, <2>4, <2>5 DEF RanInv, EndsAsItsCommands
<1> QED
  BY <1>1, <1>3, <1>4

LEMMA StepRan == DriverInv /\ RanInv /\ [Next]_vars => RanInv'
<1> SUFFICES ASSUME DriverInv, RanInv, [Next]_vars PROVE RanInv'
  OBVIOUS
<1>1. CASE (\E o \in Requests : Start(o)) \/ ExitEarly \/ Reject \/ Configure
  <2>1. ran' = <<>> /\ pc' \in {"main", "makedirs", "idle"}
    BY <1>1 DEF Start, ExitEarly, Reject, Configure, Finish, DriverInv
  <2> QED
    BY <2>1 DEF RanInv, Working, EndsAsItsCommands
<1>2. CASE Interrupt
  <2>1. Working /\ pc' = "idle" /\ ran' = Ended(-2, "interrupt") /\ -2 \in Int
    BY <1>2 DEF Interrupt, Working, Finish
  <2>2. /\ Len(ran) \in Nat /\ DOMAIN ran' = 1 .. Len(ran) + 1
        /\ ran'[Len(ran) + 1] = [command |-> todo[1], kind |-> "interrupt", code |-> -2]
    BY <2>1, RanGrows
  <2>3. Len(ran) + 1 \in DOMAIN ran' /\ ran'[Len(ran) + 1].kind = "interrupt"
    BY <2>2
  <2> QED
    BY <2>1, <2>3 DEF RanInv, Working, EndsAsItsCommands
<1>3. CASE (\E s \in Sources : Edit(s)) \/ UNCHANGED vars
  <2>1. UNCHANGED <<pc, setup, todo, pending, rc, ran, status>>
    BY <1>3 DEF Edit, vars, setup
  <2> QED
    BY <2>1 DEF RanInv, Working, OverInv, Over, PlaceInv, Succeeded, Done, Commands, setup,
                EndsAsItsCommands, StopsAtFailure, AllWereRun, CleanedUpAfter, Place
<1> QED
  BY <1>1, <1>2, <1>3, SetUpRan, CommandRan, CleanupRan, AfterRan, FoundRan, MadeRan DEF Next

(* A run ends with the code of the first set-up or command that failed,     *)
(* runs nothing after it but its cleanup, reports 0 only after running all  *)
(* the enabled commands in their order, and leaves no cleanup out.          *)
THEOREM EndsAsCommanded == Spec => []EndsAsItsCommands
<1>1. Init => DriverInv /\ RanInv
  BY InitDriver, InitRan
<1>2. DriverInv /\ RanInv /\ [Next]_vars => (DriverInv /\ RanInv)'
  BY StepDriver, StepRan
<1>3. DriverInv /\ RanInv => EndsAsItsCommands
  BY DEF RanInv
<1> QED
  BY <1>1, <1>2, <1>3, PTL DEF Spec
=============================================================================
