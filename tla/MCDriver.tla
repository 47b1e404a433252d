--------------------------------- MODULE MCDriver ---------------------------------
EXTENDS Driver

MCWithin == {<<"ENPRG9x07", "NPRG9x07">>, <<"aboot.mbn", "boot.mbn">>, <<"misc.mbn", "misc">>}

MCPlatformOf == [NPRG9x07 |-> "9x07", ENPRG9x07 |-> "9x07", NPRGother |-> "unknown"]

Image(n, f) == [name |-> n, img_name |-> f]

Sum(file) ==
    CASE file = "contents" -> 1 [] file = "nand" -> 2 [] file = "NPRG9x07" -> 3
      [] file = "ENPRG9x07" -> 4 [] file = "boot.mbn" -> 5 [] file = "aboot.mbn" -> 6
      [] file = "mibib.mbn" -> 7 [] OTHER -> 8

Files == {"contents", "nand", "NPRG9x07", "ENPRG9x07", "boot.mbn", "aboot.mbn", "mibib.mbn"}

Pair(f, v) == [kind |-> "pair", name |-> f, value |-> v]

AllPairs == <<Pair("contents", 1), Pair("nand", 2), [kind |-> "plain"], Pair("NPRG9x07", 3),
              [kind |-> "mark"], Pair("ENPRG9x07", 4), Pair("boot.mbn", 5),
              Pair("aboot.mbn", 6), Pair("mibib.mbn", 7)>>

Dir(f, p) == [file |-> f, prefix |-> p]

FirehoseFiles == <<{"patch"}, {"partition"}, {"raw", "prog"}, {"prog"}>>

Good ==
    [contents |-> "good", nand |-> "good", md5 |-> <<>>,
     entries |-> <<Image("0:MIBIB", "mibib.mbn"), Image("0:aboot", "aboot.mbn"),
                   Image("0:boot", "boot.mbn")>>,
     sum |-> [f \in Files |-> Sum(f)],
     dir |-> <<Dir("NPRG9x07", "NPRG"), Dir("ENPRG9x07", "ENPRG"), Dir("other", "none")>>,
     firehose |-> FirehoseFiles]

Without(f) == [g \in Files \ {f} |-> Sum(g)]

(* The good package with one part changed. *)
Variants ==
    {Good} \cup
    {[Good EXCEPT !.contents = c] : c \in {"absent", "broken", "empty"}} \cup
    {[Good EXCEPT !.nand = c] : c \in {"absent", "broken", "empty"}} \cup
    {[Good EXCEPT !.sum = Without(f)] : f \in {"boot.mbn", "aboot.mbn", "mibib.mbn"}} \cup
    {[Good EXCEPT !.sum = [Good.sum EXCEPT ![f] = s]] :
        f \in {"contents", "ENPRG9x07", "boot.mbn", "aboot.mbn"}, s \in {5, 8}} \cup
    {[Good EXCEPT !.entries = e] :
        e \in {<<>>, <<[name |-> "0:boot"], [img_name |-> "boot.mbn"], <<>> >>,
               <<Image("nocolon", "boot.mbn")>>,
               <<Image("0:misc", "misc.mbn"), Image("0:boot", "boot.mbn")>>}} \cup
    {[Good EXCEPT !.dir = d] :
        d \in {<<Dir("NPRG9x07", "NPRG")>>, <<Dir("ENPRG9x07", "ENPRG")>>,
               <<Dir("NPRG9x07", "NPRG"), Dir("ENPRG9x07", "ENPRG"), Dir("NPRGother", "NPRG")>>}} \cup
    {[Good EXCEPT !.firehose = d] :
        d \in {NoDir, <<{"patch"}, {"patch", "partition"}, {"raw"}, {"prog"}>>, <<>>}}

(* Each without a list, with one of all files, and with defective ones. *)
Packages ==
    {[p EXCEPT !.md5 = l] :
        p \in Variants,
        l \in {<<>>, AllPairs, <<[kind |-> "mark"]>>, <<[kind |-> "plain"]>>, Tail(AllPairs),
               SubSeq(AllPairs, 1, 7)}}

Dev(kind, ports, node) ==
    [kind |-> kind, node |-> node,
     tty |-> [i \in IfacesOf(kind) |-> ports + (IF ports = NoName \/ i = 0 THEN 0 ELSE 1)]]

Module == Dev("normal", 0, "rw")

(* A module in every mode; with a serial adapter before or behind it, a
   number it could have and has not, a second module, a phone; none; one
   without a driver, and one with a number of three digits. *)
Buses ==
    {<<Module, Gone>>, <<Dev("old", 0, "ro"), Gone>>,
     <<Dev("edl", 0, "rw"), Dev("serial", 1, "rw")>>,
     <<Dev("serial", 0, "rw"), Dev("normal", 1, "rw")>>,
     <<Dev("normal", 1, "rw"), Gone>>,
     <<Dev("normal", 2, "rw"), Module>>, <<Module, Dev("normal", 2, "rw")>>,
     <<Dev("fastboot", 0, "rw"), Module>>,
     <<Dev("fastboot", 0, "none"), Gone>>, <<Dev("fastboot", 0, "ro"), Gone>>,
     <<Dev("fastboot", 0, "rw"), Dev("edl", 0, "rw")>>,
     <<Dev("edl", 0, "rw"), Dev("fastboot", 0, "rw")>>,
     <<Dev("phone", 0, "rw"), Module>>, <<Module, Dev("phone", 0, "rw")>>,
     <<Dev("fastboot", 0, "ro"), Dev("phone", 0, "rw")>>,
     <<Dev("fastboot", 0, "rw"), Dev("phone", 0, "rw")>>,
     <<Dev("normal", NoName, "rw"), Gone>>, <<Dev("normal", 100, "rw"), Gone>>,
     <<Gone, Gone>>}

MCSetups ==
    {[pkg |-> p, bus |-> <<Module>>] : p \in Packages} \cup
    {[pkg |-> p, bus |-> <<Dev("fastboot", 0, "rw")>>] : p \in Packages} \cup
    {[pkg |-> Good, bus |-> b] : b \in Buses}

Opt(o, v) == [opt |-> o, val |-> v]

MCArgLists ==
    {<<Opt("f", 1), Opt("m", m)>> : m \in 0..4} \cup
    {<<Opt("f", 1)>>, <<Opt("f", 0)>>, <<Opt("m", 3), Opt("f", 1), Opt("p", 1)>>,
     <<Opt("p", 100), Opt("f", 1)>>, <<Opt("s", 1204), Opt("f", 1), Opt("m", 1)>>,
     <<Opt("s", 1205), Opt("f", 1)>>, <<Opt("f", 1), Opt("h", 0)>>, <<Opt("v", 0)>>}
=============================================================================
