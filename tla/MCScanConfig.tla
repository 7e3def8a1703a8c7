---------------------------- MODULE MCScanConfig ----------------------------
(* Every file of up to five of these lines: each section, list and kind of    *)
(* entry, with the indentations and the repetitions that are easy to write.  *)
(* A project with sources below a directory that is skipped, one for tests,  *)
(* and one the lines may exclude, scanned as a whole, in part and by file.   *)
EXTENDS ScanConfig

At(n, k, v)   == [indent |-> n, item |-> FALSE, key |-> k, value |-> v]
Item(n, k, v) == [At(n, k, v) EXCEPT !.item = TRUE]

MCLines ==
  {At(0, "scan", None), At(2, "severity", "high"), At(2, "fail_on", "fatal"),
   At(0, "detectors", None), At(2, "enable", None), At(2, "disable", None), At(2, "enable", "[]"),
   Item(4, NoColon, "tx"), Item(4, NoColon, "calls"),
   At(0, "rules", None), At(2, "override", None), At(4, "R-tx", None), At(6, "severity", "low"),
   At(0, "exclude", None), Item(2, NoColon, "src/**"), Item(2, NoColon, "A.sol"),
   At(0, "ignore", None), Item(2, "rule", "R-tx"), At(4, "file", "src/A.sol"),
   At(0, "output", None), At(2, "format", "json"), At(2, "workers", "8")}

Flags(m, f, given, only, e) == [min |-> m, failOn |-> f, onlyGiven |-> given, only |-> only, experimental |-> e]
MCFlagSets == {Flags(None, None, FALSE, {}, FALSE), Flags("medium", "low", FALSE, {}, TRUE),
               Flags(None, "high", TRUE, {"gap"}, FALSE), Flags("info", None, TRUE, {}, TRUE)}

MCSources == {<<"src", "A.sol">>, <<"test", "T.sol">>, <<"lib", "L.sol">>}
T(p, f, a, i) == [path |-> p, file |-> f, absolute |-> a, incremental |-> i]
MCTargets == {T(<<>>, FALSE, a, i) : a \in BOOLEAN, i \in BOOLEAN}
             \cup {T(<<"src">>, FALSE, FALSE, TRUE), T(<<"src", "A.sol">>, TRUE, FALSE, FALSE), T(<<"lib">>, FALSE, TRUE, FALSE)}
MCPatternOf == [p \in {"src/**", "A.sol", "src/A.sol"} |->
                  CASE p = "src/**" -> <<"src", "**">> [] p = "A.sol" -> <<"A.sol">> [] OTHER -> <<"src", "A.sol">>]
Issue(p, d, s) == [path |-> p, detector |-> d, rule |-> "R-" \o d, severity |-> s, confidence |-> "high"]
MCIssues == {Issue(p, d, s) : p \in MCSources, d \in {"tx", "calls"}, s \in {2, 4}}
            \cup {Issue(<<"src", "A.sol">>, "gap", 3)}
=============================================================================
