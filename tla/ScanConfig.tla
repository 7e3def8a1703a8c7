----------------------------- MODULE ScanConfig -----------------------------
(***************************************************************************)
(* `solsec scan` under a .solsec.yml: the search for the file, the reading *)
(* of its lines by internal/config/loader.go, the settings that            *)
(* cmd/solsec/main.go makes of it and of the flags, the files and the      *)
(* detectors they leave to a scan (internal/analyzer), and what becomes of *)
(* the findings: overrides, exclusions, the exit code.                     *)
(*                                                                         *)
(* A line of the file is its indentation, whether it begins with "- ", its *)
(* key and its value; a line without a colon has the key NoColon.  Blank   *)
(* lines and comments are left out: the loop passes over them.  Quotes are *)
(* taken off values and kept on keys, so that a quoted rule id is another  *)
(* key than the id.  The lines, the flags and the target are chosen when   *)
(* the code reads them.                                                    *)
(*                                                                         *)
(* A path is the sequence of its elements; in a pattern the elements "*"   *)
(* and "**" stand for any one element, the others for themselves.          *)
(***************************************************************************)
EXTENDS Integers, Sequences, SequencesExt, FiniteSets

CONSTANTS
  Lines, MaxLines,    \* the lines a file may have, and how many
  FlagSets,           \* the flags: min, failOn, only (if onlyGiven), experimental
  Targets,            \* [path, file, absolute, incremental]: what is scanned, and how
  Sources,            \* the paths of the .sol files, from the project root
  PatternOf,          \* the elements of the patterns that have several
  Issues,             \* [path, detector, rule, severity, confidence]
  Default, Experimental,   \* the detectors' names
  SkippedDirs,        \* node_modules, lib, out, mocks, ...
  TestFiles           \* the paths of files named *_test.sol, *.t.sol or .*

NoColon == "<no colon>"
None    == ""         \* an empty value; a flag that is not given
All     == Default \cup Experimental

Level == [info |-> 0, low |-> 1, medium |-> 2, high |-> 3, critical |-> 4]
Formats == {"text", "json", "sarif", "markdown"}

ASSUME LinesAssumption ==
  Lines \subseteq [indent : Nat, item : BOOLEAN, key : STRING, value : STRING]
ASSUME DetectorsAssumption == Default \cap Experimental = {} /\ None \notin Default
ASSUME SourcesAssumption == Sources \subseteq Seq(STRING)

\* Nothing is below a file.
ASSUME TargetsAssumption ==
  \A t \in Targets : t.file => \A p \in Sources : IsPrefix(t.path, p) => p = t.path
ASSUME IssuesAssumption ==
  \A i \in Issues : i.path \in Sources /\ i.detector \in All /\ i.severity \in 0..4

VARIABLES
  stage,     \* "find", "read", "validated", "set", "collected", "reported" or "error"
  read,      \* the lines read so far
  section, subsection, ignoring, override,   \* parseYAMLSubset's variables
  cfg,       \* Config
  flags, target,
  settings,  \* the variables the flags are bound to
  collected, \* the files to analyse
  findings,
  exit       \* the exit code

parserVars == <<section, subsection, ignoring, override>>
vars == <<stage, read, parserVars, cfg, flags, target, settings, collected, findings, exit>>

Defaults == [severity |-> "low", failOn |-> "medium", workers |-> "4", format |-> "text",
             enable |-> <<>>, disable |-> <<>>, overrides |-> [r \in {} |-> {}],
             exclude |-> <<>>, ignore |-> <<>>]

-----------------------------------------------------------------------------
(* parseYAMLSubset, a line at a time *)

Line   == Last(read')
Fails  == stage' = "error" /\ UNCHANGED <<parserVars, cfg>>
Reads  == stage' = stage
Set(c) == cfg' = c /\ Reads /\ UNCHANGED parserVars
Same   == Set(cfg)

KeyOf(l)  == IF l.item THEN "- " \o l.key ELSE l.key
TextOf(l) == IF l.key = NoColon THEN l.value ELSE l.key \o ": " \o l.value   \* of an item

\* Only "version" is a scalar.
TopLevel ==
  /\ Line.indent = 0
  /\ IF Line.key = NoColon \/ (Line.value # None /\ KeyOf(Line) # "version") THEN Fails
     ELSE /\ section' = KeyOf(Line) /\ subsection' = None
          /\ ignoring' = FALSE /\ override' = None
          /\ Reads /\ UNCHANGED cfg

In(s) == Line.indent # 0 /\ section = s

Numbers == {"-1", "0", "8"}

\* setScanValue; timeout is read and never used.
ScanLine ==
  /\ In("scan")
  /\ IF Line.indent # 2 \/ Line.key = NoColon THEN Fails
     ELSE CASE KeyOf(Line) = "severity" -> Set([cfg EXCEPT !.severity = Line.value])
            [] KeyOf(Line) = "fail_on"  -> Set([cfg EXCEPT !.failOn = Line.value])
            [] KeyOf(Line) = "workers" /\ Line.value \in Numbers ->
                 Set([cfg EXCEPT !.workers = Line.value])
            [] OTHER -> Fails

\* setOutputValue
OutputLine ==
  /\ In("output")
  /\ IF Line.indent = 2 /\ KeyOf(Line) = "format"
     THEN Set([cfg EXCEPT !.format = Line.value])
     ELSE Fails

\* A bug to catch: an empty list leaves the list before it open.
DetectorsStayOpen ==
  /\ In("detectors")
  /\ \/ /\ Line.indent = 2
        /\ IF Line.key = NoColon \/ Line.value \notin {None, "[]"} THEN Fails
           ELSE /\ subsection' = IF Line.value = None THEN KeyOf(Line) ELSE subsection
                /\ Reads /\ UNCHANGED <<section, ignoring, override, cfg>>
     \/ /\ Line.indent = 4 /\ Line.item
        /\ CASE subsection = "enable" ->
                  Set([cfg EXCEPT !.enable = Append(@, TextOf(Line))])
             [] subsection = "disable" ->
                  Set([cfg EXCEPT !.disable = Append(@, TextOf(Line))])
             [] OTHER -> Fails
     \/ Line.indent # 2 /\ ~(Line.indent = 4 /\ Line.item) /\ Same

\* The lists enable and disable.  A line of another indentation is passed over.
DetectorsLine ==
  /\ In("detectors")
  /\ \/ /\ Line.indent = 2
        /\ IF Line.key = NoColon \/ Line.value \notin {None, "[]"} THEN Fails
           ELSE /\ subsection' = IF Line.value = None THEN KeyOf(Line) ELSE None
                /\ Reads /\ UNCHANGED <<section, ignoring, override, cfg>>
     \/ /\ Line.indent = 4 /\ Line.item
        /\ CASE subsection = "enable" ->
                  Set([cfg EXCEPT !.enable = Append(@, TextOf(Line))])
             [] subsection = "disable" ->
                  Set([cfg EXCEPT !.disable = Append(@, TextOf(Line))])
             [] OTHER -> Fails
     \/ Line.indent # 2 /\ ~(Line.indent = 4 /\ Line.item) /\ Same

NoOverride == [severity |-> None, confidence |-> None]
Overridden(r, o) == [cfg EXCEPT !.overrides = [x \in DOMAIN @ \cup {r} |-> IF x = r THEN o ELSE @[x]]]

\* rules.override: a rule named again begins anew.
RulesLine ==
  /\ In("rules")
  /\ CASE Line.indent = 2 ->
            IF KeyOf(Line) = "override" /\ Line.value = None
            THEN subsection' = "override" /\ Reads /\ UNCHANGED <<section, ignoring, override, cfg>>
            ELSE Fails
       [] Line.indent # 2 /\ subsection # "override" -> Fails
       [] Line.indent = 4 /\ subsection = "override" /\ Line.key # NoColon /\ Line.value = None ->
            /\ override' = KeyOf(Line)
            /\ cfg' = Overridden(KeyOf(Line), NoOverride)
            /\ Reads /\ UNCHANGED <<section, subsection, ignoring>>
       [] Line.indent = 6 /\ subsection = "override" ->
            IF KeyOf(Line) \in {"severity", "confidence"} /\ override # None
            THEN Set(Overridden(override, [cfg.overrides[override] EXCEPT ![KeyOf(Line)] = Line.value]))
            ELSE Fails
       [] OTHER -> Same

ExcludeLine ==
  /\ In("exclude")
  /\ IF Line.indent = 2 /\ Line.item
     THEN Set([cfg EXCEPT !.exclude = Append(@, TextOf(Line))])
     ELSE Same

\* setIgnoreValue passes over a key it does not know.
WithIgnore(entry, l) == IF l.key \in DOMAIN entry THEN [entry EXCEPT ![l.key] = l.value] ELSE entry

IgnoreLine ==
  /\ In("ignore")
  /\ CASE Line.indent = 2 /\ Line.item /\ Line.key # NoColon ->
            /\ cfg' = [cfg EXCEPT !.ignore = Append(@, WithIgnore([rule |-> None, file |-> None], Line))]
            /\ ignoring' = TRUE
            /\ Reads /\ UNCHANGED <<section, subsection, override>>
       [] Line.indent = 2 /\ Line.item /\ Line.key = NoColon -> Fails
       [] Line.indent = 4 /\ ignoring ->
            IF Line.key = NoColon THEN Fails
            ELSE LET n == Len(cfg.ignore) IN
                 Set([cfg EXCEPT !.ignore[n] = WithIgnore(@, [Line EXCEPT !.key = KeyOf(Line)])])
       [] OTHER -> Same

UnknownSection ==
  /\ Line.indent # 0
  /\ section \notin {"scan", "detectors", "rules", "exclude", "ignore", "output"}
  /\ Fails

ReadLine ==
  /\ stage = "read" /\ Len(read) < MaxLines
  /\ \E l \in Lines : read' = Append(read, l)
  /\ \/ TopLevel \/ ScanLine \/ OutputLine \/ DetectorsLine \/ RulesLine
     \/ ExcludeLine \/ IgnoreLine \/ UnknownSection
  /\ UNCHANGED <<flags, target, settings, collected, findings, exit>>

Valid(s) == s \in DOMAIN Level

Validated ==
  /\ Valid(cfg.severity) /\ Valid(cfg.failOn)
  /\ cfg.workers # "-1" /\ cfg.format \in Formats
  /\ None \notin DOMAIN cfg.overrides
  /\ \A r \in DOMAIN cfg.overrides :
       /\ cfg.overrides[r].severity \in DOMAIN Level \cup {None}
       /\ cfg.overrides[r].confidence \in {None, "low", "medium", "high"}
  /\ \A i \in 1..Len(cfg.ignore) : cfg.ignore[i].rule # None

EndOfFile ==
  /\ stage = "read"
  /\ stage' = IF Validated THEN "validated" ELSE "error"
  /\ UNCHANGED <<read, parserVars, cfg, flags, target, settings, collected, findings, exit>>

\* loadUserConfig: the file of --config, or of the target's directory or the nearest
\* above that has one; without any, the defaults.
FindConfig ==
  /\ stage = "find"
  /\ stage' \in {"read", "validated", "error"}
  /\ UNCHANGED <<read, parserVars, cfg, flags, target, settings, collected, findings, exit>>

-----------------------------------------------------------------------------
(* The settings: applyConfigDefaults and what follows it in the command *)

Given(flag, value) == IF flag # None THEN flag ELSE value

\* A bug to catch: a detector that both lists name is run.
ConfiguredByOneList ==
  LET on(d) == ~\E i \in 1..Len(cfg.disable) : cfg.disable[i] = d
  IN IF cfg.enable # <<>> THEN {d \in Range(cfg.enable) : d # None}
     ELSE IF cfg.disable = <<>> THEN {} ELSE {d \in Default : on(d)}

\* configuredDetectors: the names, none for no restriction
Configured ==
  LET on(d) == ~\E i \in 1..Len(cfg.disable) : cfg.disable[i] = d
  IN IF cfg.enable # <<>> THEN {d \in Range(cfg.enable) : d # None /\ on(d)}
     ELSE IF cfg.disable = <<>> THEN {} ELSE {d \in Default : on(d)}

\* applyConfigDefaults; the workers, the format and the colours, which are set
\* alike, are left out.
ApplyConfigDefaults(fl) ==
  [min |-> Given(fl.min, cfg.severity), failOn |-> Given(fl.failOn, cfg.failOn),
   only |-> IF fl.onlyGiven THEN fl.only ELSE Configured]

\* parseSeverityFlag, validateDetectorNames.  Nothing of the reading is left but cfg.
SetUp ==
  /\ stage = "validated"
  /\ flags' \in FlagSets
  /\ settings' = ApplyConfigDefaults(flags')
  /\ stage' = IF Valid(settings'.min) /\ Valid(settings'.failOn) /\ settings'.only \subseteq All
              THEN "set" ELSE "error"
  /\ read' = <<>> /\ section' = None /\ subsection' = None /\ ignoring' = FALSE /\ override' = None
  /\ UNCHANGED <<cfg, target, collected, findings, exit>>

\* The registry's detectors, and of these the ones AnalyzeFile runs
Running == IF settings.only # {} THEN settings.only
           ELSE IF flags.experimental THEN All ELSE Default

-----------------------------------------------------------------------------
(* The files and the findings *)

Glob(p, v) == Len(p) = Len(v) /\ \A i \in 1..Len(p) : p[i] \in {"*", "**", v[i]}

\* isIgnored, isExcludedPath: against the path from the root, and the file's name
Matches(p, rel) ==
  \/ Glob(p, rel) \/ Glob(p, <<Last(rel)>>)
  \/ Len(p) > 1 /\ Last(p) = "**" /\ IsPrefix(Front(p), rel)
  \/ Len(p) > 1 /\ p[1] = "**" /\ Glob(Tail(p), <<Last(rel)>>)

Elements(text) == IF text \in DOMAIN PatternOf THEN PatternOf[text] ELSE <<text>>

Excluded(rel) == \E i \in 1..Len(cfg.exclude) : Matches(Elements(cfg.exclude[i]), rel)

Root(t)         == IF t.file THEN Front(t.path) ELSE t.path
FromRoot(t, p)  == SubSeq(p, Len(Root(t)) + 1, Len(p))
Directories(p)  == 1..(Len(p) - 1)

\* shouldSkipDefaultPath.  A directory for mocks or tests counts anywhere in the
\* path as typed, but for its first element, before which there is no slash.
SkipDefault(t, p) ==
  \/ p \in TestFiles
  \/ \E i \in Directories(p) :
       \/ i > Len(t.path) /\ p[i] \in SkippedDirs
       \/ (t.absolute \/ i > 1) /\ p[i] \in {"mock", "mocks", "test", "tests"}

Below(t) == {p \in Sources : IsPrefix(t.path, p)}

CollectSolFiles(t) == {p \in Below(t) : ~SkipDefault(t, p) /\ ~Excluded(FromRoot(t, p))}

\* An incremental scan has a walk of its own, with the same directories, which knows
\* nothing of the exclude list.
SkipDefaultSmartContractPath(t, p) == SkipDefault(t, p)
CollectSmartContractFiles(t) == {p \in Below(t) : ~SkipDefaultSmartContractPath(t, p)}

Collect ==
  /\ stage = "set"
  /\ target' \in Targets
  /\ collected' = IF target'.file THEN {target'.path}
                  ELSE IF target'.incremental THEN CollectSmartContractFiles(target')
                  ELSE CollectSolFiles(target')
  /\ stage' = "collected"
  /\ UNCHANGED <<read, parserVars, cfg, flags, settings, findings, exit>>

\* AnalyzeFile, for all of them
Analyze ==
  /\ stage = "collected"
  /\ findings' = {i \in Issues : /\ i.path \in collected /\ i.detector \in Running
                                 /\ i.severity >= Level[settings.min]}
  /\ stage' = "analyzed"
  /\ UNCHANGED <<read, parserVars, cfg, flags, target, settings, collected, exit>>

OverrideFor(f) == IF f.rule \in DOMAIN cfg.overrides THEN cfg.overrides[f.rule] ELSE NoOverride

\* applyRuleOverrides, for one finding
Override(f) ==
  LET o == OverrideFor(f)
  IN [f EXCEPT !.severity = IF o.severity # None THEN Level[o.severity] ELSE @,
               !.confidence = IF o.confidence # None THEN o.confidence ELSE @]

\* A bug to catch: the files of a directory only are excluded.
ReportEveryFile ==
  /\ stage = "analyzed"
  /\ findings' = {Override(f) : f \in findings}
  /\ exit' = IF \E f \in findings' : f.severity >= Level[settings.failOn] THEN 1 ELSE 0
  /\ stage' = "reported"
  /\ UNCHANGED <<read, parserVars, cfg, flags, target, settings, collected>>

\* applyRuleOverrides, filterExcludedResults and the exit code.  The ignore list is
\* applied in between: module Suppression.
Report ==
  /\ stage = "analyzed"
  /\ findings' = {Override(f) : f \in {g \in findings : ~Excluded(FromRoot(target, g.path))}}
  /\ exit' = IF \E f \in findings' : f.severity >= Level[settings.failOn] THEN 1 ELSE 0
  /\ stage' = "reported"
  /\ UNCHANGED <<read, parserVars, cfg, flags, target, settings, collected>>

-----------------------------------------------------------------------------

Init ==
  /\ stage = "find" /\ read = <<>>
  /\ section = None /\ subsection = None /\ ignoring = FALSE /\ override = None
  /\ cfg = Defaults
  /\ flags = [none |-> TRUE] /\ target = [none |-> TRUE] /\ settings = [none |-> TRUE]
  /\ collected = {} /\ findings = {} /\ exit = 0

Over == stage \in {"error", "reported"} /\ UNCHANGED vars

Next == FindConfig \/ ReadLine \/ EndOfFile \/ SetUp \/ Collect \/ Analyze \/ Report \/ Over

Spec == Init /\ [][Next]_vars

-----------------------------------------------------------------------------
(* Properties *)

(* What a file says, by its lines f alone. *)

\* The line the line i is under: the nearest before it of the indentation, not
\* further up than the section's own; 0 if there is none.
Latest(S)      == IF S = {} THEN 0 ELSE CHOOSE i \in S : \A j \in S : j <= i
Top(f, i)      == Latest({j \in 1..i : f[j].indent = 0})
Under(f, i, n) == Latest({j \in Top(f, i)..(i - 1) : j > 0 /\ f[j].indent = n})

InSection(f, s) ==
  {i \in 1..Len(f) : f[i].indent # 0 /\ Top(f, i) # 0 /\ KeyOf(f[Top(f, i)]) = s}

ValueOf(f, I, default) == IF I = {} THEN default ELSE f[Latest(I)].value
Scalar(f, s, key, default) == ValueOf(f, {i \in InSection(f, s) : KeyOf(f[i]) = key}, default)

\* The lines in I, in their order
Nth(I, k)   == CHOOSE i \in I : Cardinality({j \in I : j <= i}) = k
Items(f, I) == [k \in 1..Cardinality(I) |-> TextOf(f[Nth(I, k)])]

ListLines(f, name) ==
  {i \in InSection(f, "detectors") :
     /\ f[i].indent = 4 /\ f[i].item
     /\ LET h == Under(f, i, 2) IN h # 0 /\ KeyOf(f[h]) = name /\ f[h].value = None}
ExcludeLines(f) == {i \in InSection(f, "exclude") : f[i].indent = 2 /\ f[i].item}

RuleLines(f) == {i \in InSection(f, "rules") :
                   f[i].indent = 4 /\ f[i].key # NoColon /\ f[i].value = None}
Overriding(f, r, key) ==
  LET last == Latest({i \in RuleLines(f) : KeyOf(f[i]) = r})
  IN {i \in InSection(f, "rules") :
        /\ f[i].indent = 6 /\ KeyOf(f[i]) = key /\ Top(f, i) = Top(f, last)
        /\ Latest({j \in RuleLines(f) : j < i}) = last}
OverrideOf(f, r) == [severity   |-> ValueOf(f, Overriding(f, r, "severity"), None),
                     confidence |-> ValueOf(f, Overriding(f, r, "confidence"), None)]

Entries(f) == {i \in InSection(f, "ignore") : f[i].indent = 2 /\ f[i].item}
Describing(f, e, key) ==
  {i \in InSection(f, "ignore") :
     \/ i = e /\ f[i].key = key
     \/ /\ f[i].indent = 4 /\ KeyOf(f[i]) = key /\ Top(f, i) = Top(f, e)
        /\ Latest({j \in Entries(f) : j < i}) = e}
EntryOf(f, e) == [rule |-> ValueOf(f, Describing(f, e, "rule"), None),
                  file |-> ValueOf(f, Describing(f, e, "file"), None)]

(* A file that is accepted means what its lines say, each in the section, the *)
(* list, the rule or the ignore entry it is written under: an item goes to no *)
(* other list and an entry has no other's values, however sections, lists and *)
(* rules are repeated, emptied or interrupted (loader.go:87-240).  A line of  *)
(* a wrong indentation says nothing in the lists, and is not reported; a rule *)
(* with a value on its line neither, and the lines below it go to the rule    *)
(* above (loader.go:171-193).                                                 *)
ConfigMeansItsLines ==
  stage = "validated" =>
    /\ cfg.severity = Scalar(read, "scan", "severity", "low")
    /\ cfg.failOn   = Scalar(read, "scan", "fail_on", "medium")
    /\ cfg.enable   = Items(read, ListLines(read, "enable"))
    /\ cfg.disable  = Items(read, ListLines(read, "disable"))
    /\ cfg.exclude  = Items(read, ExcludeLines(read))
    /\ DOMAIN cfg.overrides = {KeyOf(read[i]) : i \in RuleLines(read)}
    /\ \A r \in DOMAIN cfg.overrides : cfg.overrides[r] = OverrideOf(read, r)
    /\ cfg.ignore = [k \in 1..Cardinality(Entries(read)) |-> EntryOf(read, Nth(Entries(read), k))]

\* The lists of the file leave no detector: configuredDetectors returns nil, which
\* the command takes for no restriction.
NoneLeft == (IF cfg.enable # <<>> THEN Range(cfg.enable) \ {None} ELSE Default) \subseteq Range(cfg.disable)

(* Which detectors run.  --detectors, with names, is the last word.  Without  *)
(* it, a detector the file disables does not run, unless the file leaves none *)
(* (main.go:652-664): then all run.  A default detector rests only if a list  *)
(* says so, and an experimental one runs only if a list names it or           *)
(* --experimental is given; with a list that does not name it, the flag has   *)
(* no effect (main.go:116-125).                                               *)
DetectorsAsConfigured ==
  stage \in {"set", "reported"} =>
    IF flags.onlyGiven /\ flags.only # {} THEN Running = flags.only
    ELSE /\ \A d \in Range(cfg.disable) : d \in Running =>
              (NoneLeft \/ flags.onlyGiven) /\ Default \subseteq Running
         /\ \A d \in Default \ Running :
              /\ ~flags.onlyGiven
              /\ d \in Range(cfg.disable) \/ (cfg.enable # <<>> /\ d \notin Range(cfg.enable))
         /\ \A d \in Experimental \cap Running : flags.experimental \/ d \in Range(cfg.enable)

(* The report.  What it says of an excluded file is nothing, whether the scan *)
(* was of the file or of a directory, incremental or not; everything else     *)
(* that a running detector has found in the target at --min-severity or above *)
(* is there, by the severity before the override, with the override's own.    *)
(* The exit code is that of the severities shown.                             *)
ReportFollowsConfig ==
  stage = "reported" =>
    /\ findings = {Override(i) : i \in {j \in Issues :
         /\ IsPrefix(target.path, j.path)
         /\ ~Excluded(FromRoot(target, j.path))
         /\ target.file \/ ~SkipDefault(target, j.path)
         /\ j.detector \in Running
         /\ j.severity >= Level[Given(flags.min, cfg.severity)]}}
    /\ (exit = 1) <=> \E f \in findings : f.severity >= Level[Given(flags.failOn, cfg.failOn)]
=============================================================================
