---------------------------- MODULE BaselineGate ----------------------------
(***************************************************************************)
(* The baseline workflow of a CI pipeline: `solsec baseline create`,       *)
(* `update` and `remove` and the scans they gate, as cmd/solsec/main.go,   *)
(* cmd/solsec/baseline_cmd.go, internal/baseline and internal/fingerprint  *)
(* run them over one project, one cache directory and one baseline file.   *)
(*                                                                         *)
(* The code holds issues; a scan turns the issues of a file into findings, *)
(* applies rule overrides and ignore entries, subtracts the baseline and   *)
(* leaves an exit code.  A fingerprint is the issue's print (rule,         *)
(* function and snippet, no line number), how the finding names its rule,  *)
(* and how its path is spelled:                                            *)
(*   - a finding reused from the cache has lost its RuleID and is known by *)
(*     its detector's name (cache/incremental.go entryToResult);           *)
(*   - an incremental scan makes paths absolute, and so relative to the    *)
(*     project root; a full scan leaves them as they were typed.           *)
(*                                                                         *)
(* An analysis is one step here: its interleavings are the subject of      *)
(* ScanPool and IncrementalScan.  The baseline file is truncated and       *)
(* written in two steps, as os.WriteFile does, and a command can be killed *)
(* in between.                                                             *)
(***************************************************************************)
EXTENDS Naturals, FiniteSets

CONSTANTS
  Files, Prints, Sessions,
  Issues,         \* [file, print, severity, effective, ignored]; see below
  Targets,        \* the targets in use: files, or the whole "directory"
  Modes,          \* the ways to scan in use: "full", "incremental"
  Spellings,      \* the ways targets are typed: "relative", "absolute"
  MinSeverities, FailOns,
  MaxCommands,    \* bound on the commands started
  MaxEvents,      \* bound on edits, permission changes and kills
  Missing, Torn, NoEntry, NotLoaded, NoExit,
  Dot             \* the path of a root below itself

\* effective is the severity after rules.override of .solsec.yml, and ignored
\* says whether an entry of its ignore list names the issue's rule.
ASSUME IssuesAssumption ==
  Issues \subseteq [file : Files, print : Prints, severity : 0..4,
                    effective : 0..4, ignored : BOOLEAN]

ASSUME TargetsAssumption == Targets \subseteq Files \cup {"directory"}

\* A file's path is never the root's own.
ASSUME DotAssumption == Dot \notin [spelled : {"typed", "rooted"}, file : Files]

ASSUME BoundsAssumption == MaxCommands \in Nat /\ MaxEvents \in Nat

Scope(target) == IF target \in Files THEN {target} ELSE Files

Commands ==
  [name : {"scan"}, target : Targets, typed : Spellings, mode : Modes,
   min : MinSeverities, failOn : FailOns, gated : BOOLEAN]
  \cup
  [name : {"create", "update"}, target : Targets, typed : Spellings,
   mode : {"full"}, min : MinSeverities]
  \cup
  [name : {"remove"}]

Findings == [issue : Issues, named : {"rule", "detector"}]
Paths    == [spelled : {"typed", "rooted"}, file : Files] \cup {Dot}
Keys     == [print : Prints, named : {"rule", "detector"}, path : Paths]

\* The file holds the keys; the issue each was computed from is kept for the
\* properties.
Baselines == SUBSET [key : Keys, issue : Issues]
KeysIn(b) == {r.key : r \in b}

VARIABLES
  present,     \* the issues in the code
  unreadable,  \* the files os.ReadFile fails on
  cached,      \* the cache entry of each file
  baseline,    \* the baseline file
  pc, cmd,     \* where each session stands, and its command
  seen,        \* the findings its analysis returned
  erred,       \* did a file end in an analysis error?
  loaded,      \* the baseline it works on
  exit,        \* its exit code
  commands, events

vars == <<present, unreadable, cached, baseline, pc, cmd, seen, erred, loaded,
          exit, commands, events>>

IssuesIn(f) == {i \in present : i.file = f}
CacheEntries ==
  [content : SUBSET Issues, findings : SUBSET Issues]

NoCommand == [name |-> "remove"]

TypeOK ==
  /\ present \subseteq Issues
  /\ unreadable \subseteq Files
  /\ cached \in [Files -> CacheEntries \cup {NoEntry}]
  /\ baseline \in Baselines \cup {Missing, Torn}
  /\ pc \in [Sessions -> {"idle", "analyze", "finish", "truncate", "write", "exited"}]
  /\ cmd \in [Sessions -> Commands]
  /\ seen \in [Sessions -> SUBSET Findings]
  /\ erred \in [Sessions -> BOOLEAN]
  /\ loaded \in [Sessions -> Baselines \cup {Missing, Torn, NotLoaded}]
  /\ exit \in [Sessions -> {0, 1, 2, NoExit}]
  /\ commands \in 0..MaxCommands
  /\ events \in 0..MaxEvents

Init ==
  /\ present \in SUBSET Issues
  /\ unreadable = {}
  /\ cached = [f \in Files |-> NoEntry]
  /\ baseline = Missing
  /\ pc = [s \in Sessions |-> "idle"]
  /\ cmd = [s \in Sessions |-> NoCommand]
  /\ seen = [s \in Sessions |-> {}]
  /\ erred = [s \in Sessions |-> FALSE]
  /\ loaded = [s \in Sessions |-> NotLoaded]
  /\ exit = [s \in Sessions |-> NoExit]
  /\ commands = 0
  /\ events = 0

-----------------------------------------------------------------------------
(* Fingerprints. *)

\* normalizePath: a path below the root becomes relative to it.  The root is
\* absolute, so a path typed relative stays as it is; and create and update
\* take a single file for its own root.
PathOf(c, f) ==
  CASE c.mode = "full" /\ c.typed = "relative" -> [spelled |-> "typed", file |-> f]
    [] c.mode = "full" /\ c.typed # "relative" /\ c.name # "scan" /\ c.target \in Files -> Dot
    [] OTHER -> [spelled |-> "rooted", file |-> f]

Key(c, x) ==
  [print |-> x.issue.print, named |-> x.named, path |-> PathOf(c, x.issue.file)]

Recorded(c, xs) == {[key |-> Key(c, x), issue |-> x.issue] : x \in xs}

-----------------------------------------------------------------------------
(* The analysis of the target. *)

Fresh(f, min) == {i \in IssuesIn(f) : i.severity >= min}

Hit(c, f) ==
  /\ c.mode = "incremental"
  /\ f \notin unreadable
  /\ cached[f] # NoEntry
  /\ cached[f].content = IssuesIn(f)

Reused(c) == {f \in Scope(c.target) : Hit(c, f)}
Read(c)   == Scope(c.target) \ (Reused(c) \cup unreadable)

Analysed(c) ==
  {[issue |-> i, named |-> "rule"] : i \in UNION {Fresh(f, c.min) : f \in Read(c)}}
  \cup
  {[issue |-> i, named |-> "detector"] : i \in UNION {cached[f].findings : f \in Reused(c)}}

Start(s, c) ==
  /\ pc[s] = "idle"
  /\ commands < MaxCommands
  /\ commands' = commands + 1
  /\ cmd' = [cmd EXCEPT ![s] = c]
  /\ pc' = [pc EXCEPT ![s] = "analyze"]
  /\ loaded' = [loaded EXCEPT ![s] = IF c.name = "update" THEN baseline ELSE NotLoaded]
  /\ UNCHANGED <<present, unreadable, cached, baseline, seen, erred, exit, events>>

\* An incremental scan stores what it read.
Analyze(s) ==
  LET c == cmd[s] IN
  /\ pc[s] = "analyze"
  /\ seen' = [seen EXCEPT ![s] = Analysed(c)]
  /\ erred' = [erred EXCEPT ![s] = Scope(c.target) \cap unreadable # {}]
  /\ cached' = [f \in Files |->
                  IF c.mode = "incremental" /\ f \in Read(c)
                  THEN [content |-> IssuesIn(f), findings |-> Fresh(f, c.min)]
                  ELSE cached[f]]
  /\ pc' = [pc EXCEPT ![s] = IF c.name = "scan" THEN "finish" ELSE "truncate"]
  /\ UNCHANGED <<present, unreadable, baseline, cmd, loaded, exit, commands, events>>

-----------------------------------------------------------------------------
(* The end of a scan: overrides, ignore entries, baseline, exit code.      *)

\* Overrides and ignore entries are looked up under the finding's rule ID; a
\* reused finding offers its detector's name instead and misses them.
Severity(x) == IF x.named = "rule" THEN x.issue.effective ELSE x.issue.severity
Ignored(x)  == x.named = "rule" /\ x.issue.ignored
Kept(s)     == {x \in seen[s] : ~Ignored(x)}

AboveThreshold(s, xs) == \E x \in xs : Severity(x) >= cmd[s].failOn

\* Without a baseline an analysis error is exit code 2, whatever was found.
PlainExit(s) ==
  IF erred[s] THEN 2 ELSE IF AboveThreshold(s, Kept(s)) THEN 1 ELSE 0

\* The diff's new findings.
New(s, b) == {x \in Kept(s) : Key(cmd[s], x) \notin KeysIn(b)}

\* Two slips: a baseline that cannot be read taken for success, and the threshold
\* applied to all findings.
GatedExitLenient(s, b) ==
  IF b \in {Missing, Torn} THEN 0 ELSE IF AboveThreshold(s, New(s, b)) THEN 1 ELSE 0
GatedExitOverAll(s, b) ==
  IF b \in {Missing, Torn} \/ AboveThreshold(s, Kept(s)) THEN 1 ELSE 0

\* With one, a baseline that cannot be loaded makes RunE fail, exit code 1.
\* The diff is turned back into results that carry no errors, so that
\* HasAnalysisErrors finds none.
GatedExit(s, b) ==
  IF b \in {Missing, Torn} THEN 1
  ELSE IF AboveThreshold(s, New(s, b)) THEN 1 ELSE 0

Finish(s) ==
  /\ pc[s] = "finish"
  /\ exit' = [exit EXCEPT ![s] = IF cmd[s].gated THEN GatedExit(s, baseline)
                                 ELSE PlainExit(s)]
  /\ loaded' = [loaded EXCEPT ![s] = IF cmd[s].gated THEN baseline ELSE NotLoaded]
  /\ pc' = [pc EXCEPT ![s] = "exited"]
  /\ UNCHANGED <<present, unreadable, cached, baseline, cmd, seen, erred, commands, events>>

-----------------------------------------------------------------------------
(* create, update and remove *)

\* update starts from an empty baseline when it could not load the file.
Base(s) == IF loaded[s] \in {Missing, Torn, NotLoaded} THEN {} ELSE loaded[s]

Written(s) ==
  IF cmd[s].name = "remove" THEN Base(s)
  ELSE Base(s) \cup Recorded(cmd[s], seen[s])

\* update has nothing to add
NothingNew(s) == cmd[s].name = "update" /\ KeysIn(Written(s)) = KeysIn(Base(s))

Exit(s) == exit' = [exit EXCEPT ![s] = 0] /\ pc' = [pc EXCEPT ![s] = "exited"]

Settle(s) ==
  /\ pc[s] = "truncate"
  /\ NothingNew(s)
  /\ Exit(s)
  /\ UNCHANGED <<present, unreadable, cached, baseline, cmd, seen, erred, loaded,
                 commands, events>>

\* os.WriteFile truncates the file first ...
Truncate(s) ==
  /\ pc[s] = "truncate"
  /\ ~NothingNew(s)
  /\ baseline' = Torn
  /\ pc' = [pc EXCEPT ![s] = "write"]
  /\ UNCHANGED <<present, unreadable, cached, cmd, seen, erred, loaded, exit,
                 commands, events>>

\* ... and then fills it.
Write(s) ==
  /\ pc[s] = "write"
  /\ baseline' = Written(s)
  /\ Exit(s)
  /\ UNCHANGED <<present, unreadable, cached, cmd, seen, erred, loaded, commands,
                 events>>

\* baseline remove drops one fingerprint of the file it loads and saves it.
Remove(s, k) ==
  /\ pc[s] = "idle"
  /\ commands < MaxCommands
  /\ commands' = commands + 1
  /\ cmd' = [cmd EXCEPT ![s] = [name |-> "remove"]]
  /\ loaded' = [loaded EXCEPT ![s] = {r \in baseline : r.key # k}]
  /\ pc' = [pc EXCEPT ![s] = "truncate"]
  /\ UNCHANGED <<present, unreadable, cached, baseline, seen, erred, exit, events>>

-----------------------------------------------------------------------------
(* The world around. *)

Event == events < MaxEvents /\ events' = events + 1

\* An issue is introduced or fixed.
Edit(i) ==
  /\ Event
  /\ present' = IF i \in present THEN present \ {i} ELSE present \cup {i}
  /\ UNCHANGED <<unreadable, cached, baseline, pc, cmd, seen, erred, loaded, exit, commands>>

Forbid(f) ==
  /\ Event
  /\ f \notin unreadable
  /\ unreadable' = unreadable \cup {f}
  /\ UNCHANGED <<present, cached, baseline, pc, cmd, seen, erred, loaded, exit, commands>>

Forget(s) ==
  /\ pc' = [pc EXCEPT ![s] = "idle"]
  /\ cmd' = [cmd EXCEPT ![s] = NoCommand]
  /\ seen' = [seen EXCEPT ![s] = {}]
  /\ erred' = [erred EXCEPT ![s] = FALSE]
  /\ loaded' = [loaded EXCEPT ![s] = NotLoaded]
  /\ exit' = [exit EXCEPT ![s] = NoExit]
  /\ UNCHANGED <<present, unreadable, cached, baseline, commands>>

Leave(s) == pc[s] = "exited" /\ Forget(s) /\ UNCHANGED events

\* Only a command killed between truncation and write leaves a trace.
Kill(s) == Event /\ pc[s] = "write" /\ Forget(s)

Exhausted ==
  /\ commands = MaxCommands
  /\ \A s \in Sessions : pc[s] = "idle"
  /\ UNCHANGED vars

Next ==
  \/ \E s \in Sessions :
       \/ \E c \in Commands : c.name # "remove" /\ Start(s, c)
       \/ baseline \notin {Missing, Torn} /\ \E k \in KeysIn(baseline) : Remove(s, k)
       \/ Analyze(s) \/ Finish(s) \/ Settle(s) \/ Truncate(s) \/ Write(s)
       \/ Leave(s) \/ Kill(s)
  \/ \E i \in Issues : Edit(i)
  \/ \E f \in Files : Forbid(f)
  \/ Exhausted

Spec == Init /\ [][Next]_vars
-----------------------------------------------------------------------------
(* Properties. *)

Gated(s) == pc[s] = "exited" /\ cmd[s].name = "scan" /\ cmd[s].gated
Counts(s, i) == i.effective >= cmd[s].failOn /\ ~i.ignored
Accepted(b) == {r.issue : r \in b}

\* Only new findings break the build (README "Baselines"), for full scans and
\* whatever cached scans, updates, removals and edits went before: exit code 1
\* means that an issue is in the code which nobody accepted, no ignore entry
\* names, and whose overridden severity reaches the threshold.
FullScanOnlyNewBreaks ==
  \A s \in Sessions :
    Gated(s) /\ cmd[s].mode = "full" /\ exit[s] = 1 /\ loaded[s] \notin {Missing, Torn} =>
      \E x \in seen[s] : Counts(s, x.issue) /\ x.issue \notin Accepted(loaded[s])

\* A gated full scan lets nothing new pass: after exit code 0 every finding that
\* counts looks like one that was accepted in the same file.
FullScanCatchesNew ==
  \A s \in Sessions : Gated(s) /\ cmd[s].mode = "full" /\ exit[s] = 0 =>
    \A x \in seen[s] : Counts(s, x.issue) =>
      \E i \in Accepted(loaded[s]) : i.print = x.issue.print /\ i.file = x.issue.file

\* A gated full scan breaks for what is new and for nothing else.
FullScanGatesNew == FullScanOnlyNewBreaks /\ FullScanCatchesNew

\* A baseline that is missing, or half written by a command that runs or was
\* killed, never turns the gate green.
TornNeverPasses ==
  \A s \in Sessions : Gated(s) /\ loaded[s] \in {Missing, Torn} => exit[s] # 0

=============================================================================
