------------------------- MODULE FormalVerification -------------------------
(***************************************************************************)
(* The formal verification bridge (internal/formal): Generate turns the    *)
(* findings of a scan into targets, and FormalPipeline.Run has each of the *)
(* most severe ones checked by Echidna and Manticore, or writes scripts if *)
(* it is told to, or if it finds neither tool.                             *)
(*                                                                         *)
(* Echidna is given a file with the contract and its properties, written   *)
(* into the project's own directory and removed after the run.  What a     *)
(* tool makes of a target is not known in advance: any Outcome, each time. *)
(* The text of properties, scripts and counterexamples is left out.        *)
(***************************************************************************)
EXTENDS Naturals, Sequences, FiniteSets, SequencesExt, Selections

CONSTANTS
  Sources,   \* contracts, and
  Functions, \* functions, that findings are about
  Detectors, \* what finds them
  NoFile,    \* no file
  NoName,    \* extractFunctionName finds no function in the title
  OptionSet  \* the formal options a scan may be given

Targeted == {"reentrancy", "reentrancy-ast", "reentrancy-symtable", "reentrancy-inter",
             "access-control", "integer-overflow", "unchecked-call", "delegatecall"}
Tools == {"echidna", "manticore"}
Options == [tools : Seq(Tools), max : Nat, min : 1..4, dry : BOOLEAN]

\* A file: a contract in the project (copy 0), or a copy of one that was left
\* in the project's directory.  What the bridge is given: findings.
Files == [of : Sources, copy : Nat]
Findings == [file : Files \cup {NoFile}, detector : Detectors, severity : 0..4,
             function : Functions \cup {NoName}]

ASSUME OptionsAssumption == OptionSet \subseteq Options

\* normalizeRunnerOptions; both tools and 5 targets are the default.
Normalize(o) == [o EXCEPT !.tools = IF @ = <<>> THEN <<"echidna", "manticore">> ELSE @,
                          !.max = IF @ = 0 THEN 5 ELSE @]

VARIABLES
  opts,      \* the options after normalizeRunnerOptions
  phase,     \* how far FormalPipeline.Run has come
  targets,   \* FormalResult.Targets
  selected,  \* RunAll's filtered targets
  usable,    \* the tools CheckAvailability found in RunAll
  turn,      \* <<target, tool>> of RunAll's loops
  outputs,   \* RunAll's results
  testFile,  \* the contract Echidna's test file is there for, or NoFile
  scripts,   \* GeneratedScripts, with the target each was written for
  confirmed, \* ConfirmedFindings
  seen       \* each tool's real outcome (for the properties only)

formalVars == <<opts, phase, targets, selected, usable, turn, outputs,
                testFile, scripts, confirmed, seen>>

NoOptions == [tools |-> <<>>, max |-> 1, min |-> 1, dry |-> TRUE]
FormalIdle ==
  /\ opts = NoOptions /\ phase = "idle" /\ targets = <<>> /\ selected = <<>>
  /\ usable = {} /\ turn = <<1, 1>> /\ outputs = <<>> /\ testFile = NoFile
  /\ scripts = <<>> /\ confirmed = <<>> /\ seen = <<>>
FormalReset ==
  /\ opts' = NoOptions /\ phase' = "idle" /\ targets' = <<>> /\ selected' = <<>>
  /\ usable' = {} /\ turn' = <<1, 1>> /\ outputs' = <<>> /\ testFile' = NoFile
  /\ scripts' = <<>> /\ confirmed' = <<>> /\ seen' = <<>>

(***************************************************************************)
(* SeedGenerator.Generate.                                                 *)
(***************************************************************************)
Swap(s, i, j) == [s EXCEPT ![i] = s[j], ![j] = s[i]]
\* sortByPriority: for every i, every later j is exchanged if more severe.
\* (The singleton has TLC evaluate a step once.)
Exchange(s, i, j) == IF i < j /\ s[j].severity > s[i].severity THEN Swap(s, i, j) ELSE s
SortByPriority(s) ==
  LET n == Len(s)
      After[k \in 0..(n * n)] ==
        IF k = 0 THEN s
        ELSE CHOOSE t \in {Exchange(r, ((k - 1) \div n) + 1, ((k - 1) % n) + 1) :
                              r \in {After[k - 1]}} : TRUE
  IN After[n * n]

\* severityToPriority: info and low are both priority 1.
PriorityOf(f) == IF f.severity = 0 THEN 1 ELSE f.severity

\* findingToTarget: other detectors give no target.
HasTarget(f) == f.detector \in Targeted
Generate(fs) == LET sorted == SortByPriority(fs)
                IN Kept(sorted, {f \in Range(sorted) : HasTarget(f)})

(***************************************************************************)
(* Runner.                                                                 *)
(***************************************************************************)
\* A bug to catch: the comparison of the priorities is the wrong way round.
ByPriorityUp(ts) ==
  LET Of(p) == Kept(ts, {t \in Range(ts) : PriorityOf(t) = p})
  IN Of(1) \o Of(2) \o Of(3) \o Of(4)
\* filterTargets: at or above the least priority, most severe first, and the
\* first MaxTargets of these.
ByPriority(ts) ==
  LET Of(p) == Kept(ts, {t \in Range(ts) : PriorityOf(t) = p})
  IN Of(4) \o Of(3) \o Of(2) \o Of(1)
FirstOf(s, n) == SubSeq(s, 1, IF Len(s) < n THEN Len(s) ELSE n)
FilterTargets(ts) ==
  FirstOf(ByPriority(Kept(ts, {t \in Range(ts) : PriorityOf(t) >= opts.min})), opts.max)

\* How a tool may end.  "broken": it could not work on the target (a
\* contract that does not compile) and exits with 1, as it does when it
\* falsified a property.
Outcomes == {"passed", "falsified", "broken", "crashed", "timedout"}

\* Run of echidna.go: exit code 1 counts as an answer, whose violations are
\* the events in the output; a process killed at the timeout is an error.
EchidnaStatus(o) ==
  CASE o = "falsified" -> "violation"
    [] o \in {"passed", "broken"} -> "safe"
    [] OTHER -> "error"
\* Run of manticore.go: every exit code but 0 is an error, a killed process a
\* timeout.
ManticoreStatus(o) ==
  CASE o = "falsified" -> "violation"
    [] o = "passed" -> "safe"
    [] o = "timedout" -> "timeout"
    [] OTHER -> "error"
StatusOf(tool, o) == IF tool = "echidna" THEN EchidnaStatus(o) ELSE ManticoreStatus(o)

Target == selected[turn[1]]
Tool == opts.tools[turn[2]]
Turning == phase = "run" /\ turn[1] <= Len(selected)
NextTurn == IF turn[2] < Len(opts.tools) THEN <<turn[1], turn[2] + 1>>
                                         ELSE <<turn[1] + 1, 1>>
Answer(status) ==
  /\ outputs' = Append(outputs, [tool |-> Tool, target |-> Target, status |-> status])
  /\ turn' = NextTurn

(***************************************************************************)
(* FormalPipeline.Run.  onDisk is the set of contract files a tool can     *)
(* read; made and removed are what the step does to the test file.         *)
(***************************************************************************)
StartFormal(o, findings) ==
  /\ phase = "idle" /\ opts' = Normalize(o)
  /\ targets' = Generate(findings)
  /\ phase' = IF targets' = <<>> THEN "done" ELSE "check"
  /\ UNCHANGED <<selected, usable, turn, outputs, testFile, scripts, confirmed, seen>>

\* CheckAvailability, a first time.
CheckTools ==
  /\ phase = "check"
  /\ \E available \in SUBSET Range(opts.tools) :
       phase' = IF opts.dry \/ available = {} THEN "scripts" ELSE "select"
  /\ UNCHANGED <<opts, targets, selected, usable, turn, outputs, testFile, scripts, confirmed, seen>>

\* generateScriptsOnly: of every target, whatever its priority, a Manticore
\* script if it names a function; then, target by target, an Echidna file
\* if its contract can be read, first made as a test file.  Their names are
\* the contract's file and the function's: a later one overwrites.
Script(tool, t) == [name |-> <<tool, t.file, t.function>>, target |-> t]
ManticoreScripts ==
  /\ phase = "scripts" /\ phase' = "echidna scripts" /\ turn' = <<1, 1>>
  /\ LET named == Kept(targets, {t \in Range(targets) : t.function # NoName})
     IN scripts' = [i \in DOMAIN named |-> Script("manticore", named[i])]
  /\ UNCHANGED <<opts, targets, selected, usable, outputs, testFile, confirmed, seen>>
Scripting == phase = "echidna scripts" /\ turn[1] <= Len(targets)
PrepareScript(onDisk) ==
  /\ Scripting /\ testFile = NoFile
  /\ LET t == targets[turn[1]]
     IN IF t.file \in onDisk
          THEN testFile' = t.file /\ turn' = turn
          ELSE testFile' = testFile /\ turn' = <<turn[1] + 1, 1>>
  /\ UNCHANGED <<opts, phase, targets, selected, usable, outputs, scripts, confirmed, seen>>
EchidnaScript ==
  /\ Scripting /\ testFile # NoFile
  /\ testFile' = NoFile /\ turn' = <<turn[1] + 1, 1>>
  /\ scripts' = Append(scripts, Script("echidna", targets[turn[1]]))
  /\ UNCHANGED <<opts, phase, targets, selected, usable, outputs, confirmed, seen>>
ScriptsDone ==
  /\ phase = "echidna scripts" /\ turn[1] > Len(targets) /\ phase' = "done"
  /\ UNCHANGED <<opts, targets, selected, usable, turn, outputs, testFile, scripts,
                 confirmed, seen>>

\* RunAll: the targets, and CheckAvailability a second time.
SelectTargets ==
  /\ phase = "select" /\ phase' = "run"
  /\ selected' = FilterTargets(targets)
  /\ \E available \in SUBSET Range(opts.tools) : usable' = available
  /\ UNCHANGED <<opts, targets, turn, outputs, testFile, scripts, confirmed, seen>>

\* A tool that is not there, and Echidna without a contract to read
\* (prepareTestFile), are errors; the loop goes on.
Refuses(onDisk) == Tool \notin usable \/ (Tool = "echidna" /\ Target.file \notin onDisk)
RefuseTool(onDisk) ==
  /\ Turning /\ Refuses(onDisk)
  /\ Answer("error")
  /\ seen' = Append(seen, "refused")
  /\ UNCHANGED <<opts, phase, targets, selected, usable, testFile, scripts, confirmed>>

\* The test file is written (Echidna; Manticore's script is elsewhere) ...
StartTool(onDisk) ==
  /\ Turning /\ ~Refuses(onDisk) /\ phase' = "tool"
  /\ testFile' = IF Tool = "echidna" THEN Target.file ELSE testFile
  /\ UNCHANGED <<opts, targets, selected, usable, turn, outputs, scripts, confirmed, seen>>
\* A bug to catch: the removal comes after the return for a failed tool.
RemovedLate(o) == IF o \in {"crashed", "timedout"} THEN testFile ELSE NoFile
\* ... and removed when the tool has ended, or was killed at the timeout.
Removed(o) == NoFile
EndTool ==
  /\ phase = "tool" /\ phase' = "run"
  /\ \E o \in Outcomes : /\ Answer(StatusOf(Tool, o)) /\ seen' = Append(seen, o)
                         /\ testFile' = Removed(o)
  /\ UNCHANGED <<opts, targets, selected, usable, scripts, confirmed>>

\* buildConfirmedFindings.
Violated(r) == r.status = "violation"
Confirm ==
  /\ phase = "run" /\ turn[1] > Len(selected) /\ phase' = "done"
  /\ confirmed' = Kept(outputs, {r \in Range(outputs) : Violated(r)})
  /\ UNCHANGED <<opts, targets, selected, usable, turn, outputs, testFile, scripts, seen>>

FormalNext(onDisk) ==
  \/ CheckTools \/ ManticoreScripts \/ PrepareScript(onDisk) \/ EchidnaScript
  \/ ScriptsDone \/ SelectTargets \/ RefuseTool(onDisk) \/ StartTool(onDisk)
  \/ EndTool \/ Confirm

(***************************************************************************)
(* Properties.                                                             *)
(***************************************************************************)
\* The tools are spent on the most severe findings that can be checked and
\* are severe enough, MaxTargets of them if there are as many, whatever the
\* order the findings came in (seed_generator.go:187-198, runner.go:151-171).
MostSevereChosen ==
  phase \in {"run", "tool"} =>
    LET eligible == Kept(targets, {t \in Range(targets) : PriorityOf(t) >= opts.min})
        Count(s, p) == Cardinality({i \in DOMAIN s : PriorityOf(s[i]) = p})
    IN /\ Len(selected) = IF Len(eligible) < opts.max THEN Len(eligible) ELSE opts.max
       /\ Range(selected) \subseteq Range(eligible)
       /\ \A p \in 1..4 : Count(selected, p) < Count(eligible, p) =>
            \A i \in DOMAIN selected : PriorityOf(selected[i]) >= p

\* Each chosen target is answered once by each tool, in order, whatever the
\* others did; a [VERIFIED] finding is one whose property a tool falsified,
\* and none of these is missing; a target called safe was worked through, or
\* is one Echidna could not compile (runner.go:113-149, echidna.go:49-91,
\* manticore.go:58-101, pipeline.go:147-202).
Slot(k) == <<((k - 1) \div Len(opts.tools)) + 1, ((k - 1) % Len(opts.tools)) + 1>>
AnsweredRight ==
  phase \in {"run", "tool", "done"} =>
    /\ \A k \in DOMAIN outputs :
         /\ outputs[k].target = selected[Slot(k)[1]]
         /\ outputs[k].tool = opts.tools[Slot(k)[2]]
         /\ (outputs[k].status = "violation") <=> (seen[k] = "falsified")
         /\ outputs[k].status = "safe" =>
              seen[k] = "passed" \/ (outputs[k].tool = "echidna" /\ seen[k] = "broken")
    /\ phase = "done" => Len(outputs) = Len(selected) * Len(opts.tools)
    /\ phase = "done" => Len(confirmed) = Cardinality({k \in DOMAIN seen : seen[k] = "falsified"})

\* The runner's results are those of the most severe targets, and true ones.
ResultsRight == MostSevereChosen /\ AnsweredRight
=============================================================================
